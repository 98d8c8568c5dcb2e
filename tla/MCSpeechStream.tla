--------------------------- MODULE MCSpeechStream ---------------------------
(* Instances of SpeechStream for TLC; the .cfg files give the constants. *)
EXTENDS SpeechStream
=============================================================================
