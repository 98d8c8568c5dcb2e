---------------------------- MODULE MCLiveDecode ----------------------------
(* Instances of LiveDecode for TLC; the .cfg files give the constants. *)
EXTENDS LiveDecode
=============================================================================
