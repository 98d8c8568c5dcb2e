--------------------------- MODULE MCModelServer ---------------------------
(* Instances of ModelServer for TLC; the .cfg files give the constants. *)
EXTENDS ModelServer
=============================================================================
