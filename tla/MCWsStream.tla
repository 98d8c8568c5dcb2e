------------------------------ MODULE MCWsStream ------------------------------
(* Instances of WsStream for TLC; the .cfg files give the constants. *)
EXTENDS WsStream
===============================================================================
