------------------------------ MODULE Captions ------------------------------
(***************************************************************************)
(* What the user of a live streaming session may rely on, abstracted from  *)
(* threads, mutexes, encoder and language model.                           *)
(*                                                                         *)
(* The text is a sequence of tokens; a token is the amount of audio that   *)
(* had been consumed when it was chosen.  It only ever grows at its end,   *)
(* never ahead of the audio, and not at all once it has ended or the       *)
(* session is closed.  What was heard is a first part of it.               *)
(***************************************************************************)
EXTENDS Integers, Sequences

VARIABLES
  fed,    (* units of audio fed                                             *)
  said,   (* the text                                                       *)
  heard,  (* the part of it handed out                                      *)
  ended,  (* the text is complete                                           *)
  open    (* the session is not closed                                      *)

vars == <<fed, said, heard, ended, open>>

Init == fed \in Nat /\ said = <<>> /\ heard = <<>> /\ ended = FALSE /\ open = TRUE

Feed == open /\ fed' > fed /\ UNCHANGED <<said, heard, ended, open>>

Say ==
  /\ open /\ ~ended
  /\ \E token \in 1..fed :
       /\ \A i \in 1..Len(said) : said[i] < token
       /\ said' = Append(said, token)
  /\ UNCHANGED <<fed, heard, ended, open>>

End == open /\ ~ended /\ ended' = TRUE /\ UNCHANGED <<fed, said, heard, open>>

Hear ==
  /\ open
  /\ \E k \in Len(heard) + 1 .. Len(said) : heard' = SubSeq(said, 1, k)
  /\ UNCHANGED <<fed, said, ended, open>>

Close == open /\ open' = FALSE /\ UNCHANGED <<fed, said, heard, ended>>

Next == Feed \/ Say \/ End \/ Hear \/ Close

Spec == Init /\ [][Next]_vars
=============================================================================
