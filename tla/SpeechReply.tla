---------------------------- MODULE SpeechReply ----------------------------
(***************************************************************************)
(* What a client of POST /v1/audio/speech with "stream": true may rely on, *)
(* abstracted from threads, condition variables and the model mutex.       *)
(*                                                                         *)
(* Each reply is a bounded buffer between a synthesis and a listener.  The *)
(* chunks are numbered 1, 2, 3, ...; the listener hears them in that order *)
(* and the synthesis is never far ahead of it.  A reply is completed only  *)
(* when the synthesis is over and everything it made was heard; it is      *)
(* broken off only when the client has left.                               *)
(***************************************************************************)
EXTENDS Integers, Sequences

CONSTANTS
  Requests,    (* the replies                                               *)
  Sentences,   (* sentences of an input text                                *)
  MaxQueue     (* chunks that may wait                                      *)

VARIABLES
  spoken,  (* sentences synthesised                                         *)
  made,    (* chunks synthesised                                            *)
  over,    (* how the synthesis ended: "not", "whole", "failed", "cut" short *)
  heard,   (* the chunks the listener has                                   *)
  reply,   (* "open", "complete" or "broken"                                *)
  client   (* "reading" or "gone"                                           *)

vars == <<spoken, made, over, heard, reply, client>>

Init ==
  /\ spoken = [r \in Requests |-> 0] /\ made = [r \in Requests |-> 0]
  /\ over = [r \in Requests |-> "not"]
  /\ heard = [r \in Requests |-> <<>>]
  /\ reply = [r \in Requests |-> "open"]
  /\ client = [r \in Requests |-> "reading"]

(* One chunk more: besides those that wait, one may be on its way out. *)
Produce(r) ==
  /\ over[r] = "not" /\ made[r] - Len(heard[r]) <= MaxQueue
  /\ made' = [made EXCEPT ![r] = @ + 1]
  /\ UNCHANGED <<spoken, over, heard, reply, client>>

Speak(r) ==
  /\ over[r] = "not" /\ spoken[r] < Sentences
  /\ spoken' = [spoken EXCEPT ![r] = @ + 1]
  /\ UNCHANGED <<made, over, heard, reply, client>>

(* The synthesis ends with the text, or fails, or has nobody left to hear it. *)
Ends(r) ==
  /\ over[r] = "not"
  /\ \/ spoken[r] = Sentences /\ over' = [over EXCEPT ![r] = "whole"]
     \/ over' = [over EXCEPT ![r] = "failed"]
     \/ reply[r] = "broken" /\ over' = [over EXCEPT ![r] = "cut"]
  /\ UNCHANGED <<spoken, made, heard, reply, client>>

Hear(r) ==
  /\ reply[r] = "open" /\ Len(heard[r]) < made[r]
  /\ heard' = [heard EXCEPT ![r] = Append(@, Len(@) + 1)]
  /\ UNCHANGED <<spoken, made, over, reply, client>>

Complete(r) ==
  /\ reply[r] = "open" /\ over[r] # "not" /\ Len(heard[r]) = made[r]
  /\ reply' = [reply EXCEPT ![r] = "complete"]
  /\ UNCHANGED <<spoken, made, over, heard, client>>

Leave(r) ==
  /\ reply[r] # "complete" /\ client[r] = "reading"
  /\ client' = [client EXCEPT ![r] = "gone"]
  /\ UNCHANGED <<spoken, made, over, heard, reply>>

Break(r) ==
  /\ reply[r] = "open" /\ client[r] = "gone"
  /\ reply' = [reply EXCEPT ![r] = "broken"]
  /\ UNCHANGED <<spoken, made, over, heard, client>>

Next ==
  \E r \in Requests :
    \/ Produce(r) \/ Speak(r) \/ Ends(r)
    \/ Hear(r) \/ Complete(r) \/ Leave(r) \/ Break(r)

Spec == Init /\ [][Next]_vars
=============================================================================
