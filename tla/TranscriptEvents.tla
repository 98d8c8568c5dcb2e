-------------------------- MODULE TranscriptEvents --------------------------
(***************************************************************************)
(* What a reader of `stelnet --stream --stream-json` may rely on: the      *)
(* order of the JSON lines, abstracted from windows, VAD slices and PCM.   *)
(*                                                                         *)
(* Utterances are numbered 1, 2, 3, ... and are closed in that order, each *)
(* by exactly one `final`.  Partials belong to the one utterance that is   *)
(* not closed yet.  The intervals [t0, t1] of the finals never overlap and *)
(* move forward; a final never blanks a text the reader has been shown.    *)
(***************************************************************************)
EXTENDS Integers, Sequences

CONSTANT Silent   (* the empty text; any other text is the sample its audio starts at *)

VARIABLES
  closed,   (* how many utterances have had their final                    *)
  covered,  (* the t1 of the latest final: everything before it is settled *)
  shown,    (* the utterance that is not closed yet has had a partial      *)
  out       (* the events of the current step, oldest first                *)

vars == <<closed, covered, shown, out>>

Init ==
  /\ closed = 0
  /\ covered = 0
  /\ shown = FALSE
  /\ out = <<>>

IsPartial(e) ==
  /\ e.type = "partial"
  /\ e.id = closed + 1
  /\ e.text # Silent
  /\ covered <= e.t0

IsFinal(e) ==
  /\ e.type = "final"
  /\ e.id = closed + 1
  /\ covered <= e.t0
  /\ e.t0 <= e.t1

IsSilence(e) == e.type = "silence"

(* A new batch of samples was read: the events of the next step follow. *)
NewStep ==
  /\ out' = <<>>
  /\ UNCHANGED <<closed, covered, shown>>

Partial ==
  LET e == out'[Len(out')] IN
  /\ Len(out') = Len(out) + 1
  /\ IsPartial(e) /\ out' = Append(out, e)
  /\ shown' = TRUE
  /\ UNCHANGED <<closed, covered>>

(* The current utterance is closed; a final without text only if nothing   *)
(* of it has been shown.                                                   *)
Close(f) ==
  /\ IsFinal(f)
  /\ closed' = closed + 1 /\ covered' = f.t1 /\ shown' = FALSE

Final ==
  LET f == out'[Len(out')] IN
  /\ Len(out') = Len(out) + 1
  /\ Close(f) /\ out' = Append(out, f)
  /\ f.text = Silent => ~shown

(* A last partial, then the final of the same utterance. *)
PartialThenFinal ==
  LET e == out'[Len(out) + 1]
      f == out'[Len(out) + 2] IN
  /\ Len(out') = Len(out) + 2
  /\ IsPartial(e) /\ Close(f) /\ out' = Append(Append(out, e), f)
  /\ f.text # Silent

Silence ==
  LET e == out'[Len(out')] IN
  /\ Len(out') = Len(out) + 1
  /\ IsSilence(e) /\ out' = Append(out, e)
  /\ UNCHANGED <<closed, covered, shown>>

Next == NewStep \/ Partial \/ Final \/ PartialThenFinal \/ Silence

Spec == Init /\ [][Next]_vars
=============================================================================
