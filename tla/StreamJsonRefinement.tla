------------------------ MODULE StreamJsonRefinement ------------------------
(***************************************************************************)
(* StreamJson implements TranscriptEvents in every configuration, and with *)
(* a VAD shows no text of closed utterances: each action maps to an action *)
(* of TranscriptEvents or to no step, given the invariant IInv.            *)
(***************************************************************************)
EXTENDS StreamJsonProofs

(* The state of TranscriptEvents that a state of StreamJson stands for. *)
Closed  == IF Unclosed THEN utterance_id - 1 ELSE utterance_id
Covered == IF have_open_utterance /\ pc = "done"
           THEN last_speech_end_sample ELSE finalized_until_sample
Shown   == Unclosed /\ last_partial_text # Silent

(* A step that prints nothing and closes nothing is not visible. *)
LEMMA InvisibleStep ==
  ASSUME out' = out, UNCHANGED <<Closed, Covered, Shown>>
  PROVE  UNCHANGED Events!vars
  BY DEF Events!vars, Closed, Covered, Shown

(* A heartbeat is one. *)
LEMMA SilenceStep ==
  ASSUME out \in Seq(Event), out' = Append(out, SilenceEvent), TypeOK,
         UNCHANGED <<Closed, Covered, Shown>>
  PROVE  Events!Silence
  <1>1. Len(out') = Len(out) + 1 /\ out'[Len(out')] = SilenceEvent
    BY SilenceIsEvent
  <1>2. SilenceEvent.type = "silence"
    BY DEF SilenceEvent
  <1> QED BY <1>1, <1>2 DEF Events!Silence, Events!IsSilence, Closed, Covered, Shown

(* The partial of an open utterance is one the abstract protocol allows. *)
LEMMA PartialIsPartial ==
  ASSUME IInv, pc = "slices", have_open_utterance, step_open_partial # Silent
  PROVE  /\ Partial(step_open_partial) \in Event
         /\ Events!IsPartial(Partial(step_open_partial))
  <1>1. step_open_partial \in Text /\ utterance_id \in Nat
    BY DEF IInv, TypeOK, UtteranceTypeOK
  <1>2. finalized_until_sample <= utterance_start_sample
    BY DEF IInv, OpenInv
  <1> QED BY <1>1, <1>2, PartialEvent DEF IInv, Events!IsPartial, Partial, Unclosed

(* A flush that prints a partial is one. *)
LEMMA PartialStep ==
  ASSUME IInv, pc = "slices", NEW same \in BOOLEAN, ShowsPartial(same),
         out' = Flushed(same), Closed' = Closed, Covered' = Covered, Shown'
  PROVE  Events!Partial
  <1> DEFINE e == Partial(step_open_partial)
  <1>1. e \in Event /\ Events!IsPartial(e)
    BY PartialIsPartial DEF ShowsPartial
  <1>2. out \in Seq(Event) /\ out' = Append(out, e)
    BY DEF IInv, TypeOK, Flushed
  <1>3. Len(out') = Len(out) + 1 /\ out'[Len(out')] = e
    BY <1>1, <1>2
  <1> HIDE DEF e
  <1> QED BY <1>1, <1>2, <1>3 DEF Events!Partial, Closed, Covered, Shown

(* A final closes the utterance, after its last partial if there is one,   *)
(* and does not blank the text that has been shown.                        *)
LEMMA FinalStep ==
  ASSUME IInv, have_open_utterance, pc = "slices",
         NEW len \in Nat, NEW end \in Nat, utterance_start_sample <= end,
         NEW same \in BOOLEAN, NEW heard \in BOOLEAN,
         out' = Append(Flushed(same), Final(len, end, heard, TextAfterFlush(same))),
         Closed' = utterance_id, Covered' = end, ~Shown'
  PROVE  Events!Final \/ Events!PartialThenFinal
  <1> DEFINE e == Partial(step_open_partial)
             f == Final(len, end, heard, TextAfterFlush(same))
  <1>1. out \in Seq(Event) /\ utterance_id \in Nat /\ TypeOK /\ pcm_from \in Nat
    BY DEF IInv, TypeOK, UtteranceTypeOK
  <1>2. TextAfterFlush(same) \in Text
    BY DEF IInv, TypeOK, UtteranceTypeOK, TextAfterFlush
  <1>3. f \in Event /\ f.type = "final" /\ f.id = utterance_id
        /\ f.t0 = utterance_start_sample /\ f.t1 = end
    BY <1>1, <1>2, FinalEvent
  <1>4. f.text = Silent => TextAfterFlush(same) = Silent
    BY <1>1 DEF Final, Silent
  <1>5. finalized_until_sample <= utterance_start_sample
    BY DEF IInv, OpenInv
  <1>6. Events!Close(f)
    BY <1>1, <1>3, <1>5 DEF Events!Close, Events!IsFinal, Closed, Covered, Shown, Unclosed
  <1>7. CASE ShowsPartial(same)
    <2>1. e \in Event /\ Events!IsPartial(e)
      BY <1>7, PartialIsPartial DEF ShowsPartial
    <2>2. out' = Append(Append(out, e), f)
      BY <1>7 DEF Flushed
    <2>3. f.text # Silent
      BY <1>4, <1>7 DEF TextAfterFlush, ShowsPartial
    <2> HIDE DEF e, f
    <2>4. Len(out') = Len(out) + 2 /\ out'[Len(out) + 1] = e /\ out'[Len(out) + 2] = f
      BY <1>1, <1>3, <2>1, <2>2
    <2> QED BY <1>6, <2>1, <2>2, <2>3, <2>4 DEF Events!PartialThenFinal
  <1>8. CASE ~ShowsPartial(same)
    <2>1. out' = Append(out, f)
      BY <1>8 DEF Flushed
    <2>2. f.text = Silent => ~Shown
      BY <1>4, <1>8 DEF TextAfterFlush, Shown
    <2> HIDE DEF f
    <2>3. Len(out') = Len(out) + 1 /\ out'[Len(out')] = f
      BY <1>1, <1>3, <2>1
    <2> QED BY <1>6, <2>1, <2>2, <2>3 DEF Events!Final, Shown
  <1> QED BY <1>7, <1>8
-----------------------------------------------------------------------------
(* A slice is not visible, or it closes one utterance and opens the next. *)
LEMMA ReopenAfterGapStep ==
  ASSUME IInv, NEW s \in scan .. cumulative_samples, NEW e \in scan .. cumulative_samples,
         NEW text \in Hypotheses(s, e), NEW same \in BOOLEAN, NEW heard \in BOOLEAN,
         ReopenAfterGap(s, e, text, same, heard)
  PROVE  Events!Next
  <1>1. /\ have_open_utterance /\ pc = "slices" /\ pc' = "slices"
        /\ have_open_utterance' /\ last_partial_text' = Silent
        /\ utterance_id' = utterance_id + 1
    BY DEF ReopenAfterGap, ReachSlice, Open
  <1>2. /\ utterance_id \in Nat /\ pcm_len \in Nat
        /\ finalized_until_sample \in Nat /\ last_speech_end_sample \in Nat
    BY DEF IInv, TypeOK, UtteranceTypeOK
  <1>3. /\ utterance_start_sample <= last_speech_end_sample
        /\ finalized_until_sample <= last_speech_end_sample
    BY <1>1, <1>2 DEF IInv, TypeOK, UtteranceTypeOK, OpenInv
  <1>4. finalized_until_sample' = last_speech_end_sample
    BY <1>2, <1>3 DEF ReopenAfterGap, Larger
  <1>5. /\ Closed' = utterance_id /\ Covered' = last_speech_end_sample /\ ~Shown'
    BY <1>1, <1>2, <1>4 DEF Closed, Covered, Shown, Unclosed
  <1>6. out' = Append(Flushed(same),
                      Final(pcm_len, last_speech_end_sample, heard, TextAfterFlush(same)))
    BY DEF ReopenAfterGap
  <1> QED BY <1>1, <1>2, <1>3, <1>5, <1>6, FinalStep DEF Events!Next

(* The other slices print nothing. *)
LEMMA OtherSliceStep ==
  ASSUME IInv, NEW s \in scan .. cumulative_samples, NEW e \in scan .. cumulative_samples,
         NEW text \in Hypotheses(s, e),
         OpenOnSlice(s, e, text) \/ ExtendBySlice(s, e, text)
  PROVE  UNCHANGED Events!vars
  <1>1. pc = "slices" /\ pc' = "slices" /\ utterance_id \in Nat
    BY DEF IInv, TypeOK, UtteranceTypeOK, OpenOnSlice, ExtendBySlice, ReachSlice
  <1>2. CASE OpenOnSlice(s, e, text)
    BY <1>1, <1>2, InvisibleStep DEF OpenOnSlice, Open, Closed, Covered, Shown, Unclosed
  <1>3. CASE ExtendBySlice(s, e, text)
    BY <1>1, <1>3, InvisibleStep DEF ExtendBySlice, Closed, Covered, Shown, Unclosed
  <1> QED BY <1>2, <1>3

(* The two ways a step ends with a final. *)
LEMMA FinalizeStep ==
  ASSUME IInv, NEW same \in BOOLEAN, NEW heard \in BOOLEAN,
         EndStepCapped(same, heard) \/ EndStepSilent(same, heard)
  PROVE  Events!Next
  <1>1. PICK end \in {last_speech_end_sample, cumulative_samples} : Finalize(end, same, heard)
    BY DEF EndStepCapped, EndStepSilent
  <1>2. have_open_utterance /\ pc = "slices" /\ pc' = "read"
    BY DEF EndStepCapped, EndStepSilent, EndStep
  <1>3. PcmLenAtEnd \in Nat
    BY <1>2, PcmAtEnd
  <1>4. /\ utterance_id \in Nat /\ finalized_until_sample \in Nat /\ end \in Nat
        /\ utterance_start_sample <= end /\ finalized_until_sample <= end
    BY <1>2
    DEF IInv, TypeOK, StreamTypeOK, UtteranceTypeOK, OpenInv, TimeInv
  <1>5. finalized_until_sample' = end /\ utterance_id' = utterance_id /\ ~have_open_utterance'
    BY <1>1, <1>4 DEF Finalize, Close, Larger
  <1>6. Closed' = utterance_id /\ Covered' = end /\ ~Shown'
    BY <1>5 DEF Closed, Covered, Shown, Unclosed
  <1>7. out' = Append(Flushed(same), Final(PcmLenAtEnd, end, heard, TextAfterFlush(same)))
    BY <1>1 DEF Finalize
  <1> QED BY <1>2, <1>3, <1>4, <1>6, <1>7, FinalStep DEF Events!Next

(* A step that leaves the utterance open prints a partial or a heartbeat. *)
LEMMA EndStepOpenStep ==
  ASSUME IInv, NEW same \in BOOLEAN, EndStepOpen(same)
  PROVE  Events!Next \/ UNCHANGED Events!vars
  <1>1. /\ have_open_utterance /\ have_open_utterance' /\ pc = "slices" /\ pc' = "read"
        /\ utterance_id' = utterance_id /\ finalized_until_sample' = finalized_until_sample
        /\ last_partial_text' = TextAfterFlush(same)
        /\ out' = IF EmittedAfterFlush THEN Flushed(same) ELSE Append(out, SilenceEvent)
    BY DEF EndStepOpen, EndStep
  <1>2. Closed' = Closed /\ Covered' = Covered
    BY <1>1 DEF Closed, Covered, Unclosed
  <1>3. CASE ShowsPartial(same)
    <2>1. EmittedAfterFlush
      BY <1>3 DEF ShowsPartial, EmittedAfterFlush
    <2>2. Shown'
      BY <1>1, <1>3 DEF Shown, Unclosed, TextAfterFlush, ShowsPartial
    <2> QED BY <1>1, <1>2, <1>3, <2>1, <2>2, PartialStep DEF Events!Next
  <1>4. CASE ~ShowsPartial(same)
    <2>1. Shown' = Shown /\ Flushed(same) = out
      BY <1>1, <1>4 DEF Shown, Unclosed, TextAfterFlush, Flushed
    <2>2. CASE EmittedAfterFlush
      BY <1>1, <1>2, <2>1, <2>2, InvisibleStep
    <2>3. CASE ~EmittedAfterFlush
      BY <1>1, <1>2, <2>1, <2>3, SilenceStep DEF IInv, TypeOK, Events!Next
    <2> QED BY <2>2, <2>3
  <1> QED BY <1>3, <1>4

(* A step without an open utterance prints a heartbeat at most. *)
LEMMA EndStepIdleStep ==
  ASSUME IInv, EndStepIdle
  PROVE  Events!Next \/ UNCHANGED Events!vars
  <1>1. UNCHANGED <<Closed, Covered, Shown>>
    BY DEF EndStepIdle, Closed, Covered, Shown, Unclosed
  <1>2. out' = out \/ out' = Append(out, SilenceEvent)
    BY DEF EndStepIdle
  <1> QED BY <1>1, <1>2, InvisibleStep, SilenceStep DEF IInv, TypeOK, Events!Next

(* At the end of input an open utterance has its final, and no partial. *)
LEMMA EofStep ==
  ASSUME IInv, NEW heard \in BOOLEAN, Eof(heard)
  PROVE  Events!Next \/ UNCHANGED Events!vars
  <1>1. /\ pc = "read" /\ pc' = "done"
        /\ UNCHANGED <<utterance_id, have_open_utterance, finalized_until_sample,
                       last_speech_end_sample>>
    BY DEF Eof
  <1>2. CASE have_open_utterance
    <2> DEFINE f == Final(pcm_len, last_speech_end_sample, heard, last_partial_text)
    <2>1. /\ utterance_id \in Nat /\ pcm_len \in Nat /\ pcm_from \in Nat
          /\ last_partial_text \in Text /\ out \in Seq(Event)
          /\ last_speech_end_sample \in Nat /\ utterance_start_sample \in Nat
          /\ utterance_start_sample < last_speech_end_sample
          /\ finalized_until_sample <= utterance_start_sample
      BY <1>2 DEF IInv, TypeOK, UtteranceTypeOK, OpenInv
    <2>2. out' = Append(out, f)
      BY <1>2, <2>1 DEF Eof
    <2>3. f \in Event /\ f.type = "final" /\ f.id = utterance_id
          /\ f.t0 = utterance_start_sample /\ f.t1 = last_speech_end_sample
      BY <2>1, FinalEvent DEF IInv
    <2>4. f.text = Silent => last_partial_text = Silent
      BY <2>1 DEF Final, Silent
    <2>5. /\ Closed = utterance_id - 1 /\ Covered = finalized_until_sample
          /\ Closed' = utterance_id /\ Covered' = last_speech_end_sample /\ ~Shown'
      BY <1>1, <1>2 DEF Closed, Covered, Shown, Unclosed
    <2> HIDE DEF f
    <2>6. Len(out') = Len(out) + 1 /\ out'[Len(out')] = f
      BY <2>1, <2>2, <2>3
    <2>7. Events!Close(f)
      BY <2>1, <2>3, <2>5 DEF Events!Close, Events!IsFinal, Closed, Covered, Shown
    <2>8. f.text = Silent => ~Shown
      BY <2>4 DEF Shown
    <2>9. Events!Final
      BY <2>2, <2>6, <2>7, <2>8 DEF Events!Final, Shown
    <2> QED BY <2>9 DEF Events!Next
  <1>3. CASE ~have_open_utterance
    BY <1>1, <1>3, InvisibleStep DEF Eof, Closed, Covered, Shown, Unclosed
  <1> QED BY <1>2, <1>3

(* Reading audio starts the next step. *)
LEMMA ReadStep ==
  ASSUME NEW k \in 1 .. Step, Read(k)
  PROVE  Events!Next
  BY DEF Read, Events!Next, Events!NewStep, Unclosed

(* Every step of the state machine is a step of the protocol, or invisible. *)
LEMMA StepSimulation ==
  ASSUME IInv, [Next]_vars
  PROVE  Events!Next \/ UNCHANGED Events!vars
  <1>1. ASSUME Slices PROVE Events!Next \/ UNCHANGED Events!vars
    BY <1>1, ReopenAfterGapStep, OtherSliceStep DEF Slices
  <1>2. ASSUME StepEnds PROVE Events!Next \/ UNCHANGED Events!vars
    BY <1>2, FinalizeStep, EndStepOpenStep DEF StepEnds
  <1>3. ASSUME UNCHANGED vars PROVE UNCHANGED Events!vars
    BY <1>3, InvisibleStep DEF vars, streamVars, Closed, Covered, Shown, Unclosed
  <1> QED BY <1>1, <1>2, <1>3, ReadStep, EndStepIdleStep, EofStep DEF Next

(* The JSON lines of --stream-json keep the protocol of TranscriptEvents,  *)
(* in every configuration and for any audio: one final per utterance, in   *)
(* order, over disjoint intervals, never blanking a text that was shown.   *)
THEOREM TranscriptCorrect == Spec => Transcript
  <1>1. Init => Events!Init
    BY DEF Init, Events!Init, Unclosed
  <1>2. IInv /\ [Next]_vars => [Events!Next]_(Events!vars)
    BY StepSimulation
  <1> QED BY <1>1, <1>2, Invariance, PTL DEF Spec, Transcript, Events!Spec

-----------------------------------------------------------------------------
(* What the flush of a step adds, if anything, is about new audio. *)
LEMMA FlushedIsNew ==
  ASSUME IInv, UseVad, NEW same \in BOOLEAN, pc = "slices",
         NEW i \in Len(out) + 1 .. Len(Flushed(same))
  PROVE  Flushed(same)[i].text >= finalized_until_sample
  <1>1. out \in Seq(Event) /\ step_open_partial \in Text
    BY DEF IInv, TypeOK, UtteranceTypeOK
  <1>2. CASE ShowsPartial(same)
    <2> DEFINE e == Partial(step_open_partial)
    <2>1. e \in Event /\ e.text = step_open_partial
      BY <1>1, PartialEvent DEF IInv, Partial
    <2>2. Flushed(same) = Append(out, e)
      BY <1>2 DEF Flushed
    <2>3. step_open_partial >= finalized_until_sample
      BY <1>2 DEF IInv, StepInv, ShowsPartial
    <2> HIDE DEF e
    <2>4. Flushed(same)[i] = e
      BY <1>1, <2>1, <2>2
    <2> QED BY <2>1, <2>3, <2>4
  <1>3. CASE ~ShowsPartial(same)
    BY <1>1, <1>3 DEF Flushed
  <1> QED BY <1>2, <1>3

(* Appending a final to the flushed events adds no partial. *)
LEMMA FinalIsNotPartial ==
  ASSUME IInv, UseVad, NEW same \in BOOLEAN, NEW heard \in BOOLEAN, pc = "slices",
         NEW len \in Nat, NEW end \in Nat,
         out' = Append(Flushed(same), Final(len, end, heard, TextAfterFlush(same)))
  PROVE  NewPartialsAreNew
  <1> DEFINE f == Final(len, end, heard, TextAfterFlush(same))
  <1>1. Flushed(same) \in Seq(Event) /\ TextAfterFlush(same) \in Text /\ out \in Seq(Event)
    BY PartialEvent DEF IInv, TypeOK, UtteranceTypeOK, Flushed, TextAfterFlush
  <1>2. f \in Event /\ f.type = "final"
    BY <1>1, FinalEvent DEF IInv
  <1> HIDE DEF f
  <1> SUFFICES ASSUME NEW i \in Len(out) + 1 .. Len(out'), out'[i].type = "partial"
               PROVE  out'[i].text >= finalized_until_sample
    BY DEF NewPartialsAreNew
  <1>3. out' = Append(Flushed(same), f)
    BY DEF f
  <1>4. i \in Len(out) + 1 .. Len(Flushed(same)) /\ out'[i] = Flushed(same)[i]
    BY <1>1, <1>2, <1>3
  <1> QED BY <1>4, FlushedIsNew

(* With a VAD no partial shows text of an utterance closed before it,      *)
(* whatever slices the VAD finds in the window.  (Without one it may: see  *)
(* the run stream_json_no_vad.)                                            *)
THEOREM NoEarlierTextCorrect ==
  ASSUME UseVad
  PROVE  Spec => NoEarlierText
  <1>1. IInv /\ [Next]_vars => [NewPartialsAreNew]_vars
    <2> SUFFICES ASSUME IInv, Next PROVE NewPartialsAreNew
      OBVIOUS
    <2>1. out \in Seq(Event) /\ TypeOK
      BY DEF IInv, TypeOK
    <2>2. ASSUME out' = out \/ out' = <<>> \/ out' = Append(out, SilenceEvent)
          PROVE  NewPartialsAreNew
      <3>1. SilenceEvent \in Event /\ SilenceEvent.type = "silence"
        BY <2>1, SilenceIsEvent DEF SilenceEvent
      <3>2. CASE out' = Append(out, SilenceEvent)
        BY <2>1, <3>1, <3>2 DEF NewPartialsAreNew
      <3>3. CASE out' = out \/ out' = <<>>
        BY <2>1, <3>3 DEF NewPartialsAreNew
      <3> QED BY <2>2, <3>2, <3>3
    <2>3. ASSUME Slices PROVE NewPartialsAreNew
      <3>1. ASSUME NEW s \in scan .. cumulative_samples, NEW e \in scan .. cumulative_samples,
                   NEW text \in Hypotheses(s, e),
                   OpenOnSlice(s, e, text) \/ ExtendBySlice(s, e, text)
            PROVE  NewPartialsAreNew
        BY <2>2, <3>1 DEF OpenOnSlice, ExtendBySlice
      <3>2. ASSUME NEW s \in scan .. cumulative_samples, NEW e \in scan .. cumulative_samples,
                   NEW text \in Hypotheses(s, e), NEW same \in BOOLEAN, NEW heard \in BOOLEAN,
                   ReopenAfterGap(s, e, text, same, heard)
            PROVE  NewPartialsAreNew
        BY <2>1, <3>2, FinalIsNotPartial
        DEF ReopenAfterGap, ReachSlice, TypeOK, UtteranceTypeOK
      <3> QED BY <2>3, <3>1, <3>2 DEF Slices
    <2>4. ASSUME NEW same \in BOOLEAN, NEW heard \in BOOLEAN,
                 EndStepCapped(same, heard) \/ EndStepSilent(same, heard)
          PROVE  NewPartialsAreNew
      <3>1. pc = "slices" /\ have_open_utterance
        BY <2>4 DEF EndStepCapped, EndStepSilent, EndStep
      <3>2. PICK end \in {last_speech_end_sample, cumulative_samples} :
              out' = Append(Flushed(same), Final(PcmLenAtEnd, end, heard, TextAfterFlush(same)))
        BY <2>4 DEF EndStepCapped, EndStepSilent, Finalize
      <3>3. PcmLenAtEnd \in Nat /\ end \in Nat
        BY <2>1, <3>1, PcmAtEnd DEF TypeOK, StreamTypeOK, UtteranceTypeOK
      <3> QED BY <3>1, <3>2, <3>3, FinalIsNotPartial
    <2>5. ASSUME NEW same \in BOOLEAN, EndStepOpen(same)
          PROVE  NewPartialsAreNew
      <3>1. CASE EmittedAfterFlush
        BY <2>5, <3>1, FlushedIsNew DEF EndStepOpen, EndStep, NewPartialsAreNew
      <3>2. CASE ~EmittedAfterFlush
        BY <2>2, <2>5, <3>2 DEF EndStepOpen
      <3> QED BY <3>1, <3>2
    <2>6. ASSUME NEW heard \in BOOLEAN, Eof(heard) PROVE NewPartialsAreNew
      <3> DEFINE end == IF last_speech_end_sample > 0 THEN last_speech_end_sample
                                                      ELSE cumulative_samples
                 f == Final(pcm_len, end, heard, last_partial_text)
      <3>1. f \in Event /\ f.type = "final"
        BY <2>1, FinalEvent DEF TypeOK, StreamTypeOK, UtteranceTypeOK
      <3>2. out' = Append(out, f) \/ out' = out
        BY <2>6 DEF Eof
      <3> HIDE DEF f
      <3> QED BY <2>1, <2>2, <3>1, <3>2 DEF NewPartialsAreNew
    <2>7. ASSUME EndStepIdle PROVE NewPartialsAreNew
      BY <2>2, <2>7 DEF EndStepIdle
    <2>8. ASSUME NEW k \in 1 .. Step, Read(k) PROVE NewPartialsAreNew
      BY <2>2, <2>8 DEF Read
    <2> QED BY <2>3, <2>4, <2>5, <2>6, <2>7, <2>8 DEF Next, StepEnds
  <1> QED BY <1>1, Invariance, PTL DEF Spec, NoEarlierText
=============================================================================
