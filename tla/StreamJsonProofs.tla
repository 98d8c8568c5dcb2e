-------------------------- MODULE StreamJsonProofs --------------------------
(***************************************************************************)
(* Theorems about StreamJson for every configuration: the inductive        *)
(* invariant IInv and the safety invariants it implies.                    *)
(***************************************************************************)
EXTENDS StreamJson, TLAPS

(* The bookmarks of the stream never run ahead of the audio read. *)
TimeInv ==
  /\ finalized_until_sample <= cumulative_samples
  /\ last_speech_end_sample <= cumulative_samples
  /\ pc = "slices" =>
       n_new <= cumulative_samples /\ window_size >= 1 /\ scan <= cumulative_samples

(* The open utterance begins after everything finalized, has had speech,   *)
(* and its buffer reaches to now, or to the start of the step it has still *)
(* to append.                                                              *)
OpenInv ==
  have_open_utterance =>
    /\ utterance_id >= 1
    /\ finalized_until_sample <= utterance_start_sample
    /\ utterance_start_sample < last_speech_end_sample
    /\ pcm_from = utterance_start_sample
    /\ pc # "slices" \/ utterance_just_opened => pcm_from + pcm_len = cumulative_samples
    /\ pc = "slices" /\ ~utterance_just_opened =>
         was_open_at_step_start /\ pcm_from + pcm_len = cumulative_samples - n_new

(* Inside a step: what the slice loop has collected for the open utterance. *)
StepInv ==
  pc = "slices" =>
    /\ have_open_utterance \/ step_open_partial = Silent
    /\ decode_bookmark <= finalized_until_sample
    /\ decode_bookmark = finalized_until_sample \/ finalized_until_sample <= scan
    /\ UseVad /\ step_open_partial # Silent => step_open_partial >= finalized_until_sample

(* The events of the step are about utterances up to the current one, and  *)
(* inside a step only about utterances before it.                          *)
AboutUpTo(q, n) == \A i \in DOMAIN q : q[i].type # "silence" => q[i].id <= n

OutInv ==
  AboutUpTo(out, IF pc = "slices" /\ have_open_utterance
                 THEN utterance_id - 1 ELSE utterance_id)

IInv == TypeOK /\ TimeInv /\ OpenInv /\ StepInv /\ OutInv

-----------------------------------------------------------------------------
(* The events the state machine prints are events. *)
LEMMA EmptyOut == <<>> \in Seq(Event)
  OBVIOUS

(* A partial is an event. *)
LEMMA PartialEvent ==
  ASSUME TypeOK, NEW text \in Text
  PROVE  Partial(text) \in Event
  BY DEF TypeOK, StreamTypeOK, UtteranceTypeOK, Partial, Event

(* So is the heartbeat. *)
LEMMA SilenceIsEvent ==
  ASSUME TypeOK
  PROVE  SilenceEvent \in Event
  BY DEF TypeOK, StreamTypeOK, SilenceEvent, Event, Text

(* The PCM of a final fits in the buffer. *)
LEMMA TrimmedBound ==
  ASSUME TypeOK, NEW len \in Nat, NEW end \in Nat
  PROVE  Trimmed(len, end) \in 0 .. len
  BY DEF TypeOK, UtteranceTypeOK, Trimmed, Smaller

(* A final is an event of the current utterance and of the interval given. *)
LEMMA FinalEvent ==
  ASSUME TypeOK, NEW len \in Nat, NEW end \in Nat, NEW heard \in BOOLEAN,
         NEW text \in Text
  PROVE  /\ Final(len, end, heard, text) \in Event
         /\ Final(len, end, heard, text).type = "final"
         /\ Final(len, end, heard, text).id = utterance_id
         /\ Final(len, end, heard, text).t0 = utterance_start_sample
         /\ Final(len, end, heard, text).t1 = end
  <1>1. Trimmed(len, end) \in Nat
    BY TrimmedBound
  <1>2. pcm_from \in Text
    BY DEF TypeOK, UtteranceTypeOK, Text
  <1> QED BY <1>1, <1>2 DEF TypeOK, UtteranceTypeOK, Final, Event

(* A bound on the utterances of the events may be raised. *)
LEMMA AboutMore ==
  ASSUME NEW q \in Seq(Event), NEW m \in Int, NEW n \in Int, AboutUpTo(q, m), m <= n
  PROVE  AboutUpTo(q, n)
  <1> SUFFICES ASSUME NEW i \in DOMAIN q, q[i].type # "silence"
               PROVE  q[i].id <= n
    BY DEF AboutUpTo
  <1>1. q[i] \in Event
    OBVIOUS
  <1>2. q[i].id \in Nat
    BY <1>1 DEF Event
  <1>3. q[i].id <= m
    BY DEF AboutUpTo
  <1> QED BY <1>2, <1>3

(* An event of an utterance up to n may be added. *)
LEMMA AboutAppend ==
  ASSUME NEW q \in Seq(Event), NEW e \in Event, NEW n \in Int, AboutUpTo(q, n),
         e.type # "silence" => e.id <= n
  PROVE  Append(q, e) \in Seq(Event) /\ AboutUpTo(Append(q, e), n)
  BY DEF AboutUpTo

(* Flushing the partial adds events of the open utterance at most. *)
LEMMA FlushAbout ==
  ASSUME TypeOK, NEW same \in BOOLEAN, AboutUpTo(out, utterance_id)
  PROVE  /\ Flushed(same) \in Seq(Event) /\ TextAfterFlush(same) \in Text
         /\ AboutUpTo(Flushed(same), utterance_id)
  <1>1. CASE ShowsPartial(same)
    <2>1. step_open_partial \in Text /\ utterance_id \in Nat /\ out \in Seq(Event)
      BY DEF TypeOK, UtteranceTypeOK
    <2>2. Partial(step_open_partial) \in Event /\ Partial(step_open_partial).id = utterance_id
      BY <2>1, PartialEvent DEF Partial
    <2> QED BY <1>1, <2>1, <2>2, AboutAppend DEF Flushed, TextAfterFlush
  <1>2. CASE ~ShowsPartial(same)
    BY <1>2 DEF TypeOK, UtteranceTypeOK, Flushed, TextAfterFlush
  <1> QED BY <1>1, <1>2

-----------------------------------------------------------------------------
(* Before the first step of audio. *)
LEMMA InitIInv == Init => IInv
  <1> SUFFICES ASSUME Init PROVE IInv
    OBVIOUS
  <1>1. StreamTypeOK
    BY ConfigAssumption DEF Init, StreamTypeOK
  <1>2. UtteranceTypeOK
    BY DEF Init, UtteranceTypeOK, Text, Silent
  <1>3. out \in Seq(Event)
    BY EmptyOut DEF Init
  <1>4. TimeInv /\ OpenInv /\ StepInv /\ OutInv
    BY DEF Init, TimeInv, OpenInv, StepInv, OutInv, AboutUpTo
  <1>5. FlagTypeOK
    BY DEF Init, FlagTypeOK
  <1> QED BY <1>1, <1>2, <1>3, <1>4, <1>5 DEF IInv, TypeOK

(* Reading a step of audio. *)
LEMMA ReadIInv ==
  ASSUME IInv, NEW k \in 1 .. Step, Read(k)
  PROVE  IInv'
  <1>1. StreamTypeOK'
    BY ConfigAssumption
    DEF IInv, TypeOK, StreamTypeOK, UtteranceTypeOK, Read, Smaller
  <1>2. UtteranceTypeOK'
    BY DEF IInv, TypeOK, UtteranceTypeOK, Read, Text, Silent
  <1>3. out' \in Seq(Event)
    BY EmptyOut DEF Read
  <1>4. TimeInv'
    BY ConfigAssumption
    DEF IInv, TypeOK, StreamTypeOK, UtteranceTypeOK, TimeInv, Read, Smaller
  <1>5. OpenInv'
    BY DEF IInv, TypeOK, StreamTypeOK, UtteranceTypeOK, OpenInv, Read
  <1>6. StepInv'
    BY DEF IInv, TypeOK, UtteranceTypeOK, StepInv, Read
  <1>7. OutInv'
    BY DEF OutInv, AboutUpTo, Read
  <1>8. FlagTypeOK'
    BY DEF IInv, TypeOK, FlagTypeOK, Read, PartialDecodeAllowed
  <1> QED BY <1>1, <1>2, <1>3, <1>4, <1>5, <1>6, <1>7, <1>8 DEF IInv, TypeOK

-----------------------------------------------------------------------------
(* What every slice the state machine does not skip has in common: it ends *)
(* in new audio, and its text, decoded with a VAD, is about new audio.     *)
LEMMA SliceFacts ==
  ASSUME IInv, NEW s \in scan .. cumulative_samples, NEW e \in scan .. cumulative_samples,
         NEW text \in Hypotheses(s, e), ReachSlice(s, e), ~OldSlice(s, e)
  PROVE  /\ s \in Nat /\ e \in Nat /\ text \in Text
         /\ s < e /\ e <= cumulative_samples
         /\ finalized_until_sample < e
         /\ UseVad /\ text # Silent => text >= finalized_until_sample /\ text >= s
  <1> USE DEF IInv, TypeOK, StreamTypeOK, UtteranceTypeOK
  <1>1. s \in Nat /\ e \in Nat /\ scan <= s /\ e <= cumulative_samples
    OBVIOUS
  <1>2. s < e
    BY <1>1 DEF ReachSlice, FoundSlice, TimeInv, window_start_sample
  <1>3. finalized_until_sample < e
    BY <1>1 DEF OldSlice
  <1>4. text \in Text
    BY <1>1 DEF Hypotheses, Text, Larger, Silent
  <1>5. ASSUME UseVad, text # Silent
        PROVE  text >= finalized_until_sample /\ text >= s
    <2>1. text = Larger(s, decode_bookmark)
      BY <1>5 DEF Hypotheses
    <2>2. decode_bookmark = finalized_until_sample \/ finalized_until_sample <= s
      BY <1>1 DEF ReachSlice, StepInv
    <2> QED BY <1>1, <2>1, <2>2 DEF Larger
  <1> QED BY <1>1, <1>2, <1>3, <1>4, <1>5

(* What reaching a slice changes keeps its type. *)
LEMMA ReachSliceTypes ==
  ASSUME IInv, NEW s \in Nat, NEW e \in Nat, ReachSlice(s, e)
  PROVE  /\ StreamTypeOK'
         /\ allow_partial_decode' \in BOOLEAN /\ was_open_at_step_start' \in BOOLEAN
  <1>1. last_partial_decode_sample' \in Nat \cup {-1}
    BY DEF IInv, TypeOK, StreamTypeOK, ReachSlice, MarkDecode
  <1>2. StreamTypeOK'
    BY <1>1 DEF IInv, TypeOK, StreamTypeOK, ReachSlice, streamVars
  <1> QED BY <1>2 DEF IInv, TypeOK, FlagTypeOK, ReachSlice, streamVars

(* A text joined from two is about no audio older than theirs. *)
LEMMA JoinedText ==
  ASSUME NEW a \in Text, NEW b \in Text, NEW low \in Nat
  PROVE  /\ Joined(a, b) \in Text
         /\ (a # Silent => a >= low) /\ (b # Silent => b >= low)
              => (Joined(a, b) # Silent => Joined(a, b) >= low)
  BY DEF Joined, Smaller, Text, Silent

(* A slice opens an utterance. *)
LEMMA OpenOnSliceIInv ==
  ASSUME IInv, NEW s \in scan .. cumulative_samples, NEW e \in scan .. cumulative_samples,
         NEW text \in Hypotheses(s, e), OpenOnSlice(s, e, text)
  PROVE  IInv'
  <1>1. /\ s \in Nat /\ e \in Nat /\ text \in Text
        /\ s < e /\ e <= cumulative_samples
        /\ finalized_until_sample < e
        /\ UseVad /\ text # Silent => text >= finalized_until_sample
    BY SliceFacts DEF OpenOnSlice
  <1>2. /\ StreamTypeOK'
        /\ allow_partial_decode' \in BOOLEAN /\ was_open_at_step_start' \in BOOLEAN
    BY <1>1, ReachSliceTypes DEF OpenOnSlice
  <1>3. step_open_partial' = text
    BY DEF IInv, StepInv, OpenOnSlice, ReachSlice, Joined
  <1>4. UtteranceTypeOK'
    BY <1>1, <1>3
    DEF IInv, TypeOK, StreamTypeOK, UtteranceTypeOK, OpenOnSlice, ReachSlice, Open, Larger,
        streamVars, Text
  <1>5. FlagTypeOK'
    BY <1>2 DEF IInv, TypeOK, FlagTypeOK, OpenOnSlice, Open
  <1>6. out' \in Seq(Event)
    BY DEF IInv, TypeOK, OpenOnSlice
  <1>7. TimeInv'
    BY <1>1
    DEF IInv, TypeOK, StreamTypeOK, UtteranceTypeOK, TimeInv, OpenOnSlice, ReachSlice, Open,
        Larger, streamVars
  <1>8. OpenInv'
    BY <1>1
    DEF IInv, TypeOK, StreamTypeOK, UtteranceTypeOK, OpenOnSlice, ReachSlice, Open,
        Larger, streamVars, OpenInv
  <1>9. StepInv'
    BY <1>1, <1>3
    DEF IInv, TypeOK, StreamTypeOK, UtteranceTypeOK, OpenOnSlice, ReachSlice, Open,
        StepInv, streamVars
  <1>10. OutInv'
    BY DEF IInv, OutInv, TypeOK, UtteranceTypeOK, OpenOnSlice, ReachSlice, Open
  <1> QED BY <1>2, <1>4, <1>5, <1>6, <1>7, <1>8, <1>9, <1>10 DEF IInv, TypeOK

(* A slice extends the open utterance. *)
LEMMA ExtendBySliceIInv ==
  ASSUME IInv, NEW s \in scan .. cumulative_samples, NEW e \in scan .. cumulative_samples,
         NEW text \in Hypotheses(s, e), ExtendBySlice(s, e, text)
  PROVE  IInv'
  <1>1. /\ s \in Nat /\ e \in Nat /\ text \in Text
        /\ s < e /\ e <= cumulative_samples
        /\ UseVad /\ text # Silent => text >= finalized_until_sample
    BY SliceFacts DEF ExtendBySlice
  <1>2. /\ StreamTypeOK'
        /\ allow_partial_decode' \in BOOLEAN /\ was_open_at_step_start' \in BOOLEAN
    BY <1>1, ReachSliceTypes DEF ExtendBySlice
  <1>3. /\ step_open_partial' \in Text
        /\ UseVad /\ step_open_partial' # Silent
             => step_open_partial' >= finalized_until_sample
    BY <1>1, JoinedText
    DEF IInv, TypeOK, UtteranceTypeOK, StepInv, ExtendBySlice, ReachSlice
  <1>4. UtteranceTypeOK'
    BY <1>1, <1>3 DEF IInv, TypeOK, UtteranceTypeOK, ExtendBySlice, Larger
  <1>5. FlagTypeOK'
    BY <1>2 DEF IInv, TypeOK, FlagTypeOK, ExtendBySlice
  <1>6. out' \in Seq(Event)
    BY DEF IInv, TypeOK, ExtendBySlice
  <1>7. TimeInv'
    BY <1>1
    DEF IInv, TypeOK, StreamTypeOK, UtteranceTypeOK, TimeInv, ExtendBySlice, ReachSlice,
        Larger, streamVars
  <1>8. OpenInv'
    BY <1>1
    DEF IInv, TypeOK, StreamTypeOK, UtteranceTypeOK, ExtendBySlice, ReachSlice,
        Larger, streamVars, OpenInv
  <1>9. StepInv'
    BY <1>1, <1>3
    DEF IInv, TypeOK, StreamTypeOK, UtteranceTypeOK, ExtendBySlice, ReachSlice,
        StepInv, streamVars
  <1>10. OutInv'
    BY DEF IInv, ExtendBySlice, ReachSlice, OutInv
  <1> QED BY <1>2, <1>4, <1>5, <1>6, <1>7, <1>8, <1>9, <1>10 DEF IInv, TypeOK

(* A slice after a pause closes the open utterance and opens the next. *)
LEMMA ReopenAfterGapIInv ==
  ASSUME IInv, NEW s \in scan .. cumulative_samples, NEW e \in scan .. cumulative_samples,
         NEW text \in Hypotheses(s, e), NEW same \in BOOLEAN, NEW heard \in BOOLEAN,
         ReopenAfterGap(s, e, text, same, heard)
  PROVE  IInv'
  <1>1. /\ s \in Nat /\ e \in Nat /\ text \in Text
        /\ s < e /\ e <= cumulative_samples
        /\ UseVad /\ text # Silent => text >= s
    BY SliceFacts DEF ReopenAfterGap
  <1>2. /\ StreamTypeOK'
        /\ allow_partial_decode' \in BOOLEAN /\ was_open_at_step_start' \in BOOLEAN
    BY <1>1, ReachSliceTypes DEF ReopenAfterGap
  <1>3. /\ have_open_utterance
        /\ last_speech_end_sample \in Nat /\ last_speech_end_sample < s
        /\ finalized_until_sample < last_speech_end_sample
    BY <1>1, ConfigAssumption
    DEF IInv, TypeOK, UtteranceTypeOK, OpenInv, ReopenAfterGap, SilenceDue
  <1>4. /\ finalized_until_sample' = last_speech_end_sample
        /\ utterance_start_sample' = s /\ last_speech_end_sample' = e
        /\ pcm_from' = s /\ pcm_len' = cumulative_samples - s
    BY <1>1, <1>3
    DEF IInv, TypeOK, UtteranceTypeOK, ReopenAfterGap, Open, Larger
  <1>5. UtteranceTypeOK'
    BY <1>1, <1>3, <1>4
    DEF IInv, TypeOK, StreamTypeOK, UtteranceTypeOK, ReopenAfterGap, Open, Text
  <1>6. FlagTypeOK'
    BY <1>2 DEF IInv, TypeOK, FlagTypeOK, ReopenAfterGap, Open
  <1>7. out' \in Seq(Event) /\ AboutUpTo(out', utterance_id)
    <2> DEFINE f == Final(pcm_len, last_speech_end_sample, heard, TextAfterFlush(same))
    <2>1. /\ Flushed(same) \in Seq(Event) /\ TextAfterFlush(same) \in Text
          /\ AboutUpTo(Flushed(same), utterance_id)
      <3>1. out \in Seq(Event) /\ utterance_id \in Nat
        BY DEF IInv, TypeOK, UtteranceTypeOK
      <3>2. AboutUpTo(out, utterance_id - 1)
        BY <1>3 DEF IInv, OutInv, ReopenAfterGap, ReachSlice
      <3>3. AboutUpTo(out, utterance_id)
        BY <3>1, <3>2, AboutMore
      <3> QED BY <3>3, FlushAbout DEF IInv
    <2>2. f \in Event /\ f.id = utterance_id
      BY <2>1, <1>3, FinalEvent DEF IInv, TypeOK, UtteranceTypeOK
    <2>3. out' = Append(Flushed(same), f)
      BY DEF ReopenAfterGap
    <2> HIDE DEF f
    <2> QED BY <2>1, <2>2, <2>3, AboutAppend DEF IInv, TypeOK, UtteranceTypeOK
  <1>8. TimeInv'
    BY <1>1, <1>3, <1>4
    DEF IInv, TypeOK, StreamTypeOK, UtteranceTypeOK, TimeInv, ReopenAfterGap, ReachSlice,
        streamVars
  <1>9. OpenInv'
    BY <1>1, <1>3, <1>4
    DEF IInv, TypeOK, StreamTypeOK, UtteranceTypeOK, ReopenAfterGap, ReachSlice, Open,
        streamVars, OpenInv
  <1>10. StepInv'
    BY <1>1, <1>3, <1>4
    DEF IInv, TypeOK, StreamTypeOK, UtteranceTypeOK, ReopenAfterGap, ReachSlice, Open,
        streamVars, StepInv, Text, Silent
  <1>11. OutInv'
    BY <1>7
    DEF IInv, TypeOK, UtteranceTypeOK, ReopenAfterGap, ReachSlice, Open, OutInv
  <1> QED BY <1>2, <1>5, <1>6, <1>7, <1>8, <1>9, <1>10, <1>11 DEF IInv, TypeOK

-----------------------------------------------------------------------------
(* Once the samples of the step are appended, the buffer reaches to now. *)
LEMMA PcmAtEnd ==
  ASSUME IInv, pc = "slices", have_open_utterance
  PROVE  PcmLenAtEnd \in Nat /\ pcm_from + PcmLenAtEnd = cumulative_samples
  BY DEF IInv, TypeOK, StreamTypeOK, UtteranceTypeOK, OpenInv, TimeInv, PcmLenAtEnd

(* What every end of a step changes keeps its type. *)
LEMMA EndStepTypes ==
  ASSUME IInv, EndStep
  PROVE  /\ StreamTypeOK' /\ step_open_partial' \in Text
         /\ allow_partial_decode' \in BOOLEAN /\ was_open_at_step_start' \in BOOLEAN
         /\ utterance_just_opened' \in BOOLEAN
  <1>1. StreamTypeOK'
    BY DEF IInv, TypeOK, StreamTypeOK, EndStep, streamVars
  <1>2. step_open_partial' \in Text
    BY DEF EndStep, Text
  <1> QED BY <1>1, <1>2 DEF IInv, TypeOK, FlagTypeOK, EndStep, streamVars

(* The two ways a step ends with a final. *)
LEMMA FinalizeIInv ==
  ASSUME IInv, NEW end \in Nat, NEW same \in BOOLEAN, NEW heard \in BOOLEAN,
         end <= cumulative_samples, have_open_utterance,
         EndStep, Finalize(end, same, heard)
  PROVE  IInv'
  <1>1. StreamTypeOK' /\ step_open_partial' \in Text
    BY EndStepTypes
  <1>2. UtteranceTypeOK'
    BY <1>1
    DEF IInv, TypeOK, UtteranceTypeOK, Finalize, Close, Larger, Text
  <1>3. FlagTypeOK'
    BY EndStepTypes DEF FlagTypeOK, Finalize, Close
  <1>4. out' \in Seq(Event) /\ AboutUpTo(out', utterance_id)
    <2> DEFINE f == Final(PcmLenAtEnd, end, heard, TextAfterFlush(same))
    <2>1. /\ Flushed(same) \in Seq(Event) /\ TextAfterFlush(same) \in Text
          /\ AboutUpTo(Flushed(same), utterance_id)
      <3>1. out \in Seq(Event) /\ utterance_id \in Nat
        BY DEF IInv, TypeOK, UtteranceTypeOK
      <3>2. AboutUpTo(out, utterance_id - 1)
        BY DEF IInv, OutInv, EndStep
      <3>3. AboutUpTo(out, utterance_id)
        BY <3>1, <3>2, AboutMore
      <3> QED BY <3>3, FlushAbout DEF IInv
    <2>2. f \in Event /\ f.id = utterance_id
      BY <2>1, PcmAtEnd, FinalEvent DEF IInv, EndStep
    <2>3. out' = Append(Flushed(same), f)
      BY DEF Finalize
    <2> HIDE DEF f
    <2> QED BY <2>1, <2>2, <2>3, AboutAppend DEF IInv, TypeOK, UtteranceTypeOK
  <1>5. TimeInv'
    BY DEF IInv, TypeOK, UtteranceTypeOK, TimeInv, Finalize, Close, EndStep, streamVars, Larger
  <1>6. OpenInv' /\ StepInv'
    BY DEF OpenInv, StepInv, Finalize, Close, EndStep
  <1>7. OutInv'
    BY <1>4 DEF OutInv, Finalize, Close, EndStep
  <1> QED BY <1>1, <1>2, <1>3, <1>4, <1>5, <1>6, <1>7 DEF IInv, TypeOK

(* The step ends and the utterance stays open. *)
LEMMA EndStepOpenIInv ==
  ASSUME IInv, NEW same \in BOOLEAN, EndStepOpen(same)
  PROVE  IInv'
  <1> USE DEF EndStepOpen, TrailingSilence
  <1>1. StreamTypeOK' /\ step_open_partial' \in Text
    BY EndStepTypes
  <1>2. PcmLenAtEnd \in Nat /\ pcm_from + PcmLenAtEnd = cumulative_samples
    BY PcmAtEnd DEF EndStep
  <1>3. /\ Flushed(same) \in Seq(Event) /\ TextAfterFlush(same) \in Text
        /\ AboutUpTo(Flushed(same), utterance_id) /\ AboutUpTo(out, utterance_id)
    <2>1. out \in Seq(Event) /\ utterance_id \in Nat
      BY DEF IInv, TypeOK, UtteranceTypeOK
    <2>2. AboutUpTo(out, utterance_id - 1)
      BY DEF IInv, OutInv, EndStep
    <2>3. AboutUpTo(out, utterance_id)
      BY <2>1, <2>2, AboutMore
    <2> QED BY <2>3, FlushAbout DEF IInv
  <1>4. UtteranceTypeOK'
    BY <1>1, <1>2, <1>3 DEF IInv, TypeOK, UtteranceTypeOK
  <1>5. FlagTypeOK'
    BY EndStepTypes DEF IInv, TypeOK, FlagTypeOK, EmittedAfterFlush
  <1>6. out' \in Seq(Event) /\ AboutUpTo(out', utterance_id)
    <2>1. SilenceEvent \in Event /\ SilenceEvent.type = "silence"
      BY SilenceIsEvent DEF IInv, SilenceEvent
    <2>2. CASE EmittedAfterFlush
      BY <1>3, <2>2
    <2>3. CASE ~EmittedAfterFlush
      BY <1>3, <2>1, <2>3, AboutAppend DEF IInv, TypeOK, UtteranceTypeOK
    <2> QED BY <2>2, <2>3
  <1>7. TimeInv'
    BY DEF IInv, TimeInv, EndStep, streamVars
  <1>8. OpenInv' /\ StepInv'
    BY <1>2 DEF IInv, OpenInv, StepInv, EndStep, streamVars
  <1>9. OutInv'
    BY <1>6 DEF OutInv, EndStep
  <1> QED BY <1>1, <1>4, <1>5, <1>6, <1>7, <1>8, <1>9 DEF IInv, TypeOK

(* The step ends and no utterance is open. *)
LEMMA EndStepIdleIInv ==
  ASSUME IInv, EndStepIdle
  PROVE  IInv'
  <1> USE DEF EndStepIdle
  <1>1. StreamTypeOK' /\ step_open_partial' \in Text
    BY EndStepTypes
  <1>2. UtteranceTypeOK'
    BY <1>1 DEF IInv, TypeOK, UtteranceTypeOK
  <1>3. FlagTypeOK'
    BY EndStepTypes DEF IInv, TypeOK, FlagTypeOK
  <1>4. out' \in Seq(Event) /\ AboutUpTo(out', utterance_id)
    <2>1. SilenceEvent \in Event /\ SilenceEvent.type = "silence"
      BY SilenceIsEvent DEF IInv, SilenceEvent
    <2>2. AboutUpTo(out, utterance_id) /\ out \in Seq(Event)
      BY DEF IInv, TypeOK, OutInv
    <2> QED BY <2>1, <2>2, AboutAppend DEF IInv, TypeOK, UtteranceTypeOK
  <1>5. TimeInv' /\ OpenInv' /\ StepInv'
    BY DEF IInv, TimeInv, OpenInv, StepInv, EndStep, streamVars
  <1>6. OutInv'
    BY <1>4 DEF OutInv, EndStep
  <1> QED BY <1>1, <1>2, <1>3, <1>4, <1>5, <1>6 DEF IInv, TypeOK

(* The input ends. *)
LEMMA EofIInv ==
  ASSUME IInv, NEW heard \in BOOLEAN, Eof(heard)
  PROVE  IInv'
  <1> DEFINE end == IF last_speech_end_sample > 0 THEN last_speech_end_sample
                                                  ELSE cumulative_samples
             f == Final(pcm_len, end, heard, last_partial_text)
  <1>1. StreamTypeOK' /\ UtteranceTypeOK'
    BY DEF IInv, TypeOK, StreamTypeOK, UtteranceTypeOK, Eof, streamVars
  <1>2. FlagTypeOK'
    BY DEF IInv, TypeOK, FlagTypeOK, Eof, streamVars
  <1>3. out \in Seq(Event) /\ AboutUpTo(out, utterance_id)
    BY DEF IInv, TypeOK, OutInv, Eof
  <1>4. f \in Event /\ f.id = utterance_id
    BY FinalEvent DEF IInv, TypeOK, StreamTypeOK, UtteranceTypeOK
  <1>5. out' = IF have_open_utterance THEN Append(out, f) ELSE out
    BY DEF Eof
  <1> HIDE DEF f
  <1>6. out' \in Seq(Event) /\ AboutUpTo(out', utterance_id)
    BY <1>3, <1>4, <1>5, AboutAppend DEF IInv, TypeOK, UtteranceTypeOK
  <1>7. TimeInv' /\ OpenInv' /\ StepInv'
    BY DEF IInv, TimeInv, OpenInv, StepInv, Eof, streamVars
  <1>8. OutInv'
    BY <1>6 DEF OutInv, Eof
  <1> QED BY <1>1, <1>2, <1>6, <1>7, <1>8 DEF IInv, TypeOK

-----------------------------------------------------------------------------
(* IInv is inductive. *)
LEMMA NextIInv == IInv /\ [Next]_vars => IInv'
  <1> SUFFICES ASSUME IInv, [Next]_vars PROVE IInv'
    OBVIOUS
  <1>1. ASSUME NEW k \in 1 .. Step, Read(k) PROVE IInv'
    BY <1>1, ReadIInv
  <1>2. ASSUME Slices PROVE IInv'
    BY <1>2, OpenOnSliceIInv, ExtendBySliceIInv, ReopenAfterGapIInv DEF Slices
  <1>3. ASSUME NEW same \in BOOLEAN, NEW heard \in BOOLEAN, EndStepCapped(same, heard)
        PROVE  IInv'
    <2>1. cumulative_samples \in Nat
      BY DEF IInv, TypeOK, StreamTypeOK
    <2> QED BY <1>3, <2>1, FinalizeIInv DEF EndStepCapped
  <1>4. ASSUME NEW same \in BOOLEAN, NEW heard \in BOOLEAN, EndStepSilent(same, heard)
        PROVE  IInv'
    <2>1. last_speech_end_sample \in Nat /\ last_speech_end_sample <= cumulative_samples
      BY DEF IInv, TypeOK, UtteranceTypeOK, TimeInv
    <2> QED BY <1>4, <2>1, FinalizeIInv DEF EndStepSilent, TrailingSilence
  <1>5. ASSUME NEW same \in BOOLEAN, EndStepOpen(same) PROVE IInv'
    BY <1>5, EndStepOpenIInv
  <1>6. ASSUME EndStepIdle PROVE IInv'
    BY <1>6, EndStepIdleIInv
  <1>7. ASSUME NEW heard \in BOOLEAN, Eof(heard) PROVE IInv'
    BY <1>7, EofIInv
  <1>8. ASSUME UNCHANGED vars PROVE IInv'
    <2>1. TypeOK'
      BY <1>8
      DEF IInv, TypeOK, StreamTypeOK, UtteranceTypeOK, FlagTypeOK, vars, streamVars
    <2>2. TimeInv' /\ OpenInv' /\ StepInv' /\ OutInv'
      BY <1>8 DEF IInv, TimeInv, OpenInv, StepInv, OutInv, vars, streamVars
    <2> QED BY <2>1, <2>2 DEF IInv
  <1> QED BY <1>1, <1>2, <1>3, <1>4, <1>5, <1>6, <1>7, <1>8 DEF Next, StepEnds

(* IInv holds in every reachable state. *)
THEOREM Invariance == Spec => []IInv
  <1> QED BY InitIInv, NextIInv, PTL DEF Spec

(* The types: every variable keeps its type, whatever the configuration. *)
THEOREM TypeCorrect == Spec => []TypeOK
  <1>1. IInv => TypeOK
    BY DEF IInv
  <1> QED BY <1>1, Invariance, PTL

(* The buffer of the open utterance is its audio from its start to now, in *)
(* every configuration, between any two steps of the stream.               *)
THEOREM BufferCorrect == Spec => []PcmIsTheUtterance
  <1>1. IInv => PcmIsTheUtterance
    BY DEF IInv, OpenInv, PcmIsTheUtterance, AtStepBoundary
  <1> QED BY <1>1, Invariance, PTL

-----------------------------------------------------------------------------
(* The limits of an open utterance, in every configuration. *)
THEOREM LimitsCorrect == Spec => []OpenWithinLimits
  <1>1. Init => OpenWithinLimits
    BY DEF Init, OpenWithinLimits
  <1>2. IInv /\ OpenWithinLimits /\ [Next]_vars => OpenWithinLimits'
    <2> SUFFICES ASSUME IInv, OpenWithinLimits, [Next]_vars,
                        have_open_utterance', pc' = "read"
                 PROVE  /\ pcm_len' <= UttMax
                        /\ ~SilenceDue(last_speech_end_sample', cumulative_samples')
      BY DEF OpenWithinLimits, SilenceDue
    <2>1. CASE UNCHANGED vars
      BY <2>1 DEF OpenWithinLimits, vars, streamVars, SilenceDue
    <2>2. ASSUME NEW same \in BOOLEAN, EndStepOpen(same)
          PROVE  /\ pcm_len' <= UttMax
                 /\ ~SilenceDue(last_speech_end_sample', cumulative_samples')
      <3>1. last_speech_end_sample > 0
        BY <2>2 DEF IInv, TypeOK, UtteranceTypeOK, OpenInv, EndStepOpen, TrailingSilence
      <3> QED BY <2>2, <3>1 DEF EndStepOpen, EndStep, streamVars, SilenceDue, TrailingSilence
    <2>3. ASSUME NEW same \in BOOLEAN, NEW heard \in BOOLEAN,
                 EndStepCapped(same, heard) \/ EndStepSilent(same, heard)
          PROVE  FALSE
      BY <2>3 DEF EndStepCapped, EndStepSilent, Finalize, Close
    <2>4. ASSUME EndStepIdle PROVE FALSE
      BY <2>4 DEF EndStepIdle
    <2>5. ASSUME Slices PROVE FALSE
      <3>1. \E s, e : ReachSlice(s, e)
        BY <2>5 DEF Slices, OpenOnSlice, ExtendBySlice, ReopenAfterGap
      <3> QED BY <3>1 DEF ReachSlice
    <2>6. ASSUME NEW k \in 1 .. Step, Read(k) PROVE FALSE
      BY <2>6 DEF Read
    <2>7. ASSUME NEW heard \in BOOLEAN, Eof(heard) PROVE FALSE
      BY <2>7 DEF Eof
    <2> QED BY <2>1, <2>2, <2>3, <2>4, <2>5, <2>6, <2>7 DEF Next, StepEnds
  <1> QED BY <1>1, <1>2, Invariance, PTL DEF Spec

-----------------------------------------------------------------------------
(* Appending events keeps one partial per utterance. *)
LEMMA OnePartialAppend ==
  ASSUME NEW q \in Seq(Event), NEW e \in Event, OnePartialEach(q),
         e.type = "partial" => AboutUpTo(q, e.id - 1)
  PROVE  OnePartialEach(Append(q, e))
  <1> SUFFICES ASSUME NEW i \in DOMAIN Append(q, e), NEW j \in DOMAIN Append(q, e), i < j,
                      Append(q, e)[i].type # "silence", Append(q, e)[j].type = "partial"
               PROVE  Append(q, e)[i].id < Append(q, e)[j].id
    BY DEF OnePartialEach
  <1>1. i \in DOMAIN q /\ Append(q, e)[i] = q[i]
    OBVIOUS
  <1>2. CASE j \in DOMAIN q
    BY <1>1, <1>2 DEF OnePartialEach
  <1>3. CASE j \notin DOMAIN q
    <2>1. Append(q, e)[j] = e
      BY <1>3
    <2>2. q[i] \in Event
      BY <1>1
    <2>3. q[i].id \in Nat /\ e.id \in Nat
      BY <2>2 DEF Event
    <2> QED BY <1>1, <2>1, <2>3 DEF AboutUpTo
  <1> QED BY <1>2, <1>3

(* Flushing the partial keeps one partial per utterance. *)
LEMMA OnePartialFlush ==
  ASSUME IInv, OnePartialPerStep, pc = "slices", NEW same \in BOOLEAN
  PROVE  OnePartialEach(Flushed(same))
  <1>1. CASE ShowsPartial(same)
    <2>1. step_open_partial \in Text /\ out \in Seq(Event)
      BY DEF IInv, TypeOK, UtteranceTypeOK
    <2>2. Partial(step_open_partial) \in Event /\ Partial(step_open_partial).id = utterance_id
      BY <2>1, PartialEvent DEF Partial, IInv
    <2>3. AboutUpTo(out, utterance_id - 1)
      BY <1>1 DEF ShowsPartial, IInv, OutInv
    <2> QED BY <1>1, <2>1, <2>2, <2>3, OnePartialAppend DEF Flushed, OnePartialPerStep
  <1>2. CASE ~ShowsPartial(same)
    BY <1>2 DEF Flushed, OnePartialPerStep
  <1> QED BY <1>1, <1>2

(* At most one partial per utterance and step, and none after its final. *)
THEOREM OnePartialCorrect == Spec => []OnePartialPerStep
  <1>1. Init => OnePartialPerStep
    BY DEF Init, OnePartialPerStep, OnePartialEach
  <1>2. IInv /\ OnePartialPerStep /\ [Next]_vars => OnePartialPerStep'
    <2> SUFFICES ASSUME IInv, OnePartialPerStep, [Next]_vars
                 PROVE  OnePartialEach(out')
      BY DEF OnePartialPerStep
    <2>1. TypeOK /\ out \in Seq(Event) /\ OnePartialEach(out)
      BY DEF IInv, TypeOK, OnePartialPerStep
    <2>2. SilenceEvent \in Event /\ SilenceEvent.type = "silence"
      BY SilenceIsEvent DEF IInv, SilenceEvent
    <2>3. ASSUME NEW len \in Nat, NEW end \in Nat, NEW same \in BOOLEAN, NEW heard \in BOOLEAN,
                 pc = "slices",
                 out' = Append(Flushed(same), Final(len, end, heard, TextAfterFlush(same)))
          PROVE  OnePartialEach(out')
      <3>1. Flushed(same) \in Seq(Event) /\ TextAfterFlush(same) \in Text
        BY PartialEvent DEF IInv, TypeOK, UtteranceTypeOK, Flushed, TextAfterFlush
      <3>2. OnePartialEach(Flushed(same))
        BY <2>3, OnePartialFlush
      <3>3. /\ Final(len, end, heard, TextAfterFlush(same)) \in Event
            /\ Final(len, end, heard, TextAfterFlush(same)).type = "final"
        BY <3>1, <2>1, FinalEvent
      <3> QED BY <2>3, <3>1, <3>2, <3>3, OnePartialAppend
    <2>4. CASE \E k \in 1 .. Step : Read(k)
      <3>1. out' = <<>>
        BY <2>4 DEF Read
      <3> QED BY <3>1 DEF OnePartialEach
    <2>5. CASE Slices
      <3> PICK s \in scan .. cumulative_samples, e \in scan .. cumulative_samples :
            \E text \in Hypotheses(s, e) :
              \/ OpenOnSlice(s, e, text)
              \/ ExtendBySlice(s, e, text)
              \/ \E same, heard \in BOOLEAN : ReopenAfterGap(s, e, text, same, heard)
        BY <2>5 DEF Slices
      <3> PICK text \in Hypotheses(s, e) :
              \/ OpenOnSlice(s, e, text)
              \/ ExtendBySlice(s, e, text)
              \/ \E same, heard \in BOOLEAN : ReopenAfterGap(s, e, text, same, heard)
        OBVIOUS
      <3>1. CASE OpenOnSlice(s, e, text) \/ ExtendBySlice(s, e, text)
        BY <2>1, <3>1 DEF OpenOnSlice, ExtendBySlice
      <3>2. ASSUME NEW same \in BOOLEAN, NEW heard \in BOOLEAN,
                   ReopenAfterGap(s, e, text, same, heard)
            PROVE  OnePartialEach(out')
        BY <2>1, <2>3, <3>2 DEF ReopenAfterGap, ReachSlice, TypeOK, UtteranceTypeOK
      <3> QED BY <3>1, <3>2
    <2>6. ASSUME NEW same \in BOOLEAN, NEW heard \in BOOLEAN,
                 EndStepCapped(same, heard) \/ EndStepSilent(same, heard)
          PROVE  OnePartialEach(out')
      <3>1. PcmLenAtEnd \in Nat
        BY <2>6, PcmAtEnd DEF EndStepCapped, EndStepSilent, EndStep
      <3>2. last_speech_end_sample \in Nat /\ cumulative_samples \in Nat
        BY <2>1 DEF TypeOK, StreamTypeOK, UtteranceTypeOK
      <3> QED BY <2>3, <2>6, <3>1, <3>2 DEF EndStepCapped, EndStepSilent, EndStep, Finalize
    <2>7. ASSUME NEW same \in BOOLEAN, EndStepOpen(same)
          PROVE  OnePartialEach(out')
      <3>1. OnePartialEach(Flushed(same))
        BY <2>7, OnePartialFlush DEF EndStepOpen, EndStep
      <3>2. OnePartialEach(Append(out, SilenceEvent))
        BY <2>1, <2>2, OnePartialAppend
      <3> QED BY <2>7, <3>1, <3>2 DEF EndStepOpen
    <2>8. CASE EndStepIdle
      <3>1. OnePartialEach(Append(out, SilenceEvent))
        BY <2>1, <2>2, OnePartialAppend
      <3> QED BY <2>1, <2>8, <3>1 DEF EndStepIdle
    <2>9. ASSUME NEW heard \in BOOLEAN, Eof(heard)
          PROVE  OnePartialEach(out')
      <3> DEFINE end == IF last_speech_end_sample > 0 THEN last_speech_end_sample
                                                      ELSE cumulative_samples
                 f == Final(pcm_len, end, heard, last_partial_text)
      <3>1. f \in Event /\ f.type = "final"
        BY <2>1, FinalEvent DEF TypeOK, StreamTypeOK, UtteranceTypeOK
      <3>2. out' = IF have_open_utterance THEN Append(out, f) ELSE out
        BY <2>9 DEF Eof
      <3> HIDE DEF f
      <3> QED BY <2>1, <3>1, <3>2, OnePartialAppend
    <2>10. CASE UNCHANGED vars
      BY <2>1, <2>10 DEF vars
    <2> QED BY <2>4, <2>5, <2>6, <2>7, <2>8, <2>9, <2>10 DEF Next, StepEnds
  <1> QED BY <1>1, <1>2, Invariance, PTL DEF Spec

-----------------------------------------------------------------------------
(* A final lacks what its buffer lacks of the interval, and no more. *)
LEMMA FinalAudio ==
  ASSUME TypeOK, NEW len \in Nat, NEW end \in Nat, NEW heard, NEW text,
         utterance_start_sample < end,
         end - utterance_start_sample - len <= Larger(0, Step - FinalSilence - 1)
  PROVE  MissesLittle(Final(len, end, heard, text))
  <1>1. /\ Trimmed(len, end) \in 0 .. end - utterance_start_sample
        /\ end - utterance_start_sample - Trimmed(len, end)
             \in 0 .. Larger(0, Step - FinalSilence - 1)
    BY ConfigAssumption DEF TypeOK, UtteranceTypeOK, Trimmed, Smaller, Larger
  <1> QED BY <1>1 DEF MissesLittle, MissedBy, Final

(* For every step and final silence: what the second decode of a final     *)
(* lacks of its interval is less than a step without the silence.          *)
THEOREM FinalAudioBounded == Spec => []FinalAudioMissesLittle
  <1>1. Init => FinalAudioMissesLittle
    BY DEF Init, FinalAudioMissesLittle
  <1>2. IInv /\ FinalAudioMissesLittle /\ [Next]_vars => FinalAudioMissesLittle'
    <2> SUFFICES ASSUME IInv, FinalAudioMissesLittle, [Next]_vars
                 PROVE  FinalAudioMissesLittle'
      OBVIOUS
    <2> DEFINE Good(q) == \A i \in DOMAIN q : MissesLittle(q[i])
    <2>1. Good(out) /\ out \in Seq(Event) /\ TypeOK
      BY DEF FinalAudioMissesLittle, IInv, TypeOK
    <2>2. ASSUME NEW q \in Seq(Event), NEW e, Good(q), MissesLittle(e)
          PROVE  Good(Append(q, e))
      BY <2>2
    <2>3. ASSUME NEW same \in BOOLEAN
          PROVE  Good(Flushed(same)) /\ Flushed(same) \in Seq(Event)
      <3>1. MissesLittle(Partial(step_open_partial))
        BY DEF MissesLittle, Partial
      <3>2. Flushed(same) \in Seq(Event)
        BY <2>1, PartialEvent DEF TypeOK, UtteranceTypeOK, Flushed
      <3> QED BY <2>1, <2>2, <3>1, <3>2 DEF Flushed
    <2>4. MissesLittle(SilenceEvent)
      BY DEF MissesLittle, SilenceEvent
    <2> HIDE DEF Good
    <2> SUFFICES Good(out')
      BY DEF Good, FinalAudioMissesLittle
    <2>5. ASSUME NEW k \in 1 .. Step, Read(k) PROVE Good(out')
      BY <2>5 DEF Read, Good
    <2>6. ASSUME NEW s \in scan .. cumulative_samples, NEW e \in scan .. cumulative_samples,
                 NEW text \in Hypotheses(s, e), NEW same \in BOOLEAN, NEW heard \in BOOLEAN,
                 ReopenAfterGap(s, e, text, same, heard)
          PROVE  Good(out')
      <3>1. /\ last_speech_end_sample \in Nat /\ pcm_len \in Nat
            /\ utterance_start_sample < last_speech_end_sample
        BY <2>6 DEF IInv, TypeOK, UtteranceTypeOK, OpenInv, ReopenAfterGap
      <3>2. last_speech_end_sample + FinalSilence < cumulative_samples
        BY <2>6, SliceFacts, ConfigAssumption
        DEF IInv, TypeOK, StreamTypeOK, UtteranceTypeOK, ReopenAfterGap, SilenceDue
      <3>3. last_speech_end_sample - utterance_start_sample - pcm_len
              <= Larger(0, Step - FinalSilence - 1)
        BY <2>6, <3>1, <3>2, ConfigAssumption
        DEF IInv, TypeOK, StreamTypeOK, UtteranceTypeOK, OpenInv, ReopenAfterGap, ReachSlice,
            Larger
      <3>4. MissesLittle(Final(pcm_len, last_speech_end_sample, heard, TextAfterFlush(same)))
        BY <2>1, <3>1, <3>3, FinalAudio
      <3> QED BY <2>2, <2>3, <2>6, <3>4 DEF ReopenAfterGap
    <2>7. ASSUME Slices PROVE Good(out')
      BY <2>1, <2>6, <2>7 DEF Slices, OpenOnSlice, ExtendBySlice
    <2>8. ASSUME NEW same \in BOOLEAN, NEW heard \in BOOLEAN,
                 EndStepCapped(same, heard) \/ EndStepSilent(same, heard)
          PROVE  Good(out')
      <3>1. PICK end \in {last_speech_end_sample, cumulative_samples} :
              out' = Append(Flushed(same), Final(PcmLenAtEnd, end, heard, TextAfterFlush(same)))
        BY <2>8 DEF EndStepCapped, EndStepSilent, Finalize
      <3>2. /\ PcmLenAtEnd \in Nat /\ pcm_from + PcmLenAtEnd = cumulative_samples
        BY <2>8, PcmAtEnd DEF EndStepCapped, EndStepSilent, EndStep
      <3>3. /\ end \in Nat /\ utterance_start_sample < end
            /\ end - utterance_start_sample - PcmLenAtEnd <= Larger(0, Step - FinalSilence - 1)
        BY <2>8, <3>2, ConfigAssumption
        DEF Larger, IInv, TypeOK, StreamTypeOK, UtteranceTypeOK, OpenInv, TimeInv, EndStepCapped,
            EndStepSilent
      <3>4. MissesLittle(Final(PcmLenAtEnd, end, heard, TextAfterFlush(same)))
        BY <2>1, <3>2, <3>3, FinalAudio
      <3> QED BY <2>2, <2>3, <3>1, <3>4
    <2>9. ASSUME NEW same \in BOOLEAN, EndStepOpen(same) PROVE Good(out')
      BY <2>1, <2>2, <2>3, <2>4, <2>9 DEF EndStepOpen
    <2>10. ASSUME EndStepIdle PROVE Good(out')
      BY <2>1, <2>2, <2>4, <2>10 DEF EndStepIdle
    <2>11. ASSUME NEW heard \in BOOLEAN, Eof(heard) PROVE Good(out')
      <3>1. CASE have_open_utterance
        <4>1. /\ last_speech_end_sample \in Nat /\ pcm_len \in Nat
              /\ last_speech_end_sample > 0
              /\ utterance_start_sample < last_speech_end_sample
              /\ last_speech_end_sample - utterance_start_sample - pcm_len
                   <= Larger(0, Step - FinalSilence - 1)
          BY <2>11, <3>1, ConfigAssumption
          DEF Larger, IInv, TypeOK, StreamTypeOK, UtteranceTypeOK, OpenInv, TimeInv, Eof
        <4>2. MissesLittle(Final(pcm_len, last_speech_end_sample, heard, last_partial_text))
          BY <2>1, <4>1, FinalAudio
        <4> QED BY <2>1, <2>2, <2>11, <3>1, <4>1, <4>2 DEF Eof
      <3>2. CASE ~have_open_utterance
        BY <2>1, <2>11, <3>2 DEF Eof
      <3> QED BY <3>1, <3>2
    <2>12. CASE UNCHANGED vars
      BY <2>1, <2>12 DEF vars
    <2> QED BY <2>5, <2>7, <2>8, <2>9, <2>10, <2>11, <2>12 DEF Next, StepEnds
  <1> QED BY <1>1, <1>2, Invariance, PTL DEF Spec

(* When the loop reads no more than the final silence at a time, the       *)
(* second decode of every final hears exactly the interval of the final.   *)
(* (With longer steps it may not: README, disagreements.)                  *)
THEOREM FinalAudioCorrect ==
  ASSUME Step <= FinalSilence
  PROVE  Spec => []FinalAudioIsItsInterval
  <1>1. TypeOK /\ FinalAudioMissesLittle => FinalAudioIsItsInterval
    <2> SUFFICES ASSUME TypeOK, FinalAudioMissesLittle, NEW i \in DOMAIN out,
                        out[i].type = "final", out[i].decoded > 0
                 PROVE  out[i].decoded = out[i].t1 - out[i].t0
      BY DEF FinalAudioIsItsInterval, AudioIsInterval
    <2>1. out[i] \in Event
      BY DEF TypeOK
    <2>2. /\ out[i].decoded \in Nat /\ out[i].t0 \in Nat /\ out[i].t1 \in Nat
      BY <2>1 DEF Event
    <2>3. MissedBy(out[i]) \in 0 .. 0
      BY ConfigAssumption DEF FinalAudioMissesLittle, MissesLittle, Larger
    <2> QED BY <2>2, <2>3 DEF MissedBy
  <1> QED BY <1>1, TypeCorrect, FinalAudioBounded, PTL
=============================================================================
