----------------------------- MODULE StreamJson -----------------------------
(***************************************************************************)
(* The utterance state machine of `stelnet --stream --stream-json`         *)
(* (examples/cli/stelnet_run.cpp).                                         *)
(*                                                                         *)
(* Each pass of the loop reads one step of audio, keeps the last Length    *)
(* samples of it in a rolling window, finds the speech in the window (with *)
(* a VAD, or by decoding all of it) and drives one utterance at a time:    *)
(* open it, extend it, show its partial text, close it with a `final`.     *)
(* An utterance is closed when its speaker has been silent for             *)
(* FinalSilence, when its buffer exceeds UttMax, or at end of input.       *)
(*                                                                         *)
(* Time is the sample index of the input, in units of one tick.  A text is *)
(* represented by the sample its audio starts at, or Silent when empty;    *)
(* `utterance_pcm` by the sample it starts at and its length.              *)
(*                                                                         *)
(* A definition marked "Faulty" is not part of the specification: it is    *)
(* what a mistake in the definition after it would look like, to show that *)
(* a property notices.                                                     *)
(***************************************************************************)
EXTENDS Integers, Sequences

CONSTANTS
  Step,             (* --stream-step: samples read per pass of the loop         *)
  Length,           (* --stream-length: cap of the rolling window               *)
  FinalSilence,     (* --stream-final-on-silence-ms; 0 disables it              *)
  CloseGap,         (* --stream-vad-merge-gap-ms                                *)
  PartialInterval,  (* --stream-partial-decode-ms (0: the step), as samples     *)
  UttMax,           (* --stream-utterance-max-sec, as samples                   *)
  MinTail,          (* 2 s: the least audio the encoders accept                 *)
  UseVad,           (* a VAD model is configured                                *)
  Redecode,         (* --stream-final-mode redecode (not prefix)                *)
  Horizon           (* bound: no more than this many samples of input           *)

ASSUME ConfigAssumption ==
  /\ Step \in Nat \ {0}
  /\ Length \in Nat /\ Step <= Length
  /\ FinalSilence \in Nat /\ CloseGap \in Nat /\ PartialInterval \in Nat
  /\ UttMax \in Nat
  /\ MinTail \in Nat \ {0}
  /\ UseVad \in BOOLEAN /\ Redecode \in BOOLEAN
  /\ Horizon \in Nat

VARIABLES
  pc,                          (* "read", "slices" or "done"                   *)
  cumulative_samples,          (* samples read so far: "now"                   *)
  window_size,                 (* pcm_window holds the last window_size of them*)
  utterance_id,
  have_open_utterance,
  utterance_start_sample,
  last_speech_end_sample,
  finalized_until_sample,      (* audio before this belongs to closed utterances *)
  pcm_from,                    (* utterance_pcm starts at this sample ...      *)
  pcm_len,                     (* ... and holds this many samples              *)
  last_partial_text,           (* Silent, or the latest text shown             *)
  last_partial_decode_sample,  (* -1 before the first partial decode           *)
  n_new,                       (* samples read in this step                    *)
  allow_partial_decode,
  decode_bookmark,             (* finalized_until_sample when slices are decoded *)
  scan,                        (* slices of this step end at or before here    *)
  was_open_at_step_start,
  utterance_just_opened,
  step_open_partial,           (* text collected for the open utterance        *)
  emitted_event_this_step,
  out                          (* the JSON lines of this step                  *)

streamVars == <<cumulative_samples, window_size, n_new, allow_partial_decode,
                decode_bookmark, was_open_at_step_start>>
vars == <<pc, streamVars, utterance_id, have_open_utterance, utterance_start_sample,
          last_speech_end_sample, finalized_until_sample, pcm_from, pcm_len,
          last_partial_text, last_partial_decode_sample, scan, utterance_just_opened,
          step_open_partial, emitted_event_this_step, out>>

Silent == -1
Text   == Nat \cup {Silent}

Event == [type : {"partial", "final", "silence"}, id : Nat, text : Text,
          t0 : Nat, t1 : Nat, decoded : Nat]

Larger(a, b)  == IF a > b THEN a ELSE b
Smaller(a, b) == IF a < b THEN a ELSE b

window_start_sample == cumulative_samples - window_size

Init ==
  /\ pc = "read"
  /\ cumulative_samples = 0 /\ window_size = 0 /\ n_new = Step
  /\ utterance_id = 0 /\ have_open_utterance = FALSE
  /\ utterance_start_sample = 0 /\ last_speech_end_sample = 0
  /\ finalized_until_sample = 0
  /\ pcm_from = 0 /\ pcm_len = 0
  /\ last_partial_text = Silent /\ last_partial_decode_sample = -1
  /\ allow_partial_decode = FALSE /\ decode_bookmark = 0 /\ scan = 0
  /\ was_open_at_step_start = FALSE /\ utterance_just_opened = FALSE
  /\ step_open_partial = Silent /\ emitted_event_this_step = FALSE
  /\ out = <<>>

-----------------------------------------------------------------------------
(* Reading a step of audio.                                                *)

(* The open utterance has been silent for FinalSilence at sample `now`. *)
SilenceDue(from, now) == FinalSilence > 0 /\ now - from >= FinalSilence

PartialDecodeAllowed(now) ==
  \/ last_partial_decode_sample < 0
  \/ /\ have_open_utterance
     /\ last_speech_end_sample > 0 /\ SilenceDue(last_speech_end_sample, now)
  \/ PartialInterval <= 0
  \/ now - last_partial_decode_sample >= PartialInterval

(* fread returns k samples.  It returns fewer than Step only at the end of  *)
(* the input: nothing is read after that.                                   *)
Read(k) ==
  /\ pc = "read" /\ n_new = Step
  /\ cumulative_samples + k <= Horizon
  /\ pc' = "slices"
  /\ n_new' = k
  /\ cumulative_samples' = cumulative_samples + k
  /\ window_size' = Smaller(window_size + k, Length)
  /\ scan' = cumulative_samples' - window_size'
  /\ allow_partial_decode' = PartialDecodeAllowed(cumulative_samples')
  /\ decode_bookmark' = finalized_until_sample
  /\ was_open_at_step_start' = have_open_utterance
  /\ utterance_just_opened' = FALSE
  /\ step_open_partial' = Silent
  /\ emitted_event_this_step' = FALSE
  /\ out' = <<>>
  /\ UNCHANGED <<utterance_id, have_open_utterance, utterance_start_sample,
                 last_speech_end_sample, finalized_until_sample, pcm_from, pcm_len,
                 last_partial_text, last_partial_decode_sample>>

-----------------------------------------------------------------------------
(* Events and the two ways an utterance changes hands.                     *)

Partial(text) ==
  [type |-> "partial", id |-> utterance_id, text |-> text,
   t0 |-> utterance_start_sample, t1 |-> cumulative_samples, decoded |-> 0]

SilenceEvent ==
  [type |-> "silence", id |-> 0, text |-> Silent,
   t0 |-> cumulative_samples, t1 |-> cumulative_samples, decoded |-> 0]

(* on_partial_text returns without an event when the text is what was shown *)
(* last; `same` says whether the two strings are equal.                     *)
ShowsPartial(same) ==
  have_open_utterance /\ step_open_partial # Silent /\ ~same
MaySameText(same) == same => last_partial_text # Silent

Flushed(same) ==
  IF ShowsPartial(same) THEN Append(out, Partial(step_open_partial)) ELSE out
TextAfterFlush(same) ==
  IF ShowsPartial(same) THEN step_open_partial ELSE last_partial_text

(* Faulty: the buffer is not cut at the end of the speech. *)
TrimmedNot(len, end) == len

(* The PCM the final decodes: utterance_pcm of `len` samples, cut at `end`. *)
Trimmed(len, end) ==
  IF end > utterance_start_sample
  THEN Smaller(len, end - utterance_start_sample) ELSE len

Redecodes(len, end) == Redecode /\ Trimmed(len, end) >= MinTail

(* The text of the final: of the second decode when there is one and it    *)
(* heard something, else stitched from the partials shown.                 *)
Final(len, end, heard, shown) ==
  [type |-> "final", id |-> utterance_id,
   text |-> IF Redecodes(len, end) /\ heard THEN pcm_from ELSE shown,
   t0 |-> utterance_start_sample, t1 |-> end,
   decoded |-> IF Redecodes(len, end) THEN Trimmed(len, end) ELSE 0]

(* Faulty: the bookmark is not moved. *)
CloseNoBookmark(end) ==
  /\ have_open_utterance' = FALSE
  /\ last_speech_end_sample' = end
  /\ pcm_len' = 0
  /\ last_partial_text' = Silent
  /\ UNCHANGED <<finalized_until_sample, utterance_id, utterance_start_sample, pcm_from>>

(* finalize_utterance, after its final has been printed. *)
Close(end) ==
  /\ have_open_utterance' = FALSE
  /\ last_speech_end_sample' = end
  /\ finalized_until_sample' = Larger(finalized_until_sample, end)
  /\ pcm_len' = 0
  /\ last_partial_text' = Silent
  /\ UNCHANGED <<utterance_id, utterance_start_sample, pcm_from>>

(* Faulty: the copy leaves out the samples of this step. *)
OpenBeforeStep(s, e, done) ==
  /\ have_open_utterance' = TRUE
  /\ utterance_id' = utterance_id + 1
  /\ utterance_start_sample' = Larger(s, done)
  /\ last_speech_end_sample' = Larger(Larger(s, done), e)
  /\ pcm_from' = Larger(s, done)
  /\ pcm_len' = cumulative_samples - n_new - Larger(s, done)
  /\ last_partial_text' = Silent
  /\ utterance_just_opened' = TRUE

(* open_utterance_at for the slice [s, e), clamped to the bookmark `done`. *)
Open(s, e, done) ==
  /\ have_open_utterance' = TRUE
  /\ utterance_id' = utterance_id + 1
  /\ utterance_start_sample' = Larger(s, done)
  /\ last_speech_end_sample' = Larger(Larger(s, done), e)
  /\ pcm_from' = Larger(s, done)
  /\ pcm_len' = cumulative_samples - Larger(s, done)
  /\ last_partial_text' = Silent
  /\ utterance_just_opened' = TRUE

-----------------------------------------------------------------------------
(* The slices of the step.  The VAD may find any ordered, disjoint slices   *)
(* in the window whose gaps are at least the merge gap; without a VAD the   *)
(* one slice is the window, when decoding it returned segments.  A slice is *)
(* chosen when the state machine reaches it: its decode reads nothing that  *)
(* the state machine has changed since the decode loop (decode_bookmark     *)
(* keeps the one value it does read).                                       *)

EffectiveMergeGap ==
  IF CloseGap = 0 \/ FinalSilence = 0 THEN CloseGap
  ELSE Smaller(CloseGap, FinalSilence - 1)

FoundSlice(s, e) ==
  IF UseVad
  THEN /\ s < e
       /\ scan = window_start_sample \/ s - scan >= EffectiveMergeGap
  ELSE s = window_start_sample /\ e = cumulative_samples

(* The slice is decoded: all of it, or the part after the bookmark when     *)
(* that part is long enough for the encoder.                                *)
DecodedSlice(s, e) ==
  allow_partial_decode /\ (s >= decode_bookmark \/ e - decode_bookmark >= MinTail)

(* Faulty: a slice across the bookmark is decoded whole. *)
HypothesesWhole(s, e) ==
  {Silent} \cup (IF UseVad THEN {f \in {s} : DecodedSlice(s, e)} ELSE {s})

Hypotheses(s, e) ==
  {Silent} \cup
  (IF UseVad THEN {f \in {Larger(s, decode_bookmark)} : DecodedSlice(s, e)} ELSE {s})

(* Audio of closed utterances that the window still holds, or a straddling  *)
(* slice with too little new audio.                                         *)
OldSlice(s, e) ==
  \/ e <= finalized_until_sample
  \/ (s < finalized_until_sample /\ e - finalized_until_sample < MinTail)

(* The first text of a step says where its audio starts. *)
Joined(a, b) == IF a = Silent THEN b ELSE IF b = Silent THEN a ELSE Smaller(a, b)

MarkDecode(s, e) ==
  last_partial_decode_sample' =
    IF UseVad /\ DecodedSlice(s, e) THEN cumulative_samples
    ELSE last_partial_decode_sample

ReachSlice(s, e) ==
  /\ pc = "slices"
  /\ scan <= s /\ s <= e /\ e <= cumulative_samples
  /\ FoundSlice(s, e)
  /\ scan' = e
  /\ MarkDecode(s, e)
  /\ UNCHANGED <<pc, streamVars>>

OpenOnSlice(s, e, text) ==
  /\ ReachSlice(s, e)
  /\ ~OldSlice(s, e)
  /\ ~have_open_utterance
  /\ Open(s, e, finalized_until_sample)
  /\ step_open_partial' = Joined(step_open_partial, text)
  /\ UNCHANGED <<finalized_until_sample, emitted_event_this_step, out>>

(* Faulty: every slice shows its text at once. *)
ExtendBySliceEager(s, e, text) ==
  /\ ReachSlice(s, e)
  /\ ~OldSlice(s, e)
  /\ have_open_utterance
  /\ ~SilenceDue(last_speech_end_sample, s)
  /\ last_speech_end_sample' = Larger(last_speech_end_sample, e)
  /\ step_open_partial' = text
  /\ out' = Flushed(FALSE)
  /\ last_partial_text' = TextAfterFlush(FALSE)
  /\ UNCHANGED <<utterance_id, have_open_utterance, utterance_start_sample,
                 finalized_until_sample, pcm_from, pcm_len,
                 utterance_just_opened, emitted_event_this_step>>

ExtendBySlice(s, e, text) ==
  /\ ReachSlice(s, e)
  /\ ~OldSlice(s, e)
  /\ have_open_utterance
  /\ ~SilenceDue(last_speech_end_sample, s)
  /\ last_speech_end_sample' = Larger(last_speech_end_sample, e)
  /\ step_open_partial' = Joined(step_open_partial, text)
  /\ UNCHANGED <<utterance_id, have_open_utterance, utterance_start_sample,
                 finalized_until_sample, pcm_from, pcm_len, last_partial_text,
                 utterance_just_opened, emitted_event_this_step, out>>

(* The pause before the slice closes the open utterance, and the slice      *)
(* opens the next one.                                                      *)
ReopenAfterGap(s, e, text, same, heard) ==
  LET end == last_speech_end_sample IN
  /\ ReachSlice(s, e)
  /\ ~OldSlice(s, e)
  /\ have_open_utterance
  /\ SilenceDue(end, s)
  /\ MaySameText(same)
  /\ out' = Append(Flushed(same), Final(pcm_len, end, heard, TextAfterFlush(same)))
  /\ emitted_event_this_step' = TRUE
  /\ finalized_until_sample' = Larger(finalized_until_sample, end)
  /\ Open(s, e, finalized_until_sample')
  /\ step_open_partial' = text

-----------------------------------------------------------------------------
(* The end of the step: flush the partial, append the new samples, close    *)
(* the utterance if its buffer or the silence is too long.                  *)

(* Faulty: the new samples are appended to an utterance opened in this step. *)
PcmLenAtEndAlways == IF was_open_at_step_start THEN pcm_len + n_new ELSE pcm_len

PcmLenAtEnd ==
  IF was_open_at_step_start /\ ~utterance_just_opened THEN pcm_len + n_new ELSE pcm_len

EmittedAfterFlush ==
  emitted_event_this_step \/ (have_open_utterance /\ step_open_partial # Silent)

(* Faulty: a step whose slices had text does not close the utterance. *)
TrailingSilenceNoText ==
  /\ step_open_partial = Silent /\ last_speech_end_sample > 0
  /\ SilenceDue(last_speech_end_sample, cumulative_samples)

TrailingSilence ==
  last_speech_end_sample > 0 /\ SilenceDue(last_speech_end_sample, cumulative_samples)

EndStep ==
  /\ pc = "slices" /\ pc' = "read"
  /\ step_open_partial' = Silent
  /\ UNCHANGED <<streamVars, scan, utterance_just_opened, last_partial_decode_sample>>

Finalize(end, same, heard) ==
  /\ out' = Append(Flushed(same), Final(PcmLenAtEnd, end, heard, TextAfterFlush(same)))
  /\ emitted_event_this_step' = TRUE
  /\ Close(end)

EndStepCapped(same, heard) ==
  /\ have_open_utterance /\ PcmLenAtEnd > UttMax
  /\ MaySameText(same)
  /\ EndStep
  /\ Finalize(cumulative_samples, same, heard)

EndStepSilent(same, heard) ==
  /\ have_open_utterance /\ PcmLenAtEnd <= UttMax
  /\ TrailingSilence
  /\ MaySameText(same)
  /\ EndStep
  /\ Finalize(last_speech_end_sample, same, heard)

EndStepOpen(same) ==
  /\ have_open_utterance /\ PcmLenAtEnd <= UttMax
  /\ ~TrailingSilence
  /\ MaySameText(same)
  /\ EndStep
  /\ out' = IF EmittedAfterFlush THEN Flushed(same) ELSE Append(out, SilenceEvent)
  /\ emitted_event_this_step' = EmittedAfterFlush
  /\ last_partial_text' = TextAfterFlush(same)
  /\ pcm_len' = PcmLenAtEnd
  /\ UNCHANGED <<utterance_id, have_open_utterance, utterance_start_sample,
                 last_speech_end_sample, finalized_until_sample, pcm_from>>

EndStepIdle ==
  /\ ~have_open_utterance
  /\ EndStep
  /\ out' = IF emitted_event_this_step THEN out ELSE Append(out, SilenceEvent)
  /\ UNCHANGED <<utterance_id, have_open_utterance, utterance_start_sample,
                 last_speech_end_sample, finalized_until_sample, pcm_from, pcm_len,
                 last_partial_text, emitted_event_this_step>>

(* End of input: an open utterance gets its final, and the program ends. *)
Eof(heard) ==
  LET end == IF last_speech_end_sample > 0 THEN last_speech_end_sample
                                           ELSE cumulative_samples IN
  /\ pc = "read" /\ pc' = "done"
  /\ out' = IF have_open_utterance
            THEN Append(out, Final(pcm_len, end, heard, last_partial_text)) ELSE out
  /\ UNCHANGED <<streamVars, utterance_id, have_open_utterance, utterance_start_sample,
                 last_speech_end_sample, finalized_until_sample, pcm_from, pcm_len,
                 last_partial_text, last_partial_decode_sample, scan,
                 utterance_just_opened, step_open_partial, emitted_event_this_step>>

-----------------------------------------------------------------------------
Slices ==
  \E s, e \in scan .. cumulative_samples : \E text \in Hypotheses(s, e) :
    \/ OpenOnSlice(s, e, text)
    \/ ExtendBySlice(s, e, text)
    \/ \E same, heard \in BOOLEAN : ReopenAfterGap(s, e, text, same, heard)

StepEnds ==
  \E same, heard \in BOOLEAN :
    EndStepCapped(same, heard) \/ EndStepSilent(same, heard) \/ EndStepOpen(same)

Next ==
  \/ \E k \in 1 .. Step : Read(k)
  \/ Slices
  \/ StepEnds
  \/ EndStepIdle
  \/ \E heard \in BOOLEAN : Eof(heard)

Spec == Init /\ [][Next]_vars

-----------------------------------------------------------------------------
(* Properties.                                                             *)

StreamTypeOK ==
  /\ pc \in {"read", "slices", "done"}
  /\ cumulative_samples \in Nat /\ window_size \in 0 .. cumulative_samples
  /\ n_new \in 1 .. Step
  /\ decode_bookmark \in Nat /\ scan \in Nat
  /\ last_partial_decode_sample \in Nat \cup {-1}

UtteranceTypeOK ==
  /\ utterance_id \in Nat
  /\ utterance_start_sample \in Nat /\ last_speech_end_sample \in Nat
  /\ finalized_until_sample \in Nat
  /\ pcm_from \in Nat /\ pcm_len \in Nat
  /\ last_partial_text \in Text /\ step_open_partial \in Text

FlagTypeOK ==
  /\ have_open_utterance \in BOOLEAN
  /\ allow_partial_decode \in BOOLEAN /\ was_open_at_step_start \in BOOLEAN
  /\ utterance_just_opened \in BOOLEAN /\ emitted_event_this_step \in BOOLEAN

(* The values of the variables: the one type invariant of the module. *)
TypeOK == StreamTypeOK /\ UtteranceTypeOK /\ FlagTypeOK /\ out \in Seq(Event)

AtStepBoundary == pc # "slices"

(* Between steps the buffer of the open utterance holds every sample from  *)
(* its start to now exactly once: the copy made when it opened and the     *)
(* appends of the later steps neither leave a gap nor overlap.             *)
PcmIsTheUtterance ==
  have_open_utterance /\ AtStepBoundary =>
    /\ pcm_from = utterance_start_sample
    /\ pcm_from + pcm_len = cumulative_samples

(* "the redecode input matches the [t0..t1] interval the final event       *)
(* advertises": a final made by the second decode decoded the samples from *)
(* t0 to t1, all of them and no others.                                    *)
AudioIsInterval(e) == e.type = "final" /\ e.decoded > 0 => e.decoded = e.t1 - e.t0
FinalAudioIsItsInterval == \A i \in DOMAIN out : AudioIsInterval(out[i])

(* In every configuration, also when a step is longer than the final       *)
(* silence, as by default: the second decode hears the interval of its     *)
(* final from the start and lacks less than a step without the silence of  *)
(* its end, for the samples of a step that closes an utterance and opens   *)
(* the next are in neither buffer until the step ends.                     *)
MissedBy(e) == e.t1 - e.t0 - e.decoded
MissesLittle(e) ==
  e.type = "final" /\ e.decoded > 0 => MissedBy(e) \in 0 .. Larger(0, Step - FinalSilence - 1)
FinalAudioMissesLittle == \A i \in DOMAIN out : MissesLittle(out[i])

(* No utterance is left open past its limits: between steps its buffer is  *)
(* within the cap and its trailing silence below the threshold, whatever   *)
(* old speech the rolling window still shows the VAD.                      *)
OpenWithinLimits ==
  have_open_utterance /\ pc = "read" =>
    /\ pcm_len <= UttMax
    /\ ~SilenceDue(last_speech_end_sample, cumulative_samples)

(* At most one partial per utterance_id per step, and none after the final *)
(* of that utterance.                                                      *)
OnePartialEach(q) ==
  \A i, j \in DOMAIN q :
    i < j /\ q[i].type # "silence" /\ q[j].type = "partial" => q[i].id < q[j].id
OnePartialPerStep == OnePartialEach(out)

(* Earlier text does not reappear: a partial says nothing of audio that    *)
(* belongs to an utterance closed before it.                               *)
NewPartialsAreNew ==
  \A i \in Len(out) + 1 .. Len(out') :
    out'[i].type = "partial" => out'[i].text >= finalized_until_sample
NoEarlierText == [][NewPartialsAreNew]_vars

(* A step always tells the reader something: a partial, a final, or the    *)
(* silence heartbeat when there was neither.  The code does not keep this: *)
(* a step whose partial repeats the last one prints nothing (README,       *)
(* disagreements), so that no configuration claims it.                     *)
EveryStepSpeaks == pc = "read" /\ cumulative_samples > 0 => out # <<>>

(* The JSON lines are those of TranscriptEvents: one final per utterance,  *)
(* in order, over disjoint intervals, never blanking what has been shown.  *)
Unclosed == have_open_utterance /\ pc # "done"
Events == INSTANCE TranscriptEvents WITH
  closed  <- IF Unclosed THEN utterance_id - 1 ELSE utterance_id,
  covered <- IF have_open_utterance /\ pc = "done"
             THEN last_speech_end_sample ELSE finalized_until_sample,
  shown   <- Unclosed /\ last_partial_text # Silent
Transcript == Events!Spec
=============================================================================
