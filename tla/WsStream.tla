------------------------------- MODULE WsStream -------------------------------
(***************************************************************************)
(* One connection of the WebSocket server (server/ws_stream.cpp) and the   *)
(* streaming session of the C API that it drives (stelnet_c_api.cpp,       *)
(* kyutai_stt.cpp, moonshine_streaming.cpp).                               *)
(*                                                                         *)
(* A session transcribes the same audio again and again: with Whisper the  *)
(* window is what was fed since the last decode and, before it, the tail   *)
(* of the last window; with the other two it is a rolling buffer of the    *)
(* last Length samples.  The connection feeds it the binary frames, sends  *)
(* the text of a decode as a partial, and answers "flush" with a final.    *)
(*                                                                         *)
(* Samples are numbered from 1 as they are fed and buffers are sequences   *)
(* of these numbers, so that what a text is of can be told.  A text is the *)
(* first and the last sample of its window, with the times t0 and t1 that  *)
(* the code computes for it: those of the window, a segment's place in it  *)
(* is the model's.  Each connection has a session of its own and handles   *)
(* one frame after the other; frames with other opcodes change nothing.    *)
(*                                                                         *)
(* A definition marked "Faulty" is not part of the specification: it is    *)
(* what a mistake in the definition after it would look like, to show that *)
(* a property notices.                                                     *)
(***************************************************************************)
EXTENDS Integers, Sequences, Functions

CONSTANTS
  Step, Length, Keep,   (* n_samples_step, n_samples_length, n_samples_keep *)
  Feeds,                (* sizes of the binary frames, in samples           *)
  MaxFed,               (* bound: samples that a client sends               *)
  MaxFlushes            (* bound: flushes that a client sends               *)

ASSUME WsAssumption ==
  /\ Step \in Nat \ {0} /\ Length \in Nat \ {0} /\ Keep \in Nat
  /\ Feeds \subseteq Nat \ {0} /\ MaxFed \in Nat /\ MaxFlushes \in Nat

Backends == {"whisper", "rolling"}   (* rolling: kyutai and moonshine streaming *)

VARIABLES
  backend,             (* of the session                                        *)
  fed,                 (* samples fed: stream_time_s, total_fed_samples         *)
  accum, history,      (* Whisper: fed since the last decode; the window of it  *)
  rolling, since,      (* others: the buffer; samples_since_last_decode         *)
  out, decode_counter, (* the text of the last decode and the number of decodes *)
  conn,                (* the connection: open, closed                          *)
  flushes,             (* flushes sent                                          *)
  last_counter,        (* of the last partial                                   *)
  said,                (* the last message that was sent                        *)
  known,               (* history: the highest counter of the messages before   *)
  heard,               (* history: the samples that some decode was given       *)
  largest              (* history: the longest frame                            *)

whisperVars == <<accum, history>>
rollingVars == <<rolling, since>>
textVars == <<out, decode_counter, heard>>
toldVars == <<last_counter, said, known>>
vars == <<backend, fed, whisperVars, rollingVars, textVars, conn, flushes, toldVars,
          largest>>

Lesser(a, b)  == IF a < b THEN a ELSE b
Greater(a, b) == IF a < b THEN b ELSE a
LastOf(s, n) == SubSeq(s, Len(s) - n + 1, Len(s))
Capped(s, n) == LastOf(s, Lesser(Len(s), n))

(* What get_text gives before the first decode. *)
NoText == [t0 |-> 0, t1 |-> 0, first |-> 1, last |-> 0]

Init ==
  /\ backend \in Backends
  /\ fed = 0 /\ accum = <<>> /\ history = <<>> /\ rolling = <<>> /\ since = 0
  /\ out = NoText /\ decode_counter = 0
  /\ conn = "open" /\ flushes = 0 /\ last_counter = -1
  /\ said = [kind |-> "ready", counter |-> -1, text |-> NoText, at |-> 0, rc |-> 0]
  /\ known = -1 /\ heard = {} /\ largest = 0

(***************************************************************************)
(* The session: feed and flush give a result code, 1 for a new text, 0 for *)
(* none, -2 for a decode that failed.                                      *)
(***************************************************************************)

Samples(n) == [i \in 1 .. n |-> fed + i]

(* A decode of pcm, which ends where the stream now ends. *)
Decoded(pcm, now) ==
  /\ out' = [t0 |-> now - Len(pcm), t1 |-> now, first |-> pcm[1], last |-> pcm[Len(pcm)]]
  /\ decode_counter' = decode_counter + 1
  /\ heard' = heard \cup Range(pcm)

(* The decode window: the tail of history and all of the new audio. *)
Window(new) ==
  LastOf(history, Lesser(Len(history), Greater(0, Keep + Length - Len(new)))) \o new

(* Faulty: the audio of a decode that fails is dropped. *)
DecodeFailsDropping(new) ==
  /\ accum' = <<>>
  /\ UNCHANGED <<history, textVars>>

(* whisper_full fails: the audio stays for the next decode. *)
DecodeFails(new) ==
  /\ accum' = new
  /\ UNCHANGED <<history, textVars>>

DecodeRuns(new, now) ==
  /\ Decoded(Window(new), now)
  /\ history' = Capped(Window(new), Length + Keep)
  /\ accum' = <<>>

(* Faulty: "return 1" whether the decode ran or failed. *)
run_decode_unchecked(new, now, rc) ==
  /\ rc = 1
  /\ DecodeRuns(new, now) \/ DecodeFails(new)

(* stelnet_stream_run_decode. *)
run_decode(new, now, rc) ==
  \/ rc = 1 /\ DecodeRuns(new, now)
  \/ rc = -2 /\ DecodeFails(new)

whisper_feed(n, rc) ==
  LET new == accum \o Samples(n)
  IN  /\ backend = "whisper"
      /\ IF Len(new) < Step
         THEN rc = 0 /\ accum' = new /\ UNCHANGED <<history, textVars>>
         ELSE run_decode(new, fed + n, rc)
      /\ UNCHANGED rollingVars

whisper_flush(rc) ==
  /\ backend = "whisper"
  /\ IF accum = <<>>
     THEN rc = 0 /\ UNCHANGED <<whisperVars, textVars>>
     ELSE run_decode(accum, fed, rc)
  /\ UNCHANGED rollingVars

(* A decode of the other two never fails: no text is an empty text. *)
rolling_feed(n, rc) ==
  LET pcm == Capped(rolling \o Samples(n), Length)
  IN  /\ backend = "rolling"
      /\ rolling' = pcm
      /\ IF since + n < Step
         THEN rc = 0 /\ since' = since + n /\ UNCHANGED textVars
         ELSE rc = 1 /\ since' = 0 /\ Decoded(pcm, fed + n)
      /\ UNCHANGED whisperVars

rolling_flush(rc) ==
  /\ backend = "rolling"
  /\ IF rolling = <<>>
     THEN rc = 0 /\ UNCHANGED <<since, textVars>>
     ELSE rc = 1 /\ since' = 0 /\ Decoded(rolling, fed)
  /\ UNCHANGED <<rolling, whisperVars>>

ResultCodes == {0, 1, -2}

(***************************************************************************)
(* The connection.                                                         *)
(***************************************************************************)

(* get_text and ws_send_text; at and rc are for the properties. *)
Say(kind, now, rc) ==
  /\ said' = [kind |-> kind, counter |-> decode_counter', text |-> out', at |-> now, rc |-> rc]
  /\ known' = Greater(known, said.counter)

(* A binary frame: "if (rc == 1)", "if (counter != last_counter)"; a send  *)
(* that fails ends the connection.                                         *)
BinaryFrame(n) ==
  /\ conn = "open" /\ fed + n <= MaxFed
  /\ fed' = fed + n
  /\ \E rc \in ResultCodes :
       /\ whisper_feed(n, rc) \/ rolling_feed(n, rc)
       /\ IF rc = 1 /\ decode_counter' # last_counter
          THEN /\ last_counter' = decode_counter'
               /\ Say("partial", fed + n, rc)
               /\ conn' \in {"open", "closed"}
          ELSE UNCHANGED <<toldVars, conn>>
  /\ largest' = Greater(largest, n)
  /\ UNCHANGED <<backend, flushes>>

(* The text frame "flush": its result is not looked at, and the text of    *)
(* the last decode goes out as the final one.                              *)
FlushFrame ==
  /\ conn = "open" /\ flushes < MaxFlushes
  /\ flushes' = flushes + 1
  /\ \E rc \in ResultCodes :
       /\ whisper_flush(rc) \/ rolling_flush(rc)
       /\ Say("final", fed, rc)
  /\ UNCHANGED <<backend, fed, conn, last_counter, largest>>

(* A close frame, a lost connection, a stop of the server. *)
Ends ==
  /\ conn = "open"
  /\ conn' = "closed"
  /\ UNCHANGED <<backend, fed, whisperVars, rollingVars, textVars, flushes, toldVars, largest>>

Next == (\E n \in Feeds : BinaryFrame(n)) \/ FlushFrame \/ Ends

Spec == Init /\ [][Next]_vars

(***************************************************************************)
(* Properties.                                                             *)
(***************************************************************************)

(* Buffers hold samples that were fed, and counters count decodes. *)
TypeOK ==
  /\ backend \in Backends /\ fed \in 0 .. MaxFed
  /\ accum \in Seq(Nat) /\ history \in Seq(Nat)
  /\ rolling \in Seq(Nat) /\ Len(rolling) <= Length
  /\ since \in 0 .. fed
  /\ out \in [t0 : 0 .. fed, t1 : 0 .. fed, first : 1 .. fed + 1, last : 0 .. fed]
  /\ decode_counter \in Nat
  /\ conn \in {"open", "closed"} /\ flushes \in 0 .. MaxFlushes
  /\ last_counter \in -1 .. decode_counter
  /\ said.kind \in {"ready", "partial", "final"} /\ said.counter \in -1 .. decode_counter
  /\ known \in -1 .. decode_counter
  /\ heard \subseteq 1 .. fed
  /\ largest \in Nat

(* Fed and not yet part of a decode. *)
Waiting == IF backend = "whisper" THEN Len(accum) ELSE since

(* No audio is skipped: but for what waits for the next decode, all that   *)
(* was fed has been in some window, whatever frames the audio came in,     *)
(* whatever decodes failed and wherever flushes fell.  With the rolling    *)
(* buffer this needs frames of at most Length - Step + 1 samples: a longer *)
(* one may push out audio that was never decoded.                          *)
NothingSkipped ==
  backend = "whisper" \/ largest <= Length - Step + 1 => heard = 1 .. fed - Waiting

(* A partial is news: its counter is above that of every message before,   *)
(* also above that of a final, which last_counter does not follow.  The    *)
(* text of a partial, and of a final whose decode did not fail, reaches to *)
(* the last sample of the moment; and t0 and t1 are the places in the      *)
(* stream of the audio that the text is of, also when an earlier decode    *)
(* failed.                                                                 *)
ToldIsCurrent ==
  /\ said.kind = "partial" => said.counter > known
  /\ said.rc # -2 => said.text.last = said.at
  /\ said.text.t0 = said.text.first - 1 /\ said.text.t1 = said.text.last
===============================================================================
