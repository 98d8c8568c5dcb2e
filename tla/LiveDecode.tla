----------------------------- MODULE LiveDecode -----------------------------
(***************************************************************************)
(* A streaming session of the Voxtral 4B backend (src/src/voxtral4b.cpp):  *)
(* the caller's thread encodes audio as it is fed and the decoder worker,  *)
(* when there is one, turns it into text behind the caller's back.         *)
(*                                                                         *)
(* Audio is counted in units of 80 ms, one audio embedding each (1280      *)
(* samples, 8 mel frames, 4 encoder frames).  A token is the number of     *)
(* embeddings consumed when it was chosen; control tokens (id < 1000) are  *)
(* tokens whose text is empty.  The language model and the encoder share   *)
(* one scheduler, ctx->sched, and so the sched_mutex.                      *)
(*                                                                         *)
(* A definition marked "Faulty" is not part of the specification.          *)
(***************************************************************************)
EXTENDS Integers, Sequences

CONSTANTS
  LeftPad,      (* kLeftPadTokens: silence fed by stream_open                *)
  RightPad,     (* kRightPadTokens: silence appended by a flush              *)
  PromptLen,    (* kStreamingPromptLen: embeddings the prefill consumes      *)
  Chunk,        (* chunk_mel_frames: units the encoder takes at a time       *)
  EncMax,       (* enc_max_T: units the encoder cache has room for           *)
  MaxAudio,     (* bound: units fed in a session, padding included           *)
  MaxFailures   (* bound: graph computations that fail in a session          *)

ASSUME LiveDecodeAssumption ==
  /\ LeftPad \in Nat \ {0} /\ RightPad \in Nat \ {0} /\ PromptLen \in Nat \ {0}
  /\ Chunk \in Nat \ {0} /\ EncMax \in Nat
  /\ MaxAudio \in Nat /\ MaxFailures \in Nat

VARIABLES
  threaded,     (* decoder_thread_enabled                                    *)
  live,         (* live_decode_enabled                                       *)
  call,         (* the call of the C interface under way                     *)
  pc,           (* where the caller and the worker are                       *)
  sched_mutex,          (* its holder                                        *)
  decode_state_mutex,   (* its holder                                        *)
  shutdown_requested, worker_idle,
  fed,          (* history: units fed, padding included                      *)
  mel_pending,  (* units fed and not encoded                                 *)
  enc_T_so_far, (* units encoded                                             *)
  audio_embeds, (* their number                                              *)
  decode_started, decode_finished, decode_logits_committed,
  decode_adapter_pos,
  seen,         (* N_audio, the local of the drain under way                 *)
  out_text, out_text_unread,   (* tokens                                     *)
  heard,        (* history: the tokens get_text has returned                 *)
  decode_counter,
  failures, dropped   (* history: failed computations, of them those that lost an embedding *)

mutexes == <<sched_mutex, decode_state_mutex>>
audio   == <<fed, mel_pending, enc_T_so_far, audio_embeds>>
cursor  == <<decode_started, decode_adapter_pos>>
decided == <<decode_finished, decode_logits_committed>>
text    == <<out_text, out_text_unread>>
faults  == <<failures, dropped>>
vars == <<threaded, live, call, pc, mutexes, shutdown_requested, worker_idle, audio,
          cursor, decided, seen, text, heard, decode_counter, faults>>

Goto(t, label) == pc' = [pc EXCEPT ![t] = label]

(* cond_var has one waiter, the worker. *)
NotifyAndGoto(label) ==
  pc' = [caller |-> label, worker |-> IF pc.worker = "wait" THEN "wake" ELSE pc.worker]

MayFail == failures < MaxFailures
Fails   == MayFail /\ failures' = failures + 1

(* A call returns; an open whose first feed fails closes the stream. *)
Return(ok) ==
  IF call = "open" /\ ~ok
  THEN Goto("caller", "close") /\ call' = "close"
  ELSE Goto("caller", "idle") /\ call' = "none"

-----------------------------------------------------------------------------
(* voxtral4b_stream_open; the environment chooses the mode. *)
Init ==
  /\ threaded \in BOOLEAN /\ live \in (IF threaded THEN {TRUE} ELSE BOOLEAN)
  /\ call = "open" /\ pc = [caller |-> "lock", worker |-> IF threaded THEN "top" ELSE "exit"]
  /\ sched_mutex = "nobody" /\ decode_state_mutex = "nobody"
  /\ shutdown_requested = FALSE /\ worker_idle = TRUE
  /\ fed = LeftPad /\ mel_pending = LeftPad /\ enc_T_so_far = 0 /\ audio_embeds = 0
  /\ decode_started = FALSE /\ decode_finished = FALSE
  /\ decode_logits_committed = FALSE /\ decode_adapter_pos = 0
  /\ seen = 0 /\ out_text = <<>> /\ out_text_unread = <<>> /\ heard = <<>>
  /\ decode_counter = 0 /\ failures = 0 /\ dropped = 0

-----------------------------------------------------------------------------
(* The calls of the interface.                                             *)

Feed(n) ==
  /\ pc.caller = "idle" /\ fed + n <= MaxAudio
  /\ fed' = fed + n /\ mel_pending' = mel_pending + n
  /\ call' = "feed" /\ Goto("caller", "lock")
  /\ UNCHANGED <<threaded, live, mutexes, shutdown_requested, worker_idle, enc_T_so_far,
                 audio_embeds, cursor, decided, seen, text, heard, decode_counter, faults>>

(* The right padding goes to the audio without a feed, and flush does not  *)
(* take the sched_mutex.                                                   *)
Flush ==
  /\ pc.caller = "idle" /\ fed + RightPad <= MaxAudio
  /\ fed' = fed + RightPad /\ mel_pending' = mel_pending + RightPad
  /\ call' = "flush" /\ Goto("caller", "encode")
  /\ UNCHANGED <<threaded, live, mutexes, shutdown_requested, worker_idle, enc_T_so_far,
                 audio_embeds, cursor, decided, seen, text, heard, decode_counter, faults>>

(* Faulty: what did not fit in the buffer is forgotten. *)
GetTextForgets ==
  /\ pc.caller = "idle" /\ decode_state_mutex = "nobody" /\ out_text_unread # <<>>
  /\ \E n \in 1..Len(out_text_unread) : heard' = heard \o SubSeq(out_text_unread, 1, n)
  /\ out_text_unread' = <<>>
  /\ UNCHANGED <<threaded, live, call, pc, mutexes, shutdown_requested, worker_idle, audio,
                 cursor, decided, seen, out_text, decode_counter, faults>>

(* At most cap - 1 bytes are copied: any prefix of what is unread. *)
GetText ==
  /\ pc.caller = "idle" /\ decode_state_mutex = "nobody" /\ out_text_unread # <<>>
  /\ \E n \in 1..Len(out_text_unread) :
       /\ heard' = heard \o SubSeq(out_text_unread, 1, n)
       /\ out_text_unread' = SubSeq(out_text_unread, n + 1, Len(out_text_unread))
  /\ UNCHANGED <<threaded, live, call, pc, mutexes, shutdown_requested, worker_idle, audio,
                 cursor, decided, seen, out_text, decode_counter, faults>>

SetLiveDecode ==
  /\ pc.caller = "idle" /\ live' \in BOOLEAN /\ live' # live
  /\ UNCHANGED <<threaded, call, pc, mutexes, shutdown_requested, worker_idle, audio,
                 cursor, decided, seen, text, heard, decode_counter, faults>>

Close ==
  /\ pc.caller = "idle"
  /\ call' = "close" /\ Goto("caller", "close")
  /\ UNCHANGED <<threaded, live, mutexes, shutdown_requested, worker_idle, audio,
                 cursor, decided, seen, text, heard, decode_counter, faults>>

-----------------------------------------------------------------------------
(* The encoder half of a feed and of a flush.                              *)

(* Faulty: feed does not take the sched_mutex either. *)
LockSchedNot ==
  /\ pc.caller = "lock"
  /\ Goto("caller", "encode")
  /\ UNCHANGED <<threaded, live, call, mutexes, shutdown_requested, worker_idle, audio,
                 cursor, decided, seen, text, heard, decode_counter, faults>>

LockSched ==
  /\ pc.caller = "lock" /\ sched_mutex = "nobody"
  /\ sched_mutex' = "caller" /\ Goto("caller", "encode")
  /\ UNCHANGED <<threaded, live, call, decode_state_mutex, shutdown_requested, worker_idle,
                 audio, cursor, decided, seen, text, heard, decode_counter, faults>>

(* The lock_guard of the sched_mutex, taken by feed only. *)
Unlock == sched_mutex' = IF sched_mutex = "caller" THEN "nobody" ELSE sched_mutex

EncoderRuns(n) ==
  /\ enc_T_so_far + n <= EncMax
  /\ enc_T_so_far' = enc_T_so_far + n /\ mel_pending' = mel_pending - n

(* Feed runs the encoder on whole chunks while it can; a chunk that fails, *)
(* or for which the cache has no room, stays pending and is no error.      *)
(* (vox_stream_advance_mel before it, here and in a flush, can only fail   *)
(* by a frame count that is not its own, and does not fail here.)          *)
EncodeFeed ==
  /\ pc.caller = "encode" /\ call # "flush"
  /\ IF mel_pending >= Chunk /\ enc_T_so_far + Chunk <= EncMax
     THEN \/ EncoderRuns(Chunk) /\ UNCHANGED <<pc, failures>>
          \/ Goto("caller", "project") /\ Fails /\ UNCHANGED <<enc_T_so_far, mel_pending>>
     ELSE Goto("caller", "project") /\ UNCHANGED <<enc_T_so_far, mel_pending, failures>>
  /\ UNCHANGED <<threaded, live, call, mutexes, shutdown_requested, worker_idle, fed,
                 audio_embeds, cursor, decided, seen, text, heard, decode_counter, dropped>>

(* Flush runs it once on everything, if it fits. *)
EncodeFlush ==
  /\ pc.caller = "encode" /\ call = "flush"
  /\ \/ EncoderRuns(mel_pending) /\ Goto("caller", "project") /\ UNCHANGED <<call, failures>>
     \/ /\ enc_T_so_far + mel_pending > EncMax
        /\ Goto("caller", "project")
        /\ UNCHANGED <<call, failures, enc_T_so_far, mel_pending>>
     \/ /\ enc_T_so_far + mel_pending <= EncMax
        /\ Fails /\ Return(FALSE) /\ UNCHANGED <<enc_T_so_far, mel_pending>>
  /\ UNCHANGED <<threaded, live, mutexes, shutdown_requested, worker_idle, fed, audio_embeds,
                 cursor, decided, seen, text, heard, decode_counter, dropped>>

(* Faulty: the frames of the last projection are projected again. *)
ProjectAgain ==
  /\ pc.caller = "project"
  /\ audio_embeds' = audio_embeds + enc_T_so_far
  /\ Goto("caller", "prefill")
  /\ UNCHANGED <<threaded, live, call, mutexes, shutdown_requested, worker_idle, fed,
                 mel_pending, enc_T_so_far, cursor, decided, seen, text, heard,
                 decode_counter, faults>>

(* Every encoded frame gets its embedding; without new frames no graph is run. *)
Project ==
  /\ pc.caller = "project"
  /\ audio_embeds' = enc_T_so_far
  /\ Goto("caller", "prefill")
  /\ UNCHANGED <<threaded, live, call, mutexes, shutdown_requested, worker_idle, fed,
                 mel_pending, enc_T_so_far, cursor, decided, seen, text, heard,
                 decode_counter, faults>>

ProjectFails ==
  /\ pc.caller = "project" /\ enc_T_so_far > audio_embeds
  /\ Fails /\ Return(FALSE) /\ Unlock
  /\ UNCHANGED <<threaded, live, decode_state_mutex, shutdown_requested, worker_idle, audio,
                 cursor, decided, seen, text, heard, decode_counter, dropped>>

(* Once per session the prompt is run over the first embeddings. *)
Prefill ==
  /\ pc.caller = "prefill" /\ ~decode_started /\ audio_embeds >= PromptLen
  /\ decode_started' = TRUE /\ decode_adapter_pos' = PromptLen
  /\ Goto("caller", "notify") /\ Unlock
  /\ UNCHANGED <<threaded, live, call, decode_state_mutex, shutdown_requested, worker_idle,
                 audio, decided, seen, text, heard, decode_counter, faults>>

PrefillFails ==
  /\ pc.caller = "prefill" /\ ~decode_started /\ audio_embeds >= PromptLen
  /\ Fails /\ Return(FALSE) /\ Unlock
  /\ UNCHANGED <<threaded, live, decode_state_mutex, shutdown_requested, worker_idle, audio,
                 cursor, decided, seen, text, heard, decode_counter, dropped>>

(* Too little audio: a flush returns without output. *)
NoPrefill ==
  /\ pc.caller = "prefill" /\ (decode_started \/ audio_embeds < PromptLen)
  /\ IF call = "flush" /\ audio_embeds < PromptLen
     THEN Return(TRUE)
     ELSE Goto("caller", "notify") /\ UNCHANGED call
  /\ Unlock
  /\ UNCHANGED <<threaded, live, decode_state_mutex, shutdown_requested, worker_idle, audio,
                 cursor, decided, seen, text, heard, decode_counter, faults>>

-----------------------------------------------------------------------------
(* The decoder half.                                                       *)

(* With a worker, wake it.  A feed then returns and a flush polls. *)
NotifyWorker ==
  /\ pc.caller = "notify" /\ threaded
  /\ IF call = "flush"
     THEN NotifyAndGoto("poll") /\ UNCHANGED call
     ELSE NotifyAndGoto("idle") /\ call' = "none"
  /\ UNCHANGED <<threaded, live, mutexes, shutdown_requested, worker_idle, audio,
                 cursor, decided, seen, text, heard, decode_counter, faults>>

(* Without one, decode here: in live mode as audio comes, else at the flush. *)
DecodeInline ==
  /\ pc.caller = "notify" /\ ~threaded
  /\ IF call = "flush" \/ (live /\ decode_started /\ ~decode_finished)
     THEN Goto("caller", "drain") /\ UNCHANGED call
     ELSE Return(TRUE)
  /\ UNCHANGED <<threaded, live, mutexes, shutdown_requested, worker_idle, audio,
                 cursor, decided, seen, text, heard, decode_counter, faults>>

(* Faulty: flush asks only whether the worker sleeps. *)
CaughtUpAlways == TRUE

CaughtUp == decode_finished \/ decode_adapter_pos >= audio_embeds

(* Faulty: the worker is notified once. *)
PollOnly ==
  /\ pc.caller = "poll" /\ decode_state_mutex = "nobody"
  /\ CaughtUp /\ worker_idle
  /\ Goto("caller", "trim")
  /\ UNCHANGED <<threaded, live, call, mutexes, shutdown_requested, worker_idle, audio,
                 cursor, decided, seen, text, heard, decode_counter, faults>>

(* Every millisecond, under the decode_state_mutex; "re-notify in case     *)
(* worker missed our earlier signal".                                      *)
Poll ==
  /\ pc.caller = "poll" /\ decode_state_mutex = "nobody"
  /\ Goto("caller", IF CaughtUp /\ worker_idle THEN "trim" ELSE "notify")
  /\ UNCHANGED <<threaded, live, call, mutexes, shutdown_requested, worker_idle, audio,
                 cursor, decided, seen, text, heard, decode_counter, faults>>

(* The end of a flush edits out_text without the mutex. *)
FlushReturns ==
  /\ pc.caller = "trim"
  /\ decode_counter' = decode_counter + 1
  /\ Return(TRUE)
  /\ UNCHANGED <<threaded, live, mutexes, shutdown_requested, worker_idle, audio, cursor,
                 decided, seen, text, heard, faults>>

-----------------------------------------------------------------------------
(* vox_stream_drain_decode, run by the worker or by the caller.            *)

DrainBegins(t) ==
  /\ pc[t] = "drain"
  /\ IF decode_started /\ ~decode_finished
     THEN Goto(t, "step") /\ seen' = audio_embeds
     ELSE Goto(t, "drained") /\ UNCHANGED seen
  /\ UNCHANGED <<threaded, live, call, mutexes, shutdown_requested, worker_idle, audio,
                 cursor, decided, text, heard, decode_counter, faults>>

Say(token) ==
  out_text' = Append(out_text, token) /\ out_text_unread' = Append(out_text_unread, token)

(* Faulty: a drain that finds its token already said says it again. *)
DecideAgain(t) ==
  /\ pc[t] = "step" /\ ~decode_logits_committed
  /\ \/ Say(decode_adapter_pos) /\ UNCHANGED <<pc, decided>>
     \/ /\ decode_finished' = TRUE /\ decode_logits_committed' = TRUE
        /\ Goto(t, "drained") /\ UNCHANGED text
  /\ UNCHANGED <<threaded, live, call, mutexes, shutdown_requested, worker_idle, audio,
                 cursor, seen, heard, decode_counter, faults>>

(* Step 1: the token of the last logits is said, or ends the text.  (The   *)
(* loop also stops after kMaxNewTokens = 512 steps, each of which takes an *)
(* embedding: out of reach with a cache of 15 s, 188 embeddings.)          *)
Decide(t) ==
  /\ pc[t] = "step" /\ ~decode_logits_committed
  /\ decode_logits_committed' = TRUE
  /\ \/ Say(decode_adapter_pos) /\ UNCHANGED <<pc, decode_finished>>
     \/ decode_finished' = TRUE /\ Goto(t, "drained") /\ UNCHANGED text
  /\ UNCHANGED <<threaded, live, call, mutexes, shutdown_requested, worker_idle, audio,
                 cursor, seen, heard, decode_counter, faults>>

(* Step 2: no audio left to inject. *)
DrainStops(t) ==
  /\ pc[t] = "step" /\ decode_logits_committed /\ decode_adapter_pos >= seen
  /\ Goto(t, "drained")
  /\ UNCHANGED <<threaded, live, call, mutexes, shutdown_requested, worker_idle, audio,
                 cursor, decided, seen, text, heard, decode_counter, faults>>

(* Step 3: inject the next embedding and run the model. *)
Inject(t) ==
  /\ pc[t] = "step" /\ decode_logits_committed /\ decode_adapter_pos < seen
  /\ decode_adapter_pos' = decode_adapter_pos + 1
  /\ Goto(t, "forward")
  /\ UNCHANGED <<threaded, live, call, mutexes, shutdown_requested, worker_idle, audio,
                 decode_started, decided, seen, text, heard, decode_counter, faults>>

InjectFails(t) ==
  /\ pc[t] = "step" /\ decode_logits_committed /\ decode_adapter_pos < seen
  /\ Fails /\ Goto(t, "failed")
  /\ UNCHANGED <<threaded, live, call, mutexes, shutdown_requested, worker_idle, audio,
                 cursor, decided, seen, text, heard, decode_counter, dropped>>

Forward(t) ==
  /\ pc[t] = "forward"
  /\ decode_logits_committed' = FALSE
  /\ Goto(t, "step")
  /\ UNCHANGED <<threaded, live, call, mutexes, shutdown_requested, worker_idle, audio,
                 cursor, decode_finished, seen, text, heard, decode_counter, faults>>

(* The cursor has already moved: the embedding is lost. *)
ForwardFails(t) ==
  /\ pc[t] = "forward"
  /\ Fails /\ dropped' = dropped + 1
  /\ Goto(t, "failed")
  /\ UNCHANGED <<threaded, live, call, mutexes, shutdown_requested, worker_idle, audio,
                 cursor, decided, seen, text, heard, decode_counter>>

(* The caller reports a failed drain; a flush that succeeds has its output. *)
DrainedInline ==
  /\ pc.caller \in {"drained", "failed"}
  /\ IF call = "flush" /\ pc.caller = "drained"
     THEN Goto("caller", "trim") /\ UNCHANGED call
     ELSE Return(pc.caller = "drained")
  /\ UNCHANGED <<threaded, live, mutexes, shutdown_requested, worker_idle, audio,
                 cursor, decided, seen, text, heard, decode_counter, faults>>

-----------------------------------------------------------------------------
(* vox_stream_decoder_worker.                                              *)

(* The head of the loop; the last statement of the worker says it is idle. *)
WorkerLoops ==
  /\ pc.worker = "top"
  /\ IF shutdown_requested
     THEN Goto("worker", "exit") /\ worker_idle' = TRUE
     ELSE Goto("worker", "idle") /\ UNCHANGED worker_idle
  /\ UNCHANGED <<threaded, live, call, mutexes, shutdown_requested, audio,
                 cursor, decided, seen, text, heard, decode_counter, faults>>

WorkerIdle ==
  /\ pc.worker = "idle" /\ decode_state_mutex = "nobody"
  /\ decode_state_mutex' = "worker" /\ worker_idle' = TRUE
  /\ Goto("worker", "test")
  /\ UNCHANGED <<threaded, live, call, sched_mutex, shutdown_requested, audio,
                 cursor, decided, seen, text, heard, decode_counter, faults>>

HasWork == decode_started /\ ~decode_finished /\ audio_embeds > decode_adapter_pos

(* Faulty: the scope of the lock of the wait reaches over the drain. *)
WorkerTestsLocked ==
  /\ pc.worker = "test"
  /\ IF shutdown_requested THEN Goto("worker", "exit") /\ UNCHANGED worker_idle
     ELSE IF HasWork        THEN Goto("worker", "sched") /\ worker_idle' = FALSE
     ELSE                        Goto("worker", "block") /\ UNCHANGED worker_idle
  /\ UNCHANGED <<threaded, live, call, mutexes, shutdown_requested, audio,
                 cursor, decided, seen, text, heard, decode_counter, faults>>

(* The predicate of the wait, under the mutex.  What it reads is written   *)
(* by others without the mutex.                                            *)
WorkerTests ==
  /\ pc.worker = "test"
  /\ IF shutdown_requested \/ HasWork
     THEN decode_state_mutex' = "nobody"
     ELSE UNCHANGED decode_state_mutex
  /\ IF shutdown_requested THEN Goto("worker", "exit") /\ UNCHANGED worker_idle
     ELSE IF HasWork        THEN Goto("worker", "sched") /\ worker_idle' = FALSE
     ELSE                        Goto("worker", "block") /\ UNCHANGED worker_idle
  /\ UNCHANGED <<threaded, live, call, sched_mutex, shutdown_requested, audio,
                 cursor, decided, seen, text, heard, decode_counter, faults>>

(* The predicate was false: give up the mutex and sleep, in one step. *)
WorkerBlocks ==
  /\ pc.worker = "block"
  /\ decode_state_mutex' = "nobody" /\ Goto("worker", "wait")
  /\ UNCHANGED <<threaded, live, call, sched_mutex, shutdown_requested, worker_idle, audio,
                 cursor, decided, seen, text, heard, decode_counter, faults>>

WorkerWakes ==
  /\ pc.worker = "wake" /\ decode_state_mutex = "nobody"
  /\ decode_state_mutex' = "worker" /\ Goto("worker", "test")
  /\ UNCHANGED <<threaded, live, call, sched_mutex, shutdown_requested, worker_idle, audio,
                 cursor, decided, seen, text, heard, decode_counter, faults>>

SpuriousWakeup ==
  /\ pc.worker = "wait" /\ Goto("worker", "wake")
  /\ UNCHANGED <<threaded, live, call, mutexes, shutdown_requested, worker_idle, audio,
                 cursor, decided, seen, text, heard, decode_counter, faults>>

WorkerLocksSched ==
  /\ pc.worker = "sched" /\ sched_mutex = "nobody"
  /\ sched_mutex' = "worker" /\ Goto("worker", "state")
  /\ UNCHANGED <<threaded, live, call, decode_state_mutex, shutdown_requested, worker_idle,
                 audio, cursor, decided, seen, text, heard, decode_counter, faults>>

WorkerLocksState ==
  /\ pc.worker = "state" /\ decode_state_mutex = "nobody"
  /\ decode_state_mutex' = "worker" /\ Goto("worker", "drain")
  /\ UNCHANGED <<threaded, live, call, sched_mutex, shutdown_requested, worker_idle, audio,
                 cursor, decided, seen, text, heard, decode_counter, faults>>

(* The end of the scope of both locks; the result of the drain is ignored. *)
WorkerUnlocks ==
  /\ pc.worker \in {"drained", "failed"}
  /\ sched_mutex' = "nobody" /\ decode_state_mutex' = "nobody"
  /\ Goto("worker", "top")
  /\ UNCHANGED <<threaded, live, call, shutdown_requested, worker_idle, audio,
                 cursor, decided, seen, text, heard, decode_counter, faults>>

-----------------------------------------------------------------------------
(* voxtral4b_stream_close.                                                 *)

RequestShutdown ==
  /\ pc.caller = "close"
  /\ IF threaded
     THEN shutdown_requested' = TRUE /\ Goto("caller", "wakeall")
     ELSE UNCHANGED shutdown_requested /\ Goto("caller", "closed")
  /\ UNCHANGED <<threaded, live, call, mutexes, worker_idle, audio,
                 cursor, decided, seen, text, heard, decode_counter, faults>>

NotifyAll ==
  /\ pc.caller = "wakeall" /\ NotifyAndGoto("join")
  /\ UNCHANGED <<threaded, live, call, mutexes, shutdown_requested, worker_idle, audio,
                 cursor, decided, seen, text, heard, decode_counter, faults>>

Join ==
  /\ pc.caller = "join" /\ pc.worker = "exit"
  /\ Goto("caller", "closed")
  /\ UNCHANGED <<threaded, live, call, mutexes, shutdown_requested, worker_idle, audio,
                 cursor, decided, seen, text, heard, decode_counter, faults>>

-----------------------------------------------------------------------------
Drain(t) ==
  \/ DrainBegins(t) \/ Decide(t) \/ DrainStops(t) \/ Inject(t) \/ InjectFails(t)
  \/ Forward(t) \/ ForwardFails(t)

Calls == (\E n \in 1..MaxAudio : Feed(n)) \/ Flush \/ GetText \/ SetLiveDecode \/ Close

Caller ==
  \/ LockSched \/ EncodeFeed \/ EncodeFlush \/ Project \/ ProjectFails
  \/ Prefill \/ PrefillFails \/ NoPrefill
  \/ NotifyWorker \/ DecodeInline \/ Drain("caller") \/ DrainedInline
  \/ Poll \/ FlushReturns
  \/ RequestShutdown \/ NotifyAll \/ Join

Worker ==
  \/ WorkerLoops \/ WorkerIdle \/ WorkerTests \/ WorkerBlocks \/ WorkerWakes
  \/ WorkerLocksSched \/ WorkerLocksState \/ Drain("worker") \/ WorkerUnlocks

Next == Calls \/ Caller \/ Worker \/ SpuriousWakeup

(* Both threads run.  A mutex that is free again and again is obtained (a  *)
(* flush sleeps between two attempts).  No call need ever be made, and no  *)
(* spurious wakeup need ever come.                                         *)
Fairness == SF_vars(Caller) /\ WF_vars(Worker)

Spec == Init /\ [][Next]_vars /\ Fairness

-----------------------------------------------------------------------------
(* Properties.                                                             *)

Draining == {"drain", "step", "forward", "drained", "failed"}
Encoding == {"encode", "project", "prefill"}

Labels == {"top", "idle", "lock", "test", "block", "wait", "wake", "sched", "state", "notify",
           "poll", "trim", "close", "wakeall", "join", "exit", "closed"} \cup Encoding \cup Draining

ThreadsTypeOK ==
  /\ threaded \in BOOLEAN /\ live \in BOOLEAN
  /\ call \in {"none", "open", "feed", "flush", "close"}
  /\ pc \in [{"caller", "worker"} -> Labels]
  /\ sched_mutex \in {"nobody", "caller", "worker"}
  /\ decode_state_mutex \in {"nobody", "worker"}
  /\ shutdown_requested \in BOOLEAN /\ worker_idle \in BOOLEAN

NumbersTypeOK ==
  /\ fed \in Nat /\ mel_pending \in Nat /\ enc_T_so_far \in 0..EncMax
  /\ audio_embeds \in Nat /\ seen \in Nat /\ decode_adapter_pos \in Nat
  /\ decode_started \in BOOLEAN /\ decode_finished \in BOOLEAN
  /\ decode_logits_committed \in BOOLEAN
  /\ decode_counter \in Nat /\ failures \in Nat /\ dropped \in Nat

TextTypeOK ==
  out_text \in Seq(Nat) /\ out_text_unread \in Seq(Nat) /\ heard \in Seq(Nat)

TypeOK == ThreadsTypeOK /\ NumbersTypeOK /\ TextTypeOK

(* Up to the encoder no audio is dropped and none is taken twice: every    *)
(* unit fed is pending or encoded, and the decoder, which injects the      *)
(* embeddings one by one, never runs ahead of them.  Past the room of the  *)
(* cache audio stays pending for good and does not become text.            *)
AudioAccounted ==
  /\ fed = mel_pending + enc_T_so_far
  /\ audio_embeds <= enc_T_so_far
  /\ decode_started => PromptLen <= decode_adapter_pos /\ decode_adapter_pos <= audio_embeds

(* "prevents double-emission across multiple drain calls": whichever thread *)
(* decodes, and however feeds and drains interleave, no token is said      *)
(* twice, none out of order, and none is missing but for the last of the   *)
(* text, one being decoded, and those whose computation failed.            *)
Pending == IF decode_finished \/ ~decode_logits_committed THEN 1 ELSE 0
TokensInOrder ==
  /\ \A i \in 1..Len(out_text) - 1 : out_text[i] < out_text[i + 1]
  /\ ~decode_started => out_text = <<>>
  /\ decode_started /\ "forward" \notin {pc.caller, pc.worker} =>
       Len(out_text) + dropped + Pending = decode_adapter_pos - PromptLen + 1

(* get_text hands out the text once, while the worker extends it. *)
HeardOnce == heard \o out_text_unread = out_text

(* The session is one of Captions: its text only grows, in order and never *)
(* ahead of the audio, until it ends or the session is closed; and what    *)
(* get_text has handed out is a first part of it.                          *)
Session == INSTANCE Captions WITH
  said  <- out_text,
  ended <- decode_finished,
  open  <- pc.caller # "closed"
CaptionsAreKept == Session!Spec

(* "SWA window full -- silently drop the oldest chunk".  Without a failure *)
(* nothing but less than a chunk would then wait after a feed.  It does    *)
(* not hold: past the room of the cache no chunk is dropped, all wait      *)
(* (README, disagreements).                                                *)
OldestDropped == pc.caller = "idle" /\ failures = 0 => mel_pending < Chunk

(* When a flush comes to its end, everything fed has been encoded, unless  *)
(* more was fed than the cache has room for; the text ended or everything  *)
(* encoded went through the decoder and what it chose is said; and the     *)
(* worker has left the state alone.  (An embedding whose computation       *)
(* failed went through without a token: dropped counts it.  The first      *)
(* token needs no more than the prompt, but the worker waits for one       *)
(* embedding more before it says it.)                                      *)
FlushTellsAll ==
  pc.caller = "trim" =>
    /\ fed <= EncMax => audio_embeds = fed
    /\ \/ decode_finished
       \/ decode_adapter_pos = audio_embeds /\ decode_logits_committed
       \/ threaded /\ audio_embeds = PromptLen
    /\ pc.worker \notin Draining \cup {"sched", "state"}

(* "serializes encoder + decoder access to ctx->sched".  A flush does not  *)
(* keep this (README, disagreements).                                      *)
SchedExclusive == ~(pc.caller \in Encoding /\ pc.worker \in Draining)

(* That much holds of feeds. *)
FeedsExclusive == call # "flush" => SchedExclusive

(* The flag was raised and notified between the worker's test and its sleep. *)
Stranded == pc.caller = "join" /\ pc.worker = "wait"

(* A thread that is in the middle of something and wants no mutex that is  *)
(* taken.                                                                  *)
CallerCanGo ==
  /\ pc.caller \notin {"idle", "closed"}
  /\ pc.caller = "lock" => sched_mutex = "nobody"
  /\ pc.caller = "poll" => decode_state_mutex = "nobody"
  /\ pc.caller = "join" => pc.worker = "exit"
WorkerCanGo ==
  /\ pc.worker \notin {"wait", "exit"}
  /\ pc.worker \in {"idle", "wake", "state"} => decode_state_mutex = "nobody"
  /\ pc.worker = "sched" => sched_mutex = "nobody"

(* Two mutexes, a condition variable and a join do not deadlock: while a   *)
(* call is under way its thread can go on, or it waits for a worker that   *)
(* can; and a worker that cannot go on sleeps, is over, or waits for a     *)
(* caller that can.  A shutdown that is missed is the exception.           *)
NoDeadlock ==
  /\ pc.caller \notin {"idle", "closed"} => CallerCanGo \/ WorkerCanGo \/ Stranded
  /\ pc.worker \notin {"wait", "exit"} => CallerCanGo \/ WorkerCanGo

(* Open, feed and flush return, whatever the worker was doing when it was  *)
(* notified; so does a close that was not missed.                          *)
CallsReturn ==
  /\ \A c \in {"open", "feed", "flush"} : call = c ~> call # c
  /\ call = "close" ~> pc.caller = "closed" \/ Stranded

CloseReturns == call = "close" ~> pc.caller = "closed"
=============================================================================
