---------------------------- MODULE SpeechStream ----------------------------
(***************************************************************************)
(* Streamed speech of the server: POST /v1/audio/speech with "stream": true *)
(* (examples/cli/stelnet_server.cpp).                                      *)
(*                                                                         *)
(* Each request has two threads.  A detached worker takes the model mutex, *)
(* synthesises the sentences one after the other and enqueues each chunk   *)
(* of PCM in the StreamQueue of the request, blocking while the queue is   *)
(* full.  The HTTP thread runs httplib's chunked-content loop: it tests    *)
(* that the socket is writable, then calls the content provider, which     *)
(* takes one chunk, blocking while the queue is empty, and writes it.      *)
(* Both threads wait on the one condition variable of the queue.           *)
(*                                                                         *)
(* A chunk is the number of its production, 1, 2, 3, ...                   *)
(*                                                                         *)
(* A definition marked "Faulty" is not part of the specification: it is    *)
(* what a mistake in the definition after it would look like, to show that *)
(* a property notices.                                                     *)
(***************************************************************************)
EXTENDS Integers, Sequences

CONSTANTS
  Requests,    (* streamed speech requests                                    *)
  Clones,      (* those that clone a voice: their audio starts with the disclaimer *)
  Jobs,        (* requests that hold the model mutex for one bounded call (no *)
               (* realtime session, which waits for its client: ModelServer)  *)
  Sentences,   (* sentences of an input text                                  *)
  MaxChunks,   (* bound: chunks of one sentence (1 without CAP_STREAMING)     *)
  MaxQueue,    (* kMaxQueueDepth                                              *)
  Nobody       (* holder of the free model mutex                              *)

ASSUME SpeechAssumption ==
  /\ Clones \subseteq Requests
  /\ Requests \cap Jobs = {} /\ Nobody \notin Requests \cup Jobs
  /\ Sentences \in Nat /\ MaxChunks \in Nat
  /\ MaxQueue \in Nat \ {0}

VARIABLES
  model_mutex,  (* who holds the mutex of the loaded model                    *)
  wpc,          (* the worker of each request                                 *)
  after,        (* where the worker goes on after the enqueue it is in        *)
  sentence,     (* sentences the worker has completed                         *)
  emitted,      (* chunks of the current sentence                             *)
  made,         (* chunks enqueued so far                                     *)
  ppc,          (* the HTTP thread of each request                            *)
  inflight,     (* the chunk the provider has taken and not yet written       *)
  q, done, failed, cancelled,   (* the StreamQueue                            *)
  waiting,      (* the threads in the wait set of its condition variable      *)
  client,       (* "reading", or "gone": closed, or not readable for 5 s      *)
  delivered,    (* history: the chunks written to the socket                  *)
  job           (* "lock", "run" or "answered"                                *)

workerVars   == <<after, sentence, emitted, made>>
providerVars == <<inflight, delivered>>
flags        == <<done, failed, cancelled>>
vars == <<model_mutex, wpc, workerVars, ppc, providerVars, q, flags, waiting, client, job>>

Threads == {"worker", "provider"}

Init ==
  /\ model_mutex = Nobody
  /\ wpc = [r \in Requests |-> "idle"] /\ ppc = [r \in Requests |-> "idle"]
  /\ after = [r \in Requests |-> "next"]
  /\ sentence = [r \in Requests |-> 0] /\ emitted = [r \in Requests |-> 0]
  /\ made = [r \in Requests |-> 0]
  /\ inflight = [r \in Requests |-> <<>>] /\ delivered = [r \in Requests |-> <<>>]
  /\ q = [r \in Requests |-> <<>>]
  /\ done = [r \in Requests |-> FALSE] /\ failed = [r \in Requests |-> FALSE]
  /\ cancelled = [r \in Requests |-> FALSE]
  /\ waiting = [r \in Requests |-> {}]
  /\ client = [r \in Requests |-> "reading"]
  /\ job = [j \in Jobs |-> "lock"]

Goto(pc, r, label) == pc' = [pc EXCEPT ![r] = label]

(* condition_variable::notify_one wakes one waiting thread if there is one. *)
NotifyOne(r) ==
  IF waiting[r] = {} THEN UNCHANGED waiting
  ELSE \E t \in waiting[r] : waiting' = [waiting EXCEPT ![r] = @ \ {t}]

Wait(r, t) == waiting' = [waiting EXCEPT ![r] = @ \cup {t}]

-----------------------------------------------------------------------------
(* The handler starts the worker and hands the provider to httplib. *)
Post(r) ==
  /\ ppc[r] = "idle"
  /\ Goto(ppc, r, "check") /\ Goto(wpc, r, "lock")
  /\ UNCHANGED <<model_mutex, workerVars, providerVars, q, flags, waiting, client, job>>

-----------------------------------------------------------------------------
(* The worker.                                                             *)

AcquireModel(r) ==
  /\ wpc[r] = "lock" /\ model_mutex = Nobody
  /\ model_mutex' = r
  /\ Goto(wpc, r, IF r \in Clones THEN "disclaimer" ELSE "next")
  /\ UNCHANGED <<workerVars, ppc, providerVars, q, flags, waiting, client, job>>

(* stelnet_tts_get_disclaimer: its PCM, or nothing. *)
Disclaimer(r) ==
  /\ wpc[r] = "disclaimer"
  /\ \/ Goto(wpc, r, "enqueue") /\ after' = [after EXCEPT ![r] = "gap"]
     \/ Goto(wpc, r, "next") /\ UNCHANGED after
  /\ UNCHANGED <<model_mutex, sentence, emitted, made, ppc, providerVars, q, flags,
                 waiting, client, job>>

(* The head of the sentence loop.  Leaving it releases the mutex. *)
StartSentence(r) ==
  /\ wpc[r] = "next" /\ sentence[r] < Sentences /\ ~cancelled[r]
  /\ Goto(wpc, r, "synth")
  /\ emitted' = [emitted EXCEPT ![r] = 0]
  /\ UNCHANGED <<model_mutex, after, sentence, made, ppc, providerVars, q, flags,
                 waiting, client, job>>

LeaveLoop(r) ==
  /\ wpc[r] = "next" /\ (sentence[r] >= Sentences \/ cancelled[r])
  /\ model_mutex' = Nobody
  /\ Goto(wpc, r, "finish")
  /\ UNCHANGED <<workerVars, ppc, providerVars, q, flags, waiting, client, job>>

SynthChunk(r) ==
  /\ wpc[r] = "synth" /\ emitted[r] < MaxChunks
  /\ Goto(wpc, r, "enqueue")
  /\ emitted' = [emitted EXCEPT ![r] = @ + 1]
  /\ after' = [after EXCEPT ![r] = "synth"]
  /\ UNCHANGED <<model_mutex, sentence, made, ppc, providerVars, q, flags,
                 waiting, client, job>>

(* The backend returns; a gap of silence follows unless it was the last. *)
SynthEnds(r) ==
  /\ wpc[r] = "synth"
  /\ sentence' = [sentence EXCEPT ![r] = @ + 1]
  /\ Goto(wpc, r, IF sentence'[r] < Sentences THEN "gap" ELSE "next")
  /\ UNCHANGED <<model_mutex, after, emitted, made, ppc, providerVars, q, flags,
                 waiting, client, job>>

EnqueueGap(r) ==
  /\ wpc[r] = "gap"
  /\ Goto(wpc, r, "enqueue")
  /\ after' = [after EXCEPT ![r] = "next"]
  /\ UNCHANGED <<model_mutex, sentence, emitted, made, ppc, providerVars, q, flags,
                 waiting, client, job>>

(* enqueue: wait for room, unless the client has gone. *)
HasRoom(r)    == Len(q[r]) < MaxQueue
MayEnqueue(r) == HasRoom(r) \/ cancelled[r]
InEnqueue(r)  == wpc[r] = "enqueue" /\ "worker" \notin waiting[r]

EnqueueWaits(r) ==
  /\ InEnqueue(r) /\ ~MayEnqueue(r)
  /\ Wait(r, "worker")
  /\ UNCHANGED <<model_mutex, wpc, workerVars, ppc, providerVars, q, flags, client, job>>

(* push_pcm and the sentence loop ignore that enqueue returned false. *)
EnqueueRefused(r) ==
  /\ InEnqueue(r) /\ cancelled[r]
  /\ Goto(wpc, r, after[r])
  /\ UNCHANGED <<model_mutex, workerVars, ppc, providerVars, q, flags, waiting, client, job>>

(* Faulty: the cap of the queue is not enforced. *)
EnqueuePushUnbounded(r) ==
  /\ InEnqueue(r) /\ ~cancelled[r]
  /\ made' = [made EXCEPT ![r] = @ + 1]
  /\ q' = [q EXCEPT ![r] = Append(@, made'[r])]
  /\ Goto(wpc, r, "notify")
  /\ UNCHANGED <<model_mutex, after, sentence, emitted, ppc, providerVars, flags,
                 waiting, client, job>>

EnqueuePush(r) ==
  /\ InEnqueue(r) /\ MayEnqueue(r) /\ ~cancelled[r]
  /\ made' = [made EXCEPT ![r] = @ + 1]
  /\ q' = [q EXCEPT ![r] = Append(@, made'[r])]
  /\ Goto(wpc, r, "notify")
  /\ UNCHANGED <<model_mutex, after, sentence, emitted, ppc, providerVars, flags,
                 waiting, client, job>>

WakeConsumer(r) ==
  /\ wpc[r] = "notify"
  /\ NotifyOne(r)
  /\ Goto(wpc, r, after[r])
  /\ UNCHANGED <<model_mutex, workerVars, ppc, providerVars, q, flags, client, job>>

(* Faulty: the mutex is unlocked by hand, and not by an exception. *)
SynthThrowsLocked(r) ==
  /\ wpc[r] \in {"disclaimer", "synth"}
  /\ Goto(wpc, r, "catch")
  /\ UNCHANGED <<model_mutex, workerVars, ppc, providerVars, q, flags, waiting, client, job>>

(* An exception of the backend: unwinding releases the mutex, then the     *)
(* handler marks the stream failed.                                        *)
SynthThrows(r) ==
  /\ wpc[r] \in {"disclaimer", "synth"}
  /\ model_mutex' = Nobody
  /\ Goto(wpc, r, "catch")
  /\ UNCHANGED <<workerVars, ppc, providerVars, q, flags, waiting, client, job>>

Catch(r) ==
  /\ wpc[r] = "catch"
  /\ failed' = [failed EXCEPT ![r] = TRUE]
  /\ Goto(wpc, r, "finish")
  /\ UNCHANGED <<model_mutex, workerVars, ppc, providerVars, q, done, cancelled,
                 waiting, client, job>>

Finish(r) ==
  /\ wpc[r] = "finish"
  /\ done' = [done EXCEPT ![r] = TRUE]
  /\ Goto(wpc, r, "notifydone")
  /\ UNCHANGED <<model_mutex, workerVars, ppc, providerVars, q, failed, cancelled,
                 waiting, client, job>>

(* Faulty: the provider is not told that the stream is over. *)
NotifyDoneNot(r) ==
  /\ wpc[r] = "notifydone"
  /\ Goto(wpc, r, "exited")
  /\ UNCHANGED <<model_mutex, workerVars, ppc, providerVars, q, flags, waiting, client, job>>

NotifyDone(r) ==
  /\ wpc[r] = "notifydone"
  /\ NotifyOne(r)
  /\ Goto(wpc, r, "exited")
  /\ UNCHANGED <<model_mutex, workerVars, ppc, providerVars, q, flags, client, job>>

-----------------------------------------------------------------------------
(* The HTTP thread.                                                        *)

(* httplib leaves its loop when the socket is not writable, without a call *)
(* of the provider.                                                        *)
SocketWritable(r) ==
  /\ ppc[r] = "check" /\ client[r] = "reading"
  /\ Goto(ppc, r, "take")
  /\ UNCHANGED <<model_mutex, wpc, workerVars, providerVars, q, flags, waiting, client, job>>

SocketNotWritable(r) ==
  /\ ppc[r] = "check" /\ client[r] = "gone"
  /\ Goto(ppc, r, "aborted")
  /\ UNCHANGED <<model_mutex, wpc, workerVars, providerVars, q, flags, waiting, client, job>>

StreamOver(r) == done[r] \/ cancelled[r]
InTake(r)     == ppc[r] = "take" /\ "provider" \notin waiting[r]

TakeWaits(r) ==
  /\ InTake(r) /\ q[r] = <<>> /\ ~StreamOver(r)
  /\ Wait(r, "provider")
  /\ UNCHANGED <<model_mutex, wpc, workerVars, ppc, providerVars, q, flags, client, job>>

TakeChunk(r) ==
  /\ InTake(r) /\ q[r] # <<>>
  /\ inflight' = [inflight EXCEPT ![r] = <<Head(q[r])>>]
  /\ q' = [q EXCEPT ![r] = Tail(@)]
  /\ Goto(ppc, r, "notify")
  /\ UNCHANGED <<model_mutex, wpc, workerVars, delivered, flags, waiting, client, job>>

(* Faulty: the response ends with done, whatever is still queued. *)
SinkDoneEarly(r) ==
  /\ InTake(r) /\ StreamOver(r)
  /\ Goto(ppc, r, "ended")
  /\ UNCHANGED <<model_mutex, wpc, workerVars, providerVars, q, flags, waiting, client, job>>

SinkDone(r) ==
  /\ InTake(r) /\ q[r] = <<>> /\ StreamOver(r)
  /\ Goto(ppc, r, "ended")
  /\ UNCHANGED <<model_mutex, wpc, workerVars, providerVars, q, flags, waiting, client, job>>

(* Faulty: the worker is woken only when the queue has run empty. *)
WakeWorkerIfEmpty(r) ==
  /\ ppc[r] = "notify"
  /\ IF q[r] = <<>> THEN NotifyOne(r) ELSE UNCHANGED waiting
  /\ Goto(ppc, r, "write")
  /\ UNCHANGED <<model_mutex, wpc, workerVars, providerVars, q, flags, client, job>>

WakeWorker(r) ==
  /\ ppc[r] = "notify"
  /\ NotifyOne(r)
  /\ Goto(ppc, r, "write")
  /\ UNCHANGED <<model_mutex, wpc, workerVars, providerVars, q, flags, client, job>>

WriteChunk(r) ==
  /\ ppc[r] = "write" /\ client[r] = "reading"
  /\ delivered' = [delivered EXCEPT ![r] = @ \o inflight[r]]
  /\ inflight' = [inflight EXCEPT ![r] = <<>>]
  /\ Goto(ppc, r, "check")
  /\ UNCHANGED <<model_mutex, wpc, workerVars, q, flags, waiting, client, job>>

(* Faulty: the worker is cancelled but not woken. *)
WriteFailsQuietly(r) ==
  /\ ppc[r] = "write" /\ client[r] = "gone"
  /\ cancelled' = [cancelled EXCEPT ![r] = TRUE]
  /\ inflight' = [inflight EXCEPT ![r] = <<>>]
  /\ Goto(ppc, r, "cancelled")
  /\ UNCHANGED <<model_mutex, wpc, workerVars, delivered, q, done, failed, waiting, client, job>>

(* The write fails: cancel the worker and wake it. *)
WriteFails(r) ==
  /\ ppc[r] = "write" /\ client[r] = "gone"
  /\ cancelled' = [cancelled EXCEPT ![r] = TRUE]
  /\ waiting' = [waiting EXCEPT ![r] = {}]
  /\ inflight' = [inflight EXCEPT ![r] = <<>>]
  /\ Goto(ppc, r, "cancelled")
  /\ UNCHANGED <<model_mutex, wpc, workerVars, delivered, q, done, failed, client, job>>

-----------------------------------------------------------------------------
(* The rest of the world.                                                  *)

ClientGoes(r) ==
  /\ client[r] = "reading" /\ ppc[r] \notin {"idle", "ended"}
  /\ client' = [client EXCEPT ![r] = "gone"]
  /\ UNCHANGED <<model_mutex, wpc, workerVars, ppc, providerVars, q, flags, waiting, job>>

SpuriousWakeup(r) ==
  /\ waiting[r] # {} /\ NotifyOne(r)
  /\ UNCHANGED <<model_mutex, wpc, workerVars, ppc, providerVars, q, flags, client, job>>

(* do_transcribe and the other handlers: lock, one call of the backend,    *)
(* unlock, answer.                                                         *)
JobLocks(j) ==
  /\ job[j] = "lock" /\ model_mutex = Nobody
  /\ model_mutex' = j /\ job' = [job EXCEPT ![j] = "run"]
  /\ UNCHANGED <<wpc, workerVars, ppc, providerVars, q, flags, waiting, client>>

JobAnswers(j) ==
  /\ job[j] = "run"
  /\ model_mutex' = Nobody /\ job' = [job EXCEPT ![j] = "answered"]
  /\ UNCHANGED <<wpc, workerVars, ppc, providerVars, q, flags, waiting, client>>

-----------------------------------------------------------------------------
Synthesis(r) ==
  Disclaimer(r) \/ StartSentence(r) \/ SynthChunk(r) \/ SynthEnds(r) \/ EnqueueGap(r)
Enqueue(r) == EnqueueWaits(r) \/ EnqueueRefused(r) \/ EnqueuePush(r) \/ WakeConsumer(r)
Ending(r)  == LeaveLoop(r) \/ SynthThrows(r) \/ Catch(r) \/ Finish(r) \/ NotifyDone(r)
Worker(r)  == AcquireModel(r) \/ Synthesis(r) \/ Enqueue(r) \/ Ending(r)

Provider(r) ==
  \/ SocketWritable(r) \/ SocketNotWritable(r)
  \/ TakeWaits(r) \/ TakeChunk(r) \/ SinkDone(r)
  \/ WakeWorker(r) \/ WriteChunk(r) \/ WriteFails(r)

Job(j) == JobLocks(j) \/ JobAnswers(j)

Next ==
  \/ \E r \in Requests :
       Post(r) \/ Worker(r) \/ Provider(r) \/ ClientGoes(r) \/ SpuriousWakeup(r)
  \/ \E j \in Jobs : Job(j)

(* Threads that can run do run, and synthesis is bounded (MaxChunks).  Each *)
(* thread locks the mutex once, so its contenders run out.                 *)
Fairness ==
  /\ \A r \in Requests : WF_vars(Worker(r)) /\ WF_vars(Provider(r))
  /\ \A j \in Jobs : WF_vars(Job(j))

Spec == Init /\ [][Next]_vars /\ Fairness

-----------------------------------------------------------------------------
(* Properties.                                                             *)

Working == {"disclaimer", "next", "synth", "gap", "enqueue", "notify"}

(* The values of the variables: the one type invariant of the module. *)
ThreadsTypeOK ==
  /\ model_mutex \in Requests \cup Jobs \cup {Nobody}
  /\ wpc \in [Requests -> Working \cup
                          {"idle", "lock", "catch", "finish", "notifydone", "exited"}]
  /\ after \in [Requests -> {"next", "synth", "gap"}]
  /\ sentence \in [Requests -> Nat] /\ emitted \in [Requests -> Nat]
  /\ ppc \in [Requests -> {"idle", "check", "take", "notify", "write",
                           "ended", "aborted", "cancelled"}]
  /\ job \in [Jobs -> {"lock", "run", "answered"}]

QueueTypeOK ==
  /\ made \in [Requests -> Nat]
  /\ q \in [Requests -> Seq(Nat)] /\ inflight \in [Requests -> Seq(Nat)]
  /\ delivered \in [Requests -> Seq(Nat)]
  /\ done \in [Requests -> BOOLEAN] /\ failed \in [Requests -> BOOLEAN]
  /\ cancelled \in [Requests -> BOOLEAN]
  /\ waiting \in [Requests -> SUBSET Threads]
  /\ client \in [Requests -> {"reading", "gone"}]

TypeOK == ThreadsTypeOK /\ QueueTypeOK

(* Exactly the thread that is between its lock and its unlock holds the    *)
(* model mutex: no two calls of the backend overlap, and no exception or   *)
(* early exit leaves the mutex locked.                                     *)
ModelHeldByWorkers ==
  /\ \A r \in Requests : model_mutex = r <=> wpc[r] \in Working
  /\ \A j \in Jobs : model_mutex = j <=> job[j] = "run"

(* "wake the consumer", "release the worker's backpressure wait": a thread *)
(* that sleeps although it could go on is about to be notified.            *)
NoLostWakeup ==
  \A r \in Requests :
    /\ "worker" \in waiting[r] /\ MayEnqueue(r) => ppc[r] = "notify"
    /\ "provider" \in waiting[r] /\ (q[r] # <<>> \/ StreamOver(r)) =>
         wpc[r] \in {"notify", "notifydone"}

(* The audio the client hears is what was synthesised, in order, with no   *)
(* chunk missing before the last one delivered, repeated or reordered; at  *)
(* most MaxQueue chunks wait.                                              *)
Consecutive(s, k) == \A i \in DOMAIN s : s[i] = k + i
InOrder(r) ==
  /\ Len(q[r]) <= MaxQueue
  /\ Consecutive(delivered[r], 0)
  /\ ~cancelled[r] =>
       /\ Consecutive(inflight[r], Len(delivered[r]))
       /\ Consecutive(q[r], Len(delivered[r]) + Len(inflight[r]))
       /\ Len(delivered[r]) + Len(inflight[r]) + Len(q[r]) = made[r]
AudioInOrder == \A r \in Requests : InOrder(r)

(* A response that is ended as complete carries the whole text, unless the *)
(* synthesis failed.                                                       *)
CompleteWhenEnded ==
  \A r \in Requests :
    ppc[r] = "ended" /\ ~failed[r] =>
      sentence[r] = Sentences /\ Len(delivered[r]) = made[r]

(* The reply, as its client knows it, is that of SpeechReply: all that was *)
(* made and no more than that, in order; completed when the synthesis is   *)
(* over and all of it was heard, broken off only when the client has left; *)
(* and the synthesis ends before the text does only if it fails, or if the *)
(* reply was broken off first.                                             *)
Over(r) ==
  CASE ~done[r]                   -> "not"
    [] done[r] /\ failed[r]       -> "failed"
    [] done[r] /\ ~failed[r]      -> IF sentence[r] = Sentences THEN "whole" ELSE "cut"
ReplyOf(r) ==
  CASE ppc[r] = "ended"                     -> "complete"
    [] ppc[r] \in {"aborted", "cancelled"}  -> "broken"
    [] OTHER                                -> "open"
Reply == INSTANCE SpeechReply WITH
  spoken <- sentence,
  heard  <- delivered,
  over   <- [r \in Requests |-> Over(r)],
  reply  <- [r \in Requests |-> ReplyOf(r)]
RepliesAreKept == Reply!Spec

(* httplib left its loop without a word to the worker, which waits for     *)
(* room in a queue that nobody empties any more.                           *)
WorkerStranded(r) == ppc[r] = "aborted" /\ wpc[r] = "enqueue" /\ ~MayEnqueue(r)
Stranded == \E r \in Requests : WorkerStranded(r)

(* Every request is answered, unless a worker is stranded: the end of the  *)
(* worker, an exception included, ends the response, and waiting threads   *)
(* and the mutex never stop each other.                                    *)
Answered(r) == ppc[r] \in {"ended", "aborted", "cancelled"}
EveryoneAnswered ==
  /\ \A r \in Requests : ppc[r] # "idle" ~> Answered(r) \/ Stranded
  /\ \A j \in Jobs : <>(job[j] = "answered" \/ Stranded)

(* A thread that neither sleeps on the queue nor wants a mutex that is taken *)
(* nor has come to its end.                                                *)
WorkerCanGo(r) ==
  \/ wpc[r] \notin {"idle", "lock", "enqueue", "exited"}
  \/ InEnqueue(r)
  \/ wpc[r] = "lock" /\ model_mutex = Nobody
ProviderCanGo(r) == ppc[r] \in {"check", "notify", "write"} \/ InTake(r)
CanGo(r)         == WorkerCanGo(r) \/ ProviderCanGo(r)

(* The holder of the model mutex will come to release it, or is stranded.  *)
HolderCanGo ==
  \/ \E r \in Requests : model_mutex = r /\ (CanGo(r) \/ WorkerStranded(r))
  \/ \E j \in Jobs : model_mutex = j /\ job[j] = "run"

(* Backpressure under the model mutex and one condition variable for two   *)
(* threads do not deadlock: as long as a request is not answered, one of   *)
(* its own threads can go on, or its worker queues for the mutex behind a  *)
(* request that can go on.  (That they then do is EveryoneAnswered.)       *)
NoDeadlock ==
  /\ \A r \in Requests : ppc[r] # "idle" /\ ~Answered(r) =>
       CanGo(r) \/ (wpc[r] = "lock" /\ HolderCanGo)
  /\ \A j \in Jobs : job[j] = "lock" => model_mutex = Nobody \/ HolderCanGo

(* A write that fails stops the worker, also when it sleeps on a full queue. *)
CancelStopsWorker == \A r \in Requests : cancelled[r] ~> wpc[r] = "exited"

(* "The worker stops enqueuing so a detached synth does not keep growing   *)
(* the queue / holding model_mutex for audio nobody is reading."           *)
NoSynthForNobody ==
  \A r \in Requests : client[r] = "gone" /\ model_mutex = r ~> model_mutex # r
=============================================================================
