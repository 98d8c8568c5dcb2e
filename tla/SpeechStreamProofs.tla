------------------------- MODULE SpeechStreamProofs -------------------------
(***************************************************************************)
(* Proofs about SpeechStream for any number of requests and jobs, any text *)
(* and any queue depth.  IInv adds to the properties what makes them       *)
(* inductive: where a thread is when it sleeps, holds a chunk or has       *)
(* raised a flag of the queue.                                             *)
(***************************************************************************)
EXTENDS SpeechStream, SequenceTheorems, TLAPS

(* The worker starts with the handler. *)
StartInv == \A r \in Requests : ppc[r] = "idle" <=> wpc[r] = "idle"

(* A sleeping thread is in the one wait it has. *)
SleepInv ==
  \A r \in Requests :
    /\ "worker" \in waiting[r] => wpc[r] = "enqueue"
    /\ "provider" \in waiting[r] => ppc[r] = "take"

(* The provider holds a chunk only between its pop and its write, and      *)
(* cancels in its last step.                                               *)
ProviderInv ==
  \A r \in Requests :
    /\ ppc[r] \notin {"notify", "write"} => inflight[r] = <<>>
    /\ ppc[r] \in {"notify", "write"} => Len(inflight[r]) = 1
    /\ cancelled[r] <=> ppc[r] = "cancelled"

(* The flags follow the end of the worker, and the end of the response     *)
(* follows the flags.                                                      *)
EndInv ==
  \A r \in Requests :
    /\ sentence[r] <= Sentences
    /\ wpc[r] = "synth" \/ (wpc[r] \in {"enqueue", "notify"} /\ after[r] = "synth") =>
         sentence[r] < Sentences
    /\ done[r] <=> wpc[r] \in {"notifydone", "exited"}
    /\ wpc[r] \in {"finish", "notifydone", "exited"} /\ ~failed[r] /\ ~cancelled[r] =>
         sentence[r] = Sentences
    /\ ppc[r] = "ended" => done[r] /\ q[r] = <<>>

IInv ==
  TypeOK /\ ModelHeldByWorkers /\ StartInv /\ SleepInv /\ ProviderInv /\ EndInv
  /\ NoLostWakeup /\ AudioInOrder

USE SpeechAssumption

(* notify_one wakes a thread that sleeps on the queue of r, and no other. *)
LEMMA Notified ==
  ASSUME QueueTypeOK, NEW r \in Requests, NotifyOne(r)
  PROVE  /\ waiting' \in [Requests -> SUBSET Threads]
         /\ \A x \in Requests : waiting'[x] \subseteq waiting[x]
         /\ \A x \in Requests : x # r => waiting'[x] = waiting[x]
         /\ \A t \in Threads : waiting[r] \subseteq {t} => waiting'[r] = {}
<1>1. CASE waiting[r] = {}
  BY <1>1 DEF NotifyOne, QueueTypeOK
<1>2. CASE waiting[r] # {}
  <2>1. PICK t \in waiting[r] : waiting' = [waiting EXCEPT ![r] = @ \ {t}]
    BY <1>2 DEF NotifyOne
  <2> QED
    BY <2>1 DEF QueueTypeOK
<1> QED
  BY <1>1, <1>2

(* One step preserves each part of IInv.  <1>1 is the frame of the part;   *)
(* the other steps are the actions that change something the part reads.   *)
LEMMA ThreadsTypeStep ==
  ASSUME ThreadsTypeOK, Next
  PROVE  ThreadsTypeOK'
<1> USE DEF ThreadsTypeOK, Working
<1>1. CASE UNCHANGED <<model_mutex, wpc, after, sentence, emitted, ppc, job>>
  BY <1>1
<1>2. ASSUME NEW r \in Requests, Post(r) PROVE ThreadsTypeOK'
  BY <1>2 DEF Post, Goto, workerVars, providerVars, flags
<1>3. ASSUME NEW r \in Requests, AcquireModel(r) PROVE ThreadsTypeOK'
  BY <1>3 DEF AcquireModel, Goto, workerVars, providerVars, flags
<1>4. ASSUME NEW r \in Requests, Disclaimer(r) PROVE ThreadsTypeOK'
  BY <1>4 DEF Disclaimer, Goto, workerVars, providerVars, flags
<1>5. ASSUME NEW r \in Requests, StartSentence(r) PROVE ThreadsTypeOK'
  BY <1>5 DEF StartSentence, Goto, workerVars, providerVars, flags
<1>6. ASSUME NEW r \in Requests, SynthChunk(r) PROVE ThreadsTypeOK'
  BY <1>6 DEF SynthChunk, Goto, workerVars, providerVars, flags
<1>7. ASSUME NEW r \in Requests, SynthEnds(r) PROVE ThreadsTypeOK'
  BY <1>7 DEF SynthEnds, Goto, workerVars, providerVars, flags
<1>8. ASSUME NEW r \in Requests, EnqueueGap(r) PROVE ThreadsTypeOK'
  BY <1>8 DEF EnqueueGap, Goto, workerVars, providerVars, flags
<1>9. ASSUME NEW r \in Requests, EnqueueRefused(r) PROVE ThreadsTypeOK'
  BY <1>9 DEF EnqueueRefused, InEnqueue, Goto, workerVars, providerVars, flags
<1>10. ASSUME NEW r \in Requests, EnqueuePush(r) PROVE ThreadsTypeOK'
  BY <1>10 DEF EnqueuePush, InEnqueue, MayEnqueue, HasRoom, Goto, workerVars,
  providerVars, flags
<1>11. ASSUME NEW r \in Requests, WakeConsumer(r) PROVE ThreadsTypeOK'
  BY <1>11 DEF WakeConsumer, Goto, workerVars, providerVars, flags
<1>12. ASSUME NEW r \in Requests, LeaveLoop(r) PROVE ThreadsTypeOK'
  BY <1>12 DEF LeaveLoop, Goto, workerVars, providerVars, flags
<1>13. ASSUME NEW r \in Requests, SynthThrows(r) PROVE ThreadsTypeOK'
  BY <1>13 DEF SynthThrows, Goto, workerVars, providerVars, flags
<1>14. ASSUME NEW r \in Requests, Catch(r) PROVE ThreadsTypeOK'
  BY <1>14 DEF Catch, Goto, workerVars, providerVars, flags
<1>15. ASSUME NEW r \in Requests, Finish(r) PROVE ThreadsTypeOK'
  BY <1>15 DEF Finish, Goto, workerVars, providerVars, flags
<1>16. ASSUME NEW r \in Requests, NotifyDone(r) PROVE ThreadsTypeOK'
  BY <1>16 DEF NotifyDone, Goto, workerVars, providerVars, flags
<1>17. ASSUME NEW r \in Requests, SocketWritable(r) PROVE ThreadsTypeOK'
  BY <1>17 DEF SocketWritable, Goto, workerVars, providerVars, flags
<1>18. ASSUME NEW r \in Requests, SocketNotWritable(r) PROVE ThreadsTypeOK'
  BY <1>18 DEF SocketNotWritable, Goto, workerVars, providerVars, flags
<1>19. ASSUME NEW r \in Requests, TakeChunk(r) PROVE ThreadsTypeOK'
  BY <1>19 DEF TakeChunk, InTake, Goto, workerVars, providerVars, flags
<1>20. ASSUME NEW r \in Requests, SinkDone(r) PROVE ThreadsTypeOK'
  BY <1>20 DEF SinkDone, InTake, StreamOver, Goto, workerVars, providerVars, flags
<1>21. ASSUME NEW r \in Requests, WakeWorker(r) PROVE ThreadsTypeOK'
  BY <1>21 DEF WakeWorker, Goto, workerVars, providerVars, flags
<1>22. ASSUME NEW r \in Requests, WriteChunk(r) PROVE ThreadsTypeOK'
  BY <1>22 DEF WriteChunk, Goto, workerVars, providerVars, flags
<1>23. ASSUME NEW r \in Requests, WriteFails(r) PROVE ThreadsTypeOK'
  BY <1>23 DEF WriteFails, Goto, workerVars, providerVars, flags
<1>24. ASSUME NEW j \in Jobs, Job(j) PROVE ThreadsTypeOK'
  BY <1>24 DEF Job, JobLocks, JobAnswers, workerVars, providerVars, flags
<1> QED
  BY <1>1, <1>2, <1>3, <1>4, <1>5, <1>6, <1>7, <1>8, <1>9, <1>10, <1>11, <1>12, <1>13,
  <1>14, <1>15, <1>16, <1>17, <1>18, <1>19, <1>20, <1>21, <1>22, <1>23, <1>24 DEF Next,
  Worker, Synthesis, Enqueue, Ending, Provider, EnqueueWaits, TakeWaits, ClientGoes,
  SpuriousWakeup, workerVars, providerVars, flags

(* The StreamQueue, the chunks and the client keep their types. *)
LEMMA QueueTypeStep ==
  ASSUME QueueTypeOK, Next
  PROVE  QueueTypeOK'
<1> USE DEF QueueTypeOK, Threads
<1>1. CASE UNCHANGED <<made, q, inflight, delivered, done, failed, cancelled, waiting, client>>
  BY <1>1
<1>2. ASSUME NEW r \in Requests, EnqueueWaits(r) PROVE QueueTypeOK'
  BY <1>2 DEF EnqueueWaits, InEnqueue, Wait, Goto, workerVars, providerVars, flags
<1>3. ASSUME NEW r \in Requests, EnqueuePush(r) PROVE QueueTypeOK'
  BY <1>3 DEF EnqueuePush, InEnqueue, MayEnqueue, HasRoom, Goto, workerVars,
  providerVars, flags
<1>4. ASSUME NEW r \in Requests, WakeConsumer(r) PROVE QueueTypeOK'
  BY <1>4, Notified DEF WakeConsumer, Goto, workerVars, providerVars, flags
<1>5. ASSUME NEW r \in Requests, Catch(r) PROVE QueueTypeOK'
  BY <1>5 DEF Catch, Goto, workerVars, providerVars, flags
<1>6. ASSUME NEW r \in Requests, Finish(r) PROVE QueueTypeOK'
  BY <1>6 DEF Finish, Goto, workerVars, providerVars, flags
<1>7. ASSUME NEW r \in Requests, NotifyDone(r) PROVE QueueTypeOK'
  BY <1>7, Notified DEF NotifyDone, Goto, workerVars, providerVars, flags
<1>8. ASSUME NEW r \in Requests, TakeWaits(r) PROVE QueueTypeOK'
  BY <1>8 DEF TakeWaits, InTake, Wait, StreamOver, Goto, workerVars, providerVars, flags
<1>9. ASSUME NEW r \in Requests, TakeChunk(r) PROVE QueueTypeOK'
  BY <1>9 DEF TakeChunk, InTake, Goto, workerVars, providerVars, flags
<1>10. ASSUME NEW r \in Requests, WakeWorker(r) PROVE QueueTypeOK'
  BY <1>10, Notified DEF WakeWorker, Goto, workerVars, providerVars, flags
<1>11. ASSUME NEW r \in Requests, WriteChunk(r) PROVE QueueTypeOK'
  BY <1>11 DEF WriteChunk, Goto, workerVars, providerVars, flags
<1>12. ASSUME NEW r \in Requests, WriteFails(r) PROVE QueueTypeOK'
  BY <1>12 DEF WriteFails, Goto, workerVars, providerVars, flags
<1>13. ASSUME NEW r \in Requests, ClientGoes(r) PROVE QueueTypeOK'
  BY <1>13 DEF ClientGoes, Goto, workerVars, providerVars, flags
<1>14. ASSUME NEW r \in Requests, SpuriousWakeup(r) PROVE QueueTypeOK'
  BY <1>14, Notified DEF SpuriousWakeup, Goto, workerVars, providerVars, flags
<1> QED
  BY <1>1, <1>2, <1>3, <1>4, <1>5, <1>6, <1>7, <1>8, <1>9, <1>10, <1>11, <1>12, <1>13,
  <1>14 DEF Next, Worker, Synthesis, Enqueue, Ending, Provider, Post, AcquireModel,
  Disclaimer, StartSentence, SynthChunk, SynthEnds, EnqueueGap, EnqueueRefused,
  LeaveLoop, SynthThrows, SocketWritable, SocketNotWritable, SinkDone, Job, JobLocks,
  JobAnswers, workerVars, providerVars, flags

(* The mutex follows the threads: each lock and unlock moves one of them. *)
LEMMA ModelStep ==
  ASSUME ModelHeldByWorkers, ThreadsTypeOK, StartInv, Next
  PROVE  ModelHeldByWorkers'
<1> USE DEF ModelHeldByWorkers, ThreadsTypeOK, StartInv, Working
<1>1. CASE UNCHANGED <<model_mutex, wpc, job>>
  BY <1>1
<1>2. ASSUME NEW r \in Requests, Post(r) PROVE ModelHeldByWorkers'
  BY <1>2 DEF Post, Goto, workerVars, providerVars, flags
<1>3. ASSUME NEW r \in Requests, AcquireModel(r) PROVE ModelHeldByWorkers'
  BY <1>3 DEF AcquireModel, Goto, workerVars, providerVars, flags
<1>4. ASSUME NEW r \in Requests, Disclaimer(r) PROVE ModelHeldByWorkers'
  BY <1>4 DEF Disclaimer, Goto, workerVars, providerVars, flags
<1>5. ASSUME NEW r \in Requests, StartSentence(r) PROVE ModelHeldByWorkers'
  BY <1>5 DEF StartSentence, Goto, workerVars, providerVars, flags
<1>6. ASSUME NEW r \in Requests, SynthChunk(r) PROVE ModelHeldByWorkers'
  BY <1>6 DEF SynthChunk, Goto, workerVars, providerVars, flags
<1>7. ASSUME NEW r \in Requests, SynthEnds(r) PROVE ModelHeldByWorkers'
  BY <1>7 DEF SynthEnds, Goto, workerVars, providerVars, flags
<1>8. ASSUME NEW r \in Requests, EnqueueGap(r) PROVE ModelHeldByWorkers'
  BY <1>8 DEF EnqueueGap, Goto, workerVars, providerVars, flags
<1>9. ASSUME NEW r \in Requests, EnqueueRefused(r) PROVE ModelHeldByWorkers'
  BY <1>9 DEF EnqueueRefused, InEnqueue, Goto, workerVars, providerVars, flags
<1>10. ASSUME NEW r \in Requests, EnqueuePush(r) PROVE ModelHeldByWorkers'
  BY <1>10 DEF EnqueuePush, InEnqueue, MayEnqueue, HasRoom, Goto, workerVars,
  providerVars, flags
<1>11. ASSUME NEW r \in Requests, WakeConsumer(r) PROVE ModelHeldByWorkers'
  BY <1>11 DEF WakeConsumer, Goto, workerVars, providerVars, flags
<1>12. ASSUME NEW r \in Requests, LeaveLoop(r) PROVE ModelHeldByWorkers'
  BY <1>12 DEF LeaveLoop, Goto, workerVars, providerVars, flags
<1>13. ASSUME NEW r \in Requests, SynthThrows(r) PROVE ModelHeldByWorkers'
  BY <1>13 DEF SynthThrows, Goto, workerVars, providerVars, flags
<1>14. ASSUME NEW r \in Requests, Catch(r) PROVE ModelHeldByWorkers'
  BY <1>14 DEF Catch, Goto, workerVars, providerVars, flags
<1>15. ASSUME NEW r \in Requests, Finish(r) PROVE ModelHeldByWorkers'
  BY <1>15 DEF Finish, Goto, workerVars, providerVars, flags
<1>16. ASSUME NEW r \in Requests, NotifyDone(r) PROVE ModelHeldByWorkers'
  BY <1>16 DEF NotifyDone, Goto, workerVars, providerVars, flags
<1>17. ASSUME NEW j \in Jobs, Job(j) PROVE ModelHeldByWorkers'
  BY <1>17 DEF Job, JobLocks, JobAnswers, workerVars, providerVars, flags
<1> QED
  BY <1>1, <1>2, <1>3, <1>4, <1>5, <1>6, <1>7, <1>8, <1>9, <1>10, <1>11, <1>12, <1>13,
  <1>14, <1>15, <1>16, <1>17 DEF Next, Worker, Synthesis, Enqueue, Ending, Provider,
  EnqueueWaits, SocketWritable, SocketNotWritable, TakeWaits, TakeChunk, SinkDone,
  WakeWorker, WriteChunk, WriteFails, ClientGoes, SpuriousWakeup, workerVars,
  providerVars, flags

(* A worker does not start before its handler, nor the handler end early. *)
LEMMA StartStep ==
  ASSUME StartInv, ThreadsTypeOK, Next
  PROVE  StartInv'
<1> USE DEF StartInv, ThreadsTypeOK, Working
<1>1. CASE UNCHANGED <<wpc, ppc>>
  BY <1>1
<1>2. ASSUME NEW r \in Requests, Post(r) PROVE StartInv'
  BY <1>2 DEF Post, Goto, workerVars, providerVars, flags
<1>3. ASSUME NEW r \in Requests, AcquireModel(r) PROVE StartInv'
  BY <1>3 DEF AcquireModel, Goto, workerVars, providerVars, flags
<1>4. ASSUME NEW r \in Requests, Disclaimer(r) PROVE StartInv'
  BY <1>4 DEF Disclaimer, Goto, workerVars, providerVars, flags
<1>5. ASSUME NEW r \in Requests, StartSentence(r) PROVE StartInv'
  BY <1>5 DEF StartSentence, Goto, workerVars, providerVars, flags
<1>6. ASSUME NEW r \in Requests, SynthChunk(r) PROVE StartInv'
  BY <1>6 DEF SynthChunk, Goto, workerVars, providerVars, flags
<1>7. ASSUME NEW r \in Requests, SynthEnds(r) PROVE StartInv'
  BY <1>7 DEF SynthEnds, Goto, workerVars, providerVars, flags
<1>8. ASSUME NEW r \in Requests, EnqueueGap(r) PROVE StartInv'
  BY <1>8 DEF EnqueueGap, Goto, workerVars, providerVars, flags
<1>9. ASSUME NEW r \in Requests, EnqueueRefused(r) PROVE StartInv'
  BY <1>9 DEF EnqueueRefused, InEnqueue, Goto, workerVars, providerVars, flags
<1>10. ASSUME NEW r \in Requests, EnqueuePush(r) PROVE StartInv'
  BY <1>10 DEF EnqueuePush, InEnqueue, MayEnqueue, HasRoom, Goto, workerVars,
  providerVars, flags
<1>11. ASSUME NEW r \in Requests, WakeConsumer(r) PROVE StartInv'
  BY <1>11 DEF WakeConsumer, Goto, workerVars, providerVars, flags
<1>12. ASSUME NEW r \in Requests, LeaveLoop(r) PROVE StartInv'
  BY <1>12 DEF LeaveLoop, Goto, workerVars, providerVars, flags
<1>13. ASSUME NEW r \in Requests, SynthThrows(r) PROVE StartInv'
  BY <1>13 DEF SynthThrows, Goto, workerVars, providerVars, flags
<1>14. ASSUME NEW r \in Requests, Catch(r) PROVE StartInv'
  BY <1>14 DEF Catch, Goto, workerVars, providerVars, flags
<1>15. ASSUME NEW r \in Requests, Finish(r) PROVE StartInv'
  BY <1>15 DEF Finish, Goto, workerVars, providerVars, flags
<1>16. ASSUME NEW r \in Requests, NotifyDone(r) PROVE StartInv'
  BY <1>16 DEF NotifyDone, Goto, workerVars, providerVars, flags
<1>17. ASSUME NEW r \in Requests, SocketWritable(r) PROVE StartInv'
  BY <1>17 DEF SocketWritable, Goto, workerVars, providerVars, flags
<1>18. ASSUME NEW r \in Requests, SocketNotWritable(r) PROVE StartInv'
  BY <1>18 DEF SocketNotWritable, Goto, workerVars, providerVars, flags
<1>19. ASSUME NEW r \in Requests, TakeChunk(r) PROVE StartInv'
  BY <1>19 DEF TakeChunk, InTake, Goto, workerVars, providerVars, flags
<1>20. ASSUME NEW r \in Requests, SinkDone(r) PROVE StartInv'
  BY <1>20 DEF SinkDone, InTake, StreamOver, Goto, workerVars, providerVars, flags
<1>21. ASSUME NEW r \in Requests, WakeWorker(r) PROVE StartInv'
  BY <1>21 DEF WakeWorker, Goto, workerVars, providerVars, flags
<1>22. ASSUME NEW r \in Requests, WriteChunk(r) PROVE StartInv'
  BY <1>22 DEF WriteChunk, Goto, workerVars, providerVars, flags
<1>23. ASSUME NEW r \in Requests, WriteFails(r) PROVE StartInv'
  BY <1>23 DEF WriteFails, Goto, workerVars, providerVars, flags
<1> QED
  BY <1>1, <1>2, <1>3, <1>4, <1>5, <1>6, <1>7, <1>8, <1>9, <1>10, <1>11, <1>12, <1>13,
  <1>14, <1>15, <1>16, <1>17, <1>18, <1>19, <1>20, <1>21, <1>22, <1>23 DEF Next, Worker,
  Synthesis, Enqueue, Ending, Provider, EnqueueWaits, TakeWaits, ClientGoes,
  SpuriousWakeup, Job, JobLocks, JobAnswers, workerVars, providerVars, flags

(* Threads go to sleep only where they wait, and only awake threads go on. *)
LEMMA SleepStep ==
  ASSUME SleepInv, ThreadsTypeOK, QueueTypeOK, StartInv, Next
  PROVE  SleepInv'
<1> USE DEF SleepInv, ThreadsTypeOK, QueueTypeOK, Working
<1>1. CASE UNCHANGED <<waiting, wpc, ppc>>
  BY <1>1
<1>2. ASSUME NEW r \in Requests, Post(r) PROVE SleepInv'
  BY <1>2 DEF Post, StartInv, Goto, workerVars, providerVars, flags
<1>3. ASSUME NEW r \in Requests, AcquireModel(r) PROVE SleepInv'
  BY <1>3 DEF AcquireModel, Goto, workerVars, providerVars, flags
<1>4. ASSUME NEW r \in Requests, Disclaimer(r) PROVE SleepInv'
  BY <1>4 DEF Disclaimer, Goto, workerVars, providerVars, flags
<1>5. ASSUME NEW r \in Requests, StartSentence(r) PROVE SleepInv'
  BY <1>5 DEF StartSentence, Goto, workerVars, providerVars, flags
<1>6. ASSUME NEW r \in Requests, SynthChunk(r) PROVE SleepInv'
  BY <1>6 DEF SynthChunk, Goto, workerVars, providerVars, flags
<1>7. ASSUME NEW r \in Requests, SynthEnds(r) PROVE SleepInv'
  BY <1>7 DEF SynthEnds, Goto, workerVars, providerVars, flags
<1>8. ASSUME NEW r \in Requests, EnqueueGap(r) PROVE SleepInv'
  BY <1>8 DEF EnqueueGap, Goto, workerVars, providerVars, flags
<1>9. ASSUME NEW r \in Requests, EnqueueWaits(r) PROVE SleepInv'
  BY <1>9 DEF EnqueueWaits, InEnqueue, Wait, Goto, workerVars, providerVars, flags
<1>10. ASSUME NEW r \in Requests, EnqueueRefused(r) PROVE SleepInv'
  BY <1>10 DEF EnqueueRefused, InEnqueue, Goto, workerVars, providerVars, flags
<1>11. ASSUME NEW r \in Requests, EnqueuePush(r) PROVE SleepInv'
  BY <1>11 DEF EnqueuePush, InEnqueue, MayEnqueue, HasRoom, Goto, workerVars,
  providerVars, flags
<1>12. ASSUME NEW r \in Requests, WakeConsumer(r) PROVE SleepInv'
  <2>1. /\ waiting' \in [Requests -> SUBSET Threads]
        /\ \A x \in Requests : waiting'[x] \subseteq waiting[x]
    BY <1>12, Notified DEF WakeConsumer
  <2> QED
    BY <1>12, <2>1 DEF WakeConsumer, Goto, workerVars, providerVars, flags
<1>13. ASSUME NEW r \in Requests, LeaveLoop(r) PROVE SleepInv'
  BY <1>13 DEF LeaveLoop, Goto, workerVars, providerVars, flags
<1>14. ASSUME NEW r \in Requests, SynthThrows(r) PROVE SleepInv'
  BY <1>14 DEF SynthThrows, Goto, workerVars, providerVars, flags
<1>15. ASSUME NEW r \in Requests, Catch(r) PROVE SleepInv'
  BY <1>15 DEF Catch, Goto, workerVars, providerVars, flags
<1>16. ASSUME NEW r \in Requests, Finish(r) PROVE SleepInv'
  BY <1>16 DEF Finish, Goto, workerVars, providerVars, flags
<1>17. ASSUME NEW r \in Requests, NotifyDone(r) PROVE SleepInv'
  <2>1. /\ waiting' \in [Requests -> SUBSET Threads]
        /\ \A x \in Requests : waiting'[x] \subseteq waiting[x]
    BY <1>17, Notified DEF NotifyDone
  <2> QED
    BY <1>17, <2>1 DEF NotifyDone, Goto, workerVars, providerVars, flags
<1>18. ASSUME NEW r \in Requests, SocketWritable(r) PROVE SleepInv'
  BY <1>18 DEF SocketWritable, Goto, workerVars, providerVars, flags
<1>19. ASSUME NEW r \in Requests, SocketNotWritable(r) PROVE SleepInv'
  BY <1>19 DEF SocketNotWritable, Goto, workerVars, providerVars, flags
<1>20. ASSUME NEW r \in Requests, TakeWaits(r) PROVE SleepInv'
  BY <1>20 DEF TakeWaits, InTake, Wait, StreamOver, Goto, workerVars, providerVars,
  flags
<1>21. ASSUME NEW r \in Requests, TakeChunk(r) PROVE SleepInv'
  BY <1>21 DEF TakeChunk, InTake, Goto, workerVars, providerVars, flags
<1>22. ASSUME NEW r \in Requests, SinkDone(r) PROVE SleepInv'
  BY <1>22 DEF SinkDone, InTake, StreamOver, Goto, workerVars, providerVars, flags
<1>23. ASSUME NEW r \in Requests, WakeWorker(r) PROVE SleepInv'
  <2>1. /\ waiting' \in [Requests -> SUBSET Threads]
        /\ \A x \in Requests : waiting'[x] \subseteq waiting[x]
    BY <1>23, Notified DEF WakeWorker
  <2> QED
    BY <1>23, <2>1 DEF WakeWorker, Goto, workerVars, providerVars, flags
<1>24. ASSUME NEW r \in Requests, WriteChunk(r) PROVE SleepInv'
  BY <1>24 DEF WriteChunk, Goto, workerVars, providerVars, flags
<1>25. ASSUME NEW r \in Requests, WriteFails(r) PROVE SleepInv'
  BY <1>25 DEF WriteFails, Goto, workerVars, providerVars, flags
<1>26. ASSUME NEW r \in Requests, SpuriousWakeup(r) PROVE SleepInv'
  BY <1>26, Notified DEF SpuriousWakeup, Goto, workerVars, providerVars, flags
<1> QED
  BY <1>1, <1>2, <1>3, <1>4, <1>5, <1>6, <1>7, <1>8, <1>9, <1>10, <1>11, <1>12, <1>13,
  <1>14, <1>15, <1>16, <1>17, <1>18, <1>19, <1>20, <1>21, <1>22, <1>23, <1>24, <1>25,
  <1>26 DEF Next, Worker, Synthesis, Enqueue, Ending, Provider, ClientGoes, Job,
  JobLocks, JobAnswers, workerVars, providerVars, flags

(* A chunk is popped, written and dropped by the same thread. *)
LEMMA ProviderStep ==
  ASSUME ProviderInv, ThreadsTypeOK, QueueTypeOK, Next
  PROVE  ProviderInv'
<1> USE DEF ProviderInv, ThreadsTypeOK, QueueTypeOK
<1>1. CASE UNCHANGED <<ppc, inflight, cancelled>>
  BY <1>1
<1>2. ASSUME NEW r \in Requests, Post(r) PROVE ProviderInv'
  BY <1>2 DEF Post, Goto, workerVars, providerVars, flags
<1>3. ASSUME NEW r \in Requests, SocketWritable(r) PROVE ProviderInv'
  BY <1>3 DEF SocketWritable, Goto, workerVars, providerVars, flags
<1>4. ASSUME NEW r \in Requests, SocketNotWritable(r) PROVE ProviderInv'
  BY <1>4 DEF SocketNotWritable, Goto, workerVars, providerVars, flags
<1>5. ASSUME NEW r \in Requests, TakeChunk(r) PROVE ProviderInv'
  BY <1>5 DEF TakeChunk, InTake, Goto, workerVars, providerVars, flags
<1>6. ASSUME NEW r \in Requests, SinkDone(r) PROVE ProviderInv'
  BY <1>6 DEF SinkDone, InTake, StreamOver, Goto, workerVars, providerVars, flags
<1>7. ASSUME NEW r \in Requests, WakeWorker(r) PROVE ProviderInv'
  BY <1>7 DEF WakeWorker, Goto, workerVars, providerVars, flags
<1>8. ASSUME NEW r \in Requests, WriteChunk(r) PROVE ProviderInv'
  BY <1>8 DEF WriteChunk, Goto, workerVars, providerVars, flags
<1>9. ASSUME NEW r \in Requests, WriteFails(r) PROVE ProviderInv'
  BY <1>9 DEF WriteFails, Goto, workerVars, providerVars, flags
<1> QED
  BY <1>1, <1>2, <1>3, <1>4, <1>5, <1>6, <1>7, <1>8, <1>9 DEF Next, Worker, Synthesis,
  Enqueue, Ending, Provider, AcquireModel, Disclaimer, StartSentence, SynthChunk,
  SynthEnds, EnqueueGap, EnqueueWaits, EnqueueRefused, EnqueuePush, WakeConsumer,
  LeaveLoop, SynthThrows, Catch, Finish, NotifyDone, TakeWaits, ClientGoes,
  SpuriousWakeup, Job, JobLocks, JobAnswers, workerVars, providerVars, flags

(* The loop over the sentences ends, then the worker, then the response. *)
LEMMA EndStep ==
  ASSUME EndInv, ThreadsTypeOK, QueueTypeOK, StartInv, ProviderInv, Next
  PROVE  EndInv'
<1> USE DEF EndInv, ThreadsTypeOK, QueueTypeOK, StartInv, ProviderInv, Working
<1>1. CASE UNCHANGED <<sentence, wpc, after, done, failed, cancelled, ppc, q>>
  BY <1>1
<1>2. ASSUME NEW r \in Requests, Post(r) PROVE EndInv'
  BY <1>2 DEF Post, Goto, workerVars, providerVars, flags
<1>3. ASSUME NEW r \in Requests, AcquireModel(r) PROVE EndInv'
  BY <1>3, SMTT(30) DEF AcquireModel, Goto, workerVars, providerVars, flags
<1>4. ASSUME NEW r \in Requests, Disclaimer(r) PROVE EndInv'
  BY <1>4, SMTT(30) DEF Disclaimer, Goto, workerVars, providerVars, flags
<1>5. ASSUME NEW r \in Requests, StartSentence(r) PROVE EndInv'
  BY <1>5, SMTT(30) DEF StartSentence, Goto, workerVars, providerVars, flags
<1>6. ASSUME NEW r \in Requests, SynthChunk(r) PROVE EndInv'
  BY <1>6, SMTT(30) DEF SynthChunk, Goto, workerVars, providerVars, flags
<1>7. ASSUME NEW r \in Requests, SynthEnds(r) PROVE EndInv'
  BY <1>7, SMTT(30) DEF SynthEnds, Goto, workerVars, providerVars, flags
<1>8. ASSUME NEW r \in Requests, EnqueueGap(r) PROVE EndInv'
  <2> HIDE DEF StartInv, ProviderInv
  <2>1. /\ wpc[r] = "gap" /\ wpc' = [wpc EXCEPT ![r] = "enqueue"]
        /\ after' = [after EXCEPT ![r] = "next"]
        /\ UNCHANGED <<sentence, done, failed, cancelled, ppc, q>>
    BY <1>8 DEF EnqueueGap, Goto, flags
  <2>2. ~done[r]
    BY <2>1
  <2> QED
    BY <2>1, <2>2, SMTT(30)
<1>9. ASSUME NEW r \in Requests, EnqueueRefused(r) PROVE EndInv'
  <2> HIDE DEF StartInv, ProviderInv
  <2>1. /\ wpc[r] = "enqueue" /\ wpc' = [wpc EXCEPT ![r] = after[r]]
        /\ UNCHANGED <<sentence, after, done, failed, cancelled, ppc, q>>
    BY <1>9 DEF EnqueueRefused, InEnqueue, Goto, workerVars, flags
  <2>2. ~done[r]
    BY <2>1
  <2>3. after[r] \in {"next", "synth", "gap"}
    OBVIOUS
  <2>4. \A x \in Requests : wpc'[x] = IF x = r THEN after[r] ELSE wpc[x]
    BY <2>1
  <2> QED
    BY <2>1, <2>2, <2>3, <2>4
<1>10. ASSUME NEW r \in Requests, EnqueuePush(r) PROVE EndInv'
  <2> HIDE DEF StartInv, ProviderInv
  <2>1. /\ wpc[r] = "enqueue" /\ wpc' = [wpc EXCEPT ![r] = "notify"]
        /\ q' = [q EXCEPT ![r] = Append(@, made'[r])]
        /\ UNCHANGED <<sentence, after, done, failed, cancelled, ppc>>
    BY <1>10 DEF EnqueuePush, InEnqueue, Goto, flags
  <2>2. ~done[r] /\ ppc[r] # "ended"
    BY <2>1
  <2>3. \A x \in Requests : x # r => q'[x] = q[x]
    BY <2>1
  <2> SUFFICES ASSUME NEW x \in Requests
               PROVE  EndInv!(x)'
    OBVIOUS
  <2>4. CASE x = r
    <3>1. wpc'[r] = "notify"
      BY <2>1
    <3> QED
      BY <2>1, <2>2, <2>4, <3>1
  <2>5. CASE x # r
    <3>1. wpc'[x] = wpc[x] /\ q'[x] = q[x]
      BY <2>1, <2>3, <2>5
    <3> QED
      BY <2>1, <3>1
  <2> QED
    BY <2>4, <2>5
<1>11. ASSUME NEW r \in Requests, WakeConsumer(r) PROVE EndInv'
  <2> HIDE DEF StartInv, ProviderInv
  <2>1. /\ wpc[r] = "notify" /\ wpc' = [wpc EXCEPT ![r] = after[r]]
        /\ UNCHANGED <<sentence, after, done, failed, cancelled, ppc, q>>
    BY <1>11 DEF WakeConsumer, Goto, workerVars, flags
  <2>2. ~done[r]
    BY <2>1
  <2>3. after[r] \in {"next", "synth", "gap"}
    OBVIOUS
  <2>4. \A x \in Requests : wpc'[x] = IF x = r THEN after[r] ELSE wpc[x]
    BY <2>1
  <2> QED
    BY <2>1, <2>2, <2>3, <2>4
<1>12. ASSUME NEW r \in Requests, LeaveLoop(r) PROVE EndInv'
  BY <1>12, SMTT(30) DEF LeaveLoop, Goto, workerVars, providerVars, flags
<1>13. ASSUME NEW r \in Requests, SynthThrows(r) PROVE EndInv'
  BY <1>13, SMTT(30) DEF SynthThrows, Goto, workerVars, providerVars, flags
<1>14. ASSUME NEW r \in Requests, Catch(r) PROVE EndInv'
  BY <1>14, SMTT(30) DEF Catch, Goto, workerVars, providerVars, flags
<1>15. ASSUME NEW r \in Requests, Finish(r) PROVE EndInv'
  BY <1>15, SMTT(30) DEF Finish, Goto, workerVars, providerVars, flags
<1>16. ASSUME NEW r \in Requests, NotifyDone(r) PROVE EndInv'
  BY <1>16, SMTT(30) DEF NotifyDone, Goto, workerVars, providerVars, flags
<1>17. ASSUME NEW r \in Requests, SocketWritable(r) PROVE EndInv'
  BY <1>17 DEF SocketWritable, Goto, workerVars, providerVars, flags
<1>18. ASSUME NEW r \in Requests, SocketNotWritable(r) PROVE EndInv'
  BY <1>18 DEF SocketNotWritable, Goto, workerVars, providerVars, flags
<1>19. ASSUME NEW r \in Requests, TakeChunk(r) PROVE EndInv'
  BY <1>19, SMTT(30) DEF TakeChunk, InTake, Goto, workerVars, providerVars, flags
<1>20. ASSUME NEW r \in Requests, SinkDone(r) PROVE EndInv'
  BY <1>20, SMTT(30) DEF SinkDone, InTake, StreamOver, Goto, workerVars, providerVars, flags
<1>21. ASSUME NEW r \in Requests, WakeWorker(r) PROVE EndInv'
  BY <1>21 DEF WakeWorker, Goto, workerVars, providerVars, flags
<1>22. ASSUME NEW r \in Requests, WriteChunk(r) PROVE EndInv'
  BY <1>22 DEF WriteChunk, Goto, workerVars, providerVars, flags
<1>23. ASSUME NEW r \in Requests, WriteFails(r) PROVE EndInv'
  BY <1>23 DEF WriteFails, Goto, workerVars, providerVars, flags
<1> QED
  BY <1>1, <1>2, <1>3, <1>4, <1>5, <1>6, <1>7, <1>8, <1>9, <1>10, <1>11, <1>12, <1>13,
  <1>14, <1>15, <1>16, <1>17, <1>18, <1>19, <1>20, <1>21, <1>22, <1>23 DEF Next, Worker,
  Synthesis, Enqueue, Ending, Provider, EnqueueWaits, TakeWaits, ClientGoes,
  SpuriousWakeup, Job, JobLocks, JobAnswers, workerVars, providerVars, flags

(* Whatever makes a wait pointless is followed by the notification due. *)
LEMMA WakeupStep ==
  ASSUME NoLostWakeup, ThreadsTypeOK, QueueTypeOK, StartInv, SleepInv, Next
  PROVE  NoLostWakeup'
<1> USE DEF NoLostWakeup, ThreadsTypeOK, QueueTypeOK, StartInv, SleepInv, MayEnqueue, HasRoom, StreamOver
<1>1. CASE UNCHANGED <<waiting, q, cancelled, done, wpc, ppc>>
  BY <1>1
<1>2. ASSUME NEW r \in Requests, Post(r) PROVE NoLostWakeup'
  BY <1>2 DEF Post, Goto, workerVars, providerVars, flags
<1>3. ASSUME NEW r \in Requests, AcquireModel(r) PROVE NoLostWakeup'
  BY <1>3 DEF AcquireModel, Goto, workerVars, providerVars, flags
<1>4. ASSUME NEW r \in Requests, Disclaimer(r) PROVE NoLostWakeup'
  BY <1>4 DEF Disclaimer, Goto, workerVars, providerVars, flags
<1>5. ASSUME NEW r \in Requests, StartSentence(r) PROVE NoLostWakeup'
  BY <1>5 DEF StartSentence, Goto, workerVars, providerVars, flags
<1>6. ASSUME NEW r \in Requests, SynthChunk(r) PROVE NoLostWakeup'
  BY <1>6 DEF SynthChunk, Goto, workerVars, providerVars, flags
<1>7. ASSUME NEW r \in Requests, SynthEnds(r) PROVE NoLostWakeup'
  BY <1>7 DEF SynthEnds, Goto, workerVars, providerVars, flags
<1>8. ASSUME NEW r \in Requests, EnqueueGap(r) PROVE NoLostWakeup'
  BY <1>8 DEF EnqueueGap, Goto, workerVars, providerVars, flags
<1>9. ASSUME NEW r \in Requests, EnqueueWaits(r) PROVE NoLostWakeup'
  BY <1>9 DEF EnqueueWaits, InEnqueue, Wait, Goto, workerVars, providerVars, flags
<1>10. ASSUME NEW r \in Requests, EnqueueRefused(r) PROVE NoLostWakeup'
  BY <1>10 DEF EnqueueRefused, InEnqueue, Goto, workerVars, providerVars, flags
<1>11. ASSUME NEW r \in Requests, EnqueuePush(r) PROVE NoLostWakeup'
  BY <1>11 DEF EnqueuePush, InEnqueue, Goto, workerVars, providerVars, flags
<1>12. ASSUME NEW r \in Requests, WakeConsumer(r) PROVE NoLostWakeup'
  <2>1. waiting[r] \subseteq {"provider"}
    BY <1>12 DEF WakeConsumer, Threads
  <2>2. /\ waiting' \in [Requests -> SUBSET Threads]
        /\ \A x \in Requests : x # r => waiting'[x] = waiting[x]
        /\ waiting'[r] = {}
    BY <1>12, <2>1, Notified DEF WakeConsumer, Threads
  <2>3. QED
    BY <1>12, <2>2 DEF WakeConsumer, Goto, workerVars, providerVars, flags
<1>13. ASSUME NEW r \in Requests, LeaveLoop(r) PROVE NoLostWakeup'
  BY <1>13 DEF LeaveLoop, Goto, workerVars, providerVars, flags
<1>14. ASSUME NEW r \in Requests, SynthThrows(r) PROVE NoLostWakeup'
  BY <1>14 DEF SynthThrows, Goto, workerVars, providerVars, flags
<1>15. ASSUME NEW r \in Requests, Catch(r) PROVE NoLostWakeup'
  BY <1>15 DEF Catch, Goto, workerVars, providerVars, flags
<1>16. ASSUME NEW r \in Requests, Finish(r) PROVE NoLostWakeup'
  BY <1>16 DEF Finish, Goto, workerVars, providerVars, flags
<1>17. ASSUME NEW r \in Requests, NotifyDone(r) PROVE NoLostWakeup'
  <2>1. waiting[r] \subseteq {"provider"}
    BY <1>17 DEF NotifyDone, Threads
  <2>2. /\ waiting' \in [Requests -> SUBSET Threads]
        /\ \A x \in Requests : x # r => waiting'[x] = waiting[x]
        /\ waiting'[r] = {}
    BY <1>17, <2>1, Notified DEF NotifyDone, Threads
  <2>3. QED
    BY <1>17, <2>2 DEF NotifyDone, Goto, workerVars, providerVars, flags
<1>18. ASSUME NEW r \in Requests, SocketWritable(r) PROVE NoLostWakeup'
  BY <1>18 DEF SocketWritable, Goto, workerVars, providerVars, flags
<1>19. ASSUME NEW r \in Requests, SocketNotWritable(r) PROVE NoLostWakeup'
  BY <1>19 DEF SocketNotWritable, Goto, workerVars, providerVars, flags
<1>20. ASSUME NEW r \in Requests, TakeWaits(r) PROVE NoLostWakeup'
  BY <1>20 DEF TakeWaits, InTake, Wait, Goto, workerVars, providerVars, flags
<1>21. ASSUME NEW r \in Requests, TakeChunk(r) PROVE NoLostWakeup'
  BY <1>21 DEF TakeChunk, InTake, Goto, workerVars, providerVars, flags
<1>22. ASSUME NEW r \in Requests, SinkDone(r) PROVE NoLostWakeup'
  BY <1>22 DEF SinkDone, InTake, Goto, workerVars, providerVars, flags
<1>23. ASSUME NEW r \in Requests, WakeWorker(r) PROVE NoLostWakeup'
  <2>1. waiting[r] \subseteq {"worker"}
    BY <1>23 DEF WakeWorker, Threads
  <2>2. /\ waiting' \in [Requests -> SUBSET Threads]
        /\ \A x \in Requests : x # r => waiting'[x] = waiting[x]
        /\ waiting'[r] = {}
    BY <1>23, <2>1, Notified DEF WakeWorker, Threads
  <2>3. QED
    BY <1>23, <2>2 DEF WakeWorker, Goto, workerVars, providerVars, flags
<1>24. ASSUME NEW r \in Requests, WriteChunk(r) PROVE NoLostWakeup'
  BY <1>24 DEF WriteChunk, Goto, workerVars, providerVars, flags
<1>25. ASSUME NEW r \in Requests, WriteFails(r) PROVE NoLostWakeup'
  BY <1>25 DEF WriteFails, Goto, workerVars, providerVars, flags
<1>26. ASSUME NEW r \in Requests, SpuriousWakeup(r) PROVE NoLostWakeup'
  BY <1>26, Notified DEF SpuriousWakeup, Goto, workerVars, providerVars, flags
<1> QED
  BY <1>1, <1>2, <1>3, <1>4, <1>5, <1>6, <1>7, <1>8, <1>9, <1>10, <1>11, <1>12, <1>13,
  <1>14, <1>15, <1>16, <1>17, <1>18, <1>19, <1>20, <1>21, <1>22, <1>23, <1>24, <1>25,
  <1>26 DEF Next, Worker, Synthesis, Enqueue, Ending, Provider, ClientGoes, Job,
  JobLocks, JobAnswers, workerVars, providerVars, flags

(* What the three operations on chunk sequences do to consecutive numbers. *)
LEMMA AppendConsecutive ==
  ASSUME NEW s \in Seq(Nat), NEW k \in Nat, Consecutive(s, k)
  PROVE  /\ Append(s, k + Len(s) + 1) \in Seq(Nat)
         /\ Len(Append(s, k + Len(s) + 1)) = Len(s) + 1
         /\ Consecutive(Append(s, k + Len(s) + 1), k)
  BY DEF Consecutive

(* Taking the head of a run of chunks leaves the run after it. *)
LEMMA TailConsecutive ==
  ASSUME NEW s \in Seq(Nat), NEW k \in Nat, s # <<>>, Consecutive(s, k)
  PROVE  /\ Len(Tail(s)) = Len(s) - 1 /\ Consecutive(Tail(s), k + 1)
         /\ Len(<<Head(s)>>) = 1 /\ Consecutive(<<Head(s)>>, k)
<1>1. /\ Len(s) \in Nat /\ Len(s) > 0 /\ DOMAIN s = 1 .. Len(s)
      /\ Len(Tail(s)) = Len(s) - 1 /\ DOMAIN Tail(s) = 1 .. Len(s) - 1
      /\ \A i \in 1 .. Len(s) - 1 : Tail(s)[i] = s[i + 1]
  OBVIOUS
<1>2. Consecutive(Tail(s), k + 1)
  <2>1. ASSUME NEW i \in 1 .. Len(s) - 1 PROVE Tail(s)[i] = k + 1 + i
    <3>1. i + 1 \in DOMAIN s /\ Tail(s)[i] = s[i + 1]
      BY <1>1
    <3> QED
      BY <3>1 DEF Consecutive
  <2> QED
    BY <1>1, <2>1 DEF Consecutive
<1>3. Consecutive(<<Head(s)>>, k)
  BY <1>1 DEF Consecutive
<1> QED
  BY <1>1, <1>2, <1>3

(* Two runs of chunks that meet make one. *)
LEMMA ConcatConsecutive ==
  ASSUME NEW s \in Seq(Nat), NEW t \in Seq(Nat),
         Consecutive(s, 0), Consecutive(t, Len(s))
  PROVE  Len(s \o t) = Len(s) + Len(t) /\ Consecutive(s \o t, 0)
  BY DEF Consecutive

(* No chunk is a run of chunks from anywhere. *)
LEMMA EmptyConsecutive == \A k \in Nat : Len(<<>>) = 0 /\ Consecutive(<<>>, k)
  BY DEF Consecutive

(* Push, pop and write move the chunks along, in order. *)
LEMMA AudioStep ==
  ASSUME AudioInOrder, QueueTypeOK, ProviderInv, Next
  PROVE  AudioInOrder'
<1> USE DEF AudioInOrder, QueueTypeOK, ProviderInv
<1>1. CASE UNCHANGED <<delivered, inflight, q, cancelled, made>>
  BY <1>1 DEF InOrder
<1>2. ASSUME NEW r \in Requests, EnqueuePush(r) PROVE AudioInOrder'
  <2>1. /\ ~cancelled[r] /\ Len(q[r]) < MaxQueue
        /\ made' = [made EXCEPT ![r] = @ + 1]
        /\ q' = [q EXCEPT ![r] = Append(@, made[r] + 1)]
        /\ UNCHANGED <<delivered, inflight, cancelled>>
    BY <1>2 DEF EnqueuePush, InEnqueue, MayEnqueue, HasRoom, providerVars, flags
  <2> DEFINE k == Len(delivered[r]) + Len(inflight[r])
  <2>2. k \in Nat /\ Len(q[r]) \in Nat /\ made[r] = k + Len(q[r]) /\ Consecutive(q[r], k)
    BY <2>1, InOrder(r) DEF InOrder
  <2>3. q'[r] = Append(q[r], k + Len(q[r]) + 1)
    BY <2>1, <2>2
  <2>4. Consecutive(q'[r], k) /\ Len(q'[r]) = Len(q[r]) + 1
    BY <2>2, <2>3, AppendConsecutive
  <2>5. InOrder(r)'
    BY <2>1, <2>2, <2>4, InOrder(r) DEF InOrder
  <2>6. ASSUME NEW x \in Requests \ {r} PROVE InOrder(x)'
    BY <2>1, InOrder(x) DEF InOrder
  <2> QED
    BY <2>5, <2>6
<1>3. ASSUME NEW r \in Requests, TakeChunk(r) PROVE AudioInOrder'
  <2>1. /\ q[r] # <<>> /\ ~cancelled[r] /\ inflight[r] = <<>>
        /\ inflight' = [inflight EXCEPT ![r] = <<Head(q[r])>>]
        /\ q' = [q EXCEPT ![r] = Tail(@)]
        /\ UNCHANGED <<delivered, made, cancelled>>
    BY <1>3 DEF TakeChunk, InTake, workerVars, flags, ProviderInv
  <2> DEFINE k == Len(delivered[r])
  <2>2. k \in Nat /\ Len(q[r]) \in Nat /\ made[r] = k + Len(q[r]) /\ Consecutive(q[r], k)
    BY <2>1, InOrder(r) DEF InOrder
  <2>3. /\ Len(q'[r]) = Len(q[r]) - 1 /\ Consecutive(q'[r], k + 1)
        /\ Len(inflight'[r]) = 1 /\ Consecutive(inflight'[r], k)
    BY <2>1, <2>2, TailConsecutive
  <2>4. InOrder(r)'
    BY <2>1, <2>2, <2>3, InOrder(r) DEF InOrder
  <2>5. ASSUME NEW x \in Requests \ {r} PROVE InOrder(x)'
    BY <2>1, InOrder(x) DEF InOrder
  <2> QED
    BY <2>4, <2>5
<1>4. ASSUME NEW r \in Requests, WriteChunk(r) PROVE AudioInOrder'
  <2>1. /\ delivered' = [delivered EXCEPT ![r] = @ \o inflight[r]]
        /\ inflight' = [inflight EXCEPT ![r] = <<>>]
        /\ ~cancelled[r] /\ UNCHANGED <<q, made, cancelled>>
    BY <1>4 DEF WriteChunk, workerVars, flags, ProviderInv
  <2>2. /\ Len(delivered'[r]) = Len(delivered[r]) + Len(inflight[r])
        /\ Consecutive(delivered'[r], 0)
    BY <2>1, ConcatConsecutive, InOrder(r) DEF InOrder
  <2>3. Len(delivered'[r]) \in Nat /\ Len(inflight'[r]) = 0
        /\ Consecutive(inflight'[r], Len(delivered'[r]))
    BY <2>1, <2>2, EmptyConsecutive
  <2>4. InOrder(r)'
    BY <2>1, <2>2, <2>3, InOrder(r) DEF InOrder
  <2>5. ASSUME NEW x \in Requests \ {r} PROVE InOrder(x)'
    BY <2>1, InOrder(x) DEF InOrder
  <2> QED
    BY <2>4, <2>5
<1>5. ASSUME NEW r \in Requests, WriteFails(r) PROVE AudioInOrder'
  BY <1>5 DEF WriteFails, InOrder, workerVars, providerVars, flags
<1> QED
  BY <1>1, <1>2, <1>3, <1>4, <1>5 DEF Next, Worker, Synthesis, Enqueue, Ending,
  Provider, Post, AcquireModel, Disclaimer, StartSentence, SynthChunk, SynthEnds,
  EnqueueGap, EnqueueWaits, EnqueueRefused, WakeConsumer, LeaveLoop, SynthThrows, Catch,
  Finish, NotifyDone, SocketWritable, SocketNotWritable, TakeWaits, SinkDone,
  WakeWorker, ClientGoes, SpuriousWakeup, Job, JobLocks, JobAnswers, workerVars,
  providerVars, flags

-----------------------------------------------------------------------------
(* Before the first request. *)
LEMMA InitInv == ASSUME Init PROVE IInv
<1>1. ThreadsTypeOK /\ ModelHeldByWorkers /\ StartInv
  BY DEF Init, ThreadsTypeOK, ModelHeldByWorkers, Working, StartInv
<1>2. QueueTypeOK /\ SleepInv /\ ProviderInv /\ EndInv /\ NoLostWakeup
  BY DEF Init, QueueTypeOK, SleepInv, ProviderInv, EndInv, NoLostWakeup
<1>3. AudioInOrder
  <2> SUFFICES ASSUME NEW r \in Requests PROVE InOrder(r)
    BY DEF AudioInOrder
  <2>1. /\ q[r] = <<>> /\ delivered[r] = <<>> /\ inflight[r] = <<>> /\ made[r] = 0
        /\ Len(<<>>) = 0 /\ Consecutive(<<>>, 0)
    BY EmptyConsecutive DEF Init
  <2> QED
    BY <2>1 DEF InOrder
<1> QED
  BY <1>1, <1>2, <1>3 DEF IInv, TypeOK

(* A step that changes nothing. *)
LEMMA StutterInv == ASSUME IInv, UNCHANGED vars PROVE IInv'
<1> USE DEF vars, workerVars, providerVars, flags
<1>1. TypeOK' /\ ModelHeldByWorkers' /\ StartInv'
  BY DEF IInv, TypeOK, ThreadsTypeOK, QueueTypeOK, ModelHeldByWorkers, StartInv
<1>2. SleepInv' /\ ProviderInv' /\ EndInv'
  BY DEF IInv, SleepInv, ProviderInv, EndInv
<1>3. NoLostWakeup' /\ AudioInOrder'
  BY DEF IInv, NoLostWakeup, MayEnqueue, HasRoom, StreamOver, AudioInOrder, InOrder
<1> QED
  BY <1>1, <1>2, <1>3 DEF IInv

(* IInv holds in every reachable state. *)
THEOREM SpeechInvariance == Spec => []IInv
<1>1. ASSUME IInv, Next PROVE IInv'
  <2>1. ThreadsTypeOK' /\ QueueTypeOK'
    BY <1>1, ThreadsTypeStep, QueueTypeStep DEF IInv, TypeOK
  <2>2. ModelHeldByWorkers' /\ StartInv' /\ SleepInv'
    BY <1>1, ModelStep, StartStep, SleepStep DEF IInv, TypeOK
  <2>3. ProviderInv' /\ EndInv'
    BY <1>1, ProviderStep, EndStep DEF IInv, TypeOK
  <2>4. NoLostWakeup' /\ AudioInOrder'
    BY <1>1, WakeupStep, AudioStep DEF IInv, TypeOK
  <2> QED
    BY <2>1, <2>2, <2>3, <2>4 DEF IInv, TypeOK
<1> QED
  BY <1>1, InitInv, StutterInv, PTL DEF Spec

(* Every variable keeps its type. *)
THEOREM SpeechTypeCorrect == Spec => []TypeOK
<1>1. IInv => TypeOK
  BY DEF IInv
<1> QED
  BY <1>1, SpeechInvariance, PTL

(* Whoever computes holds the model mutex, and no one else, however its    *)
(* synthesis ends.                                                         *)
THEOREM ModelMutexCorrect == Spec => []ModelHeldByWorkers
<1>1. IInv => ModelHeldByWorkers
  BY DEF IInv
<1> QED
  BY <1>1, SpeechInvariance, PTL

(* One condition variable and notify_one are enough for the two threads of *)
(* a request: no wake-up is ever lost, at any queue depth.                 *)
THEOREM WakeupsCorrect == Spec => []NoLostWakeup
<1>1. IInv => NoLostWakeup
  BY DEF IInv
<1> QED
  BY <1>1, SpeechInvariance, PTL

(* The client hears the chunks in the order of their synthesis, without    *)
(* gaps, and no more than MaxQueue of them wait.                           *)
THEOREM AudioCorrect == Spec => []AudioInOrder
<1>1. IInv => AudioInOrder
  BY DEF IInv
<1> QED
  BY <1>1, SpeechInvariance, PTL

(* A response that ends as complete and did not fail carries all the audio *)
(* of all the sentences.                                                   *)
THEOREM CompleteCorrect == Spec => []CompleteWhenEnded
<1>1. IInv => CompleteWhenEnded
  <2> SUFFICES ASSUME IInv, NEW r \in Requests, ppc[r] = "ended", ~failed[r]
               PROVE  sentence[r] = Sentences /\ Len(delivered[r]) = made[r]
    BY DEF CompleteWhenEnded
  <2>1. /\ done[r] /\ q[r] = <<>> /\ inflight[r] = <<>> /\ ~cancelled[r]
        /\ wpc[r] \in {"notifydone", "exited"}
    BY DEF IInv, TypeOK, ThreadsTypeOK, QueueTypeOK, EndInv, ProviderInv
  <2>2. sentence[r] = Sentences
    BY <2>1 DEF IInv, EndInv
  <2>3. Len(delivered[r]) = made[r]
    BY <2>1, InOrder(r) DEF IInv, TypeOK, QueueTypeOK, AudioInOrder, InOrder
  <2> QED
    BY <2>2, <2>3
<1> QED
  BY <1>1, SpeechInvariance, PTL

(* Who holds the model mutex can go on, or is stranded: a worker that      *)
(* sleeps on its full queue has a provider that is on its way to it.       *)
LEMMA HolderMoves ==
  ASSUME IInv, model_mutex # Nobody
  PROVE  HolderCanGo
<1>1. CASE model_mutex \in Jobs
  BY <1>1 DEF HolderCanGo, IInv, ModelHeldByWorkers
<1>2. CASE model_mutex \in Requests
  <2> DEFINE r == model_mutex
  <2> SUFFICES CanGo(r) \/ WorkerStranded(r)
    BY <1>2 DEF HolderCanGo
  <2>1. wpc[r] \in Working
    BY <1>2 DEF IInv, ModelHeldByWorkers
  <2>2. CASE wpc[r] # "enqueue" \/ "worker" \notin waiting[r]
    BY <2>1, <2>2 DEF CanGo, WorkerCanGo, InEnqueue, Working
  <2>3. CASE wpc[r] = "enqueue" /\ "worker" \in waiting[r]
    <3>1. CASE MayEnqueue(r)
      BY <1>2, <2>3, <3>1 DEF IInv, NoLostWakeup, CanGo, ProviderCanGo
    <3>2. CASE ~MayEnqueue(r)
      <4>1. q[r] # <<>> /\ ~cancelled[r]
        BY <1>2, <3>2 DEF MayEnqueue, HasRoom
      <4>2. "provider" \notin waiting[r]
        BY <1>2, <2>3, <4>1 DEF IInv, NoLostWakeup
      <4>3. ppc[r] \notin {"idle", "ended", "cancelled"}
        BY <1>2, <2>3, <4>1 DEF IInv, StartInv, EndInv, ProviderInv
      <4>4. ppc[r] \in {"check", "take", "notify", "write", "aborted"}
        BY <1>2, <4>3 DEF IInv, TypeOK, ThreadsTypeOK
      <4> QED
        BY <2>3, <3>2, <4>2, <4>4 DEF CanGo, ProviderCanGo, InTake, WorkerStranded
    <3> QED
      BY <3>1, <3>2
  <2> QED
    BY <2>2, <2>3
<1> QED
  BY <1>1, <1>2 DEF IInv, TypeOK, ThreadsTypeOK

(* Backpressure under the mutex does not deadlock, for any queue depth and *)
(* any number of requests: whoever waits waits for somebody who can go on. *)
THEOREM SpeechNoDeadlock == Spec => []NoDeadlock
<1>1. ASSUME IInv, NEW r \in Requests, ppc[r] # "idle", ~Answered(r)
      PROVE  CanGo(r) \/ (wpc[r] = "lock" /\ HolderCanGo)
  <2>1. ppc[r] \in {"check", "take", "notify", "write"}
    BY <1>1 DEF IInv, TypeOK, ThreadsTypeOK, Answered
  <2>2. CASE ppc[r] # "take" \/ "provider" \notin waiting[r]
    BY <2>1, <2>2 DEF CanGo, ProviderCanGo, InTake
  <2>3. CASE ppc[r] = "take" /\ "provider" \in waiting[r]
    <3>1. CASE q[r] # <<>> \/ StreamOver(r)
      BY <1>1, <2>3, <3>1 DEF IInv, NoLostWakeup, CanGo, WorkerCanGo
    <3>2. CASE q[r] = <<>> /\ ~StreamOver(r)
      <4>1. wpc[r] \notin {"idle", "exited"}
        BY <1>1, <3>2 DEF IInv, StartInv, EndInv, StreamOver
      <4>2. CASE wpc[r] = "enqueue"
        <5>1. MayEnqueue(r)
          BY <3>2 DEF MayEnqueue, HasRoom
        <5>2. "worker" \notin waiting[r]
          BY <1>1, <2>3, <5>1 DEF IInv, NoLostWakeup
        <5> QED
          BY <4>2, <5>2 DEF CanGo, WorkerCanGo, InEnqueue
      <4>3. CASE wpc[r] = "lock"
        BY <1>1, <4>3, HolderMoves DEF CanGo, WorkerCanGo
      <4>4. CASE wpc[r] \notin {"enqueue", "lock"}
        BY <4>1, <4>4 DEF CanGo, WorkerCanGo
      <4> QED
        BY <4>2, <4>3, <4>4
    <3> QED
      BY <3>1, <3>2
  <2> QED
    BY <2>2, <2>3
<1>2. IInv => NoDeadlock
  BY <1>1, HolderMoves DEF NoDeadlock
<1> QED
  BY <1>2, SpeechInvariance, PTL

-----------------------------------------------------------------------------
(* SpeechStream implements SpeechReply: each action maps to an action of   *)
(* SpeechReply or to no step.                                              *)

Overs   == [r \in Requests |-> Over(r)]
Replies == [r \in Requests |-> ReplyOf(r)]
OpenAt  == {"idle", "check", "take", "notify", "write"}

(* While the worker is not done, it does not matter what it has done.      *)
LEMMA SameOvers ==
  ASSUME done' = done,
         \A r \in Requests : done[r] => failed'[r] = failed[r] /\ sentence'[r] = sentence[r]
  PROVE  Overs' = Overs
<1>1. ASSUME NEW r \in Requests PROVE Over(r)' = Over(r)
  BY DEF Over
<1> QED
  BY <1>1 DEF Overs

(* Until its last step the HTTP thread leaves the reply open. *)
LEMMA SameReplies ==
  ASSUME NEW r \in Requests, ThreadsTypeOK, ppc[r] \in OpenAt, NEW label \in OpenAt,
         Goto(ppc, r, label)
  PROVE  Replies' = Replies
<1>1. ASSUME NEW x \in Requests PROVE ReplyOf(x)' = ReplyOf(x)
  BY DEF ReplyOf, OpenAt, Goto, ThreadsTypeOK
<1> QED
  BY <1>1 DEF Replies

(* It follows the HTTP thread only. *)
LEMMA SameRepliesAsPpc ==
  ASSUME ppc' = ppc PROVE Replies' = Replies
<1>1. ASSUME NEW r \in Requests PROVE ReplyOf(r)' = ReplyOf(r)
  BY DEF ReplyOf
<1> QED
  BY <1>1 DEF Replies

(* The last step of the HTTP thread of r. *)
LEMMA ReplyCloses ==
  ASSUME NEW r \in Requests, ThreadsTypeOK, ppc[r] \in OpenAt, NEW label, Goto(ppc, r, label),
         NEW end, end = IF label = "ended" THEN "complete" ELSE "broken",
         label \in {"ended", "aborted", "cancelled"}
  PROVE  Replies[r] = "open" /\ Replies' = [Replies EXCEPT ![r] = end]
<1>1. ASSUME NEW x \in Requests PROVE ReplyOf(x)' = IF x = r THEN end ELSE ReplyOf(x)
  BY DEF ReplyOf, Goto, ThreadsTypeOK
<1>2. ReplyOf(r) = "open"
  BY DEF ReplyOf, OpenAt
<1> QED
  BY <1>1, <1>2 DEF Replies

(* The steps a client does not notice. *)
LEMMA UnheardStep ==
  ASSUME Overs' = Overs, Replies' = Replies, UNCHANGED <<sentence, made, delivered, client>>
  PROVE  UNCHANGED Reply!vars
  BY DEF Reply!vars, Overs, Replies

(* Besides the queue, at most one chunk is on its way. *)
LEMMA OneBeyondQueue ==
  \A heard, sent, queued, m, n \in Nat :
    m = heard + sent + queued /\ sent <= 1 /\ queued < n => m - heard <= n
  OBVIOUS

(* A push has room for one chunk more, besides the one on its way out. *)
LEMMA ProduceStep ==
  ASSUME IInv, NEW r \in Requests, EnqueuePush(r)
  PROVE  Reply!Produce(r)
<1>1. /\ wpc[r] = "enqueue" /\ ~cancelled[r] /\ Len(q[r]) < MaxQueue
      /\ made' = [made EXCEPT ![r] = @ + 1]
      /\ UNCHANGED <<sentence, ppc, delivered, done, failed, client>>
  BY DEF EnqueuePush, InEnqueue, MayEnqueue, HasRoom, providerVars, flags
<1>2. Overs' = Overs /\ Replies' = Replies
  BY <1>1, SameOvers, SameRepliesAsPpc
<1>3. ~done[r] /\ Overs[r] = "not"
  BY <1>1 DEF IInv, EndInv, Overs, Over
<1>4. /\ made[r] = Len(delivered[r]) + Len(inflight[r]) + Len(q[r])
      /\ made[r] \in Nat /\ Len(delivered[r]) \in Nat /\ Len(q[r]) \in Nat
  BY <1>1, InOrder(r) DEF IInv, AudioInOrder, InOrder, TypeOK, QueueTypeOK
<1>5. Len(inflight[r]) \in Nat /\ Len(inflight[r]) <= 1
  <2> DEFINE n == Len(inflight[r])
  <2>1. n \in Nat
    BY DEF IInv, TypeOK, QueueTypeOK
  <2>2. inflight[r] = <<>> => n = 0
    BY EmptyConsecutive
  <2>3. n = 1 \/ inflight[r] = <<>>
    BY DEF IInv, ProviderInv
  <2> HIDE DEF n
  <2>4. n <= 1
    BY <2>1, <2>2, <2>3
  <2> QED
    BY <2>1, <2>4 DEF n
<1>6. made[r] - Len(delivered[r]) <= MaxQueue
  <2>1. MaxQueue \in Nat /\ Len(q[r]) < MaxQueue
    BY <1>1 DEF SpeechAssumption
  <2> QED
    BY <1>4, <1>5, <2>1, OneBeyondQueue
<1> QED
  BY <1>1, <1>2, <1>3, <1>6 DEF Reply!Produce, Overs, Replies

(* A sentence completed is one of the text. *)
LEMMA SpeakStep ==
  ASSUME IInv, NEW r \in Requests, SynthEnds(r)
  PROVE  Reply!Speak(r)
<1>1. /\ wpc[r] = "synth" /\ sentence' = [sentence EXCEPT ![r] = @ + 1]
      /\ UNCHANGED <<made, ppc, delivered, done, failed, client>>
  BY DEF SynthEnds, providerVars, flags
<1>2. ~done[r] /\ Overs[r] = "not" /\ sentence[r] < Sentences
  BY <1>1 DEF IInv, EndInv, Overs, Over
<1>3. Overs' = Overs /\ Replies' = Replies
  <2>1. \A x \in Requests : done[x] => sentence'[x] = sentence[x]
    BY <1>1, <1>2
  <2> QED
    BY <1>1, <2>1, SameOvers, SameRepliesAsPpc
<1> QED
  BY <1>1, <1>2, <1>3 DEF Reply!Speak, Overs, Replies

(* Short of the text and without failure, the reply was broken off before. *)
LEMMA EndsStep ==
  ASSUME IInv, NEW r \in Requests, Finish(r)
  PROVE  Reply!Ends(r)
<1>1. /\ wpc[r] = "finish" /\ done' = [done EXCEPT ![r] = TRUE]
      /\ UNCHANGED <<sentence, made, ppc, delivered, failed, client>>
  BY DEF Finish, workerVars, providerVars
<1>2. ~done[r] /\ Overs[r] = "not"
  BY <1>1 DEF IInv, EndInv, Overs, Over
<1>3. Replies' = Replies
  BY <1>1, SameRepliesAsPpc
<1> DEFINE end == IF failed[r] THEN "failed" ELSE IF sentence[r] = Sentences THEN "whole" ELSE "cut"
<1>4. Overs' = [Overs EXCEPT ![r] = end]
  <2>1. ASSUME NEW x \in Requests PROVE Over(x)' = IF x = r THEN end ELSE Over(x)
    BY <1>1 DEF Over, IInv, TypeOK, QueueTypeOK
  <2> QED
    BY <2>1 DEF Overs
<1>5. ~failed[r] /\ sentence[r] # Sentences => Replies[r] = "broken"
  BY <1>1 DEF IInv, EndInv, ProviderInv, Replies, ReplyOf
<1> QED
  BY <1>1, <1>2, <1>3, <1>4, <1>5 DEF Reply!Ends, Overs, Replies

(* A write adds the next chunk. *)
LEMMA HearStep ==
  ASSUME IInv, NEW r \in Requests, WriteChunk(r)
  PROVE  Reply!Hear(r)
<1>1. /\ ppc[r] = "write" /\ ~cancelled[r] /\ Goto(ppc, r, "check")
      /\ delivered' = [delivered EXCEPT ![r] = @ \o inflight[r]]
      /\ UNCHANGED <<sentence, made, done, failed, client>>
  BY DEF WriteChunk, workerVars, flags, IInv, ProviderInv
<1>2. Overs' = Overs
  BY <1>1, SameOvers
<1>3. Replies' = Replies /\ Replies[r] = "open"
  <2>1. Replies' = Replies
    BY <1>1, SameReplies DEF IInv, TypeOK, OpenAt
  <2> QED
    BY <1>1, <2>1 DEF Replies, ReplyOf
<1>4. /\ delivered[r] \in Seq(Nat) /\ inflight[r] \in Seq(Nat) /\ q[r] \in Seq(Nat)
      /\ Len(inflight[r]) = 1 /\ delivered \in [Requests -> Seq(Nat)]
  BY <1>1 DEF IInv, TypeOK, QueueTypeOK, ProviderInv
<1>5. InOrder(r)
  BY DEF IInv, AudioInOrder
<1>6. inflight[r][1] = Len(delivered[r]) + 1 /\ Len(delivered[r]) < made[r]
  <2>1. Consecutive(inflight[r], Len(delivered[r]))
    BY <1>1, <1>5 DEF InOrder
  <2>2. Len(delivered[r]) + Len(inflight[r]) + Len(q[r]) = made[r]
    BY <1>1, <1>5 DEF InOrder
  <2>3. /\ Len(delivered[r]) \in Nat /\ Len(q[r]) \in Nat /\ made[r] \in Nat
        /\ 1 \in DOMAIN inflight[r]
    BY <1>4 DEF IInv, TypeOK, QueueTypeOK
  <2>4. inflight[r][1] = Len(delivered[r]) + 1
    BY <2>1, <2>3 DEF Consecutive
  <2>5. Len(delivered[r]) + 1 + Len(q[r]) = made[r]
    BY <1>4, <2>2
  <2> DEFINE n == Len(delivered[r])
             k == Len(q[r])
  <2> HIDE DEF n, k
  <2>6. n \in Nat /\ k \in Nat /\ n + 1 + k = made[r]
    BY <2>3, <2>5 DEF n, k
  <2>7. n < made[r]
    BY <2>6
  <2> QED
    BY <2>4, <2>7 DEF n
<1>7. delivered[r] \o inflight[r] = Append(delivered[r], Len(delivered[r]) + 1)
  <2> DEFINE x == inflight[r][1]
  <2>1. x \in Nat /\ <<x>> \in Seq(Nat) /\ Len(<<x>>) = Len(inflight[r]) /\ <<x>>[1] = x
    BY <1>4
  <2>2. inflight[r] = <<x>>
    BY <1>4, <2>1, SeqEqual
  <2>3. Append(delivered[r], x) = delivered[r] \o <<x>>
    BY <1>4, <2>1, AppendIsConcat
  <2> QED
    BY <1>6, <2>2, <2>3
<1>8. delivered' = [delivered EXCEPT ![r] = Append(@, Len(@) + 1)]
  BY <1>1, <1>7
<1> QED
  BY <1>1, <1>2, <1>3, <1>6, <1>8 DEF Reply!Hear, Overs, Replies

(* The empty chunk that ends the response comes after everything made. *)
LEMMA CompleteStep ==
  ASSUME IInv, NEW r \in Requests, SinkDone(r)
  PROVE  Reply!Complete(r)
<1>1. /\ ppc[r] = "take" /\ q[r] = <<>> /\ StreamOver(r) /\ Goto(ppc, r, "ended")
      /\ UNCHANGED <<sentence, made, delivered, done, failed, client>>
  BY DEF SinkDone, InTake, workerVars, providerVars, flags
<1>2. ~cancelled[r] /\ done[r] /\ inflight[r] = <<>>
  BY <1>1 DEF IInv, ProviderInv, StreamOver
<1>3. Overs' = Overs /\ Overs[r] # "not"
  <2>1. Overs' = Overs
    BY <1>1, SameOvers
  <2> QED
    BY <1>2, <2>1 DEF Overs, Over, IInv, TypeOK, QueueTypeOK
<1>4. Replies[r] = "open" /\ Replies' = [Replies EXCEPT ![r] = "complete"]
  BY <1>1, ReplyCloses DEF IInv, TypeOK, OpenAt
<1>5. Len(delivered[r]) = made[r]
  BY <1>1, <1>2, InOrder(r) DEF IInv, AudioInOrder, InOrder, TypeOK, QueueTypeOK
<1> QED
  BY <1>1, <1>3, <1>4, <1>5 DEF Reply!Complete, Overs, Replies

(* Only a client that has left makes the HTTP thread give up. *)
LEMMA BreakStep ==
  ASSUME IInv, NEW r \in Requests, SocketNotWritable(r) \/ WriteFails(r)
  PROVE  Reply!Break(r)
<1>1. PICK label \in {"aborted", "cancelled"} :
        /\ ppc[r] \in {"check", "write"} /\ client[r] = "gone" /\ Goto(ppc, r, label)
        /\ UNCHANGED <<sentence, made, delivered, done, failed, client>>
  BY DEF SocketNotWritable, WriteFails, workerVars, providerVars, flags
<1>2. Overs' = Overs
  BY <1>1, SameOvers
<1>3. Replies[r] = "open" /\ Replies' = [Replies EXCEPT ![r] = "broken"]
  BY <1>1, ReplyCloses DEF IInv, TypeOK, OpenAt
<1> QED
  BY <1>1, <1>2, <1>3 DEF Reply!Break, Overs, Replies

(* A client may leave until the response has ended. *)
LEMMA LeaveStep ==
  ASSUME IInv, NEW r \in Requests, ClientGoes(r)
  PROVE  Reply!Leave(r)
<1>1. /\ ppc[r] # "ended" /\ client[r] = "reading"
      /\ client' = [client EXCEPT ![r] = "gone"]
      /\ UNCHANGED <<sentence, made, ppc, delivered, done, failed>>
  BY DEF ClientGoes, workerVars, providerVars, flags
<1>2. Overs' = Overs /\ Replies' = Replies
  BY <1>1, SameOvers, SameRepliesAsPpc
<1>3. Replies[r] # "complete"
  BY <1>1 DEF Replies, ReplyOf
<1> QED
  BY <1>1, <1>2, <1>3 DEF Reply!Leave, Overs, Replies

(* The rest of the worker: the client sees none of it. *)
LEMMA WorkerUnheard ==
  ASSUME IInv, NEW r \in Requests,
         \/ AcquireModel(r) \/ Disclaimer(r) \/ StartSentence(r) \/ SynthChunk(r)
         \/ EnqueueGap(r) \/ EnqueueWaits(r) \/ EnqueueRefused(r) \/ WakeConsumer(r)
         \/ LeaveLoop(r) \/ SynthThrows(r) \/ Catch(r) \/ NotifyDone(r)
  PROVE  UNCHANGED Reply!vars
<1>1. UNCHANGED <<sentence, made, ppc, delivered, done, client>>
  BY DEF AcquireModel, Disclaimer, StartSentence, SynthChunk, EnqueueGap, EnqueueWaits,
  EnqueueRefused, WakeConsumer, LeaveLoop, SynthThrows, Catch, NotifyDone, workerVars,
  providerVars, flags
<1>2. \A x \in Requests : done[x] => failed'[x] = failed[x]
  <2>1. CASE failed' = failed
    BY <2>1
  <2>2. CASE Catch(r)
    <3>1. wpc[r] = "catch" /\ failed' = [failed EXCEPT ![r] = TRUE]
      BY <2>2 DEF Catch
    <3>2. ~done[r]
      BY <3>1 DEF IInv, EndInv
    <3> QED
      BY <3>1, <3>2 DEF IInv, TypeOK, QueueTypeOK
  <2> QED
    BY <2>1, <2>2 DEF AcquireModel, Disclaimer, StartSentence, SynthChunk, EnqueueGap,
    EnqueueWaits, EnqueueRefused, WakeConsumer, LeaveLoop, SynthThrows, NotifyDone, flags
<1> QED
  BY <1>1, <1>2, SameOvers, SameRepliesAsPpc, UnheardStep

(* The rest of the HTTP thread. *)
LEMMA ProviderUnheard ==
  ASSUME IInv, NEW r \in Requests,
         \/ Post(r) \/ SocketWritable(r) \/ TakeWaits(r) \/ TakeChunk(r) \/ WakeWorker(r)
         \/ SpuriousWakeup(r)
  PROVE  UNCHANGED Reply!vars
<1>1. UNCHANGED <<sentence, made, delivered, done, failed, client>>
  BY DEF Post, SocketWritable, TakeWaits, TakeChunk, WakeWorker, SpuriousWakeup,
  workerVars, providerVars, flags
<1>2. \/ ppc' = ppc
      \/ ppc[r] \in OpenAt /\ \E label \in OpenAt : Goto(ppc, r, label)
  BY DEF Post, SocketWritable, TakeWaits, TakeChunk, WakeWorker, SpuriousWakeup, InTake,
  OpenAt
<1>3. Replies' = Replies
  BY <1>2, SameReplies, SameRepliesAsPpc DEF IInv, TypeOK
<1>4. Overs' = Overs
  BY <1>1, SameOvers
<1> QED
  BY <1>1, <1>3, <1>4, UnheardStep

(* Other requests do not touch a reply. *)
LEMMA JobUnheard ==
  ASSUME NEW j \in Jobs, Job(j)
  PROVE  UNCHANGED Reply!vars
<1>1. UNCHANGED <<sentence, made, ppc, delivered, done, failed, client>>
  BY DEF Job, JobLocks, JobAnswers, workerVars, providerVars, flags
<1> QED
  BY <1>1, SameOvers, SameRepliesAsPpc, UnheardStep

(* Before the first request. *)
LEMMA ReplyInit == ASSUME Init PROVE Reply!Init
<1>1. ASSUME NEW r \in Requests PROVE Over(r) = "not" /\ ReplyOf(r) = "open"
  BY DEF Init, Over, ReplyOf
<1> QED
  BY <1>1 DEF Init, Reply!Init

(* Whatever the threads do, the client of a streamed reply gets what       *)
(* SpeechReply promises, for any queue depth and any text.                 *)
THEOREM RepliesCorrect == Spec => RepliesAreKept
<1>1. ASSUME IInv, Next PROVE Reply!Next \/ UNCHANGED Reply!vars
  <2>1. ASSUME NEW r \in Requests, Worker(r) PROVE Reply!Next \/ UNCHANGED Reply!vars
    BY <1>1, <2>1, ProduceStep, SpeakStep, EndsStep, WorkerUnheard
    DEF Worker, Synthesis, Enqueue, Ending, Reply!Next
  <2>2. ASSUME NEW r \in Requests, Provider(r) PROVE Reply!Next \/ UNCHANGED Reply!vars
    BY <1>1, <2>2, HearStep, CompleteStep, BreakStep, ProviderUnheard
    DEF Provider, Reply!Next
  <2>3. ASSUME NEW r \in Requests, Post(r) \/ ClientGoes(r) \/ SpuriousWakeup(r)
        PROVE  Reply!Next \/ UNCHANGED Reply!vars
    BY <1>1, <2>3, LeaveStep, ProviderUnheard DEF Reply!Next
  <2> QED
    BY <1>1, <2>1, <2>2, <2>3, JobUnheard DEF Next
<1>2. ASSUME UNCHANGED vars PROVE UNCHANGED Reply!vars
  <2>1. UNCHANGED <<sentence, made, ppc, delivered, done, failed, client>>
    BY <1>2 DEF vars, workerVars, providerVars, flags
  <2> QED
    BY <2>1, SameOvers, SameRepliesAsPpc, UnheardStep
<1>3. IInv /\ [Next]_vars => [Reply!Next]_(Reply!vars)
  BY <1>1, <1>2
<1> QED
  BY <1>3, ReplyInit, SpeechInvariance, PTL DEF Spec, RepliesAreKept, Reply!Spec
=============================================================================
