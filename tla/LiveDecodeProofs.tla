-------------------------- MODULE LiveDecodeProofs --------------------------
(***************************************************************************)
(* Proofs about LiveDecode for any paddings, prompt, chunk and cache size, *)
(* any number of calls and any number of failures.  IInv adds to the       *)
(* properties where each thread is when it holds a mutex, is idle or       *)
(* decodes, and what the numbers of the decoder are in the middle of a     *)
(* drain.                                                                  *)
(***************************************************************************)
EXTENDS LiveDecode, SequenceTheorems, TLAPS

Threads == {"caller", "worker"}

(* A mutex is held exactly in its critical sections. *)
MutexInv ==
  /\ sched_mutex = "caller" <=> pc.caller \in Encoding /\ call # "flush"
  /\ sched_mutex = "worker" <=> pc.worker \in Draining \cup {"state"}
  /\ decode_state_mutex = "worker" <=> pc.worker \in Draining \cup {"test", "block"}

(* Who decodes, who may be shut down, and which call the caller is in. *)
ThreadInv ==
  /\ ~threaded => pc.worker = "exit"
  /\ threaded => pc.caller \notin Draining
  /\ pc.caller = "poll" => threaded
  /\ pc.worker = "exit" /\ threaded => shutdown_requested
  /\ shutdown_requested => pc.caller \in {"wakeall", "join", "closed"}
  /\ pc.worker \in Draining \cup {"sched", "state"} => ~worker_idle
  /\ pc.caller = "lock" => call # "flush"
  /\ pc.caller \in {"poll", "trim"} => call = "flush"
  /\ call = "flush" /\ pc.caller \in {"notify", "poll", "trim"} \cup Draining => decode_started

(* A drain runs on a started decoder with the audio it saw.  Between two    *)
(* drains the last token has been said, but for the one of the prefill.    *)
DrainInv ==
  /\ seen <= audio_embeds
  /\ \A t \in Threads :
       /\ pc[t] \in {"step", "forward", "failed"} => decode_started
       /\ pc[t] \in {"step", "forward"} => ~decode_finished
       /\ pc[t] = "forward" => decode_logits_committed
  /\ decode_started /\ ~decode_logits_committed /\ (\A t \in Threads : pc[t] # "step") =>
       decode_adapter_pos = PromptLen
  /\ pc.caller \in {"step", "forward"} => seen = audio_embeds
  /\ pc.caller = "drained" /\ call = "flush" =>
       \/ decode_finished
       \/ decode_adapter_pos = audio_embeds /\ decode_logits_committed

(* TokensInOrder in the middle of a forward too. *)
Forwarding == "forward" \in {pc.caller, pc.worker}
OrderInv ==
  \A i \in 1..Len(out_text) :
    /\ out_text[i] <= decode_adapter_pos
    /\ ~decode_logits_committed \/ Forwarding => out_text[i] < decode_adapter_pos
    /\ i < Len(out_text) => out_text[i] < out_text[i + 1]
CountInv ==
  IF decode_started
  THEN Len(out_text) + dropped + Pending
         = decode_adapter_pos - PromptLen + (IF Forwarding THEN 0 ELSE 1)
  ELSE out_text = <<>> /\ dropped = 0 /\ ~decode_finished /\ ~decode_logits_committed

(* A flush that got past the encoder left nothing pending that fits, and   *)
(* past the projection every encoded frame has its embedding.              *)
EncodedInv ==
  /\ call = "flush" /\ pc.caller \in Draining \cup {"project", "prefill", "notify", "poll", "trim"} =>
       mel_pending = 0 \/ fed > EncMax
  /\ call = "flush" /\ pc.caller \in Draining \cup {"prefill", "notify", "poll", "trim"} =>
       audio_embeds = enc_T_so_far

(* The second half of FlushTellsAll. *)
SaidInv ==
  pc.caller = "trim" =>
    /\ \/ decode_finished
       \/ decode_adapter_pos = audio_embeds /\ decode_logits_committed
       \/ threaded /\ audio_embeds = PromptLen
    /\ pc.worker \notin Draining \cup {"sched", "state"}

(* A closed session has no worker. *)
JoinedInv == pc.caller = "closed" => pc.worker = "exit"

IInv ==
  /\ TypeOK /\ MutexInv /\ ThreadInv /\ DrainInv /\ AudioAccounted
  /\ OrderInv /\ CountInv /\ HeardOnce /\ EncodedInv /\ SaidInv /\ JoinedInv

USE LiveDecodeAssumption

(* What get_text hands out and what it keeps. *)
LEMMA Split ==
  ASSUME NEW s \in Seq(Nat), NEW n \in 1..Len(s)
  PROVE  /\ SubSeq(s, 1, n) \in Seq(Nat)
         /\ SubSeq(s, n + 1, Len(s)) \in Seq(Nat)
         /\ SubSeq(s, 1, n) \o SubSeq(s, n + 1, Len(s)) = s
<1>1. /\ \A i \in 1..n : s[i] \in Nat
      /\ \A i \in n + 1..Len(s) : s[i] \in Nat
  BY ElementOfSeq
<1>2. SubSeq(s, 1, n) \in Seq(Nat)
  BY <1>1, SubSeqProperties
<1>3. SubSeq(s, n + 1, Len(s)) \in Seq(Nat)
  BY <1>1, SubSeqProperties
<1>4. SubSeq(s, 1, n) \o SubSeq(s, n + 1, Len(s)) = SubSeq(s, 1, Len(s))
  <2>1. 1 \in 1..Len(s) + 1 /\ n \in 1 - 1..Len(s) /\ Len(s) \in n..Len(s)
    OBVIOUS
  <2> QED
    BY <2>1, ConcatAdjacentSubSeq
<1> QED
  BY <1>2, <1>3, <1>4, SubSeqFull

(* What Say does to the text. *)
LEMMA Said ==
  ASSUME NumbersTypeOK, TextTypeOK, Say(decode_adapter_pos)
  PROVE  /\ out_text' \in Seq(Nat) /\ out_text_unread' \in Seq(Nat)
         /\ Len(out_text') = Len(out_text) + 1
         /\ \A i \in 1..Len(out_text) : out_text'[i] = out_text[i]
         /\ out_text'[Len(out_text) + 1] = decode_adapter_pos
         /\ heard \o out_text_unread' = Append(heard \o out_text_unread, decode_adapter_pos)
<1> USE DEF NumbersTypeOK, TextTypeOK, Say
<1>1. /\ out_text' \in Seq(Nat) /\ out_text_unread' \in Seq(Nat)
      /\ Len(out_text') = Len(out_text) + 1
  OBVIOUS
<1>2. /\ \A i \in 1..Len(out_text) : out_text'[i] = out_text[i]
      /\ out_text'[Len(out_text) + 1] = decode_adapter_pos
  BY AppendProperties
<1>3. heard \o out_text_unread' = Append(heard \o out_text_unread, decode_adapter_pos)
  OBVIOUS
<1> QED
  BY <1>1, <1>2, <1>3

(* Concatenation is associative. *)
LEMMA Associative ==
  ASSUME NEW x \in Seq(Nat), NEW y \in Seq(Nat), NEW z \in Seq(Nat)
  PROVE  (x \o y) \o z = x \o (y \o z)
OBVIOUS

(* Handing out a first part of what is unread loses nothing of it. *)
LEMMA HandedOut ==
  ASSUME NEW h \in Seq(Nat), NEW s \in Seq(Nat), NEW n \in 1..Len(s)
  PROVE  (h \o SubSeq(s, 1, n)) \o SubSeq(s, n + 1, Len(s)) = h \o s
<1> DEFINE a == SubSeq(s, 1, n)
           b == SubSeq(s, n + 1, Len(s))
<1>1. a \in Seq(Nat) /\ b \in Seq(Nat) /\ a \o b = s
  BY Split
<1> HIDE DEF a, b
<1>2. (h \o a) \o b = h \o (a \o b)
  BY <1>1, Associative
<1>3. (h \o a) \o b = h \o s
  BY <1>1, <1>2
<1> QED
  BY <1>3 DEF a, b

(* A step keeps the types of the threads' state. *)
LEMMA ThreadsTypeStep ==
  ASSUME ThreadsTypeOK, Next
  PROVE  ThreadsTypeOK'
<1> USE DEF ThreadsTypeOK, Labels, Encoding, Draining, Goto, mutexes, audio, cursor, decided,
  text, faults
<1>1. CASE UNCHANGED <<threaded, live, call, pc, mutexes, shutdown_requested, worker_idle>>
  BY <1>1
<1>2. ASSUME NEW n \in 1..MaxAudio, Feed(n) PROVE ThreadsTypeOK'
  BY <1>2 DEF Feed
<1>3. ASSUME Flush PROVE ThreadsTypeOK'
  BY <1>3 DEF Flush
<1>4. ASSUME GetText PROVE ThreadsTypeOK'
  BY <1>4 DEF GetText
<1>5. ASSUME SetLiveDecode PROVE ThreadsTypeOK'
  BY <1>5 DEF SetLiveDecode
<1>6. ASSUME Close PROVE ThreadsTypeOK'
  BY <1>6 DEF Close
<1>7. ASSUME LockSched PROVE ThreadsTypeOK'
  BY <1>7 DEF LockSched
<1>8. ASSUME EncodeFeed PROVE ThreadsTypeOK'
  BY <1>8 DEF EncodeFeed, EncoderRuns, Fails, MayFail
<1>9. ASSUME EncodeFlush PROVE ThreadsTypeOK'
  BY <1>9 DEF EncodeFlush, EncoderRuns, Fails, MayFail, Return
<1>10. ASSUME Project PROVE ThreadsTypeOK'
  BY <1>10 DEF Project
<1>11. ASSUME ProjectFails PROVE ThreadsTypeOK'
  BY <1>11 DEF ProjectFails, Fails, MayFail, Return, Unlock
<1>12. ASSUME Prefill PROVE ThreadsTypeOK'
  BY <1>12 DEF Prefill, Unlock
<1>13. ASSUME PrefillFails PROVE ThreadsTypeOK'
  BY <1>13 DEF PrefillFails, Fails, MayFail, Return, Unlock
<1>14. ASSUME NoPrefill PROVE ThreadsTypeOK'
  BY <1>14 DEF NoPrefill, Return, Unlock
<1>15. ASSUME NotifyWorker PROVE ThreadsTypeOK'
  BY <1>15 DEF NotifyWorker, NotifyAndGoto
<1>16. ASSUME DecodeInline PROVE ThreadsTypeOK'
  BY <1>16 DEF DecodeInline, Return
<1>17. ASSUME DrainedInline PROVE ThreadsTypeOK'
  BY <1>17 DEF DrainedInline, Return
<1>18. ASSUME Poll PROVE ThreadsTypeOK'
  BY <1>18 DEF Poll, CaughtUp
<1>19. ASSUME FlushReturns PROVE ThreadsTypeOK'
  BY <1>19 DEF FlushReturns, Return
<1>20. ASSUME RequestShutdown PROVE ThreadsTypeOK'
  BY <1>20 DEF RequestShutdown
<1>21. ASSUME NotifyAll PROVE ThreadsTypeOK'
  BY <1>21 DEF NotifyAll, NotifyAndGoto
<1>22. ASSUME Join PROVE ThreadsTypeOK'
  BY <1>22 DEF Join
<1>23. ASSUME NEW t \in {"caller", "worker"}, DrainBegins(t) PROVE ThreadsTypeOK'
  BY <1>23 DEF DrainBegins
<1>24. ASSUME NEW t \in {"caller", "worker"}, Decide(t) PROVE ThreadsTypeOK'
  BY <1>24 DEF Decide, Say
<1>25. ASSUME NEW t \in {"caller", "worker"}, DrainStops(t) PROVE ThreadsTypeOK'
  BY <1>25 DEF DrainStops
<1>26. ASSUME NEW t \in {"caller", "worker"}, Inject(t) PROVE ThreadsTypeOK'
  BY <1>26 DEF Inject
<1>27. ASSUME NEW t \in {"caller", "worker"}, InjectFails(t) PROVE ThreadsTypeOK'
  BY <1>27 DEF InjectFails, Fails, MayFail
<1>28. ASSUME NEW t \in {"caller", "worker"}, Forward(t) PROVE ThreadsTypeOK'
  BY <1>28 DEF Forward
<1>29. ASSUME NEW t \in {"caller", "worker"}, ForwardFails(t) PROVE ThreadsTypeOK'
  BY <1>29 DEF ForwardFails, Fails, MayFail
<1>30. ASSUME WorkerLoops PROVE ThreadsTypeOK'
  BY <1>30 DEF WorkerLoops
<1>31. ASSUME WorkerIdle PROVE ThreadsTypeOK'
  BY <1>31 DEF WorkerIdle
<1>32. ASSUME WorkerTests PROVE ThreadsTypeOK'
  BY <1>32 DEF WorkerTests, HasWork
<1>33. ASSUME WorkerBlocks PROVE ThreadsTypeOK'
  BY <1>33 DEF WorkerBlocks
<1>34. ASSUME WorkerWakes PROVE ThreadsTypeOK'
  BY <1>34 DEF WorkerWakes
<1>35. ASSUME WorkerLocksSched PROVE ThreadsTypeOK'
  BY <1>35 DEF WorkerLocksSched
<1>36. ASSUME WorkerLocksState PROVE ThreadsTypeOK'
  BY <1>36 DEF WorkerLocksState
<1>37. ASSUME WorkerUnlocks PROVE ThreadsTypeOK'
  BY <1>37 DEF WorkerUnlocks
<1>38. ASSUME SpuriousWakeup PROVE ThreadsTypeOK'
  BY <1>38 DEF SpuriousWakeup
<1> QED
  BY <1>1, <1>2, <1>3, <1>4, <1>5, <1>6, <1>7, <1>8, <1>9, <1>10, <1>11, <1>12, <1>13, <1>14,
    <1>15, <1>16, <1>17, <1>18, <1>19, <1>20, <1>21, <1>22, <1>23, <1>24, <1>25, <1>26, <1>27,
    <1>28, <1>29, <1>30, <1>31, <1>32, <1>33, <1>34, <1>35, <1>36, <1>37, <1>38 DEF Next, Calls,
    Caller, Drain, Worker

(* A step keeps the types of the cursors and the counters. *)
LEMMA NumbersTypeStep ==
  ASSUME NumbersTypeOK, Next
  PROVE  NumbersTypeOK'
<1> USE DEF NumbersTypeOK, Goto, mutexes, audio, cursor, decided, text, faults
<1>1. CASE UNCHANGED <<audio, cursor, decided, seen, decode_counter, faults>>
  BY <1>1
<1>2. ASSUME NEW n \in 1..MaxAudio, Feed(n) PROVE NumbersTypeOK'
  BY <1>2 DEF Feed
<1>3. ASSUME Flush PROVE NumbersTypeOK'
  BY <1>3 DEF Flush
<1>4. ASSUME EncodeFeed PROVE NumbersTypeOK'
  BY <1>4 DEF EncodeFeed, EncoderRuns, Fails, MayFail
<1>5. ASSUME EncodeFlush PROVE NumbersTypeOK'
  BY <1>5 DEF EncodeFlush, EncoderRuns, Fails, MayFail, Return
<1>6. ASSUME Project PROVE NumbersTypeOK'
  BY <1>6 DEF Project
<1>7. ASSUME ProjectFails PROVE NumbersTypeOK'
  BY <1>7 DEF ProjectFails, Fails, MayFail, Return, Unlock
<1>8. ASSUME Prefill PROVE NumbersTypeOK'
  BY <1>8 DEF Prefill, Unlock
<1>9. ASSUME PrefillFails PROVE NumbersTypeOK'
  BY <1>9 DEF PrefillFails, Fails, MayFail, Return, Unlock
<1>10. ASSUME FlushReturns PROVE NumbersTypeOK'
  BY <1>10 DEF FlushReturns, Return
<1>11. ASSUME NEW t \in {"caller", "worker"}, DrainBegins(t) PROVE NumbersTypeOK'
  BY <1>11 DEF DrainBegins
<1>12. ASSUME NEW t \in {"caller", "worker"}, Decide(t) PROVE NumbersTypeOK'
  BY <1>12 DEF Decide, Say
<1>13. ASSUME NEW t \in {"caller", "worker"}, DrainStops(t) PROVE NumbersTypeOK'
  BY <1>13 DEF DrainStops
<1>14. ASSUME NEW t \in {"caller", "worker"}, Inject(t) PROVE NumbersTypeOK'
  BY <1>14 DEF Inject
<1>15. ASSUME NEW t \in {"caller", "worker"}, InjectFails(t) PROVE NumbersTypeOK'
  BY <1>15 DEF InjectFails, Fails, MayFail
<1>16. ASSUME NEW t \in {"caller", "worker"}, Forward(t) PROVE NumbersTypeOK'
  BY <1>16 DEF Forward
<1>17. ASSUME NEW t \in {"caller", "worker"}, ForwardFails(t) PROVE NumbersTypeOK'
  BY <1>17 DEF ForwardFails, Fails, MayFail
<1> QED
  BY <1>1, <1>2, <1>3, <1>4, <1>5, <1>6, <1>7, <1>8, <1>9, <1>10, <1>11, <1>12, <1>13, <1>14,
    <1>15, <1>16, <1>17 DEF Next, Calls, Caller, Drain, Worker, GetText, SetLiveDecode, Close,
    LockSched, NoPrefill, NotifyWorker, DecodeInline, DrainedInline, Poll, RequestShutdown,
    NotifyAll, Join, WorkerLoops, WorkerIdle, WorkerTests, WorkerBlocks, WorkerWakes,
    WorkerLocksSched, WorkerLocksState, WorkerUnlocks, SpuriousWakeup

(* A step keeps the types of the text. *)
LEMMA TextTypeStep ==
  ASSUME NumbersTypeOK, TextTypeOK, Next
  PROVE  TextTypeOK'
<1> USE DEF NumbersTypeOK, TextTypeOK, Goto, mutexes, audio, cursor, decided, text, faults
<1>1. CASE UNCHANGED <<out_text, out_text_unread, heard>>
  BY <1>1
<1>2. ASSUME GetText PROVE TextTypeOK'
  BY <1>2, Split DEF GetText
<1>3. ASSUME NEW t \in {"caller", "worker"}, Decide(t) PROVE TextTypeOK'
  <2>1. CASE Say(decode_adapter_pos) /\ UNCHANGED <<pc, decode_finished>>
    <3>1. out_text' \in Seq(Nat) /\ out_text_unread' \in Seq(Nat)
      BY <2>1, Said
    <3> QED
      BY <1>3, <2>1, <3>1 DEF Decide
  <2>2. CASE UNCHANGED text /\ decode_finished'
    BY <1>3, <2>2 DEF Decide
  <2> QED
    BY <1>3, <2>1, <2>2 DEF Decide
<1> QED
  BY <1>1, <1>2, <1>3 DEF Next, Calls, Caller, Drain, Worker, Feed, Flush, SetLiveDecode, Close,
    LockSched, EncodeFeed, EncodeFlush, Project, ProjectFails, Prefill, PrefillFails, NoPrefill,
    NotifyWorker, DecodeInline, DrainedInline, Poll, FlushReturns, RequestShutdown, NotifyAll,
    Join, DrainBegins, DrainStops, Inject, InjectFails, Forward, ForwardFails, WorkerLoops,
    WorkerIdle, WorkerTests, WorkerBlocks, WorkerWakes, WorkerLocksSched, WorkerLocksState,
    WorkerUnlocks, SpuriousWakeup

(* A step keeps the mutexes: each is held exactly in its stretches. *)
LEMMA MutexStep ==
  ASSUME ThreadsTypeOK, MutexInv, ThreadInv, Next
  PROVE  MutexInv'
<1> USE DEF ThreadsTypeOK, MutexInv, ThreadInv, Encoding, Draining, Goto, mutexes, audio,
  cursor, decided, text, faults
<1>1. CASE UNCHANGED <<call, pc, mutexes>>
  BY <1>1
<1>2. ASSUME NEW n \in 1..MaxAudio, Feed(n) PROVE MutexInv'
  BY <1>2 DEF Feed
<1>3. ASSUME Flush PROVE MutexInv'
  BY <1>3 DEF Flush
<1>4. ASSUME Close PROVE MutexInv'
  BY <1>4 DEF Close
<1>5. ASSUME LockSched PROVE MutexInv'
  BY <1>5 DEF LockSched
<1>6. ASSUME EncodeFeed PROVE MutexInv'
  BY <1>6 DEF EncodeFeed, EncoderRuns, Fails, MayFail
<1>7. ASSUME EncodeFlush PROVE MutexInv'
  BY <1>7 DEF EncodeFlush, EncoderRuns, Fails, MayFail, Return
<1>8. ASSUME Project PROVE MutexInv'
  BY <1>8 DEF Project
<1>9. ASSUME ProjectFails PROVE MutexInv'
  BY <1>9 DEF ProjectFails, Fails, MayFail, Return, Unlock
<1>10. ASSUME Prefill PROVE MutexInv'
  BY <1>10 DEF Prefill, Unlock
<1>11. ASSUME PrefillFails PROVE MutexInv'
  BY <1>11 DEF PrefillFails, Fails, MayFail, Return, Unlock
<1>12. ASSUME NoPrefill PROVE MutexInv'
  BY <1>12 DEF NoPrefill, Return, Unlock
<1>13. ASSUME NotifyWorker PROVE MutexInv'
  BY <1>13 DEF NotifyWorker, NotifyAndGoto
<1>14. ASSUME DecodeInline PROVE MutexInv'
  BY <1>14 DEF DecodeInline, Return
<1>15. ASSUME DrainedInline PROVE MutexInv'
  BY <1>15 DEF DrainedInline, Return
<1>16. ASSUME Poll PROVE MutexInv'
  BY <1>16 DEF Poll, CaughtUp
<1>17. ASSUME FlushReturns PROVE MutexInv'
  BY <1>17 DEF FlushReturns, Return
<1>18. ASSUME RequestShutdown PROVE MutexInv'
  BY <1>18 DEF RequestShutdown
<1>19. ASSUME NotifyAll PROVE MutexInv'
  BY <1>19 DEF NotifyAll, NotifyAndGoto
<1>20. ASSUME Join PROVE MutexInv'
  BY <1>20 DEF Join
<1>21. ASSUME NEW t \in {"caller", "worker"}, DrainBegins(t) PROVE MutexInv'
  BY <1>21 DEF DrainBegins
<1>22. ASSUME NEW t \in {"caller", "worker"}, Decide(t) PROVE MutexInv'
  BY <1>22 DEF Decide, Say
<1>23. ASSUME NEW t \in {"caller", "worker"}, DrainStops(t) PROVE MutexInv'
  BY <1>23 DEF DrainStops
<1>24. ASSUME NEW t \in {"caller", "worker"}, Inject(t) PROVE MutexInv'
  BY <1>24 DEF Inject
<1>25. ASSUME NEW t \in {"caller", "worker"}, InjectFails(t) PROVE MutexInv'
  BY <1>25 DEF InjectFails, Fails, MayFail
<1>26. ASSUME NEW t \in {"caller", "worker"}, Forward(t) PROVE MutexInv'
  BY <1>26 DEF Forward
<1>27. ASSUME NEW t \in {"caller", "worker"}, ForwardFails(t) PROVE MutexInv'
  BY <1>27 DEF ForwardFails, Fails, MayFail
<1>28. ASSUME WorkerLoops PROVE MutexInv'
  BY <1>28 DEF WorkerLoops
<1>29. ASSUME WorkerIdle PROVE MutexInv'
  BY <1>29 DEF WorkerIdle
<1>30. ASSUME WorkerTests PROVE MutexInv'
  BY <1>30 DEF WorkerTests, HasWork
<1>31. ASSUME WorkerBlocks PROVE MutexInv'
  BY <1>31 DEF WorkerBlocks
<1>32. ASSUME WorkerWakes PROVE MutexInv'
  BY <1>32 DEF WorkerWakes
<1>33. ASSUME WorkerLocksSched PROVE MutexInv'
  BY <1>33 DEF WorkerLocksSched
<1>34. ASSUME WorkerLocksState PROVE MutexInv'
  BY <1>34 DEF WorkerLocksState
<1>35. ASSUME WorkerUnlocks PROVE MutexInv'
  BY <1>35 DEF WorkerUnlocks
<1>36. ASSUME SpuriousWakeup PROVE MutexInv'
  BY <1>36 DEF SpuriousWakeup
<1> QED
  BY <1>1, <1>2, <1>3, <1>4, <1>5, <1>6, <1>7, <1>8, <1>9, <1>10, <1>11, <1>12, <1>13, <1>14,
    <1>15, <1>16, <1>17, <1>18, <1>19, <1>20, <1>21, <1>22, <1>23, <1>24, <1>25, <1>26, <1>27,
    <1>28, <1>29, <1>30, <1>31, <1>32, <1>33, <1>34, <1>35, <1>36 DEF Next, Calls, Caller,
    Drain, Worker, GetText, SetLiveDecode

(* A step keeps what the two threads may do at the same time. *)
LEMMA ThreadStep ==
  ASSUME ThreadsTypeOK, MutexInv, ThreadInv, DrainInv, Next
  PROVE  ThreadInv'
<1> USE DEF ThreadsTypeOK, MutexInv, ThreadInv, DrainInv, Threads, Encoding, Draining, Goto,
  mutexes, audio, cursor, decided, text, faults
<1>1. CASE UNCHANGED <<threaded, call, pc, shutdown_requested, worker_idle, decode_started>>
  BY <1>1
<1>2. ASSUME NEW n \in 1..MaxAudio, Feed(n) PROVE ThreadInv'
  BY <1>2 DEF Feed
<1>3. ASSUME Flush PROVE ThreadInv'
  BY <1>3 DEF Flush
<1>4. ASSUME Close PROVE ThreadInv'
  BY <1>4 DEF Close
<1>5. ASSUME LockSched PROVE ThreadInv'
  BY <1>5 DEF LockSched
<1>6. ASSUME EncodeFeed PROVE ThreadInv'
  BY <1>6 DEF EncodeFeed, EncoderRuns, Fails, MayFail
<1>7. ASSUME EncodeFlush PROVE ThreadInv'
  BY <1>7 DEF EncodeFlush, EncoderRuns, Fails, MayFail, Return
<1>8. ASSUME Project PROVE ThreadInv'
  BY <1>8 DEF Project
<1>9. ASSUME ProjectFails PROVE ThreadInv'
  BY <1>9 DEF ProjectFails, Fails, MayFail, Return, Unlock
<1>10. ASSUME Prefill PROVE ThreadInv'
  BY <1>10 DEF Prefill, Unlock
<1>11. ASSUME PrefillFails PROVE ThreadInv'
  BY <1>11 DEF PrefillFails, Fails, MayFail, Return, Unlock
<1>12. ASSUME NoPrefill PROVE ThreadInv'
  BY <1>12 DEF NoPrefill, Return, Unlock
<1>13. ASSUME NotifyWorker PROVE ThreadInv'
  BY <1>13 DEF NotifyWorker, NotifyAndGoto
<1>14. ASSUME DecodeInline PROVE ThreadInv'
  BY <1>14 DEF DecodeInline, Return
<1>15. ASSUME DrainedInline PROVE ThreadInv'
  BY <1>15 DEF DrainedInline, Return
<1>16. ASSUME Poll PROVE ThreadInv'
  BY <1>16 DEF Poll, CaughtUp
<1>17. ASSUME FlushReturns PROVE ThreadInv'
  BY <1>17 DEF FlushReturns, Return
<1>18. ASSUME RequestShutdown PROVE ThreadInv'
  BY <1>18 DEF RequestShutdown
<1>19. ASSUME NotifyAll PROVE ThreadInv'
  BY <1>19 DEF NotifyAll, NotifyAndGoto
<1>20. ASSUME Join PROVE ThreadInv'
  BY <1>20 DEF Join
<1>21. ASSUME NEW t \in {"caller", "worker"}, DrainBegins(t) PROVE ThreadInv'
  BY <1>21 DEF DrainBegins
<1>22. ASSUME NEW t \in {"caller", "worker"}, Decide(t) PROVE ThreadInv'
  BY <1>22 DEF Decide, Say
<1>23. ASSUME NEW t \in {"caller", "worker"}, DrainStops(t) PROVE ThreadInv'
  BY <1>23 DEF DrainStops
<1>24. ASSUME NEW t \in {"caller", "worker"}, Inject(t) PROVE ThreadInv'
  BY <1>24 DEF Inject
<1>25. ASSUME NEW t \in {"caller", "worker"}, InjectFails(t) PROVE ThreadInv'
  BY <1>25 DEF InjectFails, Fails, MayFail
<1>26. ASSUME NEW t \in {"caller", "worker"}, Forward(t) PROVE ThreadInv'
  BY <1>26 DEF Forward
<1>27. ASSUME NEW t \in {"caller", "worker"}, ForwardFails(t) PROVE ThreadInv'
  BY <1>27 DEF ForwardFails, Fails, MayFail
<1>28. ASSUME WorkerLoops PROVE ThreadInv'
  BY <1>28 DEF WorkerLoops
<1>29. ASSUME WorkerIdle PROVE ThreadInv'
  BY <1>29 DEF WorkerIdle
<1>30. ASSUME WorkerTests PROVE ThreadInv'
  BY <1>30 DEF WorkerTests, HasWork
<1>31. ASSUME WorkerBlocks PROVE ThreadInv'
  BY <1>31 DEF WorkerBlocks
<1>32. ASSUME WorkerWakes PROVE ThreadInv'
  BY <1>32 DEF WorkerWakes
<1>33. ASSUME WorkerLocksSched PROVE ThreadInv'
  BY <1>33 DEF WorkerLocksSched
<1>34. ASSUME WorkerLocksState PROVE ThreadInv'
  BY <1>34 DEF WorkerLocksState
<1>35. ASSUME WorkerUnlocks PROVE ThreadInv'
  BY <1>35 DEF WorkerUnlocks
<1>36. ASSUME SpuriousWakeup PROVE ThreadInv'
  BY <1>36 DEF SpuriousWakeup
<1> QED
  BY <1>1, <1>2, <1>3, <1>4, <1>5, <1>6, <1>7, <1>8, <1>9, <1>10, <1>11, <1>12, <1>13, <1>14,
    <1>15, <1>16, <1>17, <1>18, <1>19, <1>20, <1>21, <1>22, <1>23, <1>24, <1>25, <1>26, <1>27,
    <1>28, <1>29, <1>30, <1>31, <1>32, <1>33, <1>34, <1>35, <1>36 DEF Next, Calls, Caller,
    Drain, Worker, GetText, SetLiveDecode

(* A step keeps the account of the audio. *)
LEMMA AudioStep ==
  ASSUME NumbersTypeOK, DrainInv, AudioAccounted, Next
  PROVE  AudioAccounted'
<1> USE DEF NumbersTypeOK, DrainInv, AudioAccounted, Threads, Goto, mutexes, audio, cursor,
  decided, text, faults
<1>1. CASE UNCHANGED <<audio, cursor>>
  BY <1>1
<1>2. ASSUME NEW n \in 1..MaxAudio, Feed(n) PROVE AudioAccounted'
  BY <1>2 DEF Feed
<1>3. ASSUME Flush PROVE AudioAccounted'
  BY <1>3 DEF Flush
<1>4. ASSUME EncodeFeed PROVE AudioAccounted'
  BY <1>4 DEF EncodeFeed, EncoderRuns, Fails, MayFail
<1>5. ASSUME EncodeFlush PROVE AudioAccounted'
  BY <1>5 DEF EncodeFlush, EncoderRuns, Fails, MayFail, Return
<1>6. ASSUME Project PROVE AudioAccounted'
  BY <1>6 DEF Project
<1>7. ASSUME Prefill PROVE AudioAccounted'
  BY <1>7 DEF Prefill, Unlock
<1>8. ASSUME NEW t \in {"caller", "worker"}, Inject(t) PROVE AudioAccounted'
  BY <1>8 DEF Inject
<1> QED
  BY <1>1, <1>2, <1>3, <1>4, <1>5, <1>6, <1>7, <1>8 DEF Next, Calls, Caller, Drain, Worker,
    GetText, SetLiveDecode, Close, LockSched, ProjectFails, PrefillFails, NoPrefill,
    NotifyWorker, DecodeInline, DrainedInline, Poll, FlushReturns, RequestShutdown, NotifyAll,
    Join, DrainBegins, Decide, DrainStops, InjectFails, Forward, ForwardFails, WorkerLoops,
    WorkerIdle, WorkerTests, WorkerBlocks, WorkerWakes, WorkerLocksSched, WorkerLocksState,
    WorkerUnlocks, SpuriousWakeup

(* A step keeps what a drain knows of the decoder. *)
LEMMA DrainStep ==
  ASSUME ThreadsTypeOK, NumbersTypeOK, ThreadInv, AudioAccounted, CountInv, DrainInv, Next
  PROVE  DrainInv'
<1> USE DEF ThreadsTypeOK, NumbersTypeOK, ThreadInv, AudioAccounted, CountInv, DrainInv,
  Threads, Encoding, Draining, Goto, mutexes, audio, cursor, decided, text, faults
<1>1. CASE UNCHANGED <<call, pc, audio, cursor, decided, seen>>
  BY <1>1
<1>2. ASSUME Project PROVE DrainInv'
  BY <1>2 DEF Project
<1>3. ASSUME Prefill PROVE DrainInv'
  BY <1>3 DEF Prefill, Unlock
<1>4. ASSUME NoPrefill PROVE DrainInv'
  BY <1>4 DEF NoPrefill, Return, Unlock
<1>5. ASSUME EncodeFlush PROVE DrainInv'
  BY <1>5 DEF EncodeFlush, EncoderRuns, Fails, MayFail, Return
<1>6. ASSUME ProjectFails PROVE DrainInv'
  BY <1>6 DEF ProjectFails, Fails, MayFail, Return, Unlock
<1>7. ASSUME PrefillFails PROVE DrainInv'
  BY <1>7 DEF PrefillFails, Fails, MayFail, Return, Unlock
<1>8. ASSUME NotifyWorker PROVE DrainInv'
  BY <1>8 DEF NotifyWorker, NotifyAndGoto
<1>9. ASSUME DecodeInline PROVE DrainInv'
  BY <1>9 DEF DecodeInline, Return
<1>10. ASSUME DrainedInline PROVE DrainInv'
  BY <1>10 DEF DrainedInline, Return
<1>11. ASSUME Poll PROVE DrainInv'
  BY <1>11 DEF Poll, CaughtUp
<1>12. ASSUME FlushReturns PROVE DrainInv'
  BY <1>12 DEF FlushReturns, Return
<1>13. ASSUME LockSched PROVE DrainInv'
  BY <1>13 DEF LockSched
<1>14. ASSUME EncodeFeed PROVE DrainInv'
  BY <1>14 DEF EncodeFeed, EncoderRuns, Fails, MayFail
<1>15. ASSUME NEW n \in 1..MaxAudio, Feed(n) PROVE DrainInv'
  BY <1>15 DEF Feed
<1>16. ASSUME Flush PROVE DrainInv'
  BY <1>16 DEF Flush
<1>17. ASSUME Close PROVE DrainInv'
  BY <1>17 DEF Close
<1>18. ASSUME RequestShutdown PROVE DrainInv'
  BY <1>18 DEF RequestShutdown
<1>19. ASSUME NotifyAll PROVE DrainInv'
  BY <1>19 DEF NotifyAll, NotifyAndGoto
<1>20. ASSUME Join PROVE DrainInv'
  BY <1>20 DEF Join
<1>21. ASSUME NEW t \in {"caller", "worker"}, DrainBegins(t) PROVE DrainInv'
  BY <1>21 DEF DrainBegins
<1>22. ASSUME NEW t \in {"caller", "worker"}, Decide(t) PROVE DrainInv'
  BY <1>22 DEF Decide, Say
<1>23. ASSUME NEW t \in {"caller", "worker"}, DrainStops(t) PROVE DrainInv'
  BY <1>23 DEF DrainStops
<1>24. ASSUME NEW t \in {"caller", "worker"}, Inject(t) PROVE DrainInv'
  BY <1>24 DEF Inject
<1>25. ASSUME NEW t \in {"caller", "worker"}, InjectFails(t) PROVE DrainInv'
  BY <1>25 DEF InjectFails, Fails, MayFail
<1>26. ASSUME NEW t \in {"caller", "worker"}, Forward(t) PROVE DrainInv'
  BY <1>26 DEF Forward
<1>27. ASSUME NEW t \in {"caller", "worker"}, ForwardFails(t) PROVE DrainInv'
  BY <1>27 DEF ForwardFails, Fails, MayFail
<1>28. ASSUME WorkerLoops PROVE DrainInv'
  BY <1>28 DEF WorkerLoops
<1>29. ASSUME WorkerIdle PROVE DrainInv'
  BY <1>29 DEF WorkerIdle
<1>30. ASSUME WorkerTests PROVE DrainInv'
  BY <1>30 DEF WorkerTests, HasWork
<1>31. ASSUME WorkerBlocks PROVE DrainInv'
  BY <1>31 DEF WorkerBlocks
<1>32. ASSUME WorkerWakes PROVE DrainInv'
  BY <1>32 DEF WorkerWakes
<1>33. ASSUME WorkerLocksSched PROVE DrainInv'
  BY <1>33 DEF WorkerLocksSched
<1>34. ASSUME WorkerLocksState PROVE DrainInv'
  BY <1>34 DEF WorkerLocksState
<1>35. ASSUME WorkerUnlocks PROVE DrainInv'
  BY <1>35 DEF WorkerUnlocks
<1>36. ASSUME SpuriousWakeup PROVE DrainInv'
  BY <1>36 DEF SpuriousWakeup
<1> QED
  BY <1>1, <1>2, <1>3, <1>4, <1>5, <1>6, <1>7, <1>8, <1>9, <1>10, <1>11, <1>12, <1>13, <1>14,
    <1>15, <1>16, <1>17, <1>18, <1>19, <1>20, <1>21, <1>22, <1>23, <1>24, <1>25, <1>26, <1>27,
    <1>28, <1>29, <1>30, <1>31, <1>32, <1>33, <1>34, <1>35, <1>36 DEF Next, Calls, Caller,
    Drain, Worker, GetText, SetLiveDecode

(* A step keeps the count of the decoded positions. *)
LEMMA CountStep ==
  ASSUME ThreadsTypeOK, NumbersTypeOK, TextTypeOK, ThreadInv, DrainInv, CountInv, Next
  PROVE  CountInv'
<1> USE DEF ThreadsTypeOK, NumbersTypeOK, TextTypeOK, ThreadInv, DrainInv, CountInv, Threads,
  Forwarding, Pending, Draining, Goto, mutexes, audio, cursor, decided, text, faults
<1>1. CASE UNCHANGED <<pc, decode_started, decode_adapter_pos, decided, out_text, dropped>>
  BY <1>1
<1>2. ASSUME Project PROVE CountInv'
  BY <1>2 DEF Project
<1>3. ASSUME Prefill PROVE CountInv'
  BY <1>3 DEF Prefill, Unlock
<1>4. ASSUME NoPrefill PROVE CountInv'
  BY <1>4 DEF NoPrefill, Return, Unlock
<1>5. ASSUME EncodeFlush PROVE CountInv'
  BY <1>5 DEF EncodeFlush, EncoderRuns, Fails, MayFail, Return
<1>6. ASSUME ProjectFails PROVE CountInv'
  BY <1>6 DEF ProjectFails, Fails, MayFail, Return, Unlock
<1>7. ASSUME PrefillFails PROVE CountInv'
  BY <1>7 DEF PrefillFails, Fails, MayFail, Return, Unlock
<1>8. ASSUME NotifyWorker PROVE CountInv'
  BY <1>8 DEF NotifyWorker, NotifyAndGoto
<1>9. ASSUME DecodeInline PROVE CountInv'
  BY <1>9 DEF DecodeInline, Return
<1>10. ASSUME DrainedInline PROVE CountInv'
  BY <1>10 DEF DrainedInline, Return
<1>11. ASSUME Poll PROVE CountInv'
  BY <1>11 DEF Poll, CaughtUp
<1>12. ASSUME FlushReturns PROVE CountInv'
  BY <1>12 DEF FlushReturns, Return
<1>13. ASSUME LockSched PROVE CountInv'
  BY <1>13 DEF LockSched
<1>14. ASSUME EncodeFeed PROVE CountInv'
  BY <1>14 DEF EncodeFeed, EncoderRuns, Fails, MayFail
<1>15. ASSUME NEW n \in 1..MaxAudio, Feed(n) PROVE CountInv'
  BY <1>15 DEF Feed
<1>16. ASSUME Flush PROVE CountInv'
  BY <1>16 DEF Flush
<1>17. ASSUME Close PROVE CountInv'
  BY <1>17 DEF Close
<1>18. ASSUME RequestShutdown PROVE CountInv'
  BY <1>18 DEF RequestShutdown
<1>19. ASSUME NotifyAll PROVE CountInv'
  BY <1>19 DEF NotifyAll, NotifyAndGoto
<1>20. ASSUME Join PROVE CountInv'
  BY <1>20 DEF Join
<1>21. ASSUME NEW t \in {"caller", "worker"}, DrainBegins(t) PROVE CountInv'
  BY <1>21 DEF DrainBegins
<1>22. ASSUME NEW t \in {"caller", "worker"}, Decide(t) PROVE CountInv'
  <2>1. ~Forwarding /\ ~Forwarding' /\ decode_started /\ ~decode_logits_committed /\
    ~decode_finished
    BY <1>22 DEF Decide
  <2>2. Len(out_text) + dropped + 1 = decode_adapter_pos - PromptLen + 1
    BY <2>1
  <2>3. CASE Say(decode_adapter_pos) /\ UNCHANGED <<pc, decode_finished>>
    <3>1. Len(out_text') = Len(out_text) + 1
      BY <2>3, Said
    <3>2. Pending' = 0 /\ UNCHANGED <<dropped, decode_adapter_pos, decode_started>>
      BY <1>22, <2>1, <2>3 DEF Decide
    <3> QED
      BY <2>1, <2>2, <3>1, <3>2, LenProperties
  <2>4. CASE UNCHANGED text /\ decode_finished'
    BY <1>22, <2>1, <2>2, <2>4 DEF Decide
  <2> QED
    BY <1>22, <2>3, <2>4 DEF Decide
<1>23. ASSUME NEW t \in {"caller", "worker"}, DrainStops(t) PROVE CountInv'
  BY <1>23 DEF DrainStops
<1>24. ASSUME NEW t \in {"caller", "worker"}, Inject(t) PROVE CountInv'
  BY <1>24 DEF Inject
<1>25. ASSUME NEW t \in {"caller", "worker"}, InjectFails(t) PROVE CountInv'
  BY <1>25 DEF InjectFails, Fails, MayFail
<1>26. ASSUME NEW t \in {"caller", "worker"}, Forward(t) PROVE CountInv'
  <2>1. ~Forwarding'
    BY <1>26 DEF Forward
  <2>2. Forwarding /\ decode_started /\ decode_logits_committed /\ ~decode_finished
    BY <1>26 DEF Forward
  <2>3. Len(out_text) + dropped = decode_adapter_pos - PromptLen
    BY <2>2, LenProperties
  <2>4. Pending' = 1 /\ UNCHANGED <<out_text, dropped, decode_adapter_pos, decode_started>>
    BY <1>26 DEF Forward
  <2> QED
    BY <2>1, <2>2, <2>3, <2>4, LenProperties
<1>27. ASSUME NEW t \in {"caller", "worker"}, ForwardFails(t) PROVE CountInv'
  <2>1. ~Forwarding'
    BY <1>27 DEF ForwardFails
  <2>2. Forwarding /\ decode_started /\ decode_logits_committed
    BY <1>27 DEF ForwardFails
  <2> QED
    BY <1>27, <2>1, <2>2 DEF ForwardFails, Fails, MayFail
<1>28. ASSUME WorkerLoops PROVE CountInv'
  BY <1>28 DEF WorkerLoops
<1>29. ASSUME WorkerIdle PROVE CountInv'
  BY <1>29 DEF WorkerIdle
<1>30. ASSUME WorkerTests PROVE CountInv'
  BY <1>30 DEF WorkerTests, HasWork
<1>31. ASSUME WorkerBlocks PROVE CountInv'
  BY <1>31 DEF WorkerBlocks
<1>32. ASSUME WorkerWakes PROVE CountInv'
  BY <1>32 DEF WorkerWakes
<1>33. ASSUME WorkerLocksSched PROVE CountInv'
  BY <1>33 DEF WorkerLocksSched
<1>34. ASSUME WorkerLocksState PROVE CountInv'
  BY <1>34 DEF WorkerLocksState
<1>35. ASSUME WorkerUnlocks PROVE CountInv'
  BY <1>35 DEF WorkerUnlocks
<1>36. ASSUME SpuriousWakeup PROVE CountInv'
  BY <1>36 DEF SpuriousWakeup
<1> QED
  BY <1>1, <1>2, <1>3, <1>4, <1>5, <1>6, <1>7, <1>8, <1>9, <1>10, <1>11, <1>12, <1>13, <1>14,
    <1>15, <1>16, <1>17, <1>18, <1>19, <1>20, <1>21, <1>22, <1>23, <1>24, <1>25, <1>26, <1>27,
    <1>28, <1>29, <1>30, <1>31, <1>32, <1>33, <1>34, <1>35, <1>36 DEF Next, Calls, Caller,
    Drain, Worker, GetText, SetLiveDecode

(* A step keeps the order of the tokens. *)
LEMMA OrderStep ==
  ASSUME ThreadsTypeOK, NumbersTypeOK, TextTypeOK, ThreadInv, DrainInv, CountInv, OrderInv, Next
  PROVE  OrderInv'
<1> USE DEF ThreadsTypeOK, NumbersTypeOK, TextTypeOK, ThreadInv, DrainInv, OrderInv, Threads,
  Forwarding, Draining, Goto, mutexes, audio, cursor, decided, text, faults
<1>1. CASE UNCHANGED <<pc, decode_adapter_pos, decided, out_text>>
  BY <1>1
<1>2. ASSUME Project PROVE OrderInv'
  BY <1>2 DEF Project
<1>3. ASSUME Prefill PROVE OrderInv'
  BY <1>3 DEF Prefill, Unlock, CountInv
<1>4. ASSUME NoPrefill PROVE OrderInv'
  BY <1>4 DEF NoPrefill, Return, Unlock
<1>5. ASSUME EncodeFlush PROVE OrderInv'
  BY <1>5 DEF EncodeFlush, EncoderRuns, Fails, MayFail, Return
<1>6. ASSUME ProjectFails PROVE OrderInv'
  BY <1>6 DEF ProjectFails, Fails, MayFail, Return, Unlock
<1>7. ASSUME PrefillFails PROVE OrderInv'
  BY <1>7 DEF PrefillFails, Fails, MayFail, Return, Unlock
<1>8. ASSUME NotifyWorker PROVE OrderInv'
  BY <1>8 DEF NotifyWorker, NotifyAndGoto
<1>9. ASSUME DecodeInline PROVE OrderInv'
  BY <1>9 DEF DecodeInline, Return
<1>10. ASSUME DrainedInline PROVE OrderInv'
  BY <1>10 DEF DrainedInline, Return
<1>11. ASSUME Poll PROVE OrderInv'
  BY <1>11 DEF Poll, CaughtUp
<1>12. ASSUME FlushReturns PROVE OrderInv'
  BY <1>12 DEF FlushReturns, Return
<1>13. ASSUME LockSched PROVE OrderInv'
  BY <1>13 DEF LockSched
<1>14. ASSUME EncodeFeed PROVE OrderInv'
  BY <1>14 DEF EncodeFeed, EncoderRuns, Fails, MayFail
<1>15. ASSUME NEW n \in 1..MaxAudio, Feed(n) PROVE OrderInv'
  BY <1>15 DEF Feed
<1>16. ASSUME Flush PROVE OrderInv'
  BY <1>16 DEF Flush
<1>17. ASSUME Close PROVE OrderInv'
  BY <1>17 DEF Close
<1>18. ASSUME RequestShutdown PROVE OrderInv'
  BY <1>18 DEF RequestShutdown
<1>19. ASSUME NotifyAll PROVE OrderInv'
  BY <1>19 DEF NotifyAll, NotifyAndGoto
<1>20. ASSUME Join PROVE OrderInv'
  BY <1>20 DEF Join
<1>21. ASSUME NEW t \in {"caller", "worker"}, DrainBegins(t) PROVE OrderInv'
  BY <1>21 DEF DrainBegins
<1>22. ASSUME NEW t \in {"caller", "worker"}, Decide(t) PROVE OrderInv'
  <2>1. ~Forwarding' /\ decode_logits_committed' /\ UNCHANGED decode_adapter_pos
    BY <1>22 DEF Decide
  <2>2. \A i \in 1..Len(out_text) : out_text[i] < decode_adapter_pos
    BY <1>22 DEF Decide
  <2>3. CASE Say(decode_adapter_pos) /\ UNCHANGED <<pc, decode_finished>>
    <3>1. /\ Len(out_text') = Len(out_text) + 1 /\ Len(out_text) \in Nat
          /\ \A i \in 1..Len(out_text) : out_text'[i] = out_text[i]
          /\ out_text'[Len(out_text) + 1] = decode_adapter_pos
      BY <2>3, Said, LenProperties
    <3>2. /\ decode_adapter_pos \in Nat /\ out_text \in Seq(Nat)
          /\ \A j \in 1..Len(out_text) :
               j < Len(out_text) => out_text[j] < out_text[j + 1]
      OBVIOUS
    <3>3. \A j \in 1..Len(out_text) : out_text[j] \in Nat
      BY <3>2, ElementOfSeq
    <3> HIDE DEF OrderInv, ThreadsTypeOK, NumbersTypeOK, TextTypeOK, ThreadInv, DrainInv,
                 CountInv
    <3>4. ASSUME NEW i \in 1..Len(out_text')
          PROVE  /\ out_text'[i] <= decode_adapter_pos
                 /\ i < Len(out_text') => out_text'[i] < out_text'[i + 1]
      <4>1. CASE i = Len(out_text) + 1
        BY <2>1, <3>1, <3>2, <4>1
      <4>2. CASE i = Len(out_text)
        <5>1. /\ i \in 1..Len(out_text) /\ i + 1 = Len(out_text) + 1
              /\ Len(out_text') = i + 1
          BY <3>1, <3>4, <4>2
        <5>2. out_text'[i] = out_text[i] /\ out_text'[i + 1] = decode_adapter_pos
          BY <3>1, <5>1
        <5> QED
          BY <2>1, <2>2, <3>2, <3>3, <5>1, <5>2
      <4>3. CASE i < Len(out_text)
        <5>1. i \in 1..Len(out_text) /\ i + 1 \in 1..Len(out_text)
          BY <3>1, <3>4, <4>3
        <5>2. out_text'[i] = out_text[i] /\ out_text'[i + 1] = out_text[i + 1]
          BY <3>1, <5>1
        <5> QED
          BY <2>1, <2>2, <3>2, <3>3, <4>3, <5>1, <5>2
      <4> QED
        BY <3>1, <3>4, <4>1, <4>2, <4>3
    <3> QED
      BY <2>1, <3>4 DEF OrderInv
  <2>4. CASE UNCHANGED text
    BY <1>22, <2>1, <2>2, <2>4 DEF Decide
  <2> QED
    BY <1>22, <2>3, <2>4 DEF Decide
<1>23. ASSUME NEW t \in {"caller", "worker"}, DrainStops(t) PROVE OrderInv'
  BY <1>23 DEF DrainStops
<1>24. ASSUME NEW t \in {"caller", "worker"}, Inject(t) PROVE OrderInv'
  BY <1>24 DEF Inject
<1>25. ASSUME NEW t \in {"caller", "worker"}, InjectFails(t) PROVE OrderInv'
  BY <1>25 DEF InjectFails, Fails, MayFail
<1>26. ASSUME NEW t \in {"caller", "worker"}, Forward(t) PROVE OrderInv'
  BY <1>26 DEF Forward
<1>27. ASSUME NEW t \in {"caller", "worker"}, ForwardFails(t) PROVE OrderInv'
  BY <1>27 DEF ForwardFails, Fails, MayFail
<1>28. ASSUME WorkerLoops PROVE OrderInv'
  BY <1>28 DEF WorkerLoops
<1>29. ASSUME WorkerIdle PROVE OrderInv'
  BY <1>29 DEF WorkerIdle
<1>30. ASSUME WorkerTests PROVE OrderInv'
  BY <1>30 DEF WorkerTests, HasWork
<1>31. ASSUME WorkerBlocks PROVE OrderInv'
  BY <1>31 DEF WorkerBlocks
<1>32. ASSUME WorkerWakes PROVE OrderInv'
  BY <1>32 DEF WorkerWakes
<1>33. ASSUME WorkerLocksSched PROVE OrderInv'
  BY <1>33 DEF WorkerLocksSched
<1>34. ASSUME WorkerLocksState PROVE OrderInv'
  BY <1>34 DEF WorkerLocksState
<1>35. ASSUME WorkerUnlocks PROVE OrderInv'
  BY <1>35 DEF WorkerUnlocks
<1>36. ASSUME SpuriousWakeup PROVE OrderInv'
  BY <1>36 DEF SpuriousWakeup
<1> QED
  BY <1>1, <1>2, <1>3, <1>4, <1>5, <1>6, <1>7, <1>8, <1>9, <1>10, <1>11, <1>12, <1>13, <1>14,
    <1>15, <1>16, <1>17, <1>18, <1>19, <1>20, <1>21, <1>22, <1>23, <1>24, <1>25, <1>26, <1>27,
    <1>28, <1>29, <1>30, <1>31, <1>32, <1>33, <1>34, <1>35, <1>36 DEF Next, Calls, Caller,
    Drain, Worker, GetText, SetLiveDecode

(* A step keeps what was heard and what waits together. *)
LEMMA HeardStep ==
  ASSUME NumbersTypeOK, TextTypeOK, HeardOnce, Next
  PROVE  HeardOnce'
<1> USE DEF NumbersTypeOK, TextTypeOK, HeardOnce, Goto, mutexes, audio, cursor, decided, text,
  faults
<1>1. CASE UNCHANGED <<out_text, out_text_unread, heard>>
  BY <1>1
<1>2. ASSUME GetText PROVE HeardOnce'
  <2>1. PICK n \in 1..Len(out_text_unread) :
           /\ heard' = heard \o SubSeq(out_text_unread, 1, n)
           /\ out_text_unread' = SubSeq(out_text_unread, n + 1, Len(out_text_unread))
    BY <1>2 DEF GetText
  <2>2. heard \o out_text_unread = heard' \o out_text_unread'
    BY <2>1, HandedOut
  <2>3. out_text' = out_text
    BY <1>2 DEF GetText
  <2> QED
    BY <2>2, <2>3
<1>3. ASSUME NEW t \in {"caller", "worker"}, Decide(t) PROVE HeardOnce'
  <2>1. CASE Say(decode_adapter_pos) /\ UNCHANGED <<pc, decode_finished>>
    <3>1. heard \o out_text_unread' = Append(heard \o out_text_unread, decode_adapter_pos)
      BY <2>1, Said
    <3> QED
      BY <1>3, <2>1, <3>1 DEF Decide, Say
  <2>2. CASE UNCHANGED text /\ decode_finished'
    BY <1>3, <2>2 DEF Decide
  <2> QED
    BY <1>3, <2>1, <2>2 DEF Decide
<1> QED
  BY <1>1, <1>2, <1>3 DEF Next, Calls, Caller, Drain, Worker, Feed, Flush, SetLiveDecode, Close,
    LockSched, EncodeFeed, EncodeFlush, Project, ProjectFails, Prefill, PrefillFails, NoPrefill,
    NotifyWorker, DecodeInline, DrainedInline, Poll, FlushReturns, RequestShutdown, NotifyAll,
    Join, DrainBegins, DrainStops, Inject, InjectFails, Forward, ForwardFails, WorkerLoops,
    WorkerIdle, WorkerTests, WorkerBlocks, WorkerWakes, WorkerLocksSched, WorkerLocksState,
    WorkerUnlocks, SpuriousWakeup

(* A step keeps what a flush has waited for when it comes to its end. *)
LEMMA FlushStep ==
  ASSUME ThreadsTypeOK, NumbersTypeOK, MutexInv, ThreadInv, DrainInv, AudioAccounted,
    SaidInv, Next
  PROVE  SaidInv'
<1> USE DEF ThreadsTypeOK, NumbersTypeOK, MutexInv, ThreadInv, DrainInv, AudioAccounted,
  SaidInv, Threads, Draining, Goto, mutexes, audio, cursor, decided, text, faults
<1>1. CASE UNCHANGED <<threaded, pc, audio_embeds, cursor, decided>>
  BY <1>1
<1>2. ASSUME Project PROVE SaidInv'
  BY <1>2 DEF Project
<1>3. ASSUME Prefill PROVE SaidInv'
  BY <1>3 DEF Prefill, Unlock
<1>4. ASSUME NoPrefill PROVE SaidInv'
  BY <1>4 DEF NoPrefill, Return, Unlock
<1>5. ASSUME EncodeFlush PROVE SaidInv'
  BY <1>5 DEF EncodeFlush, EncoderRuns, Fails, MayFail, Return
<1>6. ASSUME ProjectFails PROVE SaidInv'
  BY <1>6 DEF ProjectFails, Fails, MayFail, Return, Unlock
<1>7. ASSUME PrefillFails PROVE SaidInv'
  BY <1>7 DEF PrefillFails, Fails, MayFail, Return, Unlock
<1>8. ASSUME NotifyWorker PROVE SaidInv'
  BY <1>8 DEF NotifyWorker, NotifyAndGoto
<1>9. ASSUME DecodeInline PROVE SaidInv'
  BY <1>9 DEF DecodeInline, Return
<1>10. ASSUME DrainedInline PROVE SaidInv'
  BY <1>10 DEF DrainedInline, Return
<1>11. ASSUME Poll PROVE SaidInv'
  BY <1>11 DEF Poll, CaughtUp
<1>12. ASSUME FlushReturns PROVE SaidInv'
  BY <1>12 DEF FlushReturns, Return
<1>13. ASSUME LockSched PROVE SaidInv'
  BY <1>13 DEF LockSched
<1>14. ASSUME EncodeFeed PROVE SaidInv'
  BY <1>14 DEF EncodeFeed, EncoderRuns, Fails, MayFail
<1>15. ASSUME NEW n \in 1..MaxAudio, Feed(n) PROVE SaidInv'
  BY <1>15 DEF Feed
<1>16. ASSUME Flush PROVE SaidInv'
  BY <1>16 DEF Flush
<1>17. ASSUME Close PROVE SaidInv'
  BY <1>17 DEF Close
<1>18. ASSUME RequestShutdown PROVE SaidInv'
  BY <1>18 DEF RequestShutdown
<1>19. ASSUME NotifyAll PROVE SaidInv'
  BY <1>19 DEF NotifyAll, NotifyAndGoto
<1>20. ASSUME Join PROVE SaidInv'
  BY <1>20 DEF Join
<1>21. ASSUME NEW t \in {"caller", "worker"}, DrainBegins(t) PROVE SaidInv'
  BY <1>21 DEF DrainBegins
<1>22. ASSUME NEW t \in {"caller", "worker"}, Decide(t) PROVE SaidInv'
  BY <1>22 DEF Decide, Say
<1>23. ASSUME NEW t \in {"caller", "worker"}, DrainStops(t) PROVE SaidInv'
  BY <1>23 DEF DrainStops
<1>24. ASSUME NEW t \in {"caller", "worker"}, Inject(t) PROVE SaidInv'
  BY <1>24 DEF Inject
<1>25. ASSUME NEW t \in {"caller", "worker"}, InjectFails(t) PROVE SaidInv'
  BY <1>25 DEF InjectFails, Fails, MayFail
<1>26. ASSUME NEW t \in {"caller", "worker"}, Forward(t) PROVE SaidInv'
  BY <1>26 DEF Forward
<1>27. ASSUME NEW t \in {"caller", "worker"}, ForwardFails(t) PROVE SaidInv'
  BY <1>27 DEF ForwardFails, Fails, MayFail
<1>28. ASSUME WorkerLoops PROVE SaidInv'
  BY <1>28 DEF WorkerLoops
<1>29. ASSUME WorkerIdle PROVE SaidInv'
  BY <1>29 DEF WorkerIdle
<1>30. ASSUME WorkerTests PROVE SaidInv'
  BY <1>30 DEF WorkerTests, HasWork
<1>31. ASSUME WorkerBlocks PROVE SaidInv'
  BY <1>31 DEF WorkerBlocks
<1>32. ASSUME WorkerWakes PROVE SaidInv'
  BY <1>32 DEF WorkerWakes
<1>33. ASSUME WorkerLocksSched PROVE SaidInv'
  BY <1>33 DEF WorkerLocksSched
<1>34. ASSUME WorkerLocksState PROVE SaidInv'
  BY <1>34 DEF WorkerLocksState
<1>35. ASSUME WorkerUnlocks PROVE SaidInv'
  BY <1>35 DEF WorkerUnlocks
<1>36. ASSUME SpuriousWakeup PROVE SaidInv'
  BY <1>36 DEF SpuriousWakeup
<1> QED
  BY <1>1, <1>2, <1>3, <1>4, <1>5, <1>6, <1>7, <1>8, <1>9, <1>10, <1>11, <1>12, <1>13, <1>14,
    <1>15, <1>16, <1>17, <1>18, <1>19, <1>20, <1>21, <1>22, <1>23, <1>24, <1>25, <1>26, <1>27,
    <1>28, <1>29, <1>30, <1>31, <1>32, <1>33, <1>34, <1>35, <1>36 DEF Next, Calls, Caller,
    Drain, Worker, GetText, SetLiveDecode

(* A step keeps what a flush has encoded: while it is under way nothing is *)
(* fed, and only the caller encodes.                                       *)
LEMMA EncodedStep ==
  ASSUME ThreadsTypeOK, NumbersTypeOK, ThreadInv, AudioAccounted, EncodedInv, Next
  PROVE  EncodedInv'
<1> USE DEF ThreadsTypeOK, NumbersTypeOK, ThreadInv, AudioAccounted, EncodedInv, Draining, Goto,
  mutexes, audio, cursor, decided, text, faults
<1>1. CASE UNCHANGED <<call, pc, audio>>
  BY <1>1
<1>2. ASSUME Project PROVE EncodedInv'
  BY <1>2 DEF Project
<1>3. ASSUME Prefill PROVE EncodedInv'
  BY <1>3 DEF Prefill, Unlock
<1>4. ASSUME NoPrefill PROVE EncodedInv'
  BY <1>4 DEF NoPrefill, Return, Unlock
<1>5. ASSUME EncodeFlush PROVE EncodedInv'
  BY <1>5 DEF EncodeFlush, EncoderRuns, Fails, MayFail, Return
<1>6. ASSUME ProjectFails PROVE EncodedInv'
  BY <1>6 DEF ProjectFails, Fails, MayFail, Return, Unlock
<1>7. ASSUME PrefillFails PROVE EncodedInv'
  BY <1>7 DEF PrefillFails, Fails, MayFail, Return, Unlock
<1>8. ASSUME NotifyWorker PROVE EncodedInv'
  BY <1>8 DEF NotifyWorker, NotifyAndGoto
<1>9. ASSUME DecodeInline PROVE EncodedInv'
  BY <1>9 DEF DecodeInline, Return
<1>10. ASSUME DrainedInline PROVE EncodedInv'
  BY <1>10 DEF DrainedInline, Return
<1>11. ASSUME Poll PROVE EncodedInv'
  BY <1>11 DEF Poll, CaughtUp
<1>12. ASSUME FlushReturns PROVE EncodedInv'
  BY <1>12 DEF FlushReturns, Return
<1>13. ASSUME LockSched PROVE EncodedInv'
  BY <1>13 DEF LockSched
<1>14. ASSUME EncodeFeed PROVE EncodedInv'
  BY <1>14 DEF EncodeFeed, EncoderRuns, Fails, MayFail
<1>15. ASSUME NEW n \in 1..MaxAudio, Feed(n) PROVE EncodedInv'
  BY <1>15 DEF Feed
<1>16. ASSUME Flush PROVE EncodedInv'
  BY <1>16 DEF Flush
<1>17. ASSUME Close PROVE EncodedInv'
  BY <1>17 DEF Close
<1>18. ASSUME RequestShutdown PROVE EncodedInv'
  BY <1>18 DEF RequestShutdown
<1>19. ASSUME NotifyAll PROVE EncodedInv'
  BY <1>19 DEF NotifyAll, NotifyAndGoto
<1>20. ASSUME Join PROVE EncodedInv'
  BY <1>20 DEF Join
<1>21. ASSUME NEW t \in {"caller", "worker"}, DrainBegins(t) PROVE EncodedInv'
  BY <1>21 DEF DrainBegins
<1>22. ASSUME NEW t \in {"caller", "worker"}, Decide(t) PROVE EncodedInv'
  BY <1>22 DEF Decide, Say
<1>23. ASSUME NEW t \in {"caller", "worker"}, DrainStops(t) PROVE EncodedInv'
  BY <1>23 DEF DrainStops
<1>24. ASSUME NEW t \in {"caller", "worker"}, Inject(t) PROVE EncodedInv'
  BY <1>24 DEF Inject
<1>25. ASSUME NEW t \in {"caller", "worker"}, InjectFails(t) PROVE EncodedInv'
  BY <1>25 DEF InjectFails, Fails, MayFail
<1>26. ASSUME NEW t \in {"caller", "worker"}, Forward(t) PROVE EncodedInv'
  BY <1>26 DEF Forward
<1>27. ASSUME NEW t \in {"caller", "worker"}, ForwardFails(t) PROVE EncodedInv'
  BY <1>27 DEF ForwardFails, Fails, MayFail
<1>28. ASSUME WorkerLoops PROVE EncodedInv'
  BY <1>28 DEF WorkerLoops
<1>29. ASSUME WorkerIdle PROVE EncodedInv'
  BY <1>29 DEF WorkerIdle
<1>30. ASSUME WorkerTests PROVE EncodedInv'
  BY <1>30 DEF WorkerTests, HasWork
<1>31. ASSUME WorkerBlocks PROVE EncodedInv'
  BY <1>31 DEF WorkerBlocks
<1>32. ASSUME WorkerWakes PROVE EncodedInv'
  BY <1>32 DEF WorkerWakes
<1>33. ASSUME WorkerLocksSched PROVE EncodedInv'
  BY <1>33 DEF WorkerLocksSched
<1>34. ASSUME WorkerLocksState PROVE EncodedInv'
  BY <1>34 DEF WorkerLocksState
<1>35. ASSUME WorkerUnlocks PROVE EncodedInv'
  BY <1>35 DEF WorkerUnlocks
<1>36. ASSUME SpuriousWakeup PROVE EncodedInv'
  BY <1>36 DEF SpuriousWakeup
<1> QED
  BY <1>1, <1>2, <1>3, <1>4, <1>5, <1>6, <1>7, <1>8, <1>9, <1>10, <1>11, <1>12, <1>13, <1>14,
    <1>15, <1>16, <1>17, <1>18, <1>19, <1>20, <1>21, <1>22, <1>23, <1>24, <1>25, <1>26, <1>27,
    <1>28, <1>29, <1>30, <1>31, <1>32, <1>33, <1>34, <1>35, <1>36 DEF Next, Calls, Caller,
    Drain, Worker, GetText, SetLiveDecode

(* A step keeps a closed session quiet. *)
LEMMA JoinedStep ==
  ASSUME ThreadsTypeOK, ThreadInv, JoinedInv, Next
  PROVE  JoinedInv'
<1> USE DEF ThreadsTypeOK, ThreadInv, JoinedInv, Draining, Goto, mutexes, audio, cursor,
  decided, text, faults
<1>1. CASE UNCHANGED <<pc>>
  BY <1>1
<1>2. ASSUME NEW n \in 1..MaxAudio, Feed(n) PROVE JoinedInv'
  BY <1>2 DEF Feed
<1>3. ASSUME Flush PROVE JoinedInv'
  BY <1>3 DEF Flush
<1>4. ASSUME Close PROVE JoinedInv'
  BY <1>4 DEF Close
<1>5. ASSUME LockSched PROVE JoinedInv'
  BY <1>5 DEF LockSched
<1>6. ASSUME EncodeFeed PROVE JoinedInv'
  BY <1>6 DEF EncodeFeed, EncoderRuns, Fails, MayFail
<1>7. ASSUME EncodeFlush PROVE JoinedInv'
  BY <1>7 DEF EncodeFlush, EncoderRuns, Fails, MayFail, Return
<1>8. ASSUME Project PROVE JoinedInv'
  BY <1>8 DEF Project
<1>9. ASSUME ProjectFails PROVE JoinedInv'
  BY <1>9 DEF ProjectFails, Fails, MayFail, Return, Unlock
<1>10. ASSUME Prefill PROVE JoinedInv'
  BY <1>10 DEF Prefill, Unlock
<1>11. ASSUME PrefillFails PROVE JoinedInv'
  BY <1>11 DEF PrefillFails, Fails, MayFail, Return, Unlock
<1>12. ASSUME NoPrefill PROVE JoinedInv'
  BY <1>12 DEF NoPrefill, Return, Unlock
<1>13. ASSUME NotifyWorker PROVE JoinedInv'
  BY <1>13 DEF NotifyWorker, NotifyAndGoto
<1>14. ASSUME DecodeInline PROVE JoinedInv'
  BY <1>14 DEF DecodeInline, Return
<1>15. ASSUME DrainedInline PROVE JoinedInv'
  BY <1>15 DEF DrainedInline, Return
<1>16. ASSUME Poll PROVE JoinedInv'
  BY <1>16 DEF Poll, CaughtUp
<1>17. ASSUME FlushReturns PROVE JoinedInv'
  BY <1>17 DEF FlushReturns, Return
<1>18. ASSUME RequestShutdown PROVE JoinedInv'
  BY <1>18 DEF RequestShutdown
<1>19. ASSUME NotifyAll PROVE JoinedInv'
  BY <1>19 DEF NotifyAll, NotifyAndGoto
<1>20. ASSUME Join PROVE JoinedInv'
  BY <1>20 DEF Join
<1>21. ASSUME NEW t \in {"caller", "worker"}, DrainBegins(t) PROVE JoinedInv'
  BY <1>21 DEF DrainBegins
<1>22. ASSUME NEW t \in {"caller", "worker"}, Decide(t) PROVE JoinedInv'
  BY <1>22 DEF Decide, Say
<1>23. ASSUME NEW t \in {"caller", "worker"}, DrainStops(t) PROVE JoinedInv'
  BY <1>23 DEF DrainStops
<1>24. ASSUME NEW t \in {"caller", "worker"}, Inject(t) PROVE JoinedInv'
  BY <1>24 DEF Inject
<1>25. ASSUME NEW t \in {"caller", "worker"}, InjectFails(t) PROVE JoinedInv'
  BY <1>25 DEF InjectFails, Fails, MayFail
<1>26. ASSUME NEW t \in {"caller", "worker"}, Forward(t) PROVE JoinedInv'
  BY <1>26 DEF Forward
<1>27. ASSUME NEW t \in {"caller", "worker"}, ForwardFails(t) PROVE JoinedInv'
  BY <1>27 DEF ForwardFails, Fails, MayFail
<1>28. ASSUME WorkerLoops PROVE JoinedInv'
  BY <1>28 DEF WorkerLoops
<1>29. ASSUME WorkerIdle PROVE JoinedInv'
  BY <1>29 DEF WorkerIdle
<1>30. ASSUME WorkerTests PROVE JoinedInv'
  BY <1>30 DEF WorkerTests, HasWork
<1>31. ASSUME WorkerBlocks PROVE JoinedInv'
  BY <1>31 DEF WorkerBlocks
<1>32. ASSUME WorkerWakes PROVE JoinedInv'
  BY <1>32 DEF WorkerWakes
<1>33. ASSUME WorkerLocksSched PROVE JoinedInv'
  BY <1>33 DEF WorkerLocksSched
<1>34. ASSUME WorkerLocksState PROVE JoinedInv'
  BY <1>34 DEF WorkerLocksState
<1>35. ASSUME WorkerUnlocks PROVE JoinedInv'
  BY <1>35 DEF WorkerUnlocks
<1>36. ASSUME SpuriousWakeup PROVE JoinedInv'
  BY <1>36 DEF SpuriousWakeup
<1> QED
  BY <1>1, <1>2, <1>3, <1>4, <1>5, <1>6, <1>7, <1>8, <1>9, <1>10, <1>11, <1>12, <1>13, <1>14,
    <1>15, <1>16, <1>17, <1>18, <1>19, <1>20, <1>21, <1>22, <1>23, <1>24, <1>25, <1>26, <1>27,
    <1>28, <1>29, <1>30, <1>31, <1>32, <1>33, <1>34, <1>35, <1>36 DEF Next, Calls, Caller,
    Drain, Worker, GetText, SetLiveDecode

-----------------------------------------------------------------------------
(* The inductive invariant holds at the start, *)
LEMMA InitIInv ==
  ASSUME Init
  PROVE  IInv
<1> USE DEF Init
<1>1. TypeOK
  <2>1. ThreadsTypeOK
    <3>1. pc \in [{"caller", "worker"} -> Labels]
      BY DEF Labels
    <3> QED
      BY <3>1 DEF ThreadsTypeOK
  <2>2. NumbersTypeOK
    <3>1. fed \in Nat /\ mel_pending \in Nat
      BY LiveDecodeAssumption
    <3>2. enc_T_so_far \in 0..EncMax
      BY LiveDecodeAssumption
    <3> QED
      BY <3>1, <3>2 DEF NumbersTypeOK
  <2> QED
    BY <2>1, <2>2 DEF TypeOK, TextTypeOK
<1>2. MutexInv /\ ThreadInv
  BY DEF MutexInv, ThreadInv, Encoding, Draining
<1>3. DrainInv /\ AudioAccounted
  BY DEF DrainInv, AudioAccounted, Threads
<1>4. OrderInv /\ CountInv
  BY DEF OrderInv, CountInv
<1>5. HeardOnce /\ EncodedInv /\ SaidInv /\ JoinedInv
  BY DEF HeardOnce, EncodedInv, SaidInv, JoinedInv, Draining
<1> QED
  BY <1>1, <1>2, <1>3, <1>4, <1>5 DEF IInv

(* is kept by every step, *)
LEMMA NextIInv ==
  ASSUME IInv, [Next]_vars
  PROVE  IInv'
<1>1. CASE Next
  BY <1>1, ThreadsTypeStep, NumbersTypeStep, TextTypeStep, MutexStep, ThreadStep, AudioStep,
     DrainStep, CountStep, OrderStep, HeardStep, FlushStep, EncodedStep, JoinedStep DEF IInv, TypeOK
<1>2. CASE UNCHANGED vars
  BY <1>2 DEF IInv, TypeOK, ThreadsTypeOK, NumbersTypeOK, TextTypeOK, MutexInv, ThreadInv, DrainInv,
     AudioAccounted, OrderInv, CountInv, HeardOnce, EncodedInv, SaidInv, JoinedInv, Forwarding, Pending,
     vars, mutexes, audio, cursor, decided, text, faults
<1> QED
  BY <1>1, <1>2

(* and so always holds. *)
THEOREM IInvHolds == Spec => []IInv
<1>1. Init => IInv
  BY InitIInv
<1>2. IInv /\ [Next]_vars => IInv'
  BY NextIInv
<1> QED
  BY <1>1, <1>2, PTL DEF Spec

-----------------------------------------------------------------------------
(* Every variable of a session keeps its type. *)
THEOREM LiveTypeCorrect == Spec => []TypeOK
<1>1. IInv => TypeOK
  BY DEF IInv
<1> QED
  BY <1>1, IInvHolds, PTL

(* Whatever is fed, in whatever pieces, is pending or encoded, and the     *)
(* decoder never runs ahead of the embeddings.                             *)
THEOREM AudioCorrect == Spec => []AudioAccounted
<1>1. IInv => AudioAccounted
  BY DEF IInv
<1> QED
  BY <1>1, IInvHolds, PTL

(* No token is said twice or out of order, whichever thread drains. *)
THEOREM TokensCorrect == Spec => []TokensInOrder
<1>1. IInv => TokensInOrder
  <2> SUFFICES ASSUME IInv PROVE TokensInOrder
    OBVIOUS
  <2>1. Len(out_text) \in Nat
    BY LenProperties DEF IInv, TypeOK, TextTypeOK
  <2>2. \A i \in 1..Len(out_text) - 1 : out_text[i] < out_text[i + 1]
    BY <2>1 DEF IInv, OrderInv
  <2> QED
    BY <2>2 DEF IInv, CountInv, TokensInOrder, Forwarding
<1> QED
  BY <1>1, IInvHolds, PTL

(* get_text loses and repeats nothing while the worker writes. *)
THEOREM HeardCorrect == Spec => []HeardOnce
<1>1. IInv => HeardOnce
  BY DEF IInv
<1> QED
  BY <1>1, IInvHolds, PTL

(* A flush that succeeds has encoded everything fed, unless the cache is   *)
(* full, and has waited for the text of everything encoded.                *)
THEOREM FlushCorrect == Spec => []FlushTellsAll
<1>1. IInv => FlushTellsAll
  <2> SUFFICES ASSUME IInv, pc.caller = "trim", fed <= EncMax PROVE audio_embeds = fed
    BY DEF IInv, SaidInv, FlushTellsAll
  <2>1. call = "flush"
    BY DEF IInv, ThreadInv
  <2>2. audio_embeds = enc_T_so_far /\ (mel_pending = 0 \/ fed > EncMax)
    BY <2>1 DEF IInv, EncodedInv
  <2> QED
    BY <2>2, LiveDecodeAssumption DEF IInv, AudioAccounted, TypeOK, NumbersTypeOK
<1> QED
  BY <1>1, IInvHolds, PTL

(* The encoder of a feed and the decoder never share the scheduler. *)
THEOREM FeedsCorrect == Spec => []FeedsExclusive
<1>1. IInv => FeedsExclusive
  BY DEF IInv, MutexInv, FeedsExclusive, SchedExclusive, Encoding, Draining
<1> QED
  BY <1>1, IInvHolds, PTL

(* The caller and the worker never wait for each other, but for a shutdown *)
(* that the worker misses: neither takes a second mutex in an order that   *)
(* the other reverses, and none is held by a thread that sleeps.           *)
THEOREM LiveNoDeadlock == Spec => []NoDeadlock
<1>1. ASSUME IInv, pc.worker \notin {"wait", "exit"}
      PROVE  CallerCanGo \/ WorkerCanGo
  <2>1. /\ sched_mutex \in {"nobody", "caller", "worker"}
        /\ decode_state_mutex \in {"nobody", "worker"}
    BY <1>1 DEF IInv, TypeOK, ThreadsTypeOK
  <2>2. pc.worker \in {"idle", "wake", "state"} => decode_state_mutex = "nobody"
    BY <1>1, <2>1 DEF IInv, MutexInv, Draining
  <2>3. CASE pc.worker = "sched" /\ sched_mutex # "nobody"
    <3>1. sched_mutex = "caller"
      BY <1>1, <2>1, <2>3 DEF IInv, MutexInv, Draining
    <3>2. pc.caller \in Encoding
      BY <1>1, <3>1 DEF IInv, MutexInv
    <3> QED
      BY <3>2 DEF CallerCanGo, Encoding
  <2>4. CASE ~(pc.worker = "sched" /\ sched_mutex # "nobody")
    BY <1>1, <2>2, <2>4 DEF WorkerCanGo
  <2> QED
    BY <2>3, <2>4
<1>2. ASSUME IInv, pc.caller \notin {"idle", "closed"}
      PROVE  CallerCanGo \/ WorkerCanGo \/ Stranded
  <2>1. CASE pc.worker \notin {"wait", "exit"}
    BY <1>1, <1>2, <2>1
  <2>2. CASE pc.worker \in {"wait", "exit"}
    <3>1. sched_mutex # "worker" /\ decode_state_mutex = "nobody"
      BY <1>2, <2>2 DEF IInv, MutexInv, Draining, TypeOK, ThreadsTypeOK
    <3>2. pc.caller = "lock" => sched_mutex = "nobody"
      BY <1>2, <3>1 DEF IInv, MutexInv, Encoding, TypeOK, ThreadsTypeOK
    <3> QED
      BY <1>2, <2>2, <3>1, <3>2 DEF CallerCanGo, Stranded
  <2> QED
    BY <2>1, <2>2
<1>3. IInv => NoDeadlock
  BY <1>1, <1>2 DEF NoDeadlock
<1> QED
  BY <1>3, IInvHolds, PTL

-----------------------------------------------------------------------------
(* LiveDecode implements Captions: each action maps to an action of        *)
(* Captions or to no step.                                                 *)

(* A token is said by a drain that has not ended the text, about audio     *)
(* that was fed, after the tokens before it.                               *)
LEMMA DecideStep ==
  ASSUME IInv, NEW t \in Threads, Decide(t)
  PROVE  Session!Say \/ Session!End
<1>1. pc[t] = "step" /\ ~decode_logits_committed /\ UNCHANGED <<fed, heard>>
  BY DEF Decide, audio
<1>2. decode_started /\ ~decode_finished
  BY <1>1 DEF IInv, DrainInv
<1>3. pc.caller # "closed" /\ pc'.caller # "closed"
  <2>1. pc.caller # "closed"
    BY <1>1 DEF Threads, IInv, JoinedInv
  <2> QED
    BY <2>1 DEF Decide, Goto, Threads, IInv, TypeOK, ThreadsTypeOK
<1>4. CASE Say(decode_adapter_pos) /\ UNCHANGED decode_finished
  <2>1. out_text' = Append(out_text, decode_adapter_pos)
    BY <1>4 DEF Say
  <2>2. decode_adapter_pos \in 1..fed
    BY <1>2 DEF IInv, AudioAccounted, TypeOK, NumbersTypeOK
  <2>3. \A i \in 1..Len(out_text) : out_text[i] < decode_adapter_pos
    BY <1>1 DEF IInv, OrderInv
  <2> QED
    BY <1>1, <1>2, <1>3, <1>4, <2>1, <2>2, <2>3 DEF Session!Say
<1>5. CASE decode_finished' = TRUE /\ UNCHANGED text
  BY <1>1, <1>2, <1>3, <1>5 DEF Session!End, text
<1> QED
  BY <1>4, <1>5 DEF Decide

(* A concatenation begins with its first sequence. *)
LEMMA FrontOfConcat ==
  ASSUME NEW S, NEW x \in Seq(S), NEW y \in Seq(S)
  PROVE  /\ Len(x \o y) = Len(x) + Len(y)
         /\ \A i \in 1..Len(x) : (x \o y)[i] = x[i]
<1>1. \A i \in 1..Len(x) : i \in 1..Len(x) + Len(y) /\ i <= Len(x)
  OBVIOUS
<1> QED
  BY <1>1, ConcatProperties

(* What get_text hands out continues what was heard. *)
LEMMA HearStep ==
  ASSUME IInv, GetText
  PROVE  Session!Hear
<1> USE DEF IInv, TypeOK, TextTypeOK
<1>1. PICK n \in 1..Len(out_text_unread) :
        heard' = heard \o SubSeq(out_text_unread, 1, n)
  BY DEF GetText
<1>2. pc.caller = "idle" /\ UNCHANGED <<fed, out_text, decode_finished, pc>>
  BY DEF GetText, audio, decided
<1> DEFINE a == SubSeq(out_text_unread, 1, n)
           b == SubSeq(out_text_unread, n + 1, Len(out_text_unread))
           k == Len(heard) + n
<1>3. a \in Seq(Nat) /\ b \in Seq(Nat) /\ Len(a) = n
  BY Split, SubSeqProperties
<1>4. heard' \in Seq(Nat) /\ Len(heard') = k
  BY <1>1, <1>3, ConcatProperties
<1>5. heard' \o b = out_text
  BY <1>1, HandedOut DEF HeardOnce
<1>6. Len(out_text) = k + Len(b) /\ \A i \in 1..k : out_text[i] = heard'[i]
  <2> HIDE DEF b, k
  <2>1. /\ Len(heard' \o b) = Len(heard') + Len(b)
        /\ \A i \in 1..Len(heard') : (heard' \o b)[i] = heard'[i]
    BY <1>3, <1>4, FrontOfConcat
  <2>2. Len(heard' \o b) = k + Len(b) /\ \A i \in 1..k : (heard' \o b)[i] = heard'[i]
    BY <1>4, <2>1, Zenon
  <2> QED
    BY <1>5, <2>2, Zenon
<1>7. k \in Len(heard) + 1 .. Len(out_text)
  <2>1. Len(b) \in Nat /\ Len(heard) \in Nat /\ n \in Nat /\ 1 <= n
    BY <1>3
  <2> HIDE DEF b
  <2> QED
    BY <1>6, <2>1
<1>8. heard' = SubSeq(out_text, 1, k)
  <2>1. /\ SubSeq(out_text, 1, k) \in Seq(Nat) /\ Len(SubSeq(out_text, 1, k)) = k
        /\ \A i \in 1..k : SubSeq(out_text, 1, k)[i] = out_text[i]
    BY <1>7
  <2> HIDE DEF k
  <2> QED
    BY <1>4, <1>6, <2>1, SeqEqual
<1> QED
  BY <1>2, <1>7, <1>8 DEF Session!Hear

(* The rest of the caller's calls. *)
LEMMA CallsStep ==
  ASSUME IInv, Calls
  PROVE  Session!Next \/ UNCHANGED Session!vars
<1> USE DEF Goto, IInv, TypeOK, ThreadsTypeOK, NumbersTypeOK, audio, text, decided
<1>1. ASSUME NEW n \in 1..MaxAudio, Feed(n) PROVE Session!Feed
  BY <1>1 DEF Feed, Session!Feed
<1>2. CASE Flush
  BY <1>2 DEF Flush, Session!Feed, Session!Next, LiveDecodeAssumption
<1>3. CASE SetLiveDecode
  BY <1>3 DEF SetLiveDecode, Session!vars
<1>4. CASE Close
  BY <1>4 DEF Close, Session!vars
<1> QED
  BY <1>1, <1>2, <1>3, <1>4, HearStep DEF Calls, Session!Next

(* The last step of a close. *)
LEMMA CloseStep ==
  ASSUME IInv, RequestShutdown \/ Join
  PROVE  Session!Close \/ UNCHANGED Session!vars
<1>1. pc.caller # "closed" /\ UNCHANGED <<fed, out_text, heard, decode_finished>>
  BY DEF RequestShutdown, Join, audio, text, decided
<1>2. CASE pc'.caller = "closed"
  BY <1>1, <1>2 DEF Session!Close
<1>3. CASE pc'.caller # "closed"
  BY <1>1, <1>3 DEF Session!vars
<1> QED
  BY <1>2, <1>3

(* The steps of the encoder, of the locks and of the drain that the user   *)
(* of the session does not notice.                                         *)
LEMMA UnheardStep ==
  ASSUME IInv, Caller \/ Worker \/ SpuriousWakeup,
         ~RequestShutdown, ~Join, ~Decide("caller"), ~Decide("worker")
  PROVE  UNCHANGED Session!vars
<1>1. UNCHANGED <<fed, out_text, heard, decode_finished>>
  BY DEF Caller, Worker, SpuriousWakeup, Drain, LockSched, EncodeFeed, EncodeFlush, Project,
     ProjectFails, Prefill, PrefillFails, NoPrefill, NotifyWorker, DecodeInline, DrainedInline,
     Poll, FlushReturns, NotifyAll, WorkerLoops, WorkerIdle, WorkerTests, WorkerBlocks,
     WorkerWakes, WorkerLocksSched, WorkerLocksState, WorkerUnlocks, DrainBegins, DrainStops,
     Inject, InjectFails, Forward, ForwardFails, EncoderRuns, audio, text, decided
<1>2. (pc.caller # "closed") = (pc'.caller # "closed")
  <2> USE DEF IInv, TypeOK, ThreadsTypeOK, Goto, Return, NotifyAndGoto
  <2>1. CASE Caller
    BY <2>1 DEF Caller, Drain, LockSched, EncodeFeed, EncodeFlush, Project,
       ProjectFails, Prefill, PrefillFails, NoPrefill, NotifyWorker, DecodeInline, DrainedInline,
       Poll, FlushReturns, NotifyAll, DrainBegins, DrainStops, Inject, InjectFails, Forward,
       ForwardFails
  <2>2. CASE Worker \/ SpuriousWakeup
    BY <2>2 DEF Worker, SpuriousWakeup, Drain, WorkerLoops, WorkerIdle, WorkerTests,
       WorkerBlocks, WorkerWakes, WorkerLocksSched, WorkerLocksState, WorkerUnlocks, DrainBegins,
       DrainStops, Inject, InjectFails, Forward, ForwardFails
  <2> QED
    BY <2>1, <2>2
<1> QED
  BY <1>1, <1>2 DEF Session!vars

(* Whichever thread decodes, and however feeds, flushes, failures and a    *)
(* close come between, the user of a session gets what Captions promises.  *)
THEOREM CaptionsCorrect == Spec => CaptionsAreKept
<1>1. Init => Session!Init
  BY LiveDecodeAssumption DEF Init, Session!Init, LiveDecodeAssumption
<1>2. ASSUME IInv, Next PROVE Session!Next \/ UNCHANGED Session!vars
  <2>1. CASE Calls
    BY <1>2, <2>1, CallsStep
  <2>2. CASE RequestShutdown \/ Join
    BY <1>2, <2>2, CloseStep DEF Session!Next
  <2>3. CASE Decide("caller") \/ Decide("worker")
    BY <1>2, <2>3, DecideStep DEF Threads, Session!Next
  <2>4. CASE (Caller \/ Worker \/ SpuriousWakeup)
             /\ ~RequestShutdown /\ ~Join /\ ~Decide("caller") /\ ~Decide("worker")
    BY <1>2, <2>4, UnheardStep
  <2> QED
    BY <1>2, <2>1, <2>2, <2>3, <2>4 DEF Next
<1>3. ASSUME UNCHANGED vars PROVE UNCHANGED Session!vars
  BY <1>3 DEF vars, audio, text, decided, Session!vars
<1>4. IInv /\ [Next]_vars => [Session!Next]_(Session!vars)
  BY <1>2, <1>3
<1> QED
  BY <1>1, <1>4, IInvHolds, PTL DEF Spec, CaptionsAreKept, Session!Spec
=============================================================================
