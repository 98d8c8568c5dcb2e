-------------------------- MODULE ModelServerProofs --------------------------
(***************************************************************************)
(* Proofs about ModelServer, for any number of requests and loads: the     *)
(* mutex serialises the calls and the hot swap, whoever comes by a pointer *)
(* under the mutex calls the loaded backend, and a load that returns       *)
(* restores the ready flag.                                                *)
(***************************************************************************)
EXTENDS ModelServer, TLAPS

LoadPcs == {"loading", "swapped", "restored"}
OncePcs == {"once", "disclaimer", "disclaimed"}

(* Which request can be where. *)
KindInv ==
  \A r \in Requests :
    /\ pc[r] \in LoadPcs => r \in Loads
    /\ r \in Loads => pc[r] \in LoadPcs \cup {"start", "answered", "threw"}
    /\ pc[r] \in OncePcs => r \in Syntheses \cup Streams
    /\ pc[r] \in {"ready", "facts"} => r \in Http \cup Peers
    /\ pc[r] = "delta" => r \in Realtime
    /\ pc[r] = "prepend" => r \in Syntheses

(* The mutex is held by exactly the request that is between its lock and   *)
(* its unlock.                                                             *)
MutexHeld ==
  \A r \in Requests : model_mutex = r <=> UnderMutex(r) \/ pc[r] \in LoadPcs

OnceHeld == \A r \in Requests : once = r <=> pc[r] = "disclaimer"

(* A load that is about to unlock has restored the flag. *)
ReadyInv ==
  /\ ReadyRestored
  /\ \A l \in Loads : pc[l] = "restored" => ready

IInv == TypeOK /\ KindInv /\ MutexHeld /\ OnceHeld /\ LateCallsAreLive /\ ReadyInv

(* The variables keep their types. *)
LEMMA TypeStep ==
  ASSUME TypeOK, NEW r \in Requests, Moves(r)
  PROVE  TypeOK'
  <1> USE ServerAssumption DEF TypeOK, Requests, Http, Goto, BindsLate, Release
  <1>1. CASE Arrival(r)
    BY <1>1 DEF Arrival, TestReady, ReadPointer, NotReady, PeerStarts, Refuse, Accept
  <1>2. CASE Call(r)
    BY <1>2 DEF Call, Locks, CallReturns, CallThrows
  <1>3. CASE Disclaimer(r)
    <2>1. CASE Prepend(r)
      BY <2>1 DEF Prepend
    <2>2. CASE OnceRuns(r)
      BY <2>2 DEF OnceRuns
    <2>3. CASE OnceCached(r)
      BY <2>3 DEF OnceCached
    <2>4. CASE DisclaimerReturns(r)
      BY <2>4 DEF DisclaimerReturns
    <2>5. CASE DisclaimerThrows(r)
      BY <2>5 DEF DisclaimerThrows
    <2>6. CASE Disclaimed(r)
      BY <2>6 DEF Disclaimed
    <2> QED
      BY <1>3, <2>1, <2>2, <2>3, <2>4, <2>5, <2>6 DEF Disclaimer
  <1>4. CASE Load(r)
    <2>1. CASE LoadLocks(r)
      BY <2>1 DEF LoadLocks
    <2>2. CASE LoadFails(r)
      BY <2>2 DEF LoadFails
    <2>3. CASE LoadThrows(r)
      BY <2>3 DEF LoadThrows
    <2>4. CASE LoadSwaps(r)
      BY <2>4 DEF LoadSwaps
    <2>5. CASE LoadSucceeds(r)
      BY <2>5 DEF LoadSucceeds
    <2>6. CASE LoadUnlocks(r)
      BY <2>6 DEF LoadUnlocks
    <2> QED
      BY <1>4, <2>1, <2>2, <2>3, <2>4, <2>5, <2>6 DEF Load
  <1>5. CASE DeltaSent(r)
    BY <1>5 DEF DeltaSent
  <1> QED
    BY <1>1, <1>2, <1>3, <1>4, <1>5 DEF Moves, Handler

(* Each request stays in the part of the code that is its own. *)
LEMMA KindStep ==
  ASSUME TypeOK, KindInv, NEW r \in Requests, Moves(r)
  PROVE  KindInv'
  <1> USE ServerAssumption DEF TypeOK, KindInv, Requests, Http, Goto, LoadPcs,
          OncePcs
  <1>1. CASE Arrival(r)
    BY <1>1 DEF Arrival, TestReady, ReadPointer, NotReady, PeerStarts, Refuse, Accept
  <1>2. CASE Call(r)
    BY <1>2 DEF Call, Locks, CallReturns, CallThrows
  <1>3. CASE Disclaimer(r)
    <2>1. CASE Prepend(r)
      BY <2>1 DEF Prepend
    <2>2. CASE OnceRuns(r)
      BY <2>2 DEF OnceRuns
    <2>3. CASE OnceCached(r)
      BY <2>3 DEF OnceCached
    <2>4. CASE DisclaimerReturns(r)
      BY <2>4 DEF DisclaimerReturns
    <2>5. CASE DisclaimerThrows(r)
      BY <2>5 DEF DisclaimerThrows
    <2>6. CASE Disclaimed(r)
      BY <2>6 DEF Disclaimed
    <2> QED
      BY <1>3, <2>1, <2>2, <2>3, <2>4, <2>5, <2>6 DEF Disclaimer
  <1>4. CASE Load(r)
    BY <1>4 DEF Load, LoadLocks, LoadFails, LoadThrows, LoadSwaps, LoadSucceeds,
           LoadUnlocks
  <1>5. CASE DeltaSent(r)
    BY <1>5 DEF DeltaSent
  <1> QED
    BY <1>1, <1>2, <1>3, <1>4, <1>5 DEF Moves, Handler

(* A step takes the free mutex for its own request, or releases its own. *)
LEMMA MutexStep ==
  ASSUME TypeOK, KindInv, MutexHeld, NEW r \in Requests, Moves(r)
  PROVE  MutexHeld'
  <1> USE ServerAssumption DEF TypeOK, KindInv, MutexHeld, Requests, Http, Goto,
          UnderMutex, Release, LoadPcs, OncePcs
  <1>1. CASE Arrival(r)
    BY <1>1 DEF Arrival, TestReady, ReadPointer, NotReady, PeerStarts, Refuse, Accept
  <1>2. CASE Call(r)
    <2>1. CASE Locks(r)
      BY <2>1 DEF Locks
    <2>2. CASE CallReturns(r)
      BY <2>2 DEF CallReturns
    <2>3. CASE CallThrows(r)
      BY <2>3 DEF CallThrows
    <2> QED
      BY <1>2, <2>1, <2>2, <2>3 DEF Call
  <1>3. CASE Disclaimer(r)
    <2>1. CASE Prepend(r)
      BY <2>1 DEF Prepend
    <2>2. CASE OnceRuns(r)
      BY <2>2 DEF OnceRuns
    <2>3. CASE OnceCached(r)
      BY <2>3 DEF OnceCached
    <2>4. CASE DisclaimerReturns(r)
      BY <2>4 DEF DisclaimerReturns
    <2>5. CASE DisclaimerThrows(r)
      BY <2>5 DEF DisclaimerThrows
    <2>6. CASE Disclaimed(r)
      BY <2>6 DEF Disclaimed
    <2> QED
      BY <1>3, <2>1, <2>2, <2>3, <2>4, <2>5, <2>6 DEF Disclaimer
  <1>4. CASE Load(r)
    <2>1. CASE LoadLocks(r)
      BY <2>1 DEF LoadLocks
    <2>2. CASE LoadFails(r)
      BY <2>2 DEF LoadFails
    <2>3. CASE LoadThrows(r)
      BY <2>3 DEF LoadThrows
    <2>4. CASE LoadSwaps(r)
      BY <2>4 DEF LoadSwaps
    <2>5. CASE LoadSucceeds(r)
      BY <2>5 DEF LoadSucceeds
    <2>6. CASE LoadUnlocks(r)
      BY <2>6 DEF LoadUnlocks
    <2> QED
      BY <1>4, <2>1, <2>2, <2>3, <2>4, <2>5, <2>6 DEF Load
  <1>5. CASE DeltaSent(r)
    BY <1>5 DEF DeltaSent
  <1> QED
    BY <1>1, <1>2, <1>3, <1>4, <1>5 DEF Moves, Handler

(* The call_once is entered when it is free, and left by who entered. *)
LEMMA OnceStep ==
  ASSUME TypeOK, OnceHeld, NEW r \in Requests, Moves(r)
  PROVE  OnceHeld'
  <1> USE ServerAssumption DEF TypeOK, OnceHeld, Requests, Http, Goto
  <1>1. CASE Arrival(r)
    BY <1>1 DEF Arrival, TestReady, ReadPointer, NotReady, PeerStarts, Refuse, Accept
  <1>2. CASE Call(r)
    BY <1>2 DEF Call, Locks, CallReturns, CallThrows
  <1>3. CASE Disclaimer(r)
    <2>1. CASE Prepend(r)
      BY <2>1 DEF Prepend
    <2>2. CASE OnceRuns(r)
      BY <2>2 DEF OnceRuns
    <2>3. CASE OnceCached(r)
      BY <2>3 DEF OnceCached
    <2>4. CASE DisclaimerReturns(r)
      BY <2>4 DEF DisclaimerReturns
    <2>5. CASE DisclaimerThrows(r)
      BY <2>5 DEF DisclaimerThrows
    <2>6. CASE Disclaimed(r)
      BY <2>6 DEF Disclaimed
    <2> QED
      BY <1>3, <2>1, <2>2, <2>3, <2>4, <2>5, <2>6 DEF Disclaimer
  <1>4. CASE Load(r)
    BY <1>4 DEF Load, LoadLocks, LoadFails, LoadThrows, LoadSwaps, LoadSucceeds,
           LoadUnlocks
  <1>5. CASE DeltaSent(r)
    BY <1>5 DEF DeltaSent
  <1> QED
    BY <1>1, <1>2, <1>3, <1>4, <1>5 DEF Moves, Handler

(* The pointer is read, and the backend replaced, by who holds the mutex. *)
LEMMA LateStep ==
  ASSUME TypeOK, KindInv, MutexHeld, LateCallsAreLive, NEW r \in Requests, Moves(r)
  PROVE  LateCallsAreLive'
  <1> USE ServerAssumption DEF TypeOK, KindInv, MutexHeld, LateCallsAreLive,
          Requests, Http, Goto, UnderMutex, BindsLate, LoadPcs, OncePcs
  <1>1. CASE Arrival(r)
    BY <1>1 DEF Arrival, TestReady, ReadPointer, NotReady, PeerStarts, Refuse, Accept
  <1>2. CASE Call(r)
    <2>1. CASE Locks(r)
      BY <2>1 DEF Locks
    <2>2. CASE CallReturns(r)
      BY <2>2 DEF CallReturns
    <2>3. CASE CallThrows(r)
      BY <2>3 DEF CallThrows
    <2> QED
      BY <1>2, <2>1, <2>2, <2>3 DEF Call
  <1>3. CASE Disclaimer(r)
    BY <1>3 DEF Disclaimer, Prepend, OnceRuns, OnceCached, DisclaimerReturns,
           DisclaimerThrows, Disclaimed
  <1>4. CASE Load(r)
    <2>1. CASE LoadLocks(r)
      BY <2>1 DEF LoadLocks
    <2>2. CASE LoadFails(r)
      BY <2>2 DEF LoadFails
    <2>3. CASE LoadThrows(r)
      BY <2>3 DEF LoadThrows
    <2>4. CASE LoadSwaps(r)
      BY <2>4 DEF LoadSwaps
    <2>5. CASE LoadSucceeds(r)
      BY <2>5 DEF LoadSucceeds
    <2>6. CASE LoadUnlocks(r)
      BY <2>6 DEF LoadUnlocks
    <2> QED
      BY <1>4, <2>1, <2>2, <2>3, <2>4, <2>5, <2>6 DEF Load
  <1>5. CASE DeltaSent(r)
    BY <1>5 DEF DeltaSent
  <1> QED
    BY <1>1, <1>2, <1>3, <1>4, <1>5 DEF Moves, Handler

(* The flag is restored before the mutex is released, unless the load throws. *)
LEMMA ReadyStep ==
  ASSUME TypeOK, KindInv, MutexHeld, ReadyInv, NEW r \in Requests, Moves(r)
  PROVE  ReadyInv'
  <1> USE ServerAssumption DEF TypeOK, KindInv, MutexHeld, ReadyInv, Requests,
          Http, Goto, Release, UnderMutex, LoadPcs, OncePcs, ReadyRestored
  <1>1. CASE Arrival(r)
    BY <1>1 DEF Arrival, TestReady, ReadPointer, NotReady, PeerStarts, Refuse, Accept
  <1>2. CASE Call(r)
    <2>1. CASE Locks(r)
      BY <2>1 DEF Locks
    <2>2. CASE CallReturns(r)
      BY <2>2 DEF CallReturns
    <2>3. CASE CallThrows(r)
      BY <2>3 DEF CallThrows
    <2> QED
      BY <1>2, <2>1, <2>2, <2>3 DEF Call
  <1>3. CASE Disclaimer(r)
    BY <1>3 DEF Disclaimer, Prepend, OnceRuns, OnceCached, DisclaimerReturns,
           DisclaimerThrows, Disclaimed
  <1>4. CASE Load(r)
    <2>1. CASE LoadLocks(r)
      BY <2>1 DEF LoadLocks
    <2>2. CASE LoadFails(r)
      BY <2>2 DEF LoadFails
    <2>3. CASE LoadThrows(r)
      BY <2>3 DEF LoadThrows
    <2>4. CASE LoadSwaps(r)
      BY <2>4 DEF LoadSwaps
    <2>5. CASE LoadSucceeds(r)
      BY <2>5 DEF LoadSucceeds
    <2>6. CASE LoadUnlocks(r)
      BY <2>6 DEF LoadUnlocks
    <2> QED
      BY <1>4, <2>1, <2>2, <2>3, <2>4, <2>5, <2>6 DEF Load
  <1>5. CASE DeltaSent(r)
    BY <1>5 DEF DeltaSent
  <1> QED
    BY <1>1, <1>2, <1>3, <1>4, <1>5 DEF Moves, Handler

(* The invariant holds initially and is preserved by every step. *)
THEOREM ServerInvariance == Spec => []IInv
  <1>1. Init => IInv
    <2> SUFFICES ASSUME Init
                 PROVE  IInv
      OBVIOUS
    <2>1. \A r \in Requests : pc[r] = "start" /\ r # Nobody
      BY ServerAssumption DEF Init
    <2>2. TypeOK
      BY DEF Init, TypeOK
    <2>3. KindInv /\ MutexHeld /\ OnceHeld
      BY <2>1 DEF Init, KindInv, MutexHeld, OnceHeld, UnderMutex, LoadPcs, OncePcs
    <2>4. LateCallsAreLive /\ ReadyInv
      BY <2>1 DEF Init, LateCallsAreLive, ReadyInv, ReadyRestored, UnderMutex, Requests, Http
    <2> QED
      BY <2>2, <2>3, <2>4 DEF IInv
  <1>2. IInv /\ [Next]_vars => IInv'
    <2> SUFFICES ASSUME IInv, [Next]_vars
                 PROVE  IInv'
      OBVIOUS
    <2>1. CASE Next
      BY <2>1, TypeStep, KindStep, MutexStep, OnceStep, LateStep, ReadyStep DEF Next, IInv
    <2>2. CASE UNCHANGED vars
      BY <2>2 DEF vars, IInv, TypeOK, KindInv, MutexHeld, OnceHeld, LateCallsAreLive, ReadyInv,
                  ReadyRestored, UnderMutex
    <2> QED
      BY <2>1, <2>2
  <1> QED
    BY <1>1, <1>2, PTL DEF Spec

(* Every variable keeps its type. *)
THEOREM ServerTypeCorrect == Spec => []TypeOK
  BY ServerInvariance, PTL DEF IInv

(* Two threads under the mutex are the same one, and so are two that make  *)
(* the disclaimer.                                                         *)
LEMMA Exclusive ==
  ASSUME IInv
  PROVE  CallsAreSerialized
  <1> SUFFICES ASSUME NEW r \in Requests, NEW s \in Requests, InCall(r), InCall(s), r # s
               PROVE  \/ UnlockedDisclaimer(r) /\ pc[s] = "call"
                      \/ UnlockedDisclaimer(s) /\ pc[r] = "call"
    BY DEF CallsAreSerialized
  <1>1. ~(UnderMutex(r) /\ UnderMutex(s))
    BY DEF IInv, MutexHeld
  <1>2. ~(pc[r] = "disclaimer" /\ pc[s] = "disclaimer")
    BY DEF IInv, OnceHeld
  <1> QED
    BY <1>1, <1>2 DEF IInv, KindInv, OncePcs, InCall, UnderMutex, UnlockedDisclaimer

(* Two calls of a backend overlap only when one of them is the disclaimer  *)
(* that a synthesis makes after it has released the mutex.                 *)
THEOREM SerializedCorrect == Spec => []CallsAreSerialized
  <1>1. IInv => CallsAreSerialized
    BY Exclusive
  <1> QED
    BY <1>1, ServerInvariance, PTL

(* Where every cloned voice is streamed, requests are mutex-serialized     *)
(* without exception.  (Elsewhere not: README, disagreements.)             *)
THEOREM OneCallCorrect ==
  ASSUME Clones \cap Syntheses = {}
  PROVE  Spec => []OneCall
  <1> DEFINE NoClone == \A r \in Requests : r \in Syntheses => pc[r] \notin OncePcs \cup {"prepend"}
  <1>1. Init => NoClone
    BY DEF Init, OncePcs
  <1>2. IInv /\ NoClone /\ [Next]_vars => NoClone'
    <2> SUFFICES ASSUME IInv, NoClone, [Next]_vars
                 PROVE  NoClone'
      OBVIOUS
    <2> USE ServerAssumption DEF IInv, TypeOK, OncePcs, Goto
    <2>1. CASE UNCHANGED vars
      BY <2>1 DEF vars
    <2>2. ASSUME NEW s \in Requests, Arrival(s)
          PROVE  NoClone'
      BY <2>2 DEF Arrival, TestReady, ReadPointer, NotReady, PeerStarts, Refuse, Accept
    <2>3. ASSUME NEW s \in Requests, Call(s)
          PROVE  NoClone'
      BY <2>3 DEF Call, Locks, CallReturns, CallThrows
    <2>4. ASSUME NEW s \in Requests, Disclaimer(s)
          PROVE  NoClone'
      BY <2>4 DEF Disclaimer, Prepend, OnceRuns, OnceCached, DisclaimerReturns,
                  DisclaimerThrows, Disclaimed
    <2>5. ASSUME NEW s \in Requests, Load(s)
          PROVE  NoClone'
      BY <2>5 DEF Load, LoadLocks, LoadFails, LoadThrows, LoadSwaps, LoadSucceeds, LoadUnlocks
    <2>6. ASSUME NEW s \in Requests, DeltaSent(s)
          PROVE  NoClone'
      BY <2>6 DEF DeltaSent
    <2> QED
      BY <2>1, <2>2, <2>3, <2>4, <2>5, <2>6 DEF Next, Moves, Handler
  <1>3. IInv /\ NoClone => OneCall
    BY Exclusive DEF CallsAreSerialized, OneCall, UnlockedDisclaimer, OncePcs
  <1> QED
    BY <1>1, <1>2, <1>3, ServerInvariance, PTL DEF Spec

(* A hot swap destroys no backend that a request is inside, but for that   *)
(* same disclaimer: only LoadSwaps changes the backend, with the mutex.    *)
THEOREM SwapSparesCorrect == Spec => SwapSparesCalls
  <1>1. IInv /\ [Next]_vars => [SwapIsSafe]_vars
    <2> SUFFICES ASSUME IInv, Next, backend' # backend, NEW r \in Requests, InCall(r)
                 PROVE  UnlockedDisclaimer(r)
      BY DEF SwapIsSafe
    <2>1. PICK l \in Requests : LoadSwaps(l)
      BY DEF Next, Moves, DeltaSent, Handler, Arrival, Call, Disclaimer, Load, TestReady, ReadPointer, NotReady, PeerStarts,
             Refuse, Accept, Locks, CallReturns, CallThrows, Prepend, OnceRuns, OnceCached,
             DisclaimerReturns, DisclaimerThrows, Disclaimed, LoadLocks, LoadFails, LoadThrows,
             LoadSucceeds, LoadUnlocks
    <2>2. model_mutex = l /\ pc[l] = "loading"
      BY <2>1 DEF LoadSwaps, IInv, MutexHeld, LoadPcs
    <2>3. ~UnderMutex(r)
      BY <2>2 DEF IInv, MutexHeld, UnderMutex
    <2> QED
      BY <2>3 DEF IInv, KindInv, OncePcs, InCall, UnderMutex, UnlockedDisclaimer
  <1> QED
    BY <1>1, ServerInvariance, PTL DEF Spec, SwapSparesCalls

(* The handlers that read the pointer under the mutex call the backend     *)
(* that is loaded, whatever was loaded while they waited.                  *)
THEOREM LateCallsCorrect == Spec => []LateCallsAreLive
  BY ServerInvariance, PTL DEF IInv

(* Requests are turned away only during a load, unless one has thrown.     *)
THEOREM ReadyCorrect == Spec => []ReadyRestored
  BY ServerInvariance, PTL DEF IInv, ReadyInv

(* Two locks, taken inside and outside each other, do not deadlock: the    *)
(* call_once is never waited on by the request that runs it, and that one  *)
(* wants no mutex.  Whoever waits for the mutex may in the end wait for    *)
(* the client of a realtime session to read.                               *)
THEOREM ServerNoDeadlock == Spec => []NoDeadlock
  <1>1. ASSUME IInv, NEW s \in Requests, once = s
        PROVE  CanGo(s)
    <2>1. pc[s] = "disclaimer"
      BY <1>1 DEF IInv, OnceHeld
    <2> QED
      BY <2>1 DEF CanGo, Finished, AtClient, WaitsFor, WantsModel, WantsOnce
  <1>2. ASSUME IInv, NEW s \in Requests, model_mutex = s
        PROVE  \/ CanGo(s) \/ AtClient(s)
               \/ \E t \in Requests : WaitsFor(s, t) /\ CanGo(t)
    <2>1. UnderMutex(s) \/ pc[s] \in LoadPcs
      BY <1>2 DEF IInv, MutexHeld
    <2>2. ~Finished(s) /\ ~WantsModel(s)
      BY <2>1 DEF UnderMutex, LoadPcs, Finished, WantsModel
    <2>3. CASE \E t \in Requests : WantsOnce(s) /\ once = t
      BY <1>1, <1>2, <2>3 DEF WaitsFor
    <2>4. CASE ~\E t \in Requests : WantsOnce(s) /\ once = t
      BY <2>2, <2>4 DEF CanGo, WaitsFor
    <2> QED
      BY <2>3, <2>4
  <1>3. IInv => NoDeadlock
    <2> SUFFICES ASSUME IInv, NEW r \in Requests, ~Finished(r), ~CanGo(r), ~AtClient(r)
                 PROVE  \E s \in Requests :
                          /\ WaitsFor(r, s)
                          /\ \/ CanGo(s) \/ AtClient(s)
                             \/ \E t \in Requests : WaitsFor(s, t) /\ CanGo(t)
      BY DEF NoDeadlock
    <2>1. PICK s \in Requests : WaitsFor(r, s)
      BY DEF CanGo
    <2> QED
      BY <1>1, <1>2, <2>1 DEF WaitsFor
  <1> QED
    BY <1>3, ServerInvariance, PTL

(* A step of a handler brings its request nearer to its answer, and leaves *)
(* the others where they are: every request takes the mutex at most once.  *)
THEOREM NoWayBackCorrect == Spec => NoWayBack
  <1>1. ASSUME IInv, NEW r \in Requests, Moves(r)
        PROVE  /\ \A s \in Requests \ {r} : pc'[s] = pc[s]
               /\ Stage(r)' > Stage(r)
    <2> USE <1>1, ServerAssumption DEF IInv, TypeOK, KindInv, Requests, Http, Goto, Stage,
            LoadPcs, OncePcs
    <2>1. CASE Arrival(r)
      BY <2>1 DEF Arrival, TestReady, ReadPointer, NotReady, PeerStarts, Refuse, Accept
    <2>2. CASE Call(r)
      BY <2>2 DEF Call, Locks, CallReturns, CallThrows
    <2>3. CASE Disclaimer(r)
      BY <2>3 DEF Disclaimer, Prepend, OnceRuns, OnceCached, DisclaimerReturns,
             DisclaimerThrows, Disclaimed
    <2>4. CASE Load(r)
      BY <2>4 DEF Load, LoadLocks, LoadFails, LoadThrows, LoadSwaps, LoadSucceeds,
             LoadUnlocks
    <2>5. CASE DeltaSent(r)
      BY <2>5 DEF DeltaSent
    <2> QED
      BY <2>1, <2>2, <2>3, <2>4, <2>5 DEF Moves, Handler
  <1>2. IInv /\ Next => OneMovesOn
    <2> SUFFICES ASSUME IInv, NEW r \in Requests, Moves(r)
                 PROVE  OneMovesOn
      BY DEF Next
    <2>1. \A s \in Requests \ {r} : Stage(s)' = Stage(s)
      BY <1>1 DEF Stage
    <2> QED
      BY <1>1, <2>1 DEF OneMovesOn
  <1> QED
    BY <1>2, ServerInvariance, PTL DEF Spec, NoWayBack
=============================================================================
