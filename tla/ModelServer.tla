---------------------------- MODULE ModelServer ----------------------------
(***************************************************************************)
(* Who may call the loaded model of the server, and when                   *)
(* (examples/cli/stelnet_server.cpp).                                      *)
(*                                                                         *)
(* One backend is loaded at a time.  POST /load replaces it, destroying    *)
(* the old one.  Requests call it under model_mutex, but come by their     *)
(* pointer to it in three ways: transcriptions read it before they wait    *)
(* for the mutex, syntheses and streamed replies read it again under the   *)
(* mutex, and the Wyoming and realtime peers keep that of the start of the *)
(* server.  The disclaimer of cloned voices is synthesised once per        *)
(* process (std::call_once), by whichever request needs it first.          *)
(*                                                                         *)
(* A backend is the number of its load: 0 is that of the start.  A call    *)
(* phase stands for all calls under one hold of the mutex (the slices of a *)
(* transcription, the sentences of a synthesis).  A streamed reply is      *)
(* here one such phase, whose client keeps reading: SpeechStream has the   *)
(* rest.  Translation and speech-to-speech have the control of a synthesis *)
(* without a cloned voice.                                                 *)
(*                                                                         *)
(* A definition marked "Faulty" is not part of the specification: it is    *)
(* what a mistake in the definition after it would look like, to show that *)
(* a property notices.                                                     *)
(***************************************************************************)
EXTENDS Integers

CONSTANTS
  Transcriptions, (* /inference and /v1/audio/transcriptions                *)
  Syntheses,      (* /v1/audio/speech, /v1/translate, speech-to-speech      *)
  Streams,        (* workers of /v1/audio/speech with "stream": true        *)
  Clones,         (* syntheses and streams that speak the disclaimer first  *)
  Peers,          (* one call each of the Wyoming or the realtime server    *)
  Realtime,       (* those of the realtime server                           *)
  Loads,          (* POST /load                                             *)
  Nobody          (* holder of a free mutex                                 *)

Http     == Transcriptions \cup Syntheses \cup Streams
Requests == Http \cup Peers \cup Loads

ASSUME ServerAssumption ==
  /\ Clones \subseteq Syntheses \cup Streams /\ Realtime \subseteq Peers
  /\ Nobody \notin Requests
  /\ Transcriptions \cap (Syntheses \cup Streams) = {} /\ Syntheses \cap Streams = {}
  /\ Http \cap (Peers \cup Loads) = {} /\ Peers \cap Loads = {}

VARIABLES
  backend,      (* the loaded backend; every other one is destroyed         *)
  ready,        (* the flag that requests test first                        *)
  model_mutex,  (* its holder                                               *)
  once,         (* the request that runs the call_once of the disclaimer    *)
  cached,       (* the call_once has completed                              *)
  pc,           (* where the thread of each request is                      *)
  ptr           (* the backend each request calls, or called last           *)

vars == <<backend, ready, model_mutex, once, cached, pc, ptr>>

(* svr.listen and the peers start after the first load, with its backend. *)
Init ==
  /\ backend = 0 /\ ready = TRUE
  /\ model_mutex = Nobody
  /\ once = Nobody /\ cached = FALSE
  /\ pc = [r \in Requests |-> "start"]
  /\ ptr = [r \in Requests |-> 0]

Goto(r, label) == pc' = [pc EXCEPT ![r] = label]

-----------------------------------------------------------------------------
(* Before the mutex.                                                       *)

(* A load may begin between this test and the read of the pointer. *)
TestReady(r) ==
  /\ r \in Http /\ pc[r] = "start" /\ ready
  /\ Goto(r, "ready")
  /\ UNCHANGED <<backend, ready, model_mutex, once, cached, ptr>>

(* A request reads the pointer to ask the backend what it can do; that a   *)
(* transcription keeps it is in Locks.                                     *)
ReadPointer(r) ==
  /\ pc[r] = "ready"
  /\ ptr' = [ptr EXCEPT ![r] = backend]
  /\ Goto(r, "facts")
  /\ UNCHANGED <<backend, ready, model_mutex, once, cached>>

(* 503, "model is still loading". *)
NotReady(r) ==
  /\ r \in Http /\ pc[r] = "start" /\ ~ready
  /\ Goto(r, "answered")
  /\ UNCHANGED <<backend, ready, model_mutex, once, cached, ptr>>

(* The Wyoming server asks for capabilities without the mutex; the         *)
(* realtime server goes straight to it.                                    *)
PeerStarts(r) ==
  /\ r \in Peers /\ pc[r] = "start"
  /\ \/ r \notin Realtime /\ Goto(r, "facts")
     \/ Goto(r, "lock")
  /\ UNCHANGED <<backend, ready, model_mutex, once, cached, ptr>>

(* The backend lacks the capability, or the request or its audio is bad or *)
(* empty: the answer needs no model.                                       *)
Refuse(r) ==
  /\ pc[r] \in {"ready", "facts"}
  /\ Goto(r, "answered")
  /\ UNCHANGED <<backend, ready, model_mutex, once, cached, ptr>>

Accept(r) ==
  /\ pc[r] = "facts"
  /\ Goto(r, "lock")
  /\ UNCHANGED <<backend, ready, model_mutex, once, cached, ptr>>

-----------------------------------------------------------------------------
(* Under the mutex.                                                        *)

BindsLate(r) == r \in Syntheses \cup Streams

(* Faulty: the pointer read before the mutex is used under it. *)
LocksWithOldPointer(r) ==
  /\ pc[r] = "lock" /\ model_mutex = Nobody
  /\ model_mutex' = r
  /\ Goto(r, IF r \in Streams \cap Clones THEN "once" ELSE "call")
  /\ UNCHANGED <<backend, ready, once, cached, ptr>>

(* Faulty: the peers have a mutex of their own. *)
LocksApart(r) ==
  /\ pc[r] = "lock" /\ (model_mutex = Nobody \/ r \in Peers)
  /\ model_mutex' = r
  /\ ptr' = [ptr EXCEPT ![r] = IF BindsLate(r) THEN backend ELSE @]
  /\ Goto(r, IF r \in Streams \cap Clones THEN "once" ELSE "call")
  /\ UNCHANGED <<backend, ready, once, cached>>

(* A streamed reply of a cloned voice gets the disclaimer under the mutex. *)
Locks(r) ==
  /\ pc[r] = "lock" /\ model_mutex = Nobody
  /\ model_mutex' = r
  /\ ptr' = [ptr EXCEPT ![r] = IF BindsLate(r) THEN backend ELSE @]
  /\ Goto(r, IF r \in Streams \cap Clones THEN "once" ELSE "call")
  /\ UNCHANGED <<backend, ready, once, cached>>

(* Empty audio, or a voice that is not cloned, is answered at once.  A     *)
(* realtime session that has new words keeps the mutex to send them.       *)
CallReturns(r) ==
  /\ pc[r] = "call"
  /\ \/ model_mutex' = Nobody /\ Goto(r, "answered")
     \/ model_mutex' = Nobody /\ r \in Syntheses \cap Clones /\ Goto(r, "prepend")
     \/ r \in Realtime /\ Goto(r, "delta") /\ UNCHANGED model_mutex
  /\ UNCHANGED <<backend, ready, once, cached, ptr>>

(* The send blocks, without a limit, until the client has read enough.     *)
DeltaSent(r) ==
  /\ pc[r] = "delta"
  /\ model_mutex' = Nobody
  /\ Goto(r, "answered")
  /\ UNCHANGED <<backend, ready, once, cached, ptr>>

(* The lock_guard is released by the exception, which httplib, the worker  *)
(* or the realtime session catches.                                        *)
CallThrows(r) ==
  /\ pc[r] = "call"
  /\ model_mutex' = Nobody
  /\ Goto(r, "threw")
  /\ UNCHANGED <<backend, ready, once, cached, ptr>>

-----------------------------------------------------------------------------
(* The disclaimer.  A synthesis asks for it after its mutex is released.   *)

Prepend(r) ==
  /\ pc[r] = "prepend"
  /\ ptr' = [ptr EXCEPT ![r] = backend]
  /\ Goto(r, "once")
  /\ UNCHANGED <<backend, ready, model_mutex, once, cached>>

OnceRuns(r) ==
  /\ pc[r] = "once" /\ ~cached /\ once = Nobody
  /\ once' = r
  /\ Goto(r, "disclaimer")
  /\ UNCHANGED <<backend, ready, model_mutex, cached, ptr>>

OnceCached(r) ==
  /\ pc[r] = "once" /\ cached
  /\ Goto(r, "disclaimed")
  /\ UNCHANGED <<backend, ready, model_mutex, once, cached, ptr>>

DisclaimerReturns(r) ==
  /\ pc[r] = "disclaimer"
  /\ once' = Nobody /\ cached' = TRUE
  /\ Goto(r, "disclaimed")
  /\ UNCHANGED <<backend, ready, model_mutex, ptr>>

(* Faulty: the exception does not release the mutex of a stream. *)
ReleaseNot(r) == model_mutex

Release(r) == IF model_mutex = r THEN Nobody ELSE model_mutex

(* call_once lets the next caller try again. *)
DisclaimerThrows(r) ==
  /\ pc[r] = "disclaimer"
  /\ once' = Nobody /\ model_mutex' = Release(r)
  /\ Goto(r, "threw")
  /\ UNCHANGED <<backend, ready, cached, ptr>>

(* A synthesis asks the backend for its rate and answers; a stream goes on *)
(* to its sentences.                                                       *)
Disclaimed(r) ==
  /\ pc[r] = "disclaimed"
  /\ Goto(r, IF r \in Streams THEN "call" ELSE "answered")
  /\ UNCHANGED <<backend, ready, model_mutex, once, cached, ptr>>

-----------------------------------------------------------------------------
(* POST /load.                                                             *)

(* Faulty: the new model is loaded without waiting for the old one. *)
LoadLocksNot(l) ==
  /\ l \in Loads /\ pc[l] = "start"
  /\ model_mutex' = l /\ ready' = FALSE
  /\ Goto(l, "loading")
  /\ UNCHANGED <<backend, once, cached, ptr>>

LoadLocks(l) ==
  /\ l \in Loads /\ pc[l] = "start" /\ model_mutex = Nobody
  /\ model_mutex' = l /\ ready' = FALSE
  /\ Goto(l, "loading")
  /\ UNCHANGED <<backend, once, cached, ptr>>

(* Faulty: an early return leaves the flag as it is. *)
LoadFailsUnready(l) ==
  /\ pc[l] = "loading"
  /\ Goto(l, "restored")
  /\ UNCHANGED <<backend, ready, model_mutex, once, cached, ptr>>

(* No model named, none found, or it does not load: keep the old one. *)
LoadFails(l) ==
  /\ pc[l] = "loading"
  /\ ready' = TRUE
  /\ Goto(l, "restored")
  /\ UNCHANGED <<backend, model_mutex, once, cached, ptr>>

(* Loading throws (no ggml context, no memory): the mutex is released, and *)
(* httplib answers 500.  Nothing restores the flag.                        *)
LoadThrows(l) ==
  /\ pc[l] = "loading"
  /\ model_mutex' = Nobody
  /\ Goto(l, "threw")
  /\ UNCHANGED <<backend, ready, once, cached, ptr>>

(* backend = std::move(nb) destroys the old backend. *)
LoadSwaps(l) ==
  /\ pc[l] = "loading"
  /\ backend' = backend + 1
  /\ Goto(l, "swapped")
  /\ UNCHANGED <<ready, model_mutex, once, cached, ptr>>

LoadSucceeds(l) ==
  /\ pc[l] = "swapped"
  /\ ready' = TRUE
  /\ Goto(l, "restored")
  /\ UNCHANGED <<backend, model_mutex, once, cached, ptr>>

LoadUnlocks(l) ==
  /\ pc[l] = "restored"
  /\ model_mutex' = Nobody
  /\ Goto(l, "answered")
  /\ UNCHANGED <<backend, ready, once, cached, ptr>>

-----------------------------------------------------------------------------
Arrival(r)    ==
  \/ TestReady(r) \/ ReadPointer(r) \/ NotReady(r)
  \/ PeerStarts(r) \/ Refuse(r) \/ Accept(r)
Call(r)       == Locks(r) \/ CallReturns(r) \/ CallThrows(r)

(* Faulty: the disclaimer is synthesised under the mutex, taken inside the *)
(* call_once.                                                              *)
DisclaimerUnderMutex(r) ==
  \/ Prepend(r) \/ OnceRuns(r) \/ OnceCached(r) \/ Disclaimed(r)
  \/ model_mutex \in {r, Nobody} /\ (DisclaimerReturns(r) \/ DisclaimerThrows(r))

Disclaimer(r) ==
  \/ Prepend(r) \/ OnceRuns(r) \/ OnceCached(r)
  \/ DisclaimerReturns(r) \/ DisclaimerThrows(r) \/ Disclaimed(r)

Load(r) ==
  \/ LoadLocks(r) \/ LoadFails(r) \/ LoadThrows(r)
  \/ LoadSwaps(r) \/ LoadSucceeds(r) \/ LoadUnlocks(r)
Handler(r) == Arrival(r) \/ Call(r) \/ Disclaimer(r) \/ Load(r)

Moves(r)   == Handler(r) \/ DeltaSent(r)

Next == \E r \in Requests : Moves(r)

(* A thread that can run does run, and a call of a backend returns or      *)
(* throws.  Each request takes the mutex once, so its contenders run out.  *)
(* Nothing makes the client of a realtime session read: DeltaSent is not   *)
(* fair.                                                                   *)
Fairness == \A r \in Requests : WF_vars(Handler(r))

Spec == Init /\ [][Next]_vars /\ Fairness

-----------------------------------------------------------------------------
(* Properties.                                                             *)

(* The values of the variables: the one type invariant of the module. *)
TypeOK ==
  /\ backend \in Nat /\ ready \in BOOLEAN
  /\ model_mutex \in Requests \cup {Nobody}
  /\ once \in Requests \cup {Nobody} /\ cached \in BOOLEAN
  /\ pc \in [Requests -> {"start", "ready", "facts", "lock", "call", "delta", "prepend",
                          "once", "disclaimer", "disclaimed", "loading", "swapped",
                          "restored", "answered", "threw"}]
  /\ ptr \in [Requests -> Nat]

InCall(r) == pc[r] \in {"call", "disclaimer"}
UnlockedDisclaimer(r) == r \in Syntheses /\ pc[r] = "disclaimer"

(* "Requests are mutex-serialized": two requests are never inside the      *)
(* model at the same time ...                                              *)
OneCall == \A r, s \in Requests : InCall(r) /\ InCall(s) => r = s

(* ... but for the disclaimer of a synthesis, made after its mutex has     *)
(* been released; and the disclaimer is never made by two at a time.       *)
CallsAreSerialized ==
  \A r, s \in Requests : InCall(r) /\ InCall(s) /\ r # s =>
    \/ UnlockedDisclaimer(r) /\ pc[s] = "call"
    \/ UnlockedDisclaimer(s) /\ pc[r] = "call"

(* A hot swap waits for the calls in progress: it destroys no backend that *)
(* a request is inside, but for that same disclaimer.                      *)
SwapIsSafe ==
  backend' # backend => \A r \in Requests : InCall(r) => UnlockedDisclaimer(r)
SwapSparesCalls == [][SwapIsSafe]_vars

(* Whatever was loaded while they waited, the handlers that read the       *)
(* pointer under the mutex call the backend that is loaded.                *)
UnderMutex(r) ==
  pc[r] \in {"call", "delta"} \/ (r \in Streams /\ pc[r] \in {"once", "disclaimer", "disclaimed"})
LateCallsAreLive ==
  \A r \in Syntheses \cup Streams : UnderMutex(r) => ptr[r] = backend

(* "`backend` and `model_mutex` must remain valid for the server lifetime": *)
(* no request calls a backend that has been destroyed.                     *)
NoDanglingCall == \A r \in Requests : InCall(r) => ptr[r] = backend

(* "503: Model still loading": requests are turned away only during a load. *)
NotReadyMeansLoading == ~ready => model_mutex \in Loads

(* Every return of a load restores the flag: requests are turned away only *)
(* during a load, unless one has thrown.                                   *)
ReadyRestored ==
  ~ready => model_mutex \in Loads \/ \E l \in Loads : pc[l] = "threw"

Finished(r)   == pc[r] \in {"answered", "threw"}
AtClient(r)   == pc[r] = "delta"
DeltasAreRead == \A p \in Realtime : []<>~AtClient(p)

(* Every request is answered: the mutex and the call_once, which a stream  *)
(* takes inside it and a synthesis outside it, never stop each other.      *)
(* This needs the clients of the realtime sessions to read what they are   *)
(* sent: one that does not stops the whole server.                         *)
EveryoneAnswered == DeltasAreRead => \A r \in Requests : <>[]Finished(r)

(* Who waits for whom: for the mutex, or for the end of the call_once.     *)
(* Whoever waits for a client cannot go on by itself.                      *)
WantsModel(r)  == pc[r] = "lock" \/ (r \in Loads /\ pc[r] = "start")
WantsOnce(r)   == pc[r] = "once" /\ ~cached
WaitsFor(r, s) == (WantsModel(r) /\ model_mutex = s) \/ (WantsOnce(r) /\ once = s)
CanGo(r)       ==
  ~Finished(r) /\ ~AtClient(r) /\ \A s \in Requests : ~WaitsFor(r, s)

(* Nobody waits for a request that is over, and nobody in a circle: behind *)
(* the mutex there is a thread that can go on, one that sends to a         *)
(* realtime client, or one that waits for the call_once, and whoever is in *)
(* that can go on.  (That it then does is EveryoneAnswered.)               *)
NoDeadlock ==
  \A r \in Requests :
    \/ Finished(r) \/ CanGo(r) \/ AtClient(r)
    \/ \E s \in Requests :
         /\ WaitsFor(r, s)
         /\ \/ CanGo(s) \/ AtClient(s)
            \/ \E t \in Requests : WaitsFor(s, t) /\ CanGo(t)

(* No handler comes back to where it was: a step moves one request on, and *)
(* so a request takes the mutex once and its contenders run out, which is  *)
(* what EveryoneAnswered rests on besides NoDeadlock.                      *)
Stage(r) ==
  CASE pc[r] = "start"      -> 0
    [] pc[r] = "ready"      -> 1
    [] pc[r] = "facts"      -> 2
    [] pc[r] = "lock"       -> 3
    [] pc[r] = "loading"    -> 4
    [] pc[r] = "swapped"    -> 5
    [] pc[r] = "restored"   -> 6
    [] pc[r] = "delta"      -> 5
    [] pc[r] = "prepend"    -> 5
    [] pc[r] = "once"       -> 6
    [] pc[r] = "disclaimer" -> 7
    [] pc[r] = "disclaimed" -> 8
    [] pc[r] = "call"       -> IF r \in Streams THEN 9 ELSE 4
    [] OTHER                -> 10
OneMovesOn ==
  \E r \in Requests :
    /\ Stage(r)' > Stage(r)
    /\ \A s \in Requests \ {r} : Stage(s)' = Stage(s)
NoWayBack == [][OneMovesOn]_vars
=============================================================================
