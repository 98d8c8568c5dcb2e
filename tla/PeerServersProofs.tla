-------------------------- MODULE PeerServersProofs --------------------------
(***************************************************************************)
(* Proofs about PeerServers, for any servers, any number of connections    *)
(* and any length of the bounded wait.  IInv adds to the properties that   *)
(* the registry holds exactly the handlers between their registration and  *)
(* its end, and that g_running is false while wyoming_stop goes on.  The   *)
(* handlers that a thread has been started for but that are not counted    *)
(* are harmless because each looks at g_running after it is counted.       *)
(***************************************************************************)
EXTENDS PeerServers, FiniteSetTheorems, TLAPS

BaseInv ==
  /\ main \in MainPcs /\ stopping \in Servers \cup {"none"}
  /\ running \in [Servers -> BOOLEAN] /\ listening \subseteq Servers
  /\ lpc \in [Servers -> {"test", "select", "enter", "accept", "ended"}]
  /\ cpc \in [Conns -> ConnPcs]
  /\ clients \subseteq WyomingConns /\ dead \subseteq Conns
  /\ tries \in 0 .. DrainTries /\ drained \in BOOLEAN
  /\ model_mutex \in Conns \cup {Nobody} /\ backend \in {"live", "destroyed"}
  /\ main \notin {"serving", "teardown", "returned", "exited"} => stopping \in Servers
  /\ main \in {"sweep", "drain"} => stopping = "wyoming"

(* Only Wyoming handlers are counted and taken off the count. *)
PlaceInv ==
  \A c \in Conns \ WyomingConns : cpc[c] \notin {"counted", "facts", "uncount"}

(* active is the number of handlers that are counted. *)
CountInv == active \in Nat /\ active = Cardinality(Counted)

(* Exactly the handlers from their registration to its end are registered. *)
Listed == {c \in WyomingConns : cpc[c] \in Looping \cup {"leaving"}}
RegistryInv == clients = Listed

(* From the first statement of wyoming_stop on g_running is false. *)
Told == drained \/ (stopping = "wyoming" /\ main \in {"sweep", "join", "close", "drain"})
ToldInv == Told => ~running["wyoming"]

(* Once drained, no handler will look for a request again. *)
DrainedInv == drained => \A c \in WyomingConns : cpc[c] \notin Serving

IInv ==
  /\ BaseInv /\ PlaceInv /\ CountInv /\ RegistryInv /\ ToldInv
  /\ SweptOrLeaving /\ DrainedInv

USE PeerAssumption

(* The next server to stop is a server, or there is none. *)
LEMMA NextServerType ==
  ASSUME NEW s
  PROVE  /\ NextServer(s) \in Servers \cup {"none"}
         /\ NextServer(s) # "wyoming" \/ s = "none"
BY DEF NextServer, Servers

(* A step keeps every variable in its type. *)
LEMMA BaseStep ==
  ASSUME BaseInv, PlaceInv, Next
  PROVE  BaseInv'
<1> USE DEF BaseInv, PlaceInv, MainPcs, ConnPcs, Looping, Servers, Conns, Server, Queued, Goto,
  stopVars, sockVars, regVars
<1>1. ASSUME NEW c \in Conns, Connect(c) PROVE BaseInv'
  BY <1>1 DEF Connect, Goto
<1>2. ASSUME NEW c \in Conns, HangUp(c) PROVE BaseInv'
  BY <1>2 DEF HangUp, Goto
<1>3. ASSUME NEW c \in Conns, Accept(c) PROVE BaseInv'
  BY <1>3 DEF Accept, Goto, ListenerAt
<1>4. ASSUME NEW c \in Conns, Receive(c) PROVE BaseInv'
  BY <1>4 DEF Receive, Goto
<1>5. ASSUME NEW c \in Conns, Send(c) PROVE BaseInv'
  BY <1>5 DEF Send, Goto
<1>6. ASSUME NEW c \in Conns, Count(c) PROVE BaseInv'
  BY <1>6 DEF Count, Goto, Counts
<1>7. ASSUME NEW c \in Conns, Register(c) PROVE BaseInv'
  BY <1>7 DEF Register, Goto
<1>8. ASSUME NEW c \in Conns, Handshake(c) PROVE BaseInv'
  BY <1>8 DEF Handshake, Goto, Counts
<1>9. ASSUME NEW c \in Conns, TestRunning(c) PROVE BaseInv'
  BY <1>9 DEF TestRunning, Goto
<1>10. ASSUME NEW c \in Conns, ReceiveEnds(c) PROVE BaseInv'
  BY <1>10 DEF ReceiveEnds, Goto
<1>11. ASSUME NEW c \in Conns, Facts(c) PROVE BaseInv'
  BY <1>11 DEF Facts, Goto
<1>12. ASSUME NEW c \in Conns, Lock(c) PROVE BaseInv'
  BY <1>12 DEF Lock, Goto
<1>13. ASSUME NEW c \in Conns, Return(c) PROVE BaseInv'
  BY <1>13 DEF Return, Goto
<1>14. ASSUME NEW c \in Conns, Unregister(c) PROVE BaseInv'
  BY <1>14 DEF Unregister, Goto
<1>15. ASSUME NEW c \in Conns, Close(c) PROVE BaseInv'
  BY <1>15 DEF Close, Goto, Counts
<1>16. ASSUME NEW c \in Conns, Uncount(c) PROVE BaseInv'
  BY <1>16 DEF Uncount, Goto
<1>17. ASSUME NEW s \in Servers, ListenerTests(s) PROVE BaseInv'
  BY <1>17 DEF ListenerTests, ListenerAt
<1>18. ASSUME NEW s \in Servers, SelectTimeout(s) PROVE BaseInv'
  BY <1>18 DEF SelectTimeout, ListenerAt
<1>19. ASSUME NEW s \in Servers, SelectReady(s) PROVE BaseInv'
  BY <1>19 DEF SelectReady, ListenerAt
<1>20. ASSUME NEW s \in Servers, EnterAccept(s) PROVE BaseInv'
  BY <1>20 DEF EnterAccept, ListenerAt
<1>21. ASSUME NEW s \in Servers, AcceptOther(s) PROVE BaseInv'
  BY <1>21 DEF AcceptOther, ListenerAt
<1>22. ASSUME ListenReturns PROVE BaseInv'
  BY <1>22, NextServerType DEF ListenReturns, Proceed
<1>23. ASSUME StoreNotRunning PROVE BaseInv'
  BY <1>23 DEF StoreNotRunning
<1>24. ASSUME Sweep PROVE BaseInv'
  BY <1>24 DEF Sweep
<1>25. ASSUME CloseListener PROVE BaseInv'
  BY <1>25 DEF CloseListener
<1>26. ASSUME Join PROVE BaseInv'
  BY <1>26, NextServerType DEF Join, Proceed
<1>27. ASSUME DrainWaits PROVE BaseInv'
  BY <1>27 DEF DrainWaits
<1>28. ASSUME DrainEnds PROVE BaseInv'
  BY <1>28, NextServerType DEF DrainEnds, Proceed
<1>29. ASSUME Teardown PROVE BaseInv'
  BY <1>29 DEF Teardown
<1>30. ASSUME Exit PROVE BaseInv'
  BY <1>30 DEF Exit
<1>31. ASSUME NEW c \in Conns, SendDelta(c) PROVE BaseInv'
  BY <1>31 DEF SendDelta, Goto
<1>32. ASSUME NEW c \in Conns, Terminates(c) PROVE BaseInv'
  BY <1>32 DEF Terminates
<1> QED
  BY <1>1, <1>2, <1>3, <1>4, <1>5, <1>6, <1>7, <1>8, <1>9, <1>10, <1>11, <1>12, <1>13,
    <1>14, <1>15, <1>16, <1>17, <1>18, <1>19, <1>20, <1>21, <1>22, <1>23, <1>24, <1>25,
    <1>26, <1>27, <1>28, <1>29, <1>30, <1>31, <1>32 DEF Next, PeerStep, StopStep, HandlerStep, ClientStep

(* Only Wyoming handlers enter the states of the count. *)
LEMMA PlaceStep ==
  ASSUME BaseInv, PlaceInv, Next
  PROVE  PlaceInv'
<1> USE DEF BaseInv, PlaceInv, Conns, Server, Counts, Looping, ConnPcs, Goto, stopVars,
  sockVars, regVars
<1>1. CASE UNCHANGED <<cpc>>
  BY <1>1
<1>2. ASSUME NEW c \in Conns, Connect(c) PROVE PlaceInv'
  BY <1>2 DEF Connect, Goto
<1>3. ASSUME NEW c \in Conns, HangUp(c) PROVE PlaceInv'
  BY <1>3 DEF HangUp, Goto
<1>4. ASSUME NEW c \in Conns, Accept(c) PROVE PlaceInv'
  BY <1>4 DEF Accept, Goto, ListenerAt
<1>5. ASSUME NEW c \in Conns, Receive(c) PROVE PlaceInv'
  BY <1>5 DEF Receive, Goto
<1>6. ASSUME NEW c \in Conns, Send(c) PROVE PlaceInv'
  BY <1>6 DEF Send, Goto
<1>7. ASSUME NEW c \in Conns, Count(c) PROVE PlaceInv'
  BY <1>7 DEF Count, Goto, Counts
<1>8. ASSUME NEW c \in Conns, Register(c) PROVE PlaceInv'
  BY <1>8 DEF Register, Goto
<1>9. ASSUME NEW c \in Conns, Handshake(c) PROVE PlaceInv'
  BY <1>9 DEF Handshake, Goto, Counts
<1>10. ASSUME NEW c \in Conns, TestRunning(c) PROVE PlaceInv'
  BY <1>10 DEF TestRunning, Goto
<1>11. ASSUME NEW c \in Conns, ReceiveEnds(c) PROVE PlaceInv'
  BY <1>11 DEF ReceiveEnds, Goto
<1>12. ASSUME NEW c \in Conns, Facts(c) PROVE PlaceInv'
  BY <1>12 DEF Facts, Goto
<1>13. ASSUME NEW c \in Conns, Lock(c) PROVE PlaceInv'
  BY <1>13 DEF Lock, Goto
<1>14. ASSUME NEW c \in Conns, Return(c) PROVE PlaceInv'
  BY <1>14 DEF Return, Goto
<1>15. ASSUME NEW c \in Conns, Unregister(c) PROVE PlaceInv'
  BY <1>15 DEF Unregister, Goto
<1>16. ASSUME NEW c \in Conns, Close(c) PROVE PlaceInv'
  BY <1>16 DEF Close, Goto, Counts
<1>17. ASSUME NEW c \in Conns, Uncount(c) PROVE PlaceInv'
  BY <1>17 DEF Uncount, Goto
<1>18. ASSUME NEW c \in Conns, SendDelta(c) PROVE PlaceInv'
  BY <1>18 DEF SendDelta, Goto
<1> QED
  BY <1>1, <1>2, <1>3, <1>4, <1>5, <1>6, <1>7, <1>8, <1>9, <1>10, <1>11, <1>12, <1>13,
    <1>14, <1>15, <1>16, <1>17, <1>18 DEF Next, PeerStep, StopStep, HandlerStep, ClientStep, Terminates, ListenerTests,
    SelectTimeout, SelectReady, EnterAccept, AcceptOther, ListenReturns, StoreNotRunning,
    Sweep, CloseListener, Join, DrainWaits, DrainEnds, Teardown, Exit, Proceed, ListenerAt

(* g_running of a server is never set again. *)
LEMMA ToldStep ==
  ASSUME BaseInv, ToldInv, Next
  PROVE  ToldInv'
<1> USE DEF BaseInv, ToldInv, Told, Servers, MainPcs, Goto, stopVars, sockVars, regVars
<1>1. CASE UNCHANGED <<stopVars, running>>
  BY <1>1
<1>2. ASSUME ListenReturns PROVE ToldInv'
  BY <1>2, NextServerType DEF ListenReturns, Proceed
<1>3. ASSUME StoreNotRunning PROVE ToldInv'
  BY <1>3 DEF StoreNotRunning
<1>4. ASSUME Sweep PROVE ToldInv'
  BY <1>4 DEF Sweep
<1>5. ASSUME CloseListener PROVE ToldInv'
  BY <1>5 DEF CloseListener
<1>6. ASSUME Join PROVE ToldInv'
  BY <1>6, NextServerType DEF Join, Proceed
<1>7. ASSUME DrainWaits PROVE ToldInv'
  BY <1>7 DEF DrainWaits
<1>8. ASSUME DrainEnds PROVE ToldInv'
  BY <1>8, NextServerType DEF DrainEnds, Proceed
<1>9. ASSUME Teardown PROVE ToldInv'
  BY <1>9 DEF Teardown
<1>10. ASSUME Exit PROVE ToldInv'
  BY <1>10 DEF Exit
<1>11. ASSUME NEW c \in Conns, Terminates(c) PROVE ToldInv'
  BY <1>11 DEF Terminates
<1> QED
  BY <1>1, <1>2, <1>3, <1>4, <1>5, <1>6, <1>7, <1>8, <1>9, <1>10, <1>11 DEF Next, PeerStep,
    StopStep, HandlerStep, ClientStep, Connect, HangUp, Accept, Receive, Send, SendDelta, Count, Register,
    Handshake, TestRunning, ReceiveEnds, Facts, Lock, Return, Unregister, Close, Uncount,
    ListenerTests, SelectTimeout, SelectReady, EnterAccept, AcceptOther, ListenerAt

(* Registration and its end are where the registry changes. *)
LEMMA RegistryStep ==
  ASSUME BaseInv, PlaceInv, RegistryInv, Next
  PROVE  RegistryInv'
<1> USE DEF BaseInv, PlaceInv, RegistryInv, Listed, Conns, Looping, Counts, Server, Goto,
  stopVars, sockVars, regVars
<1>1. CASE UNCHANGED <<cpc, clients>>
  BY <1>1
<1>2. ASSUME NEW c \in Conns, Connect(c) PROVE RegistryInv'
  BY <1>2 DEF Connect, Goto
<1>3. ASSUME NEW c \in Conns, HangUp(c) PROVE RegistryInv'
  BY <1>3 DEF HangUp, Goto
<1>4. ASSUME NEW c \in Conns, Accept(c) PROVE RegistryInv'
  BY <1>4 DEF Accept, Goto, ListenerAt
<1>5. ASSUME NEW c \in Conns, Receive(c) PROVE RegistryInv'
  BY <1>5 DEF Receive, Goto
<1>6. ASSUME NEW c \in Conns, Send(c) PROVE RegistryInv'
  BY <1>6 DEF Send, Goto
<1>7. ASSUME NEW c \in Conns, Count(c) PROVE RegistryInv'
  BY <1>7 DEF Count, Goto, Counts
<1>8. ASSUME NEW c \in Conns, Register(c) PROVE RegistryInv'
  BY <1>8 DEF Register, Goto
<1>9. ASSUME NEW c \in Conns, Handshake(c) PROVE RegistryInv'
  BY <1>9 DEF Handshake, Goto, Counts
<1>10. ASSUME NEW c \in Conns, TestRunning(c) PROVE RegistryInv'
  BY <1>10 DEF TestRunning, Goto
<1>11. ASSUME NEW c \in Conns, ReceiveEnds(c) PROVE RegistryInv'
  BY <1>11 DEF ReceiveEnds, Goto
<1>12. ASSUME NEW c \in Conns, Facts(c) PROVE RegistryInv'
  BY <1>12 DEF Facts, Goto
<1>13. ASSUME NEW c \in Conns, Lock(c) PROVE RegistryInv'
  BY <1>13 DEF Lock, Goto
<1>14. ASSUME NEW c \in Conns, Return(c) PROVE RegistryInv'
  BY <1>14 DEF Return, Goto
<1>15. ASSUME NEW c \in Conns, Unregister(c) PROVE RegistryInv'
  BY <1>15 DEF Unregister, Goto
<1>16. ASSUME NEW c \in Conns, Close(c) PROVE RegistryInv'
  BY <1>16 DEF Close, Goto, Counts
<1>17. ASSUME NEW c \in Conns, Uncount(c) PROVE RegistryInv'
  BY <1>17 DEF Uncount, Goto
<1>18. ASSUME NEW c \in Conns, SendDelta(c) PROVE RegistryInv'
  BY <1>18 DEF SendDelta, Goto
<1> QED
  BY <1>1, <1>2, <1>3, <1>4, <1>5, <1>6, <1>7, <1>8, <1>9, <1>10, <1>11, <1>12, <1>13,
    <1>14, <1>15, <1>16, <1>17, <1>18 DEF Next, PeerStep, StopStep, HandlerStep, ClientStep, Terminates, ListenerTests,
    SelectTimeout, SelectReady, EnterAccept, AcceptOther, ListenReturns, StoreNotRunning,
    Sweep, CloseListener, Join, DrainWaits, DrainEnds, Teardown, Exit, Proceed, ListenerAt

(* The sweep reaches every handler inside its loop, and none enters it later. *)
LEMMA SweptStep ==
  ASSUME BaseInv, RegistryInv, ToldInv, SweptOrLeaving, Next
  PROVE  SweptOrLeaving'
<1> USE DEF BaseInv, RegistryInv, Listed, ToldInv, Told, SweptOrLeaving, Swept, Serving,
  Looping, Conns, Servers, Server, Goto, stopVars, sockVars, regVars
<1>1. CASE UNCHANGED <<stopVars, cpc, dead>>
  BY <1>1
<1>2. ASSUME NEW c \in Conns, Connect(c) PROVE SweptOrLeaving'
  BY <1>2 DEF Connect, Goto
<1>3. ASSUME NEW c \in Conns, HangUp(c) PROVE SweptOrLeaving'
  BY <1>3 DEF HangUp, Goto
<1>4. ASSUME NEW c \in Conns, Accept(c) PROVE SweptOrLeaving'
  BY <1>4 DEF Accept, Goto, ListenerAt
<1>5. ASSUME NEW c \in Conns, Receive(c) PROVE SweptOrLeaving'
  BY <1>5 DEF Receive, Goto
<1>6. ASSUME NEW c \in Conns, Send(c) PROVE SweptOrLeaving'
  BY <1>6 DEF Send, Goto
<1>7. ASSUME NEW c \in Conns, Count(c) PROVE SweptOrLeaving'
  BY <1>7 DEF Count, Goto, Counts
<1>8. ASSUME NEW c \in Conns, Register(c) PROVE SweptOrLeaving'
  BY <1>8 DEF Register, Goto
<1>9. ASSUME NEW c \in Conns, Handshake(c) PROVE SweptOrLeaving'
  BY <1>9 DEF Handshake, Goto, Counts
<1>10. ASSUME NEW c \in Conns, TestRunning(c) PROVE SweptOrLeaving'
  BY <1>10 DEF TestRunning, Goto
<1>11. ASSUME NEW c \in Conns, ReceiveEnds(c) PROVE SweptOrLeaving'
  BY <1>11 DEF ReceiveEnds, Goto
<1>12. ASSUME NEW c \in Conns, Facts(c) PROVE SweptOrLeaving'
  BY <1>12 DEF Facts, Goto
<1>13. ASSUME NEW c \in Conns, Lock(c) PROVE SweptOrLeaving'
  BY <1>13 DEF Lock, Goto
<1>14. ASSUME NEW c \in Conns, Return(c) PROVE SweptOrLeaving'
  BY <1>14 DEF Return, Goto
<1>15. ASSUME NEW c \in Conns, Unregister(c) PROVE SweptOrLeaving'
  BY <1>15 DEF Unregister, Goto
<1>16. ASSUME NEW c \in Conns, Close(c) PROVE SweptOrLeaving'
  BY <1>16 DEF Close, Goto, Counts
<1>17. ASSUME NEW c \in Conns, Uncount(c) PROVE SweptOrLeaving'
  BY <1>17 DEF Uncount, Goto
<1>18. ASSUME ListenReturns PROVE SweptOrLeaving'
  BY <1>18, NextServerType DEF ListenReturns, Proceed
<1>19. ASSUME StoreNotRunning PROVE SweptOrLeaving'
  BY <1>19 DEF StoreNotRunning
<1>20. ASSUME Sweep PROVE SweptOrLeaving'
  BY <1>20 DEF Sweep
<1>21. ASSUME CloseListener PROVE SweptOrLeaving'
  BY <1>21 DEF CloseListener
<1>22. ASSUME Join PROVE SweptOrLeaving'
  BY <1>22, NextServerType DEF Join, Proceed
<1>23. ASSUME DrainWaits PROVE SweptOrLeaving'
  BY <1>23 DEF DrainWaits
<1>24. ASSUME DrainEnds PROVE SweptOrLeaving'
  BY <1>24, NextServerType DEF DrainEnds, Proceed
<1>25. ASSUME Teardown PROVE SweptOrLeaving'
  BY <1>25 DEF Teardown
<1>26. ASSUME Exit PROVE SweptOrLeaving'
  BY <1>26 DEF Exit
<1>27. ASSUME NEW c \in Conns, SendDelta(c) PROVE SweptOrLeaving'
  BY <1>27 DEF SendDelta, Goto
<1>28. ASSUME NEW c \in Conns, Terminates(c) PROVE SweptOrLeaving'
  BY <1>28 DEF Terminates
<1> QED
  BY <1>1, <1>2, <1>3, <1>4, <1>5, <1>6, <1>7, <1>8, <1>9, <1>10, <1>11, <1>12, <1>13,
    <1>14, <1>15, <1>16, <1>17, <1>18, <1>19, <1>20, <1>21, <1>22, <1>23, <1>24, <1>25,
    <1>26, <1>27, <1>28 DEF Next, PeerStep, StopStep, HandlerStep, ClientStep, ListenerTests, SelectTimeout,
    SelectReady, EnterAccept, AcceptOther, ListenerAt

(* A finite count of nothing is zero, and conversely. *)
LEMMA CountedFinite == IsFiniteSet(Counted) /\ IsFiniteSet(Counted')
<1>1. Counted \subseteq Conns /\ Counted' \subseteq Conns
  BY DEF Counted, Conns
<1> QED
  BY <1>1, FS_Subset DEF PeerAssumption

(* The wait ends with a count of zero: nobody is inside, and nobody enters. *)
LEMMA DrainedStep ==
  ASSUME BaseInv, CountInv, ToldInv, DrainedInv, Next
  PROVE  DrainedInv'
<1> USE DEF BaseInv, ToldInv, Told, DrainedInv, Serving, Conns, Servers, Server, Goto,
  stopVars, sockVars, regVars
<1>1. CASE UNCHANGED <<drained, cpc>>
  BY <1>1
<1>2. ASSUME NEW c \in Conns, Connect(c) PROVE DrainedInv'
  BY <1>2 DEF Connect, Goto
<1>3. ASSUME NEW c \in Conns, HangUp(c) PROVE DrainedInv'
  BY <1>3 DEF HangUp, Goto
<1>4. ASSUME NEW c \in Conns, Accept(c) PROVE DrainedInv'
  BY <1>4 DEF Accept, Goto, ListenerAt
<1>5. ASSUME NEW c \in Conns, Receive(c) PROVE DrainedInv'
  BY <1>5 DEF Receive, Goto
<1>6. ASSUME NEW c \in Conns, Send(c) PROVE DrainedInv'
  BY <1>6 DEF Send, Goto
<1>7. ASSUME NEW c \in Conns, Count(c) PROVE DrainedInv'
  BY <1>7 DEF Count, Goto, Counts
<1>8. ASSUME NEW c \in Conns, Register(c) PROVE DrainedInv'
  BY <1>8 DEF Register, Goto
<1>9. ASSUME NEW c \in Conns, Handshake(c) PROVE DrainedInv'
  BY <1>9 DEF Handshake, Goto, Counts
<1>10. ASSUME NEW c \in Conns, TestRunning(c) PROVE DrainedInv'
  BY <1>10 DEF TestRunning, Goto
<1>11. ASSUME NEW c \in Conns, ReceiveEnds(c) PROVE DrainedInv'
  BY <1>11 DEF ReceiveEnds, Goto
<1>12. ASSUME NEW c \in Conns, Facts(c) PROVE DrainedInv'
  BY <1>12 DEF Facts, Goto
<1>13. ASSUME NEW c \in Conns, Lock(c) PROVE DrainedInv'
  BY <1>13 DEF Lock, Goto
<1>14. ASSUME NEW c \in Conns, Return(c) PROVE DrainedInv'
  BY <1>14 DEF Return, Goto
<1>15. ASSUME NEW c \in Conns, Unregister(c) PROVE DrainedInv'
  BY <1>15 DEF Unregister, Goto
<1>16. ASSUME NEW c \in Conns, Close(c) PROVE DrainedInv'
  BY <1>16 DEF Close, Goto, Counts
<1>17. ASSUME NEW c \in Conns, Uncount(c) PROVE DrainedInv'
  BY <1>17 DEF Uncount, Goto
<1>18. ASSUME DrainEnds PROVE DrainedInv'
  <2>1. CASE active = 0
    <3>1. Counted = {}
      BY <2>1, CountedFinite, FS_EmptySet DEF CountInv
    <3> QED
      BY <1>18, <3>1 DEF DrainEnds, Proceed, Counted, Looping
  <2>2. CASE active # 0
    BY <1>18, <2>2 DEF DrainEnds
  <2> QED
    BY <2>1, <2>2
<1>19. ASSUME NEW c \in Conns, SendDelta(c) PROVE DrainedInv'
  BY <1>19 DEF SendDelta, Goto
<1> QED
  BY <1>1, <1>2, <1>3, <1>4, <1>5, <1>6, <1>7, <1>8, <1>9, <1>10, <1>11, <1>12, <1>13,
    <1>14, <1>15, <1>16, <1>17, <1>18, <1>19 DEF Next, PeerStep, StopStep, HandlerStep, ClientStep, Terminates,
    ListenerTests, SelectTimeout, SelectReady, EnterAccept, AcceptOther, ListenReturns,
    StoreNotRunning, Sweep, CloseListener, Join, DrainWaits, Teardown, Exit, Proceed,
    ListenerAt

(* A handler is counted once and taken off once. *)
LEMMA CountStep ==
  ASSUME BaseInv, PlaceInv, CountInv, Next
  PROVE  CountInv'
<1> USE DEF BaseInv, PlaceInv, CountInv, Conns, Looping, ConnPcs, Server, Goto,
  stopVars, sockVars, regVars
<1>1. CASE UNCHANGED <<cpc, active>>
  BY <1>1 DEF Counted
<1>2. ASSUME NEW c \in Conns, Connect(c) PROVE CountInv'
  <2>1. Counted' = Counted
    BY <1>2 DEF Counted, Connect, Goto
  <2> QED
    BY <1>2, <2>1 DEF Connect, Goto
<1>3. ASSUME NEW c \in Conns, HangUp(c) PROVE CountInv'
  <2>1. Counted' = Counted
    BY <1>3 DEF Counted, HangUp, Goto
  <2> QED
    BY <1>3, <2>1 DEF HangUp, Goto
<1>4. ASSUME NEW c \in Conns, Accept(c) PROVE CountInv'
  <2>1. Counted' = Counted
    BY <1>4 DEF Counted, Accept, Goto, ListenerAt
  <2> QED
    BY <1>4, <2>1 DEF Accept, Goto, ListenerAt
<1>5. ASSUME NEW c \in Conns, Receive(c) PROVE CountInv'
  <2>1. Counted' = Counted
    BY <1>5 DEF Counted, Receive, Goto
  <2> QED
    BY <1>5, <2>1 DEF Receive, Goto
<1>6. ASSUME NEW c \in Conns, Send(c) PROVE CountInv'
  <2>1. Counted' = Counted
    BY <1>6 DEF Counted, Send, Goto
  <2> QED
    BY <1>6, <2>1 DEF Send, Goto
<1>7. ASSUME NEW c \in Conns, Count(c) PROVE CountInv'
  <2>1. c \in WyomingConns /\ c \notin Counted /\ Counted' = Counted \cup {c}
    BY <1>7 DEF Counted, Count, Goto, Counts
  <2>2. Cardinality(Counted') = Cardinality(Counted) + 1
    BY <2>1, CountedFinite, FS_AddElement
  <2> QED
    BY <1>7, <2>2 DEF Count
<1>8. ASSUME NEW c \in Conns, Register(c) PROVE CountInv'
  <2>1. Counted' = Counted
    BY <1>8 DEF Counted, Register, Goto
  <2> QED
    BY <1>8, <2>1 DEF Register, Goto
<1>9. ASSUME NEW c \in Conns, Handshake(c) PROVE CountInv'
  <2>1. Counted' = Counted
    BY <1>9 DEF Counted, Handshake, Goto, Counts
  <2> QED
    BY <1>9, <2>1 DEF Handshake, Goto, Counts
<1>10. ASSUME NEW c \in Conns, TestRunning(c) PROVE CountInv'
  <2>1. Counted' = Counted
    BY <1>10 DEF Counted, TestRunning, Goto
  <2> QED
    BY <1>10, <2>1 DEF TestRunning, Goto
<1>11. ASSUME NEW c \in Conns, ReceiveEnds(c) PROVE CountInv'
  <2>1. Counted' = Counted
    BY <1>11 DEF Counted, ReceiveEnds, Goto
  <2> QED
    BY <1>11, <2>1 DEF ReceiveEnds, Goto
<1>12. ASSUME NEW c \in Conns, Facts(c) PROVE CountInv'
  <2>1. Counted' = Counted
    BY <1>12 DEF Counted, Facts, Goto
  <2> QED
    BY <1>12, <2>1 DEF Facts, Goto
<1>13. ASSUME NEW c \in Conns, Lock(c) PROVE CountInv'
  <2>1. Counted' = Counted
    BY <1>13 DEF Counted, Lock, Goto
  <2> QED
    BY <1>13, <2>1 DEF Lock, Goto
<1>14. ASSUME NEW c \in Conns, Return(c) PROVE CountInv'
  <2>1. Counted' = Counted
    BY <1>14 DEF Counted, Return, Goto
  <2> QED
    BY <1>14, <2>1 DEF Return, Goto
<1>15. ASSUME NEW c \in Conns, Unregister(c) PROVE CountInv'
  <2>1. Counted' = Counted
    BY <1>15 DEF Counted, Unregister, Goto
  <2> QED
    BY <1>15, <2>1 DEF Unregister, Goto
<1>16. ASSUME NEW c \in Conns, Close(c) PROVE CountInv'
  <2>1. Counted' = Counted
    BY <1>16 DEF Counted, Close, Goto, Counts
  <2> QED
    BY <1>16, <2>1 DEF Close, Goto, Counts
<1>17. ASSUME NEW c \in Conns, Uncount(c) PROVE CountInv'
  <2>1. c \in Counted /\ Counted' = Counted \ {c}
    BY <1>17 DEF Counted, Uncount, Goto
  <2>2. Cardinality(Counted') = Cardinality(Counted) - 1 /\ Cardinality(Counted') \in Nat
    BY <2>1, CountedFinite, FS_RemoveElement, FS_CardinalityType
  <2> QED
    BY <1>17, <2>2 DEF Uncount
<1>18. ASSUME NEW c \in Conns, SendDelta(c) PROVE CountInv'
  <2>1. Counted' = Counted
    BY <1>18 DEF Counted, SendDelta, Goto
  <2> QED
    BY <1>18, <2>1 DEF SendDelta, Goto
<1> QED
  BY <1>1, <1>2, <1>3, <1>4, <1>5, <1>6, <1>7, <1>8, <1>9, <1>10, <1>11, <1>12, <1>13,
    <1>14, <1>15, <1>16, <1>17, <1>18 DEF Next, PeerStep, StopStep, HandlerStep, ClientStep, Terminates, ListenerTests,
    SelectTimeout, SelectReady, EnterAccept, AcceptOther, ListenReturns, StoreNotRunning,
    Sweep, CloseListener, Join, DrainWaits, DrainEnds, Teardown, Exit, Proceed, ListenerAt

(* A stutter keeps it. *)
LEMMA Stutter ==
  ASSUME IInv, UNCHANGED vars
  PROVE  IInv'
BY DEF IInv, BaseInv, PlaceInv, CountInv, Counted, RegistryInv, Listed, ToldInv, Told,
  SweptOrLeaving, Swept, DrainedInv, vars, stopVars, sockVars, regVars

(* It holds at the start. *)
LEMMA InitIInv == ASSUME Init PROVE IInv
<1> USE DEF Init
<1>1. BaseInv
  <2>1. Started \subseteq Servers /\ tries \in 0 .. DrainTries
    BY DEF PeerAssumption
  <2>2. running \in [Servers -> BOOLEAN]
    OBVIOUS
  <2>3. lpc \in [Servers -> {"test", "select", "enter", "accept", "ended"}]
    OBVIOUS
  <2>4. cpc \in [Conns -> ConnPcs]
    BY DEF ConnPcs
  <2> QED
    BY <2>1, <2>2, <2>3, <2>4 DEF BaseInv, MainPcs
<1>2. CountInv
  <2>1. Counted = {}
    BY DEF Counted, Looping, Conns
  <2> QED
    BY <2>1, FS_EmptySet DEF CountInv
<1>3. PlaceInv /\ RegistryInv /\ ToldInv /\ SweptOrLeaving /\ DrainedInv
  BY DEF PlaceInv, RegistryInv, Listed, ToldInv, Told, SweptOrLeaving, Swept, DrainedInv, Looping,
    Conns
<1> QED
  BY <1>1, <1>2, <1>3 DEF IInv

(* The inductive invariant. *)
THEOREM IInvHolds == Spec => []IInv
<1>1. Init => IInv
  BY InitIInv
<1>2. IInv /\ [Next]_vars => IInv'
  <2> SUFFICES ASSUME IInv, [Next]_vars PROVE IInv'
    OBVIOUS
  <2>1. CASE UNCHANGED vars
    BY <2>1, Stutter
  <2>2. CASE Next
    BY <2>2, BaseStep, PlaceStep, CountStep, RegistryStep, ToldStep, SweptStep, DrainedStep DEF IInv
  <2> QED
    BY <2>1, <2>2
<1> QED
  BY <1>1, <1>2, PTL DEF Spec

(* Every state is well formed, and g_active counts the handlers exactly. *)
THEOREM PeerTypeCorrect == Spec => []TypeOK
<1>1. IInv => TypeOK
  BY DEF IInv, BaseInv, CountInv, TypeOK
<1> QED
  BY <1>1, IInvHolds, PTL

(* No Wyoming handler is in the backend once the wait has seen none active. *)
THEOREM DrainedCorrect == Spec => []DrainedAlone
<1>1. IInv => DrainedAlone
  BY DEF IInv, DrainedInv, DrainedAlone, InBackend, Serving
<1> QED
  BY <1>1, IInvHolds, PTL

(* After the sweep no handler waits on a socket that nobody will shut. *)
THEOREM SweptCorrect == Spec => []SweptOrLeaving
<1>1. IInv => SweptOrLeaving
  BY DEF IInv
<1> QED
  BY <1>1, IInvHolds, PTL

(* The registry never holds a closed descriptor. *)
THEOREM RegisteredCorrect == Spec => []RegisteredOpen
<1>1. IInv => RegisteredOpen
  BY DEF IInv, RegistryInv, Listed, RegisteredOpen, Looping
<1> QED
  BY <1>1, IInvHolds, PTL

(* A queued connection stays queued until the listener accepts it, so that *)
(* what select has seen is still there when accept is called.              *)
LEMMA QueuedStays ==
  ASSUME BaseInv, AcceptNeverBlocks, Next
  PROVE  AcceptNeverBlocks'
<1> DEFINE Q == {c \in Conns : Server(c) = "wyoming" /\ cpc[c] = "queued"}
           InAccept == lpc["wyoming"] \in {"enter", "accept"}
<1> SUFFICES InAccept' => Q' # {}
  BY DEF AcceptNeverBlocks, Queued
<1>0. InAccept => Q # {}
  BY DEF AcceptNeverBlocks, Queued
<1>1. ASSUME UNCHANGED <<lpc, cpc>> PROVE InAccept' => Q' # {}
  BY <1>0, <1>1
<1>2. ASSUME NEW c \in Conns, cpc[c] # "queued", NEW l, Goto(c, l), UNCHANGED lpc
      PROVE  InAccept' => Q' # {}
  <2>1. \A d \in Conns : cpc[d] = "queued" => cpc'[d] = "queued"
    BY <1>2 DEF BaseInv, Goto
  <2> QED
    BY <1>0, <1>2, <2>1
<1>3. ASSUME NEW c \in Conns, Accept(c) PROVE InAccept' => Q' # {}
  <2>1. CASE Server(c) = "wyoming"
    BY <1>3, <2>1 DEF Accept, ListenerAt, BaseInv, Servers
  <2>2. CASE Server(c) # "wyoming"
    <3>1. lpc'["wyoming"] = lpc["wyoming"]
      BY <1>3, <2>2 DEF Accept, ListenerAt, BaseInv, Servers
    <3>2. \A d \in Conns : Server(d) = "wyoming" => cpc'[d] = cpc[d]
      BY <1>3, <2>2 DEF Accept, Goto, BaseInv
    <3> QED
      BY <1>0, <3>1, <3>2
  <2> QED
    BY <2>1, <2>2
<1>4. ASSUME NEW s \in Servers, ListenerTests(s) \/ SelectTimeout(s) \/ SelectReady(s)
             \/ EnterAccept(s) \/ AcceptOther(s)
      PROVE  InAccept' => Q' # {}
  <2>1. UNCHANGED cpc
    BY <1>4 DEF ListenerTests, SelectTimeout, SelectReady, EnterAccept, AcceptOther
  <2>2. CASE s = "wyoming"
    BY <1>0, <1>4, <2>1, <2>2 DEF ListenerTests, SelectTimeout, SelectReady, EnterAccept,
      AcceptOther, ListenerAt, Queued, BaseInv, Servers
  <2>3. CASE s # "wyoming"
    <3>1. lpc'["wyoming"] = lpc["wyoming"]
      BY <1>4, <2>3 DEF ListenerTests, SelectTimeout, SelectReady, EnterAccept, AcceptOther,
        ListenerAt, BaseInv, Servers
    <3> QED
      BY <1>0, <2>1, <3>1
  <2> QED
    BY <2>2, <2>3
<1>5. ASSUME NEW c \in Conns,
             Connect(c) \/ HangUp(c) \/ Receive(c) \/ ClientStep(c) \/ HandlerStep(c)
      PROVE  InAccept' => Q' # {}
  <2>1. CASE HangUp(c)
    BY <1>1, <2>1 DEF HangUp
  <2>2. CASE ~HangUp(c)
    <3>1. cpc[c] # "queued" /\ UNCHANGED lpc /\ \E l : Goto(c, l)
      BY <1>5, <2>2 DEF Connect, Receive, ClientStep, Send, SendDelta, HandlerStep, Count, Register, Handshake,
        TestRunning, ReceiveEnds, Facts, Lock, Return, Unregister, Close, Uncount
    <3> QED
      BY <1>2, <3>1
  <2> QED
    BY <2>1, <2>2
<1>6. CASE ListenReturns \/ StopStep
  BY <1>1, <1>6 DEF ListenReturns, StopStep, StoreNotRunning, Sweep, CloseListener, Join,
    DrainWaits, DrainEnds, Teardown, Exit
<1>7. ASSUME NEW c \in Conns, Terminates(c) PROVE InAccept' => Q' # {}
  BY <1>1, <1>7 DEF Terminates
<1> QED
  BY <1>3, <1>4, <1>5, <1>6, <1>7 DEF Next, PeerStep, Servers

(* For any number of connections, clients that hang up and errors of       *)
(* accept: wyoming_stop joins a listener that never blocks in accept.      *)
THEOREM AcceptCorrect == Spec => []AcceptNeverBlocks
<1>1. Init => AcceptNeverBlocks
  BY DEF Init, AcceptNeverBlocks, Servers
<1>2. IInv /\ AcceptNeverBlocks /\ [Next]_vars => AcceptNeverBlocks'
  <2> SUFFICES ASSUME IInv, AcceptNeverBlocks, [Next]_vars PROVE AcceptNeverBlocks'
    OBVIOUS
  <2>1. CASE UNCHANGED vars
    BY <2>1 DEF vars, AcceptNeverBlocks, Queued
  <2>2. CASE Next
    BY <2>2, QueuedStays DEF IInv
  <2> QED
    BY <2>1, <2>2
<1> QED
  BY <1>1, <1>2, IInvHolds, PTL DEF Spec
=============================================================================
