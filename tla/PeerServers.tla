----------------------------- MODULE PeerServers -----------------------------
(***************************************************************************)
(* The end of stelnet_server (examples/cli/stelnet_server.cpp, after       *)
(* svr.listen): the Wyoming, WebSocket and realtime servers, which run     *)
(* beside the HTTP server on ports of their own, are stopped one after     *)
(* the other while clients are connected, and then the backend and its     *)
(* mutex are destroyed with the frame of stelnet_server_run.               *)
(*                                                                         *)
(* Each server has a listener thread and one detached thread for each      *)
(* connection.  They differ in how they stop:                              *)
(*   - the Wyoming server (wyoming.cpp) polls before it accepts, keeps a   *)
(*     registry of its sockets and a count of its handlers, and its stop   *)
(*     wakes the handlers and waits some time for them;                    *)
(*   - the other two (ws_stream.cpp, realtime_server.cpp) close the        *)
(*     listening socket and join a listener that blocks in accept.         *)
(* A WebSocket connection opens a model of its own and shares nothing with *)
(* the others, so that it is not followed here; the handlers of the other  *)
(* two call the shared backend.                                            *)
(*                                                                         *)
(* A socket is the name of its connection.  The kernel is the one of POSIX *)
(* systems: a thread inside accept keeps the closed socket alive until a   *)
(* connection arrives; a shut socket still delivers what was buffered.     *)
(*                                                                         *)
(* A definition marked "Faulty" is not part of the specification: it is    *)
(* what a mistake in the definition after it would look like, to show that *)
(* a property notices.                                                     *)
(***************************************************************************)
EXTENDS Integers, FiniteSets

CONSTANTS
  Started,        (* the servers that were started: wyoming_started, ws_started, rt_started *)
  WyomingConns,   (* connections to the Wyoming server                           *)
  RealtimeConns,  (* connections to the realtime server                          *)
  DrainTries,     (* rounds of the bounded wait of wyoming_stop: 100 of 20 ms    *)
  Nobody          (* holder of the free model mutex                              *)

Servers == {"wyoming", "ws", "realtime"}
Conns   == WyomingConns \cup RealtimeConns

ASSUME PeerAssumption ==
  /\ Started \subseteq Servers
  /\ WyomingConns \cap RealtimeConns = {}
  /\ IsFiniteSet(Conns) /\ Nobody \notin Conns
  /\ DrainTries \in Nat

VARIABLES
  main,         (* where the main thread is                                    *)
  stopping,     (* the server it is stopping, or "none"                        *)
  running,      (* g_running, g_ws_running, g_rt_running                       *)
  listening,    (* the servers whose listening socket has not been closed      *)
  lpc,          (* the listener thread of each server                          *)
  cpc,          (* each connection and its handler thread                      *)
  clients,      (* g_clients: the registry of the Wyoming server               *)
  active,       (* g_active: its count of handlers                             *)
  dead,         (* sockets the peer has closed or the stop has shut down       *)
  tries,        (* rounds left of the bounded wait                             *)
  drained,      (* history: the bounded wait ended with no handler active      *)
  model_mutex,  (* its holder                                                  *)
  backend       (* "live" or "destroyed"                                       *)

stopVars == <<main, stopping, tries, drained, backend>>
sockVars == <<listening, dead>>
regVars  == <<clients, active>>
vars == <<stopVars, sockVars, regVars, running, lpc, cpc, model_mutex>>

Server(c) == IF c \in WyomingConns THEN "wyoming" ELSE "realtime"
Queued(s) == {c \in Conns : Server(c) = s /\ cpc[c] = "queued"}

(* After the early states of a connection: its handler is inside the loop. *)
Looping   == {"test", "recv", "facts", "wait", "call", "delta", "send"}
(* A handler that calls the backend, or will without another look at running. *)
Serving   == {"recv", "facts", "wait", "call", "delta", "send"}
InBackend == {"facts", "wait", "call"}

Init ==
  /\ main = "serving" /\ stopping = "none"
  /\ running = [s \in Servers |-> s \in Started]
  /\ listening = Started
  /\ lpc = [s \in Servers |-> IF s \in Started THEN "test" ELSE "ended"]
  /\ cpc = [c \in Conns |-> "none"]
  /\ clients = {} /\ active = 0 /\ dead = {}
  /\ tries = DrainTries /\ drained = FALSE
  /\ model_mutex = Nobody /\ backend = "live"

(***************************************************************************)
(* Clients.                                                                *)
(***************************************************************************)

Goto(c, l) == cpc' = [cpc EXCEPT ![c] = l]

(* The kernel completes a connection while somebody can still accept it:   *)
(* while the socket is open, or a listener is inside accept.               *)
Connect(c) ==
  /\ cpc[c] = "none"
  /\ Server(c) \in listening \/ lpc[Server(c)] = "accept"
  /\ Goto(c, "queued")
  /\ UNCHANGED <<stopVars, sockVars, regVars, running, lpc, model_mutex>>

(* The client closes its end: recv and send of the handler fail from now on. *)
HangUp(c) ==
  /\ cpc[c] \notin {"none", "closed"} /\ c \notin dead
  /\ dead' = dead \cup {c}
  /\ UNCHANGED <<stopVars, listening, regVars, running, lpc, cpc, model_mutex>>

(***************************************************************************)
(* Listeners: wyoming_listener, ws_listener_thread, rt_listener_thread.    *)
(***************************************************************************)

ListenerAt(s, from, to) ==
  /\ lpc[s] = from
  /\ lpc' = [lpc EXCEPT ![s] = to]

(* Faulty: accept without a select before it, as in the other two servers. *)
ListenerTestsOnly(s) ==
  /\ ListenerAt(s, "test", IF ~running[s] THEN "ended" ELSE "enter")
  /\ UNCHANGED <<stopVars, sockVars, regVars, running, cpc, model_mutex>>

ListenerTests(s) ==
  /\ ListenerAt(s, "test", IF ~running[s] THEN "ended"
                           ELSE IF s = "wyoming" THEN "select" ELSE "enter")
  /\ UNCHANGED <<stopVars, sockVars, regVars, running, cpc, model_mutex>>

(* Faulty: a select without its timeout.                                   *)
SelectTimeoutNot(s) ==
  /\ Queued(s) # {}
  /\ ListenerAt(s, "select", "test")
  /\ UNCHANGED <<stopVars, sockVars, regVars, running, cpc, model_mutex>>

SelectTimeout(s) ==
  /\ ListenerAt(s, "select", "test")
  /\ UNCHANGED <<stopVars, sockVars, regVars, running, cpc, model_mutex>>

SelectReady(s) ==
  /\ Queued(s) # {}
  /\ ListenerAt(s, "select", "enter")
  /\ UNCHANGED <<stopVars, sockVars, regVars, running, cpc, model_mutex>>

(* The call of accept fails at once on a descriptor that has been closed.  *)
EnterAccept(s) ==
  /\ ListenerAt(s, "enter", IF s \in listening THEN "accept" ELSE "test")
  /\ UNCHANGED <<stopVars, sockVars, regVars, running, cpc, model_mutex>>

(* std::thread(handler, client).detach()                                   *)
Accept(c) ==
  /\ ListenerAt(Server(c), "accept", "test")
  /\ cpc[c] = "queued"
  /\ Goto(c, "spawned")
  /\ UNCHANGED <<stopVars, sockVars, regVars, running, model_mutex>>

(* accept returns an error: no descriptors left, a signal, or on some      *)
(* systems the close of the socket; or a WebSocket connection, which is    *)
(* not followed.                                                           *)
AcceptOther(s) ==
  /\ ListenerAt(s, "accept", "test")
  /\ UNCHANGED <<stopVars, sockVars, regVars, running, cpc, model_mutex>>

(***************************************************************************)
(* Handlers: wyoming_handle_connection, rt_handle_connection.              *)
(***************************************************************************)

Counts(c) == c \in WyomingConns

(* Faulty: the handler is not counted.                                     *)
CountNot(c) ==
  /\ cpc[c] = "spawned" /\ Counts(c)
  /\ Goto(c, "counted")
  /\ UNCHANGED <<stopVars, sockVars, regVars, running, lpc, model_mutex>>

(* g_active.fetch_add(1)                                                   *)
Count(c) ==
  /\ cpc[c] = "spawned" /\ Counts(c)
  /\ Goto(c, "counted")
  /\ active' = active + 1
  /\ UNCHANGED <<stopVars, sockVars, clients, running, lpc, model_mutex>>

(* Faulty: the socket is not registered.                                   *)
RegisterNot(c) ==
  /\ cpc[c] = "counted"
  /\ Goto(c, "test")
  /\ UNCHANGED <<stopVars, sockVars, regVars, running, lpc, model_mutex>>

(* g_clients.push_back(fd), under g_clients_mtx                            *)
Register(c) ==
  /\ cpc[c] = "counted"
  /\ Goto(c, "test")
  /\ clients' = clients \cup {c}
  /\ UNCHANGED <<stopVars, sockVars, active, running, lpc, model_mutex>>

(* The WebSocket handshake of a realtime connection, before its loop.      *)
Handshake(c) ==
  /\ cpc[c] = "spawned" /\ ~Counts(c)
  /\ Goto(c, "test") \/ Goto(c, "leaving")
  /\ UNCHANGED <<stopVars, sockVars, regVars, running, lpc, model_mutex>>

(* while (g_running.load())                                                *)
TestRunning(c) ==
  /\ cpc[c] = "test"
  /\ Goto(c, IF running[Server(c)] THEN "recv" ELSE "leaving")
  /\ UNCHANGED <<stopVars, sockVars, regVars, running, lpc, model_mutex>>

(* A request has arrived: "describe" and "synthesize" ask the backend for  *)
(* its capabilities without the mutex; "audio-stop", and of a realtime     *)
(* session a commit and every half second of audio, go to the mutex, or    *)
(* without audio straight to the answer; others only change the session.   *)
Receive(c) ==
  /\ cpc[c] = "recv"
  /\ \/ Goto(c, "test") \/ Goto(c, "wait") \/ Goto(c, "send")
     \/ Server(c) = "wyoming" /\ Goto(c, "facts")
  /\ UNCHANGED <<stopVars, sockVars, regVars, running, lpc, model_mutex>>

(* recv returns 0 or an error, the payload is too large, or the frame is   *)
(* the close of the client: break.                                         *)
ReceiveEnds(c) ==
  /\ cpc[c] = "recv"
  /\ Goto(c, "leaving")
  /\ UNCHANGED <<stopVars, sockVars, regVars, running, lpc, model_mutex>>

(* Nothing catches what a Wyoming handler throws - a field of the wrong    *)
(* JSON type, a backend out of memory -, and on a detached thread that     *)
(* ends the process.                                                       *)
Terminates(c) ==
  /\ Server(c) = "wyoming" /\ cpc[c] \in {"recv", "call"}
  /\ main' = "exited"
  /\ UNCHANGED <<stopping, tries, drained, backend, sockVars, regVars, running, lpc, cpc, model_mutex>>

(* capabilities() answered: the info of "describe" or an empty stream is   *)
(* sent, or the synthesis waits for the mutex.                             *)
Facts(c) ==
  /\ cpc[c] = "facts"
  /\ Goto(c, "wait") \/ Goto(c, "send")
  /\ UNCHANGED <<stopVars, sockVars, regVars, running, lpc, model_mutex>>

(* lock_guard of the model mutex, and the call of the backend              *)
Lock(c) ==
  /\ cpc[c] = "wait" /\ model_mutex = Nobody
  /\ model_mutex' = c
  /\ Goto(c, "call")
  /\ UNCHANGED <<stopVars, sockVars, regVars, running, lpc>>

(* A realtime session sends its new words before it releases the mutex;    *)
(* without new words, or with an exception, which it catches, it releases  *)
(* it at once.  Only a commit has an answer besides.                       *)
Return(c) ==
  /\ cpc[c] = "call"
  /\ \/ model_mutex' = Nobody /\ Goto(c, "send")
     \/ c \in RealtimeConns /\ model_mutex' = Nobody /\ Goto(c, "test")
     \/ c \in RealtimeConns /\ Goto(c, "delta") /\ UNCHANGED model_mutex
  /\ UNCHANGED <<stopVars, sockVars, regVars, running, lpc>>

(* The delta is sent when the client reads it, or the socket is dead.      *)
SendDelta(c) ==
  /\ cpc[c] = "delta"
  /\ model_mutex' = Nobody
  /\ Goto(c, "send") \/ Goto(c, "test")
  /\ UNCHANGED <<stopVars, sockVars, regVars, running, lpc>>

(* So is the answer: a failed send is not looked at.                       *)
Send(c) ==
  /\ cpc[c] = "send"
  /\ Goto(c, "test")
  /\ UNCHANGED <<stopVars, sockVars, regVars, running, lpc, model_mutex>>

(* Faulty: the socket stays in the registry.                               *)
UnregisterNot(c) ==
  /\ cpc[c] = "leaving"
  /\ Goto(c, "closing")
  /\ UNCHANGED <<stopVars, sockVars, regVars, running, lpc, model_mutex>>

(* g_clients.erase(...), under g_clients_mtx                               *)
Unregister(c) ==
  /\ cpc[c] = "leaving"
  /\ clients' = clients \ {c}
  /\ Goto(c, "closing")
  /\ UNCHANGED <<stopVars, sockVars, active, running, lpc, model_mutex>>

(* CLOSE_SOCKET(fd)                                                        *)
Close(c) ==
  /\ cpc[c] = "closing"
  /\ Goto(c, IF Counts(c) THEN "uncount" ELSE "closed")
  /\ UNCHANGED <<stopVars, sockVars, regVars, running, lpc, model_mutex>>

(* g_active.fetch_sub(1)                                                   *)
Uncount(c) ==
  /\ cpc[c] = "uncount"
  /\ active' = active - 1
  /\ Goto(c, "closed")
  /\ UNCHANGED <<stopVars, sockVars, clients, running, lpc, model_mutex>>

(***************************************************************************)
(* The main thread: stelnet_server_run after svr.listen, wyoming_stop,     *)
(* ws_stream_stop, realtime_server_stop.                                   *)
(***************************************************************************)

(* The servers in the order in which they are stopped; one that was not    *)
(* started is passed over.                                                 *)
NextServer(s) ==
  IF s = "none" /\ "wyoming" \in Started THEN "wyoming"
  ELSE IF s \in {"none", "wyoming"} /\ "ws" \in Started THEN "ws"
  ELSE IF s # "realtime" /\ "realtime" \in Started THEN "realtime" ELSE "none"

Proceed(s) ==
  /\ stopping' = NextServer(s)
  /\ main' = IF NextServer(s) = "none" THEN "teardown" ELSE "store"

(* svr.listen returns: the HTTP port is taken, or its accept failed.       *)
ListenReturns ==
  /\ main = "serving"
  /\ Proceed("none")
  /\ UNCHANGED <<tries, drained, backend, sockVars, regVars, running, lpc, cpc, model_mutex>>

StoreNotRunning ==
  /\ main = "store"
  /\ running' = [running EXCEPT ![stopping] = FALSE]
  /\ main' = IF stopping = "wyoming" THEN "sweep" ELSE "close"
  /\ UNCHANGED <<stopping, tries, drained, backend, sockVars, regVars, lpc, cpc, model_mutex>>


(* shutdown(cfd, SHUTDOWN_BOTH) of every registered socket, under g_clients_mtx *)
Sweep ==
  /\ main = "sweep"
  /\ dead' = dead \cup clients
  /\ main' = "join"
  /\ UNCHANGED <<stopping, tries, drained, backend, listening, regVars, running, lpc, cpc, model_mutex>>

CloseListener ==
  /\ main = "close"
  /\ listening' = listening \ {stopping}
  /\ main' = IF stopping = "wyoming" THEN "drain" ELSE "join"
  /\ UNCHANGED <<stopping, tries, drained, backend, dead, regVars, running, lpc, cpc, model_mutex>>

Join ==
  /\ main = "join" /\ lpc[stopping] = "ended"
  /\ IF stopping = "wyoming" THEN main' = "close" /\ UNCHANGED stopping
                             ELSE Proceed(stopping)
  /\ UNCHANGED <<tries, drained, backend, sockVars, regVars, running, lpc, cpc, model_mutex>>

(* for (i = 0; i < 100 && g_active > 0; i++) sleep(20 ms)                  *)
DrainWaits ==
  /\ main = "drain" /\ tries > 0 /\ active > 0
  /\ tries' = tries - 1
  /\ UNCHANGED <<main, stopping, drained, backend, sockVars, regVars, running, lpc, cpc, model_mutex>>

DrainEnds ==
  /\ main = "drain" /\ (tries = 0 \/ active = 0)
  /\ drained' = (active = 0)
  /\ Proceed(stopping)
  /\ UNCHANGED <<tries, backend, sockVars, regVars, running, lpc, cpc, model_mutex>>

(* return 0: the destructors of backend and model_mutex; detached threads  *)
(* go on until the process has exited.                                     *)
Teardown ==
  /\ main = "teardown"
  /\ backend' = "destroyed"
  /\ main' = "returned"
  /\ UNCHANGED <<stopping, tries, drained, sockVars, regVars, running, lpc, cpc, model_mutex>>

Exit ==
  /\ main = "returned"
  /\ main' = "exited"
  /\ UNCHANGED <<stopping, tries, drained, backend, sockVars, regVars, running, lpc, cpc, model_mutex>>

(***************************************************************************)
(* Specification.  An exited process does nothing.                         *)
(***************************************************************************)

StopStep ==
  StoreNotRunning \/ Sweep \/ CloseListener \/ Join
  \/ DrainWaits \/ DrainEnds \/ Teardown \/ Exit

ListenerStep(s) ==
  ListenerTests(s) \/ SelectTimeout(s) \/ SelectReady(s) \/ EnterAccept(s)
  \/ \E c \in Queued(s) : Accept(c)

HandlerStep(c) ==
  Count(c) \/ Register(c) \/ TestRunning(c) \/ Facts(c) \/ Lock(c) \/ Return(c)
  \/ Unregister(c) \/ Close(c) \/ Uncount(c)

(* Where a handler waits for its client. *)
ClientStep(c) == Handshake(c) \/ ReceiveEnds(c) \/ SendDelta(c) \/ Send(c)

PeerStep ==
  \/ ListenReturns \/ StopStep
  \/ \E s \in {"wyoming"} : SelectTimeout(s) \/ SelectReady(s)
  \/ \E s \in Servers : ListenerTests(s) \/ EnterAccept(s) \/ AcceptOther(s)
  \/ \E c \in Conns :
       \/ Connect(c) \/ HangUp(c) \/ Accept(c)
       \/ Receive(c) \/ ClientStep(c) \/ HandlerStep(c) \/ Terminates(c)

Next == main # "exited" /\ PeerStep

(* Threads that can run do.  Nobody need connect, send a request, read an  *)
(* answer or a delta, or hang up; svr.listen need not return; accept need  *)
(* not fail, nor a handler throw.  On a dead socket recv and send fail at  *)
(* once.                                                                   *)
Fairness ==
  /\ WF_vars(main # "exited" /\ StopStep)
  /\ \A s \in Servers : WF_vars(main # "exited" /\ ListenerStep(s))
  /\ \A c \in Conns :
       WF_vars(main # "exited" /\ (HandlerStep(c) \/ (c \in dead /\ ClientStep(c))))

Spec == Init /\ [][Next]_vars /\ Fairness

(***************************************************************************)
(* Properties.                                                             *)
(***************************************************************************)

MainPcs == {"serving", "store", "sweep", "join", "close", "drain", "teardown", "returned", "exited"}
ConnPcs == {"none", "queued", "spawned", "counted", "leaving", "closing", "uncount", "closed"} \cup Looping

(* The state is well formed; the handlers are counted exactly.             *)
Counted == {c \in WyomingConns : cpc[c] \in {"counted", "leaving", "closing", "uncount"} \cup Looping}
TypeOK ==
  /\ main \in MainPcs /\ stopping \in Servers \cup {"none"}
  /\ running \in [Servers -> BOOLEAN] /\ listening \subseteq Servers
  /\ lpc \in [Servers -> {"test", "select", "enter", "accept", "ended"}]
  /\ cpc \in [Conns -> ConnPcs]
  /\ clients \subseteq WyomingConns /\ dead \subseteq Conns
  /\ active \in Nat /\ active = Cardinality(Counted)
  /\ tries \in 0 .. DrainTries /\ drained \in BOOLEAN
  /\ model_mutex \in Conns \cup {Nobody} /\ backend \in {"live", "destroyed"}

(* "wait for in-flight handlers to finish before the backend is torn down":*)
(* once the wait of wyoming_stop has seen no active handler, none is in    *)
(* the backend or on its way to it - also not one that was accepted but    *)
(* not yet counted when the wait looked.                                   *)
DrainedAlone ==
  drained => \A c \in WyomingConns : cpc[c] \notin InBackend

(* "Wake any connection threads blocked in recv() so they exit": after the *)
(* sweep of the registry a handler inside its loop has a socket that fails *)
(* or is about to see that the server stops - also one that registered     *)
(* while the stop ran.                                                     *)
Swept == drained \/ (stopping = "wyoming" /\ main \in {"join", "close", "drain"})
SweptOrLeaving ==
  Swept => \A c \in WyomingConns : cpc[c] \in Serving => c \in dead

(* The registry holds open sockets only: the sweep never shuts down a      *)
(* descriptor that has been closed, which may by then be somebody else's.  *)
RegisteredOpen ==
  \A c \in clients : cpc[c] \notin {"none", "queued", "uncount", "closed"}

(* "select() with a timeout so the loop re-checks g_running": the Wyoming  *)
(* listener, which wyoming_stop joins with its socket still open, enters   *)
(* accept only when accept returns at once - also when the client that it  *)
(* selected has hung up, and when the server was told to stop in between.  *)
AcceptNeverBlocks ==
  lpc["wyoming"] \in {"enter", "accept"} => Queued("wyoming") # {}

(* wyoming_stop returns, unless the process is gone first: its listener    *)
(* notices within the timeout of its select, and the wait for the handlers *)
(* is bounded.                                                             *)
WyomingStops == stopping = "wyoming" ~> (stopping # "wyoming" \/ main = "exited")


(* "Stops the server and joins the listener thread".  This does not hold   *)
(* of the two servers that block in accept (README, disagreements), so     *)
(* that no configuration claims it.                                        *)
EveryServerStops == main = "store" ~> main = "exited"
=============================================================================
