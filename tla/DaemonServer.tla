---------------------------- MODULE DaemonServer ----------------------------
(***************************************************************************)
(* The connection server of the daemon and its life cycle: who is          *)
(* attached, which requests run, and how the process ends                  *)
(* (src/daemon/server.ts, and the lifecycle part of src/daemon/index.ts).  *)
(*                                                                         *)
(* Node runs one callback at a time, so every event handler, timer and     *)
(* synchronous part of a request handler is one action.  A request that is *)
(* refused changes nothing and is no step.  Sockets are used once.         *)
(***************************************************************************)
EXTENDS Naturals, FiniteSets

CONSTANTS
  Sockets,        \* the connections of a behaviour
  Owners,         \* those of them whose client can read the 0600 token file
  MaxInFlight,    \* global ceiling on running requests
  MaxPerSocket,   \* ceiling on running requests of one connection
  Requests,       \* bound: the ids of the requests that run at once
  Free,           \* a request id that is not in use
  MaxPhantoms,    \* bound on the sockets that die without a close event
  DrainMayExpire  \* TRUE if a handler may outlast the drain deadline

(* Only tool requests are counted against the ceilings.                    *)
Kinds == {"tool", "meta"}

ASSUME ServerAssumption ==
  /\ IsFiniteSet(Sockets) /\ Owners \subseteq Sockets
  /\ IsFiniteSet(Requests) /\ Free \notin [sock : Sockets, kind : Kinds]
  /\ MaxInFlight \in Nat \ {0} /\ MaxPerSocket \in Nat \ {0}
  /\ MaxPhantoms \in Nat
  /\ DrainMayExpire \in BOOLEAN

VARIABLES
  requireAuth,      \* opts.requireHandshakeAuth: TRUE on TCP
  conn,             \* socket -> what Node knows of it
  clients,          \* the keys of the clients map
  authed,           \* authedSockets
  perSock,          \* perSocketInFlight, 0 for no entry
  inFlight,         \* rpcsInFlight
  rpc,              \* request -> Free, or its socket and its kind
  pendingSupersede, supersedeFired,
  grace,            \* supersedeGraceTimer is armed
  idle,             \* idleTimer is armed
  asked,            \* meta.shutdown has queued its setImmediate
  phase,            \* up, or how far gracefulCleanup has come
  calls,            \* calls of onSupersedeReady and onSupersedeDeadline (history)
  acted,            \* sockets whose request ran or changed the life cycle (history)
  phantoms          \* number of sockets that became phantoms

sockets  == <<conn, clients, authed, perSock>>
requests == <<inFlight, rpc>>
timers   == <<pendingSupersede, supersedeFired, grace, idle, asked>>
vars == <<requireAuth, sockets, requests, timers, phase, calls, acted, phantoms>>

(* "down": destroyed, its close event is on its way; "phantom": destroyed, *)
(* and no event will come; "ended": the daemon has sent its FIN and still  *)
(* reads.                                                                  *)
ConnStates == {"none", "open", "ended", "down", "phantom", "closed"}
Phases     == {"up", "draining", "ending", "disposed", "gone"}

Init ==
  /\ requireAuth \in BOOLEAN
  /\ conn = [s \in Sockets |-> "none"]
  /\ clients = {} /\ authed = {}
  /\ perSock = [s \in Sockets |-> 0]
  /\ inFlight = 0
  /\ rpc = [k \in Requests |-> Free]
  /\ pendingSupersede = FALSE /\ supersedeFired = FALSE
  /\ grace = FALSE /\ idle = TRUE /\ asked = FALSE
  /\ phase = "up"
  /\ calls = 0 /\ acted = {} /\ phantoms = 0

-----------------------------------------------------------------------------
(* The pieces the handlers share.  A definition named Bad... is a faulty   *)
(* variant of the one it precedes; no action uses it.                      *)

BadDrop(S) ==
  /\ clients' = clients \ S
  /\ UNCHANGED <<authed, perSock>>

(* Forget the sockets of S: three maps, one by one.                        *)
Drop(S) ==
  /\ clients' = clients \ S
  /\ authed' = authed \ S
  /\ perSock' = [s \in Sockets |-> IF s \in S THEN 0 ELSE perSock[s]]

(* pruneDeadClients: the map entries whose socket is destroyed or not      *)
(* writable any more.                                                      *)
Dead == {s \in clients : conn[s] # "open"}

BadBeginCleanup == phase' = "draining"

(* gracefulCleanup up to its first wait: the shuttingDown latch.           *)
BeginCleanup == phase' = IF phase = "up" THEN "draining" ELSE phase

(* The same with the synchronous part of close(), which disarms both       *)
(* timers.                                                                 *)
EndDaemon ==
  /\ BeginCleanup
  /\ idle' = (idle /\ phase # "up")
  /\ grace' = (grace /\ phase # "up")

BadArmIdle(empty) == UNCHANGED idle

(* armIdleTimer: a timer that is armed already is left alone.              *)
ArmIdle(empty) == idle' = (idle \/ empty)

-----------------------------------------------------------------------------
(* Connections.                                                            *)

BadRegister(s) == UNCHANGED clients

Register(s) == clients' = clients \cup {s}

(* onConnection: a client cancels the idle reaper.                         *)
Connect(s) ==
  /\ phase = "up" /\ conn[s] = "none"
  /\ conn' = [conn EXCEPT ![s] = "open"]
  /\ Register(s)
  /\ idle' = FALSE
  /\ UNCHANGED <<requireAuth, authed, perSock, requests, pendingSupersede, supersedeFired,
                 grace, asked, phase, calls, acted, phantoms>>

(* The peer closes, dies, or is dropped for a buffer over 8 MB.            *)
Breaks(s) ==
  /\ conn[s] \in {"open", "ended"} /\ phase # "gone"
  /\ conn' = [conn EXCEPT ![s] = "down"]
  /\ UNCHANGED <<requireAuth, clients, authed, perSock, requests, timers, phase,
                 calls, acted, phantoms>>

(* The peer disappears and Node never fires its close event.               *)
Vanishes(s) ==
  /\ conn[s] = "open" /\ phase # "gone" /\ phantoms < MaxPhantoms
  /\ conn' = [conn EXCEPT ![s] = "phantom"]
  /\ phantoms' = phantoms + 1
  /\ UNCHANGED <<requireAuth, clients, authed, perSock, requests, timers, phase, calls, acted>>

BadSupersedeReady == pendingSupersede

(* checkSupersedeReady, once the socket and all phantoms are dropped.      *)
SupersedeReady == pendingSupersede /\ ~supersedeFired

(* The close or the error event: drop the socket, prune, end the daemon if *)
(* it was the last one and a supersede is pending, arm the idle reaper if  *)
(* it was the last one.                                                    *)
SocketEvent(s) ==
  LET last == clients \subseteq Dead \cup {s} IN
  /\ conn[s] = "down" /\ phase # "gone"
  /\ conn' = [conn EXCEPT ![s] = "closed"]
  /\ Drop(Dead \cup {s})
  /\ IF last /\ SupersedeReady
       THEN /\ supersedeFired' = TRUE
            /\ calls' = calls + 1
            /\ BeginCleanup /\ grace' = FALSE
       ELSE UNCHANGED <<supersedeFired, calls, phase, grace>>
  /\ ArmIdle(last)
  /\ UNCHANGED <<requireAuth, requests, pendingSupersede, asked, acted, phantoms>>

-----------------------------------------------------------------------------
(* Requests: dispatchLine.  A socket that the daemon has ended is read     *)
(* until the peer closes it, so it may still talk.                         *)

BadPreAuth == {"handshake", "health", "supersede", "shutdown"}

(* PRE_AUTH_METHODS *)
PreAuth == {"handshake", "health"}

Admitted(s, method) ==
  /\ conn[s] \in {"open", "ended"} /\ phase # "gone"
  /\ requireAuth => method \in PreAuth \/ s \in authed

BadHasRoom(s) == perSock[s] < MaxPerSocket

(* The two ceilings, which spare meta.* requests.                          *)
HasRoom(s) == inFlight < MaxInFlight /\ perSock[s] < MaxPerSocket

(* A request enters its handler.                                           *)
Enters(k, s, kind) ==
  /\ rpc[k] = Free
  /\ rpc' = [rpc EXCEPT ![k] = [sock |-> s, kind |-> kind]]
  /\ inFlight' = inFlight + 1

(* A tool.* or hook.* request.                                             *)
CallTool(k, s) ==
  /\ Admitted(s, "tool") /\ HasRoom(s)
  /\ Enters(k, s, "tool")
  /\ perSock' = [perSock EXCEPT ![s] = @ + 1]
  /\ acted' = acted \cup {s}
  /\ UNCHANGED <<requireAuth, conn, clients, authed, timers, phase, calls, phantoms>>

(* The handlers of meta.* run to their end in one go; only their finally   *)
(* comes later.                                                            *)
CallMeta(k, s, method) ==
  /\ Admitted(s, method)
  /\ Enters(k, s, "meta")
  /\ UNCHANGED <<requireAuth, conn, phase, calls, phantoms>>

(* meta.handshake: with the token the socket is authenticated and, if the  *)
(* client sends its identity, entered in the map again.  Without a token   *)
(* the handler throws.                                                     *)
Handshake(k, s) ==
  /\ CallMeta(k, s, "handshake")
  /\ IF requireAuth => s \in Owners
       THEN authed' = authed \cup {s} /\ clients' \in {clients, clients \cup {s}}
       ELSE UNCHANGED <<authed, clients>>
  /\ UNCHANGED <<perSock, timers, acted>>

(* meta.health: getStats prunes, and arms nothing.                         *)
Health(k, s) ==
  /\ CallMeta(k, s, "health")
  /\ Drop(Dead)
  /\ UNCHANGED <<timers, acted>>

BadMarkPendingSupersede ==
  /\ pendingSupersede' = TRUE
  /\ UNCHANGED grace

(* markPendingSupersede: the first call arms the grace timer.              *)
MarkPendingSupersede ==
  /\ pendingSupersede' = TRUE
  /\ grace' = (grace \/ ~pendingSupersede)

(* meta.requestSupersede, of a newer client or of one that is not newer.   *)
RequestSupersede(k, s) ==
  /\ CallMeta(k, s, "supersede")
  /\ \/ MarkPendingSupersede /\ acted' = acted \cup {s}
     \/ UNCHANGED <<pendingSupersede, grace, acted>>
  /\ UNCHANGED <<clients, authed, perSock, supersedeFired, idle, asked>>

(* meta.shutdown: the clean-up is queued behind the reply.                 *)
Shutdown(k, s) ==
  /\ CallMeta(k, s, "shutdown")
  /\ asked' = TRUE
  /\ acted' = acted \cup {s}
  /\ UNCHANGED <<clients, authed, perSock, pendingSupersede, supersedeFired, grace, idle>>

BadDecInFlight(s) == UNCHANGED perSock
BadDecBelowZero(s) == perSock' = [perSock EXCEPT ![s] = @ - 1]

(* decInFlightForSocket, for every request that ends, whatever its kind.   *)
DecInFlight(s) == perSock' = [perSock EXCEPT ![s] = IF @ = 0 THEN 0 ELSE @ - 1]

(* The finally clause: it runs whether or not the socket still exists.     *)
Ends(k) ==
  /\ rpc[k] # Free /\ phase # "gone"
  /\ rpc' = [rpc EXCEPT ![k] = Free]
  /\ inFlight' = inFlight - 1
  /\ DecInFlight(rpc[k].sock)
  /\ UNCHANGED <<requireAuth, conn, clients, authed, timers, phase, calls, acted, phantoms>>

-----------------------------------------------------------------------------
(* Timers and signals.                                                     *)

(* The sweep for phantoms, every 60 s: it arms the idle reaper if it was   *)
(* the sweep that emptied the map.                                         *)
PruneTimer ==
  /\ phase = "up"
  /\ Drop(Dead)
  /\ ArmIdle(Dead # {} /\ clients \subseteq Dead)
  /\ UNCHANGED <<requireAuth, conn, requests, pendingSupersede, supersedeFired, grace,
                 asked, phase, calls, acted, phantoms>>

(* The reaper of stale sessions asks attachedSessionIds, which prunes.     *)
SessionReaper ==
  /\ phase = "up"
  /\ Drop(Dead)
  /\ UNCHANGED <<requireAuth, conn, requests, timers, phase, calls, acted, phantoms>>

(* The idle timer fires: it looks again before it ends the daemon.         *)
IdleFires ==
  /\ idle /\ phase # "gone"
  /\ idle' = FALSE
  /\ IF clients = {} THEN BeginCleanup /\ grace' = (grace /\ phase # "up")
                     ELSE UNCHANGED <<phase, grace>>
  /\ UNCHANGED <<requireAuth, sockets, requests, pendingSupersede, supersedeFired, asked,
                 calls, acted, phantoms>>

(* The grace window of a supersede is over: the daemon ends with clients   *)
(* attached.                                                               *)
GraceFires ==
  /\ grace /\ phase # "gone"
  /\ IF supersedeFired
       THEN /\ grace' = FALSE
            /\ UNCHANGED <<clients, authed, perSock, supersedeFired, calls, phase, idle>>
       ELSE /\ Drop(Dead)
            /\ supersedeFired' = TRUE /\ calls' = calls + 1
            /\ BeginCleanup
            /\ grace' = FALSE /\ idle' = (idle /\ phase # "up")
  /\ UNCHANGED <<requireAuth, conn, requests, pendingSupersede, asked, acted, phantoms>>

(* The setImmediate of meta.shutdown.                                      *)
ShutdownRuns ==
  /\ asked /\ phase # "gone"
  /\ asked' = FALSE
  /\ EndDaemon
  /\ UNCHANGED <<requireAuth, sockets, requests, pendingSupersede, supersedeFired,
                 calls, acted, phantoms>>

(* SIGTERM, SIGINT, SIGHUP, or the store reports a wedged connection.      *)
Signal ==
  /\ phase # "gone"
  /\ EndDaemon
  /\ UNCHANGED <<requireAuth, sockets, requests, pendingSupersede, supersedeFired, asked,
                 calls, acted, phantoms>>

-----------------------------------------------------------------------------
(* gracefulCleanup and close() from their first wait on.                   *)

(* The requests have ended, or the deadline is over: the sockets in the    *)
(* map are ended and all three maps cleared.                               *)
Drained ==
  /\ phase = "draining" /\ (inFlight = 0 \/ DrainMayExpire)
  /\ phase' = "ending"
  /\ conn' = [s \in Sockets |-> IF s \in clients /\ conn[s] = "open" THEN "ended" ELSE conn[s]]
  /\ Drop(Sockets)
  /\ UNCHANGED <<requireAuth, requests, timers, calls, acted, phantoms>>

(* The listeners have closed, with all their connections: background tasks *)
(* are drained, the store and the models are disposed.                     *)
Disposed ==
  /\ phase = "ending" /\ \A s \in Sockets : conn[s] \in {"none", "phantom", "closed"}
  /\ phase' = "disposed"
  /\ UNCHANGED <<requireAuth, sockets, requests, timers, calls, acted, phantoms>>

(* process.exit, at the end or by the watchdog after 8 s.                  *)
Exits ==
  /\ phase \in {"draining", "ending", "disposed"}
  /\ phase' = "gone"
  /\ UNCHANGED <<requireAuth, sockets, requests, timers, calls, acted, phantoms>>

Next ==
  \/ \E s \in Sockets : Connect(s) \/ Breaks(s) \/ Vanishes(s) \/ SocketEvent(s)
  \/ \E k \in Requests, s \in Sockets :
       \/ CallTool(k, s) \/ Handshake(k, s) \/ Health(k, s)
       \/ RequestSupersede(k, s) \/ Shutdown(k, s)
  \/ \E k \in Requests : Ends(k)
  \/ PruneTimer \/ SessionReaper \/ IdleFires \/ GraceFires \/ ShutdownRuns \/ Signal
  \/ Drained \/ Disposed \/ Exits

Spec == Init /\ [][Next]_vars

(* Timers fire, queued callbacks run, close events arrive.  Clients need   *)
(* not leave and handlers need not end.                                    *)
Fairness ==
  /\ \A s \in Sockets : WF_vars(SocketEvent(s))
  /\ WF_vars(PruneTimer) /\ WF_vars(IdleFires) /\ WF_vars(GraceFires)
  /\ WF_vars(ShutdownRuns) /\ WF_vars(Exits)

FairSpec == Spec /\ Fairness

-----------------------------------------------------------------------------
(* Properties.                                                             *)

(* Every variable has its type.                                            *)
TypeOK ==
  /\ requireAuth \in BOOLEAN
  /\ conn \in [Sockets -> ConnStates]
  /\ clients \subseteq Sockets /\ authed \subseteq Sockets
  /\ perSock \in [Sockets -> Nat]
  /\ inFlight \in Nat
  /\ rpc \in [Requests -> [sock : Sockets, kind : Kinds] \cup {Free}]
  /\ pendingSupersede \in BOOLEAN /\ supersedeFired \in BOOLEAN
  /\ grace \in BOOLEAN /\ idle \in BOOLEAN /\ asked \in BOOLEAN
  /\ phase \in Phases
  /\ calls \in Nat /\ acted \subseteq Sockets /\ phantoms \in Nat

Live       == {k \in Requests : rpc[k] # Free}
ToolsOf(s) == {k \in Live : rpc[k] = [sock |-> s, kind |-> "tool"]}
Tools      == {k \in Live : rpc[k].kind = "tool"}

(* The store never has more than MaxInFlight requests to serve, and the    *)
(* counter that says so counts every handler that runs, also those whose   *)
(* socket is gone: it neither leaks nor is decremented twice.              *)
LoadBounded == inFlight = Cardinality(Live) /\ Cardinality(Tools) <= MaxInFlight

(* No connection is charged for a request that has ended: a session cannot *)
(* be shut out by the ghosts of its own calls.                             *)
QuotaNotLeaked == \A s \in Sockets : perSock[s] <= Cardinality(ToolsOf(s))

(* The counters say what runs, through every way a request or a socket may *)
(* end (dispatchLine, decInFlightForSocket, pruneDeadClients).             *)
Counters == LoadBounded /\ QuotaNotLeaked

(* On TCP, whoever makes a handler run or ends the daemon can read the     *)
(* token file.                                                             *)
OwnersOnly == requireAuth => acted \subseteq Owners

(* Who runs a request may do so, and no more of them than the daemon can   *)
(* bear.                                                                   *)
Admission == Counters /\ OwnersOnly

(* The maps hold nothing of a connection whose close event has run.        *)
NothingLeftBehind == \A s \in Sockets : conn[s] = "closed" =>
  s \notin clients /\ s \notin authed /\ perSock[s] = 0

(* Only one of onSupersedeReady and onSupersedeDeadline is called, once.   *)
OneSupersedeCallback == calls <= 1

(* A daemon that everybody has left has its idle reaper armed.             *)
IdleArmed ==
  phase = "up" /\ (\A s \in Sockets : conn[s] \in {"none", "closed"}) => idle

(* The maps and the timers agree with the connections: the closed ones are *)
(* forgotten, the last one arms the reaper, and a supersede ends by one of *)
(* its two callbacks (onConnection, armIdleTimer, markPendingSupersede).   *)
Maps == NothingLeftBehind /\ IdleArmed /\ OneSupersedeCallback

(* Clean-up runs once: nothing that happens while the daemon ends, such as *)
(* an idle timer armed again by the last socket, takes it back a stage.    *)
Stage == [p \in Phases |->
  CASE p = "up" -> 0 [] p = "draining" -> 1 [] p = "ending" -> 2 [] p = "disposed" -> 3 [] p = "gone" -> 4]
CleanupOnce == [][Stage[phase'] >= Stage[phase]]_vars

(* The idle reaper and the graceful way of a supersede end the daemon only *)
(* when no connection is open: they cut no session off.                    *)
PeacefulEnd ==
  [][IdleFires \/ (\E s \in Sockets : SocketEvent(s)) =>
       phase' = phase \/ \A s \in Sockets : conn'[s] # "open"]_vars

(* A daemon ends once, and of itself only when it is nobody's              *)
(* (gracefulCleanup, onIdleReap, onSupersedeReady).                        *)
Endings == CleanupOnce /\ PeacefulEnd

(* A supersede that was accepted ends the daemon, however long its clients *)
(* stay.                                                                   *)
SupersedeLands == pendingSupersede ~> phase = "gone"

(* What the comment at decInFlightForSocket says: a meta.* request, which  *)
(* is not counted, does not lower the count, so that no connection has     *)
(* more than its share of requests running.                                *)
SocketShareKept == \A s \in Sockets : Cardinality(ToolsOf(s)) <= MaxPerSocket

(* What the comments at startPruneTimer say: a phantom does not keep the   *)
(* daemon in memory for nobody.                                            *)
NobodyLeft  == \A s \in Sockets : conn[s] # "open"
EmptyReaped == <>[]NobodyLeft => <>(phase = "gone")

(* What the comment at close() says: the store stays alive until the       *)
(* handlers in flight have finished.                                       *)
StoreOutlivesHandlers == phase = "disposed" => Live = {}
=============================================================================
