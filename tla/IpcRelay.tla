------------------------------ MODULE IpcRelay ------------------------------
(***************************************************************************)
(* The relay of one session (src/mcp-client/index.ts) and its connection   *)
(* to the daemon (IpcClient in src/mcp-client/ipc-client.ts): tool calls   *)
(* that share one client, a client that dials again when its socket is     *)
(* gone, a flight that finds or spawns the daemon, and the one retry after *)
(* an error that is thought to pass.                                       *)
(*                                                                         *)
(* A step is what the event loop of the relay does without an await, or    *)
(* what happens to the daemon.  The pending map of a client is not a       *)
(* variable: a call is in it exactly while it is "sent" through it.        *)
(***************************************************************************)
EXTENDS Naturals, FiniteSets

CONSTANTS
  Calls,       \* the tool calls of the session
  MaxClients,  \* bound on the IpcClients in use at a time
  MaxSockets,  \* bound on the sockets in use at a time
  Enforcing,   \* a subset of BOOLEAN: the values of enforced
  MaxFaults    \* bound on deaths of the daemon and requests that it end,
               \* broken sockets, handshakes that fail, busy answers, and
               \* outdated daemons that others spawn

ASSUME RelayAssumption ==
  /\ MaxClients \in Nat /\ MaxSockets \in Nat /\ MaxFaults \in Nat
  /\ Enforcing \subseteq BOOLEAN

VARIABLES
  mode,      \* the daemon: "down", "boot" or "up"
  outdated,  \* its version is older than the relay's
  enforced,  \* it wants the token on every socket (it bound TCP)
  ipc,       \* the client the relay holds, 0 for none
  flight,    \* what ipcInFlight awaits, "none" for no flight (Flights)
  recycled,  \* this flight has told an outdated daemon to end
  fresh,     \* the client the flight has made, 0 for none
  stripped,  \* history: the clients that lost their socket after the handshake
             \* of their flight, before it handed them over
  cur,       \* client -> its socket, 0 when not connected
  dialing,   \* clients with a bare dial under way (connecting)
  owner,     \* socket -> its client
  life,      \* socket -> "open", "ended" by us, "dead" or "closed"
  greeted,   \* sockets that have passed the handshake
  pc,        \* call -> where handleToolCall is
  second,    \* calls in their second attempt
  via,       \* call -> the client it uses
  on,        \* call -> the socket it was written to
  first,     \* call -> why the first attempt failed
  reply,     \* call -> its pending request: "asked", "lost" with the daemon, or
             \* the answer on its way back; "none" if nothing is pending
  ran,       \* call -> how often the daemon has run it
  faults

daemon  == <<mode, outdated, enforced>>
relay   == <<ipc, flight, recycled, fresh, stripped>>
sockets == <<cur, dialing, owner, life, greeted>>
call    == <<pc, second, via, on, first>>
wire    == <<reply, ran>>
vars == <<daemon, relay, sockets, call, wire, faults>>

Clients == 1..MaxClients
Sockets == 1..MaxSockets

(* The awaits of connectAndHandshake and tryOrphanRecycle: ensureDaemon,   *)
(* connect, meta.handshake; for an older daemon meta.requestSupersede, the *)
(* bare dial of meta.health when the socket is gone by then, meta.health,  *)
(* and meta.shutdown with the wait for it.                                 *)
Flights ==
  {"none", "ensure", "dial", "greet", "supersede", "redial", "health", "shutdown"}

(* IpcErrorCode: the codes handleToolCall sends again for.  "cut" and      *)
(* "busy" are both DAEMON_RESTARTING, the one made by the client.          *)
Transient == {"cut", "busy", "boot", "unauth"}
Ended     == {"answered", "timedOut", "refused", "failed"}

TypeOK ==
  /\ mode \in {"down", "boot", "up"} /\ outdated \in BOOLEAN /\ enforced \in BOOLEAN
  /\ ipc \in 0..MaxClients /\ flight \in Flights
  /\ recycled \in BOOLEAN /\ fresh \in 0..MaxClients /\ stripped \subseteq Clients
  /\ cur \in [Clients -> 0..MaxSockets] /\ dialing \subseteq Clients
  /\ owner \in [Sockets -> 0..MaxClients]
  /\ life \in [Sockets -> {"open", "ended", "dead", "closed"}]
  /\ greeted \subseteq Sockets
  /\ pc \in [Calls -> {"new", "wait", "dial", "sent", "backoff"} \cup Ended]
  /\ second \subseteq Calls
  /\ via \in [Calls -> 0..MaxClients] /\ on \in [Calls -> 0..MaxSockets]
  /\ first \in [Calls -> Transient \cup {"none"}]
  /\ reply \in [Calls -> {"none", "asked", "lost", "ok", "busy", "boot", "unauth"}]
  /\ ran \in [Calls -> 0..2] /\ faults \in 0..MaxFaults

(* main() starts a flight before the first call; a daemon may be there, or *)
(* on its way up for another session.                                      *)
Init ==
  /\ mode \in {"down", "boot", "up"} /\ outdated \in BOOLEAN /\ (mode = "down" => ~outdated)
  /\ enforced \in Enforcing
  /\ ipc = 0 /\ flight = "ensure" /\ recycled = FALSE /\ fresh = 0 /\ stripped = {}
  /\ cur = [i \in Clients |-> 0] /\ dialing = {}
  /\ owner = [s \in Sockets |-> 0] /\ life = [s \in Sockets |-> "closed"] /\ greeted = {}
  /\ pc = [c \in Calls |-> "new"] /\ second = {} /\ via = [c \in Calls |-> 0]
  /\ on = [c \in Calls |-> 0] /\ first = [c \in Calls |-> "none"]
  /\ reply = [c \in Calls |-> "none"] /\ ran = [c \in Calls |-> 0]
  /\ faults = 0

-----------------------------------------------------------------------------
(* A definition named Bad... is a faulty variant of the one it precedes;   *)
(* no action uses it.                                                      *)

(* The calls the client has in its pending map.                            *)
Pending(i) == {c \in Calls : pc[c] = "sent" /\ via[c] = i}

(* Where a rejected attempt goes: back-off before the one retry, or out.   *)
BadAfter(c, why) == IF why \in Transient THEN "backoff" ELSE "failed"
After(c, why) ==
  IF why \in Transient /\ c \notin second THEN "backoff" ELSE "failed"

Rejected(C, why) == [c \in Calls |-> IF c \in C THEN After(c, why) ELSE pc[c]]
Noted(C, why) == [c \in Calls |->
  IF c \in C \ second /\ why \in Transient THEN why ELSE first[c]]

Admitted(s) == ~(enforced /\ s \notin greeted)
MayRun(c) == reply[c] = "asked" /\ mode # "down" /\ Admitted(on[c])

(* The calls of C are no longer pending: an answer finds none of them.  A  *)
(* request the daemon still has may be run all the same.                   *)
Forget(C) ==
  /\ reply' = [c \in Calls |-> IF c \in C THEN "none" ELSE reply[c]]
  /\ via' = [c \in Calls |-> IF c \in C THEN 0 ELSE via[c]]
  /\ on' = [c \in Calls |-> IF c \in C THEN 0 ELSE on[c]]
  /\ \E R \in SUBSET {c \in C : MayRun(c)} :
       ran' = [c \in Calls |-> IF c \in R THEN ran[c] + 1 ELSE ran[c]]

Reject(C, why) == pc' = Rejected(C, why) /\ first' = Noted(C, why) /\ Forget(C)

(* The calls of C write their requests to socket s of client i.            *)
Write(C, i, s) ==
  /\ pc' = [c \in Calls |-> IF c \in C THEN "sent" ELSE pc[c]]
  /\ via' = [c \in Calls |-> IF c \in C THEN i ELSE via[c]]
  /\ on' = [c \in Calls |-> IF c \in C THEN s ELSE on[c]]
  /\ reply' = [c \in Calls |-> IF c \in C THEN "asked" ELSE reply[c]]

(* The name of a client or a socket nothing refers to is used again.       *)
FreeClients == {i \in Clients :
  /\ i \notin {ipc, fresh} \cup dialing /\ cur[i] = 0
  /\ \A s \in Sockets : life[s] # "closed" => owner[s] # i}
FreeSockets == {s \in Sockets : life[s] = "closed"}
First(S) == CHOOSE x \in S : TRUE

(* A new socket s of client i is connected.                                *)
Connected(i, s) ==
  /\ cur' = [cur EXCEPT ![i] = s]
  /\ owner' = [owner EXCEPT ![s] = i]
  /\ life' = [life EXCEPT ![s] = "open"]

(* getOrConnectIpc with no client: take or join the flight.                *)
Board ==
  /\ flight' = IF flight = "none" THEN "ensure" ELSE flight
  /\ UNCHANGED recycled

(* handleToolCall, first attempt: on the client's socket, after a dial of  *)
(* the client that concurrent calls share, or after the flight.            *)
Arrive(c) ==
  /\ pc[c] = "new"
  /\ \/ /\ ipc # 0 /\ cur[ipc] # 0
        /\ Write({c}, ipc, cur[ipc])
        /\ UNCHANGED <<flight, recycled, dialing>>
     \/ /\ ipc # 0 /\ cur[ipc] = 0
        /\ dialing' = dialing \cup {ipc}
        /\ pc' = [pc EXCEPT ![c] = "dial"] /\ via' = [via EXCEPT ![c] = ipc]
        /\ UNCHANGED <<flight, recycled, on, reply>>
     \/ /\ ipc = 0
        /\ Board
        /\ pc' = [pc EXCEPT ![c] = "wait"]
        /\ UNCHANGED <<dialing, via, on, reply>>
  /\ UNCHANGED <<daemon, ipc, fresh, stripped, cur, owner, life, greeted,
                 second, first, ran, faults>>

(* doConnect of a client the relay already has: no ensureDaemon and no     *)
(* handshake.                                                              *)
DialLands(i) ==
  /\ i \in dialing /\ mode # "down" /\ FreeSockets # {}
  /\ dialing' = dialing \ {i}
  /\ Connected(i, First(FreeSockets))
  /\ Write({c \in Calls : pc[c] = "dial" /\ via[c] = i}, i, First(FreeSockets))
  /\ UNCHANGED <<daemon, relay, greeted, second, first, ran, faults>>

(* ENOENT or ECONNREFUSED has no code the relay retries for.               *)
BadDialRefused(i) ==
  /\ i \in dialing /\ mode = "down"
  /\ dialing' = dialing \ {i}
  /\ UNCHANGED <<daemon, relay, cur, owner, life, greeted, call, wire, faults>>
DialRefused(i) ==
  /\ i \in dialing /\ mode = "down"
  /\ dialing' = dialing \ {i}
  /\ pc' = [c \in Calls |-> IF pc[c] = "dial" /\ via[c] = i THEN "refused" ELSE pc[c]]
  /\ Forget({c \in Calls : pc[c] = "dial" /\ via[c] = i})
  /\ UNCHANGED <<daemon, relay, cur, owner, life, greeted, second, first, faults>>

(* close(): the socket is ended at our side and its calls are rejected.    *)
Leave(i) ==
  /\ cur' = [cur EXCEPT ![i] = 0]
  /\ life' = [s \in Sockets |-> IF s = cur[i] /\ life[s] = "open" THEN "ended" ELSE life[s]]

(* After the back-off: close the shared client, whoever uses it, forget    *)
(* it, and take or join a flight.                                          *)
BadRetry(c) ==
  /\ pc[c] = "backoff" /\ ipc # 0
  /\ second' = second \cup {c}
  /\ Leave(ipc)
  /\ pc' = [Rejected(Pending(ipc), "cut") EXCEPT ![c] = "dial"]
  /\ first' = Noted(Pending(ipc), "cut")
  /\ reply' = [d \in Calls |-> IF d \in Pending(ipc) THEN "none" ELSE reply[d]]
  /\ dialing' = dialing \cup {ipc} /\ via' = [via EXCEPT ![c] = ipc]
  /\ UNCHANGED <<daemon, relay, owner, greeted, on, ran, faults>>
Retry(c) ==
  LET C == IF ipc = 0 THEN {} ELSE Pending(ipc) IN
  /\ pc[c] = "backoff"
  /\ second' = second \cup {c}
  /\ IF ipc = 0 THEN UNCHANGED <<cur, life>> ELSE Leave(ipc)
  /\ pc' = [Rejected(C, "cut") EXCEPT ![c] = "wait"]
  /\ first' = Noted(C, "cut") /\ Forget(C)
  /\ ipc' = 0 /\ Board
  /\ UNCHANGED <<daemon, fresh, stripped, dialing, owner, greeted, faults>>

-----------------------------------------------------------------------------
(* The flight: ensureDaemon, a new client, its socket, its handshake.      *)

Waiting == {c \in Calls : pc[c] = "wait"}

(* The flight's promise is rejected and cleared.                           *)
FlightFails(why) ==
  /\ flight' = "none" /\ recycled' = FALSE /\ fresh' = 0 /\ UNCHANGED <<ipc, stripped>>
  /\ Reject(Waiting, why)

(* A daemon is there, or a fresh one is spawned (see DaemonSpawn).         *)
EnsureFinds ==
  /\ flight = "ensure" /\ FreeClients # {}
  /\ mode' = IF mode = "down" THEN "boot" ELSE mode
  /\ outdated' = (mode # "down" /\ outdated)
  /\ fresh' = First(FreeClients) /\ flight' = "dial"
  /\ stripped' = stripped \ {First(FreeClients)}
  /\ UNCHANGED <<enforced, ipc, recycled, sockets, call, wire, faults>>

EnsureFails ==
  /\ flight = "ensure" /\ mode = "down"
  /\ FlightFails("error")
  /\ UNCHANGED <<daemon, sockets, second, faults>>

FlightDials ==
  /\ flight = "dial" /\ mode # "down" /\ FreeSockets # {}
  /\ Connected(fresh, First(FreeSockets))
  /\ flight' = "greet"
  /\ UNCHANGED <<daemon, ipc, recycled, fresh, stripped, dialing, greeted,
                 call, wire, faults>>

FlightRefused ==
  /\ flight = "dial" /\ mode = "down"
  /\ FlightFails("error")
  /\ UNCHANGED <<daemon, sockets, second, faults>>

(* The flight's client becomes the relay's, and the calls that wait use it *)
(* in the same turn: on its socket s, or after a dial when it has none.    *)
HandOver(s) ==
  /\ ipc' = fresh /\ fresh' = 0 /\ flight' = "none" /\ recycled' = FALSE
  /\ IF s # 0
       THEN Write(Waiting, fresh, s) /\ UNCHANGED dialing
       ELSE /\ dialing' = IF Waiting = {} THEN dialing ELSE dialing \cup {fresh}
            /\ pc' = [c \in Calls |-> IF c \in Waiting THEN "dial" ELSE pc[c]]
            /\ via' = [c \in Calls |-> IF c \in Waiting THEN fresh ELSE via[c]]
            /\ UNCHANGED <<on, reply>>

(* The handshake is answered.  A daemon of this version or a newer one, or *)
(* the one found after a recycle, is used as it is.                        *)
Greeted == flight = "greet" /\ life[cur[fresh]] = "open"
BadFlightLands ==
  /\ Greeted /\ (~outdated \/ recycled)
  /\ HandOver(cur[fresh])
  /\ UNCHANGED <<daemon, stripped, cur, owner, life, greeted, second, first, ran, faults>>
FlightLands ==
  /\ Greeted /\ (~outdated \/ recycled)
  /\ greeted' = greeted \cup {cur[fresh]}
  /\ HandOver(cur[fresh])
  /\ UNCHANGED <<daemon, stripped, cur, owner, life, second, first, ran, faults>>

(* An older one is asked to end with its last client ...                   *)
AskSupersede ==
  /\ Greeted /\ outdated /\ ~recycled
  /\ greeted' = greeted \cup {cur[fresh]}
  /\ flight' = "supersede"
  /\ UNCHANGED <<daemon, ipc, recycled, fresh, stripped, cur, dialing, owner, life,
                 call, wire, faults>>

(* ... and accepts or declines, or does not know the method or answers too *)
(* late, which makes tryOrphanRecycle ask how many clients it has.         *)
SupersedeAnswered ==
  /\ flight = "supersede" /\ life[cur[fresh]] = "open"
  /\ HandOver(cur[fresh])
  /\ UNCHANGED <<daemon, stripped, cur, owner, life, greeted, second, first, ran, faults>>
SupersedeThrows ==
  /\ flight = "supersede" /\ flight' = "health"
  /\ UNCHANGED <<daemon, ipc, recycled, fresh, stripped, sockets, call, wire, faults>>

(* With the socket gone meta.health dials first, without a handshake; if   *)
(* that is refused the client is used all the same.                        *)
Redialed ==
  /\ flight = "redial" /\ mode # "down" /\ FreeSockets # {}
  /\ Connected(fresh, First(FreeSockets))
  /\ flight' = "health"
  /\ UNCHANGED <<daemon, ipc, recycled, fresh, stripped, dialing, greeted,
                 call, wire, faults>>
RedialRefused ==
  /\ flight = "redial" /\ mode = "down"
  /\ HandOver(0)
  /\ UNCHANGED <<daemon, stripped, cur, owner, life, greeted, second, first, ran, faults>>

(* meta.health: other clients, an error or no answer leave the daemon      *)
(* alone, and the client is used as it is.                                 *)
HealthKeeps ==
  /\ flight = "health"
  /\ HandOver(cur[fresh])
  /\ UNCHANGED <<daemon, stripped, cur, owner, life, greeted, second, first, ran, faults>>
HealthAlone ==
  /\ flight = "health" /\ life[cur[fresh]] = "open" /\ Admitted(cur[fresh])
  /\ faults < MaxFaults /\ faults' = faults + 1
  /\ flight' = "shutdown" /\ recycled' = TRUE
  /\ UNCHANGED <<daemon, ipc, fresh, stripped, sockets, call, wire>>

(* Whatever meta.shutdown answered, the client is closed, and when the     *)
(* wait is over ensureDaemon is asked once more.                           *)
ShutdownEnds ==
  /\ flight = "shutdown" /\ flight' = "ensure" /\ fresh' = 0
  /\ Leave(fresh)
  /\ UNCHANGED <<daemon, ipc, recycled, stripped, dialing, owner, greeted, call, wire, faults>>

(* The handshake times out, with the socket left open, or is refused: an   *)
(* other protocol, or a token that could not be read.                      *)
GreetFails(why) ==
  /\ flight = "greet" /\ faults < MaxFaults /\ faults' = faults + 1
  /\ why \in {"error"} \cup IF enforced THEN {"unauth"} ELSE {}
  /\ FlightFails(why)
  /\ UNCHANGED <<daemon, sockets, second>>

-----------------------------------------------------------------------------
(* What reaches the relay.                                                 *)

(* onClose of a socket: its client is disconnected and what is pending     *)
(* there is rejected.  A flight fails with its handshake; after that the   *)
(* rejection is caught, and the flight goes on without the socket.         *)
Strip == stripped' = stripped \cup {fresh}
SocketCloses(s) ==
  /\ life[s] \in {"ended", "dead"}
  /\ life' = [life EXCEPT ![s] = "closed"] /\ greeted' = greeted \ {s}
  /\ cur' = [cur EXCEPT ![owner[s]] = 0] /\ owner' = [owner EXCEPT ![s] = 0]
  /\ \/ /\ owner[s] # fresh
        /\ Reject(Pending(owner[s]), "cut") /\ UNCHANGED <<relay, dialing>>
     \/ /\ owner[s] = fresh /\ flight = "greet"
        /\ FlightFails("cut") /\ UNCHANGED dialing
     \/ /\ owner[s] = fresh /\ flight = "supersede"
        /\ flight' = "redial" /\ Strip
        /\ UNCHANGED <<ipc, recycled, fresh, dialing, pc, via, on, first, wire>>
     \/ /\ owner[s] = fresh /\ flight = "health"
        /\ HandOver(0) /\ Strip /\ UNCHANGED <<first, ran>>
     \/ /\ owner[s] = fresh /\ flight = "shutdown"
        /\ flight' = "ensure" /\ fresh' = 0
        /\ UNCHANGED <<ipc, recycled, stripped, dialing, pc, via, on, first, wire>>
  /\ UNCHANGED <<daemon, second, faults>>

(* processLine: an answer to a call that is still pending.                 *)
Answer(c) ==
  /\ pc[c] = "sent" /\ reply[c] \notin {"asked", "lost"} /\ life[on[c]] = "open"
  /\ IF reply[c] = "ok"
       THEN /\ pc' = [pc EXCEPT ![c] = "answered"]
            /\ Forget({c}) /\ UNCHANGED first
       ELSE Reject({c}, reply[c])
  /\ UNCHANGED <<daemon, relay, sockets, second, faults>>

(* The timer of a call: -32000 is not sent again.                          *)
BadCallTimesOut(c) ==
  /\ pc[c] = "sent"
  /\ pc' = [pc EXCEPT ![c] = IF c \in second THEN "timedOut" ELSE "backoff"]
  /\ Forget({c})
  /\ UNCHANGED <<daemon, relay, sockets, second, first, faults>>
CallTimesOut(c) ==
  /\ pc[c] = "sent"
  /\ pc' = [pc EXCEPT ![c] = "timedOut"] /\ Forget({c})
  /\ UNCHANGED <<daemon, relay, sockets, second, first, faults>>

-----------------------------------------------------------------------------
(* The daemon (DaemonServer) and the faults.                               *)

Respond(c, what) ==
  /\ reply' = [reply EXCEPT ![c] = what]
  /\ UNCHANGED <<daemon, relay, sockets, call>>

(* processLine and dispatch refuse a request before it runs.               *)
Refuse(c) ==
  /\ reply[c] = "asked" /\ mode # "down" /\ UNCHANGED <<ran, faults>>
  /\ \/ ~Admitted(on[c]) /\ Respond(c, "unauth")
     \/ Admitted(on[c]) /\ mode = "boot" /\ Respond(c, "boot")

(* The handler runs; the embedding queue may be full by then, or a ceiling *)
(* of the server reached before.                                           *)
Run(c) ==
  /\ MayRun(c) /\ mode = "up"
  /\ \/ Respond(c, "ok") /\ ran' = [ran EXCEPT ![c] = @ + 1] /\ UNCHANGED faults
     \/ /\ faults < MaxFaults /\ faults' = faults + 1
        /\ Respond(c, "busy") /\ ran' \in {ran, [ran EXCEPT ![c] = @ + 1]}

Booted ==
  /\ mode = "boot" /\ mode' = "up"
  /\ UNCHANGED <<outdated, enforced, relay, sockets, call, wire, faults>>

(* It exits, because it was told to or not, or crashes; every socket it    *)
(* had breaks.                                                             *)
DaemonDies ==
  /\ mode # "down"
  /\ \/ flight = "shutdown" /\ UNCHANGED faults
     \/ faults < MaxFaults /\ faults' = faults + 1
  /\ mode' = "down" /\ outdated' = FALSE
  /\ reply' = [c \in Calls |-> IF reply[c] = "asked" THEN "lost" ELSE reply[c]]
  /\ life' = [s \in Sockets |-> IF life[s] = "open" THEN "dead" ELSE life[s]]
  /\ UNCHANGED <<enforced, relay, cur, dialing, owner, greeted, call, ran>>

(* One socket breaks, or is destroyed for an answer above 8 MB.            *)
SocketBreaks(s) ==
  /\ life[s] = "open" /\ faults < MaxFaults /\ faults' = faults + 1
  /\ life' = [life EXCEPT ![s] = "dead"]
  /\ UNCHANGED <<daemon, relay, cur, dialing, owner, greeted, call, wire>>

(* Another session, or a hook, spawns a daemon; an older session spawns an *)
(* older one.                                                              *)
OtherSpawns ==
  /\ mode = "down" /\ mode' = "boot"
  /\ \/ outdated' = FALSE /\ UNCHANGED faults
     \/ outdated' = TRUE /\ faults < MaxFaults /\ faults' = faults + 1
  /\ UNCHANGED <<enforced, relay, sockets, call, wire>>

-----------------------------------------------------------------------------
Flight == \/ EnsureFinds \/ EnsureFails \/ FlightDials \/ FlightRefused
          \/ FlightLands \/ AskSupersede \/ SupersedeAnswered \/ SupersedeThrows
          \/ Redialed \/ RedialRefused \/ HealthKeeps \/ HealthAlone \/ ShutdownEnds
          \/ \E why \in {"error", "unauth"} : GreetFails(why)

Next ==
  \/ \E c \in Calls : \/ Arrive(c) \/ Retry(c) \/ Answer(c) \/ CallTimesOut(c)
                      \/ Refuse(c) \/ Run(c)
  \/ \E i \in Clients : DialLands(i) \/ DialRefused(i)
  \/ Flight
  \/ \E s \in Sockets : SocketCloses(s) \/ SocketBreaks(s)
  \/ Booted \/ DaemonDies \/ OtherSpawns

Spec == Init /\ [][Next]_vars

(* The event loop gets to every callback, a dial and ensureDaemon settle,  *)
(* and a timer fires; nothing is assumed of the daemon.                    *)
Fairness ==
  /\ \A c \in Calls : WF_vars(Retry(c)) /\ WF_vars(CallTimesOut(c))
  /\ \A i \in Clients : WF_vars(DialLands(i) \/ DialRefused(i))
  /\ \A s \in Sockets : WF_vars(SocketCloses(s))
  /\ WF_vars(Flight)

FairSpec == Spec /\ Fairness

-----------------------------------------------------------------------------
(* The close event of a socket ends the calls written to that socket and   *)
(* no other: it finds its client on this socket or on none, never on one   *)
(* dialed since (ipc-client.ts 263-266 resets whatever is current).        *)
CloseIsOwn ==
  [][\A s \in Sockets : life[s] # "closed" /\ life'[s] = "closed" =>
       cur[owner[s]] \in {0, s}]_vars

(* The daemon runs a call twice only if the first connection was lost or   *)
(* closed under it, or the daemon said it was busy: never after a time-out,*)
(* and never because it was still starting or did not know the socket      *)
(* (mcp-client/index.ts 304-342).                                          *)
TwiceOnlyIfCut == \A c \in Calls : ran[c] = 2 => first[c] \in {"cut", "busy"}

(* A retry is written to a socket that has passed the handshake, however   *)
(* the flights, the dials and the closes of other calls fall.  One case is *)
(* left: its flight's client lost that socket while the daemon's version   *)
(* was being settled (index.ts 163, 205), and is used with a socket that   *)
(* was dialed bare.                                                        *)
GreetedOrStripped ==
  \A c \in second : pc[c] = "sent" => on[c] \in greeted \/ via[c] \in stripped

(* A call is sent again only where that is safe (index.ts 304-342), but    *)
(* for that case.                                                          *)
RetryIsSafe == TwiceOnlyIfCut /\ GreetedOrStripped

(* "getOrConnectIpc()/connectAndHandshake below re-handshakes, re-authing  *)
(* it" (index.ts 312-313): a retry would never go out on a socket that has *)
(* not passed the handshake.                                               *)
RetryIsGreeted == \A c \in second : pc[c] = "sent" => on[c] \in greeted

(* Every tool call of the session ends, whatever the daemon does: again    *)
(* and again no call is under way.                                         *)
EveryCallEnds == []<>(\A c \in Calls : pc[c] \in {"new"} \cup Ended)

(* "the next client connect will respawn a fresh daemon via ensureDaemon"  *)
(* (daemon/index.ts 1153): a relay that finds its daemon gone would never  *)
(* end a call with the refusal of its own dial.                            *)
ConnectRespawns == \A c \in Calls : pc[c] # "refused"
=============================================================================
