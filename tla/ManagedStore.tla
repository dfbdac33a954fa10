---------------------------- MODULE ManagedStore ----------------------------
(***************************************************************************)
(* The database of a daemon: the supervisor of the SurrealDB process it    *)
(* has spawned (src/engine/bootstrap.ts), and the one connection that all  *)
(* queries share, with its single-flight reconnect, its retry, and the     *)
(* detector of a process that is beyond repair (src/engine/surreal.ts).    *)
(*                                                                         *)
(* A step is what the event loop does without an await, or what happens    *)
(* to the database.                                                        *)
(***************************************************************************)
EXTENDS Naturals, FiniteSets

CONSTANTS
  Queries,      \* the calls of queryFirst, queryExec, ... that run at a time
  Pings,        \* those of them that are ping
  Handlers,     \* the calls of onManagedChildExit that run at a time
  MaxRestarts,  \* SUPERVISOR_MAX_RESTARTS
  MaxAttempts,  \* attempts of one reconnect
  MinTimeouts,  \* WEDGE_DEFAULTS: query deadlines ...
  MinHeals,     \* ... and completed reconnects without a successful query
  MaxFaults     \* bound on deaths of the child, failed spawns, connections that
                \* break or hang, failed connects and schema applies

VARIABLES
  children,   \* live SurrealDB processes of this supervisor
  events,     \* their 'exit' and 'error' events not yet delivered
  exits,      \* length of exitTimes
  degraded,
  respawning,
  hpc,        \* handler -> where it is
  missed,     \* an exit of a child was taken for a duplicate (history)
  conn,       \* this.db: "up", "anon" (connected, not signed in), "zombie"
              \* (says it is connected, settles nothing) or "down"
  schema,     \* schemaApplied
  suspect,    \* zombieSuspect
  rec,        \* the reconnect: "none", "connect", "pause" or "schema"
  attempt,
  qpc,        \* query -> where it is
  old,        \* queries sent on a connection that has been replaced
  poisoned,   \* every connection of this process will hang
  timeouts, heals, streak, \* WedgeDetector
  gone,       \* the daemon has exited
  faults

supervisor == <<children, events, exits, degraded, respawning, hpc, missed>>
link  == <<conn, schema, suspect, rec, attempt>>
calls == <<qpc, old>>
wedge == <<timeouts, heals, streak, gone>>
vars == <<supervisor, link, calls, wedge, poisoned, faults>>

TypeOK ==
  /\ children \in 0..2 /\ events \in 0..3 /\ exits \in 0..MaxRestarts
  /\ degraded \in BOOLEAN /\ respawning \in BOOLEAN /\ missed \in BOOLEAN
  /\ hpc \in [Handlers -> {"off", "backoff", "pidfile"}]
  /\ conn \in {"up", "anon", "zombie", "down"} /\ schema \in BOOLEAN /\ suspect \in BOOLEAN
  /\ rec \in {"none", "connect", "pause", "schema"} /\ attempt \in 0..MaxAttempts
  /\ (rec = "none") = (attempt = 0)
  /\ qpc \in [Queries -> {"idle", "ensure", "sent", "heal", "resent", "probe", "pinged"}]
  /\ old \subseteq {q \in Queries : qpc[q] \in {"sent", "resent", "pinged"}}
  /\ poisoned \in BOOLEAN
  /\ timeouts \in 0..MinTimeouts /\ heals \in 0..MinHeals
  /\ streak \in {"none", "young", "aged"}
  /\ gone \in BOOLEAN /\ faults \in 0..MaxFaults

(* After bootstrap() and initialize(), which may fail to connect or to     *)
(* apply the schema.                                                       *)
Init ==
  /\ children = 1 /\ events = 0 /\ exits = 0 /\ degraded = FALSE
  /\ respawning = FALSE /\ hpc = [h \in Handlers |-> "off"] /\ missed = FALSE
  /\ conn \in {"up", "down"} /\ schema \in BOOLEAN /\ (conn = "down" => ~schema)
  /\ suspect = FALSE /\ rec = "none" /\ attempt = 0
  /\ qpc = [q \in Queries |-> "idle"] /\ old = {}
  /\ poisoned = FALSE /\ timeouts = 0 /\ heals = 0 /\ streak = "none"
  /\ gone = FALSE /\ faults = 0

Fault == faults < MaxFaults /\ faults' = faults + 1

-----------------------------------------------------------------------------
(* A definition named Bad... is a faulty variant of the one it precedes;   *)
(* no action uses it.                                                      *)

(* The child dies, with one event or two.                                  *)
ChildDies ==
  /\ children > 0 /\ Fault
  /\ children' = children - 1
  /\ \E n \in {1, 2} : events + n <= 3 /\ events' = events + n
  /\ conn' = IF children = 1 THEN "down" ELSE conn
  /\ UNCHANGED <<exits, degraded, respawning, hpc, missed, schema, suspect, rec, attempt,
                 calls, wedge, poisoned>>

(* onManagedChildExit up to its wait: a call that is not ignored counts,   *)
(* gives up at the cap, or waits before it spawns.                         *)
BadIgnores == degraded
Ignores == degraded \/ respawning

Counts(h) ==
  /\ exits' = exits + 1
  /\ degraded' = (exits + 1 >= MaxRestarts)
  /\ respawning' = ~degraded'
  /\ hpc' = [hpc EXCEPT ![h] = IF degraded' THEN "off" ELSE "backoff"]

Exit(h) ==
  /\ events > 0 /\ hpc[h] = "off" /\ events' = events - 1
  /\ IF Ignores
     THEN /\ missed' = (missed \/ \E g \in Handlers : hpc[g] = "pidfile")
          /\ UNCHANGED <<exits, degraded, respawning, hpc>>
     ELSE Counts(h) /\ UNCHANGED missed
  /\ UNCHANGED <<children, link, calls, wedge, poisoned, faults>>

(* The wait is longer than the events of one death are apart.  The spawn   *)
(* works; or fails with an 'error' event; or throws, which counts again.   *)
Respawn(h) ==
  /\ hpc[h] = "backoff" /\ events = 0
  /\ \/ /\ children' = children + 1 /\ hpc' = [hpc EXCEPT ![h] = "pidfile"]
        /\ UNCHANGED <<events, exits, degraded, respawning, faults>>
     \/ /\ Fault /\ events' = events + 1
        /\ respawning' = FALSE /\ hpc' = [hpc EXCEPT ![h] = "off"]
        /\ UNCHANGED <<children, exits, degraded>>
     \/ /\ Fault /\ Counts(h) /\ UNCHANGED <<children, events>>
  /\ UNCHANGED <<missed, link, calls, wedge, poisoned>>

(* writeSurrealPidFile has returned.                                       *)
BadRespawned(h) ==
  /\ hpc[h] = "pidfile" /\ hpc' = [hpc EXCEPT ![h] = "off"]
  /\ UNCHANGED <<children, events, exits, degraded, respawning, missed, link, calls, wedge,
                 poisoned, faults>>

Respawned(h) ==
  /\ hpc[h] = "pidfile"
  /\ hpc' = [hpc EXCEPT ![h] = "off"] /\ respawning' = FALSE
  /\ UNCHANGED <<children, events, exits, degraded, missed, link, calls, wedge, poisoned, faults>>

(* An exit leaves SUPERVISOR_WINDOW_MS.                                    *)
WindowMoves ==
  /\ exits > 0 /\ ~degraded /\ exits' = exits - 1
  /\ UNCHANGED <<children, events, degraded, respawning, hpc, missed, link, calls, wedge,
                 poisoned, faults>>

-----------------------------------------------------------------------------
(* The socket breaks, or hangs; or the SDK dials again after a break, and  *)
(* does not sign in.  A connect that was given up may still land.          *)
ConnectionBreaks ==
  /\ conn # "down" /\ Fault
  /\ conn' \in ({"down", "zombie"} \cup IF poisoned THEN {} ELSE {"anon"}) \ {conn}
  /\ UNCHANGED <<supervisor, schema, suspect, rec, attempt, calls, wedge, poisoned>>

LateConnect ==
  /\ conn = "down" /\ rec \in {"none", "pause"} /\ children > 0 /\ Fault
  /\ conn' \in IF poisoned THEN {"zombie"} ELSE {"up", "anon"}
  /\ UNCHANGED <<supervisor, schema, suspect, rec, attempt, calls, wedge, poisoned>>

(* Something in this process breaks all its connections.                   *)
Poisoned ==
  /\ ~poisoned /\ Fault /\ poisoned' = TRUE
  /\ conn' = IF conn = "down" THEN conn ELSE "zombie"
  /\ UNCHANGED <<supervisor, schema, suspect, rec, attempt, calls, wedge>>

(* ensureConnected returns at once.                                        *)
BadConnected(zombie) == conn # "down"
Connected(zombie) == conn # "down" /\ ~zombie

(* Query q awaits ensureConnected, before its first try ("ensure"), its    *)
(* second ("heal") or its only one ("probe"): it goes on at once, or joins *)
(* the reconnect, or starts it.  That closes the connection on which the   *)
(* others have sent.                                                       *)
Send(stage) ==
  CASE stage = "ensure" -> "sent" [] stage = "heal" -> "resent" [] stage = "probe" -> "pinged"

Sent(q) == qpc[q] \in {"sent", "resent", "pinged"}

EnsureConnected(q, stage, live) ==
  /\ qpc' = [qpc EXCEPT ![q] = IF live THEN Send(stage) ELSE stage]
  /\ IF live \/ rec # "none"
     THEN old' = old \ {q} /\ UNCHANGED <<conn, rec, attempt>>
     ELSE /\ conn' = "down" /\ rec' = "connect" /\ attempt' = 1
          /\ old' = {p \in Queries \ {q} : Sent(p)}

(* A call that is made if isAvailable, and ping, which is made in any      *)
(* case.                                                                   *)
IsAvailable == conn # "down" /\ schema

Ask(q) ==
  /\ q \notin Pings /\ IsAvailable /\ qpc[q] = "idle" /\ EnsureConnected(q, "ensure", Connected(suspect))
  /\ UNCHANGED <<supervisor, schema, suspect, wedge, poisoned, faults>>

Ping(q) ==
  /\ q \in Pings /\ qpc[q] = "idle" /\ EnsureConnected(q, "probe", Connected(suspect))
  /\ UNCHANGED <<supervisor, schema, suspect, wedge, poisoned, faults>>

-----------------------------------------------------------------------------
(* The reconnect.  It ends with its waiters going on, or failing.          *)
Waiting == {q \in Queries : qpc[q] \in {"ensure", "heal", "probe"}}

GoOn == qpc' = [q \in Queries |-> IF q \in Waiting THEN Send(qpc[q]) ELSE qpc[q]]
Fail == qpc' = [q \in Queries |-> IF q \in Waiting THEN "idle" ELSE qpc[q]]

(* WedgeDetector.check, when a deadline or a heal has been counted.        *)
Wedged(t, h) == t >= MinTimeouts /\ h >= MinHeals /\ streak = "aged"

BadHealed == heals
Healed == IF streak = "none" \/ heals = MinHeals THEN heals ELSE heals + 1

Reconnected(applied) ==
  /\ GoOn /\ rec' = "none" /\ attempt' = 0
  /\ schema' = applied /\ suspect' = (suspect /\ ~applied)
  /\ heals' = Healed /\ gone' = Wedged(timeouts, heals')
  /\ UNCHANGED <<old, timeouts, streak>>

Reconnect ==
  /\ rec = "connect"
  /\ \/ /\ children > 0 /\ conn' = (IF poisoned THEN "zombie" ELSE "up")
        /\ \/ schema /\ Reconnected(TRUE)
           \/ /\ ~schema /\ rec' = "schema"
              /\ UNCHANGED <<attempt, schema, suspect, calls, wedge>>
        /\ UNCHANGED faults
     \/ /\ IF children = 0 THEN UNCHANGED faults ELSE Fault
        /\ \/ /\ attempt < MaxAttempts /\ attempt' = attempt + 1 /\ rec' = "pause"
              /\ UNCHANGED qpc
           \/ attempt = MaxAttempts /\ attempt' = 0 /\ rec' = "none" /\ Fail
        /\ UNCHANGED <<conn, schema, suspect, old, wedge>>
  /\ UNCHANGED <<supervisor, poisoned>>

PauseEnds ==
  /\ rec = "pause" /\ rec' = "connect" /\ conn' = "down" /\ old' = {p \in Queries : Sent(p)}
  /\ UNCHANGED <<supervisor, schema, suspect, attempt, qpc, wedge, poisoned, faults>>

(* applySchemaWithRetry within the reconnect: a failure is logged, and     *)
(* zombieSuspect is left as it is.  The row it writes when duplicates stop *)
(* an index (recordSchemaWedgeRecovery) is left out.                       *)
ApplySchema ==
  /\ rec = "schema"
  /\ \/ conn = "up" /\ Reconnected(TRUE) /\ UNCHANGED faults
     \/ /\ Reconnected(FALSE)
        /\ IF conn = "up" THEN Fault ELSE UNCHANGED faults
  /\ UNCHANGED <<supervisor, conn, poisoned>>

-----------------------------------------------------------------------------
(* deadlineQuery and withRetry: a statement has a result, or an error the  *)
(* caller gets; a retryable one heals and sends once more.                 *)
BadRetry(q, live) ==
  IF qpc[q] = "sent"
  THEN EnsureConnected(q, "heal", live)
  ELSE qpc' = [qpc EXCEPT ![q] = "idle"] /\ UNCHANGED <<old, conn, rec, attempt>>

Retry(q, live) ==
  IF qpc[q] = "sent"
  THEN EnsureConnected(q, "heal", live)
  ELSE /\ qpc' = [qpc EXCEPT ![q] = "idle"] /\ old' = old \ {q}
       /\ UNCHANGED <<conn, rec, attempt>>

Succeeds(q) ==
  /\ Sent(q) /\ conn = "up" /\ q \notin old
  /\ qpc' = [qpc EXCEPT ![q] = "idle"]
  /\ timeouts' = 0 /\ heals' = 0 /\ streak' = "none"
  /\ UNCHANGED <<supervisor, link, old, poisoned, gone, faults>>

Rejected(q) ==
  /\ Sent(q) /\ conn = "up" /\ q \notin old
  /\ qpc' = [qpc EXCEPT ![q] = "idle"]
  /\ UNCHANGED <<supervisor, link, old, wedge, poisoned, faults>>

(* "must be connected", or the anonymous session of an SDK that dialled    *)
(* again.                                                                  *)
Drops(q) ==
  /\ Sent(q) /\ (conn \in {"down", "anon"} \/ q \in old) /\ Retry(q, Connected(suspect))
  /\ UNCHANGED <<supervisor, schema, suspect, wedge, poisoned, faults>>

(* QUERY_DEADLINE_MS: the flag is set when the caller comes to retry.      *)
(* ping is not evidence.                                                   *)
Hangs(q) == Sent(q) /\ (conn = "zombie" \/ q \in old)

Deadline(q) ==
  /\ Hangs(q) /\ qpc[q] # "pinged"
  /\ suspect' = TRUE
  /\ timeouts' = IF timeouts = MinTimeouts THEN timeouts ELSE timeouts + 1
  /\ streak' = IF streak = "none" THEN "young" ELSE streak
  /\ gone' = Wedged(timeouts', heals)
  /\ Retry(q, Connected(TRUE))
  /\ UNCHANGED <<supervisor, schema, heals, poisoned, faults>>

PingTimesOut(q) ==
  /\ Hangs(q) /\ qpc[q] = "pinged" /\ Retry(q, Connected(suspect))
  /\ UNCHANGED <<supervisor, schema, suspect, wedge, poisoned, faults>>

(* minStreakMs has passed.                                                 *)
StreakAges ==
  /\ streak = "young" /\ streak' = "aged"
  /\ UNCHANGED <<supervisor, link, calls, timeouts, heals, poisoned, gone, faults>>

-----------------------------------------------------------------------------
Supervise == WindowMoves \/ \E h \in Handlers : Exit(h) \/ Respawn(h) \/ Respawned(h)
Breaks == ChildDies \/ ConnectionBreaks \/ LateConnect \/ Poisoned
Reconnecting == Reconnect \/ PauseEnds \/ ApplySchema
Returns(q) == Succeeds(q) \/ Rejected(q) \/ Drops(q) \/ Deadline(q) \/ PingTimesOut(q)

Next ==
  /\ ~gone
  /\ \/ Supervise \/ Breaks \/ Reconnecting \/ StreakAges
     \/ \E q \in Queries : Ask(q) \/ Ping(q) \/ Returns(q)

Spec == Init /\ [][Next]_vars

(* Timers fire, promises settle, the callers that ask isAvailable go on    *)
(* asking.  Nobody has to ping.                                            *)
FairSpec ==
  /\ Spec
  /\ WF_vars(~gone /\ Reconnecting) /\ WF_vars(~gone /\ StreakAges)
  /\ \A q \in Queries : WF_vars(~gone /\ Ask(q)) /\ WF_vars(~gone /\ Returns(q))
  /\ \A h \in Handlers :
       /\ WF_vars(~gone /\ (\E g \in Handlers : Exit(g)))
       /\ WF_vars(~gone /\ (Respawn(h) \/ Respawned(h)))

-----------------------------------------------------------------------------
(* One SurrealDB process at a time has the data directory and the port,    *)
(* although a death may come with two events and a respawn waits twice:    *)
(* the guard of onManagedChildExit (bootstrap.ts:273-335).                 *)
OneChild == children <= 1

(* A dead child comes back, or the daemon says that it gave up -- unless   *)
(* the child died while its pid file was still being written: that exit    *)
(* is taken for a duplicate (bootstrap.ts:280).                            *)
ChildReturns == children = 0 ~> (children > 0 \/ degraded \/ missed \/ gone)

(* A connection that hangs is replaced, by whoever asks first.  If every   *)
(* attempt fails, the store stays unavailable (surreal.ts:656-720).        *)
GaveUp == conn = "down" /\ rec = "none"
ZombieHeals ==
  (conn = "zombie" /\ schema) ~> (conn \in {"up", "anon"} \/ GaveUp \/ poisoned \/ gone)

(* If reconnecting does not help, the daemon exits and another takes its   *)
(* place (surreal.ts:257-342).                                             *)
PoisonEscalates == (poisoned /\ schema) ~> (gone \/ GaveUp)

(* Neither a dead database nor a broken connection is kept for good.       *)
StoreHeals == ChildReturns /\ ZombieHeals /\ PoisonEscalates

(* What the comment on isRetryableSurrealError says (surreal.ts:348-351):  *)
(* a statement that ran anonymous, because the SDK dialled again without   *)
(* signing in, is sent again on a fresh connection that has signed in.     *)
RetryIsRebuilt ==
  [][\A q \in Queries : (qpc[q] # "resent" /\ qpc'[q] = "resent") => conn # "anon"]_vars
=============================================================================
