----------------------------- MODULE Subagents -----------------------------
(***************************************************************************)
(* The rows of the sub-agents a conversation spawns: PreToolUse creates    *)
(* and remembers one, SubagentStop finds and closes it, and a session that *)
(* looks idle is reaped unless it remembers work in progress               *)
(* (src/hook-handlers/pre-tool-use.ts, post-tool-use.ts and subagent.ts,   *)
(* src/engine/commit.ts, src/engine/state.ts).                             *)
(*                                                                         *)
(* A spawn stands for its sub-agent, its tool_use_id and its row.          *)
(***************************************************************************)
EXTENDS Naturals, FiniteSets

CONSTANTS Spawns, Edits, None, MaxFaults

VARIABLES
  exact,     \* SubagentStop carries the tool_use_id, not only an agent_id
  agent,     \* spawn -> "off", "asked" (awaits its hook), "running" or "ended"
  call,      \* spawn -> PreToolUse is "off", at "create" or at "seal", or "done"
  stop,      \* spawn -> SubagentStop is "off", or at "select", "update" or "orphan"
  target,    \* spawn -> the row its stop has chosen, or None
  ours,      \* calls and stops that hold the session object of the map
  row,       \* spawn -> "none", "in_progress" or "completed"
  by,        \* spawn -> whose stop has closed the row, or None
  strays,    \* spawns for which a bare row was written
  \* the session
  known, active, args, \* in the map; _activeSubagents; pendingToolArgs
  attached, quiet,     \* a client is attached; the turn began two hours ago
  use,       \* edit -> "off", "open" or "done"
  \* history
  lost,      \* spawns whose row was not remembered in time, by a failure
  again,     \* a stop was delivered again
  faults

spawning == <<agent, call>>
stopping == <<stop, target>>
rows     == <<row, by, strays>>
session  == <<known, active, args, attached, quiet>>
past     == <<lost, again>>
vars     == <<exact, spawning, stopping, ours, rows, session, use, past, faults>>

TypeOK ==
  /\ exact \in BOOLEAN /\ agent \in [Spawns -> {"off", "asked", "running", "ended"}]
  /\ call \in [Spawns -> {"off", "create", "seal", "done"}]
  /\ stop \in [Spawns -> {"off", "select", "update", "orphan"}]
  /\ {target, by} \subseteq [Spawns -> Spawns \cup {None}]
  /\ ours \subseteq {"call", "stop"} \X Spawns
  /\ row \in [Spawns -> {"none", "in_progress", "completed"}]
  /\ {known, attached, quiet, again} \subseteq BOOLEAN
  /\ active \cup strays \cup lost \subseteq Spawns /\ args \subseteq Edits
  /\ use \in [Edits -> {"off", "open", "done"}] /\ faults \in 0..MaxFaults

Init ==
  /\ exact \in BOOLEAN /\ agent = [k \in Spawns |-> "off"] /\ call = [k \in Spawns |-> "off"]
  /\ stop = [k \in Spawns |-> "off"] /\ target = [k \in Spawns |-> None] /\ ours = {}
  /\ row = [k \in Spawns |-> "none"] /\ by = [k \in Spawns |-> None] /\ strays = {}
  /\ known = TRUE /\ active = {} /\ args = {} /\ attached = TRUE /\ quiet = FALSE
  /\ use = [u \in Edits |-> "off"] /\ lost = {} /\ again = FALSE /\ faults = 0

-----------------------------------------------------------------------------
(* A definition named Bad... is a faulty variant of the one it precedes;   *)
(* no action uses it.                                                      *)

Fault == faults < MaxFaults /\ faults' = faults + 1

(* PreToolUse of an Agent call.  In a session the daemon does not know, or *)
(* without a store, it does nothing.                                       *)
Spawn(k) ==
  /\ agent[k] = "off" /\ agent' = [agent EXCEPT ![k] = "asked"] /\ attached
  /\ \/ /\ known /\ call' = [call EXCEPT ![k] = "create"]
        /\ ours' = ours \cup {<<"call", k>>} /\ UNCHANGED <<lost, faults>>
     \/ /\ call' = [call EXCEPT ![k] = "done"] /\ lost' = lost \cup {k} /\ UNCHANGED ours
        /\ IF known THEN Fault ELSE UNCHANGED faults
  /\ UNCHANGED <<exact, stopping, rows, session, use, again>>

(* commitSubagent: a row that is there already is taken for its own.       *)
Create(k) ==
  /\ call[k] = "create"
  /\ \/ /\ row' = IF row[k] = "none" THEN [row EXCEPT ![k] = "in_progress"] ELSE row
        /\ call' = [call EXCEPT ![k] = "seal"] /\ UNCHANGED <<lost, faults>>
     \/ Fault /\ call' = [call EXCEPT ![k] = "done"]
        /\ row' \in {row, [row EXCEPT ![k] = IF @ = "none" THEN "in_progress" ELSE @]}
        /\ lost' = lost \cup {k}
  /\ UNCHANGED <<exact, agent, stopping, ours, by, strays, session, use, again>>

(* The edges are written, and the row is remembered by its session object, *)
(* which the map may have dropped.                                         *)
Seal(k) ==
  /\ call[k] = "seal" /\ call' = [call EXCEPT ![k] = "done"]
  /\ IF <<"call", k>> \in ours THEN active' = active \cup {k} /\ UNCHANGED lost
     ELSE lost' = lost \cup {k} /\ UNCHANGED active
  /\ UNCHANGED <<exact, agent, stopping, ours, rows, known, args, attached, quiet, use, again,
                 faults>>

(* The agent starts when the hook has returned, or after its time-out.     *)
Start(k) ==
  /\ agent[k] = "asked" /\ agent' = [agent EXCEPT ![k] = "running"]
  /\ \/ call[k] = "done" /\ UNCHANGED <<lost, faults>>
     \/ call[k] # "done" /\ Fault /\ lost' = lost \cup {k}
  /\ UNCHANGED <<exact, call, stopping, ours, rows, session, use, again>>

-----------------------------------------------------------------------------
(* SubagentStop: which row is meant.  An exact stop knows its key; another *)
(* one is resolved if exactly one spawn is in flight, and skipped if there *)
(* are several.                                                            *)
BadInFlight == active
InFlight == IF Cardinality(active) = 1 THEN active ELSE {}

Resolve(k) ==
  \/ /\ exact /\ stop' = [stop EXCEPT ![k] = IF known /\ k \in active THEN "update" ELSE "select"]
     /\ target' = [target EXCEPT ![k] = k]
  \/ /\ ~exact /\ known
     /\ \E t \in InFlight : target' = [target EXCEPT ![k] = t]
     /\ stop' = [stop EXCEPT ![k] = "update"]
  \/ /\ ~exact /\ (known => active = {}) /\ stop' = [stop EXCEPT ![k] = "orphan"]
     /\ UNCHANGED target
  \/ /\ ~exact /\ known /\ active # {} /\ InFlight = {} /\ UNCHANGED stopping

Deliver(k) ==
  /\ stop[k] = "off" /\ Resolve(k)
  /\ ours' = IF known THEN ours \cup {<<"stop", k>>} ELSE ours \ {<<"stop", k>>}

Stop(k) ==
  /\ agent[k] = "running" /\ agent' = [agent EXCEPT ![k] = "ended"]
  /\ \/ Deliver(k) /\ UNCHANGED faults
     \/ Fault /\ UNCHANGED <<stopping, ours>>                 \* no store
  /\ UNCHANGED <<exact, call, rows, session, use, past>>

Redeliver(k) ==
  /\ agent[k] = "ended" /\ Fault /\ Deliver(k) /\ again' = TRUE
  /\ UNCHANGED <<exact, spawning, rows, session, use, lost>>

(* The SELECT by correlation key; one that fails finds nothing.            *)
Select(k) ==
  /\ stop[k] = "select"
  /\ \/ /\ stop' = [stop EXCEPT ![k] = IF row[k] = "none" THEN "orphan" ELSE "update"]
        /\ UNCHANGED faults
     \/ stop' = [stop EXCEPT ![k] = "orphan"] /\ Fault
  /\ UNCHANGED <<exact, spawning, target, ours, rows, session, use, past>>

(* The UPDATE, and only when it has landed the row is forgotten.           *)
Closed(k) ==
  /\ row' = [row EXCEPT ![target[k]] = "completed"] /\ by' = [by EXCEPT ![target[k]] = k]
Forgotten(k) == active' = IF <<"stop", k>> \in ours THEN active \ {target[k]} ELSE active
BadClose(k) ==
  /\ Forgotten(k)
  /\ \/ Closed(k) /\ UNCHANGED faults
     \/ Fault /\ UNCHANGED <<row, by>>
Close(k) ==
  \/ Closed(k) /\ Forgotten(k) /\ UNCHANGED faults
  \/ Fault /\ UNCHANGED <<row, by, active>>

Update(k) ==
  /\ stop[k] = "update" /\ stop' = [stop EXCEPT ![k] = "off"] /\ Close(k)
  /\ UNCHANGED <<exact, spawning, target, ours, strays, known, args, attached, quiet, use, past>>

(* A stop that matches nothing leaves a row of its own, under the key it   *)
(* has; a row under that key is not written again.                         *)
Orphan(k) ==
  /\ stop[k] = "orphan" /\ stop' = [stop EXCEPT ![k] = "off"]
  /\ IF exact THEN /\ row' = IF row[k] = "none" THEN [row EXCEPT ![k] = "completed"] ELSE row
                   /\ UNCHANGED strays
     ELSE strays' = strays \cup {k} /\ UNCHANGED row
  /\ UNCHANGED <<exact, spawning, target, ours, by, session, use, past, faults>>

-----------------------------------------------------------------------------
(* An edit between its two hooks; the second does not come if it failed.   *)
PreEdit(u) ==
  /\ use[u] = "off" /\ attached /\ use' = [use EXCEPT ![u] = "open"]
  /\ args' = IF known THEN args \cup {u} ELSE args
  /\ UNCHANGED <<exact, spawning, stopping, ours, rows, known, active, attached, quiet, past,
                 faults>>

PostEdit(u) ==
  /\ use[u] = "open" /\ use' = [use EXCEPT ![u] = "done"] /\ args' \in {args \ {u}, args}
  /\ UNCHANGED <<exact, spawning, stopping, ours, rows, known, active, attached, quiet, past,
                 faults>>

(* A turn begins, and makes the session if there is none.                  *)
UserPrompt ==
  /\ known' = TRUE /\ attached' = TRUE /\ quiet' = FALSE
  /\ UNCHANGED <<exact, spawning, stopping, ours, rows, active, args, use, past, faults>>

TwoHours ==
  /\ ~quiet /\ quiet' = TRUE
  /\ UNCHANGED <<exact, spawning, stopping, ours, rows, known, active, args, attached, use, past,
                 faults>>

(* The client goes without a SessionEnd, and its agents with it.           *)
Vanish ==
  /\ attached /\ attached' = FALSE
  /\ agent' = [k \in Spawns |-> IF agent[k] = "off" THEN "off" ELSE "ended"]
  /\ UNCHANGED <<exact, call, stopping, ours, rows, known, active, args, quiet, use, past, faults>>

(* The session leaves the map: reapStaleSessions, or a loss (the cap on    *)
(* sessions, a SessionEnd or a restart with agents at work), which counts  *)
(* as a fault.                                                             *)
Drop ==
  /\ known' = FALSE /\ active' = {} /\ args' = {} /\ ours' = {}
  /\ UNCHANGED <<exact, spawning, stopping, rows, attached, quiet, use, again>>

BadIdle == known /\ quiet /\ ~attached
Idle == known /\ quiet /\ ~attached /\ active = {} /\ args = {}

Reap == Idle /\ Drop /\ UNCHANGED <<lost, faults>>
Evict == known /\ Fault /\ Drop /\ lost' = lost \cup active

Next ==
  \/ \E k \in Spawns :
       \/ Spawn(k) \/ Create(k) \/ Seal(k) \/ Start(k) \/ Stop(k) \/ Redeliver(k)
       \/ Select(k) \/ Update(k) \/ Orphan(k)
  \/ \E u \in Edits : PreEdit(u) \/ PostEdit(u)
  \/ UserPrompt \/ TwoHours \/ Vanish \/ Reap \/ Evict

Spec == Init /\ [][Next]_vars

-----------------------------------------------------------------------------
(* A row in progress is remembered by the session that must close it: a    *)
(* stop whose UPDATE failed finds it again (subagent.ts:79), and no reaper *)
(* takes the session away from it (state.ts:424).                          *)
Remembered ==
  \A k \in Spawns : row[k] = "in_progress" /\ k \notin lost =>
    call[k] = "seal" \/ (known /\ k \in active)

(* A row is closed by the stop of its own agent, unless a row was lost or  *)
(* a stop came twice (subagent.ts:131).                                    *)
OwnStop == lost = {} /\ ~again => \A k \in Spawns : by[k] \in {None, k}

(* Both: no row is left open that could be closed, or closed by another.   *)
AgentsClosed == Remembered /\ OwnStop
=============================================================================
