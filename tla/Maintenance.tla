----------------------------- MODULE Maintenance -----------------------------
(***************************************************************************)
(* The weekly consolidation of near-duplicates: when a daemon starts it    *)
(* (src/engine/maintenance.ts, runBootstrapMaintenance and runJob), the    *)
(* gate over maintenance_runs that decides whether it is due, and what a   *)
(* pass does to the rows of one table (src/engine/surreal.ts,              *)
(* consolidateMemories).  A step is one round trip to the store.           *)
(*                                                                         *)
(* The rows are one family: each is similar enough to every other.  A      *)
(* behaviour is about one table.  The pass over memory lists every row and *)
(* enriches the winner; the pass over reflection lists the active ones,    *)
(* and their importance is fixed.  The pass over skill is the latter with  *)
(* another threshold and success_count as its rank.                        *)
(***************************************************************************)
EXTENDS Naturals, FiniteSets

CONSTANTS
  Daemons,   \* processes that share the database
  Rows,      \* a family, in the order of created_at: numbers from 1
  Id,        \* row -> the place of its record id in the order of strings
  Family,    \* table -> its rows
  Late,      \* rows that may be created later
  Ranks,     \* what importance the rows may have at the start
  Week,      \* days until the job is due again (7 in the code)
  MaxFaults, \* bound on outages, failed statements and deaths in a pass
  None

ASSUME MaintenanceAssumption ==
  /\ Rows \subseteq Nat \ {0} /\ IsFiniteSet(Rows) /\ Id \in [Rows -> Nat]
  /\ \A x, y \in Rows : Id[x] = Id[y] => x = y
  /\ DOMAIN Family \subseteq {"memory", "reflection"}
  /\ Family \in [DOMAIN Family -> SUBSET Rows]
  /\ Ranks \subseteq [Rows -> Nat] /\ Late \subseteq Rows
  /\ Week \in Nat \ {0} /\ MaxFaults \in Nat /\ None \notin Rows

VARIABLES
  table,    \* the table this behaviour is about
  big,      \* there are more than 10 memories, the floor of the job
  store,    \* isAvailable()
  age,      \* days since the newest row of the job in maintenance_runs, or None
  ran,      \* daemons with bootstrapMaintenanceRan
  armed,    \* daemons with maintenanceRetryArmed
  pc,       \* daemon -> its life and the job in it
  status,   \* row -> "absent", "active", "archived" or "resolved"
  by,       \* row -> superseded_by
  rank,     \* row -> importance
  todo,     \* daemon -> rows of its list it has not come to
  known,    \* daemon -> the ranks its list had
  seen,     \* daemon -> rows it has dropped
  outer,    \* daemon -> the row it looks at
  dupes,    \* daemon -> those its search found and it has not compared yet
  found,    \* daemon -> the ranks its search had
  faults

boot  == <<store, ran, armed, pc>>
graph == <<status, by, rank>>
pass  == <<todo, known, seen, outer, dupes, found>>
vars  == <<table, big, age, boot, graph, pass, faults>>

Zero == [r \in Rows |-> 0]
Steps == {"off", "up", "heavy", "gate", "list", "next", "merge", "record"}

TypeOK ==
  /\ table \in DOMAIN Family /\ big \in BOOLEAN /\ store \in BOOLEAN
  /\ age \in (0..Week) \cup {None} /\ ran \subseteq Daemons /\ armed \subseteq Daemons
  /\ pc \in [Daemons -> Steps]
  /\ status \in [Rows -> {"absent", "active", "archived", "resolved"}]
  /\ by \in [Rows -> Rows \cup {None}] /\ rank \in [Rows -> Nat]
  /\ todo \in [Daemons -> SUBSET Rows] /\ seen \in [Daemons -> SUBSET Rows]
  /\ dupes \in [Daemons -> SUBSET Rows] /\ outer \in [Daemons -> Rows \cup {None}]
  /\ known \in [Daemons -> [Rows -> Nat]] /\ found \in [Daemons -> [Rows -> Nat]]
  /\ faults \in 0..MaxFaults

Init ==
  /\ table \in DOMAIN Family /\ big \in BOOLEAN /\ store = TRUE /\ age = None
  /\ ran = {} /\ armed = {} /\ pc = [d \in Daemons |-> "off"]
  /\ \E S \in SUBSET Late : status = [r \in Rows |-> IF r \in Family[table] \ S THEN "active"
                                                                             ELSE "absent"]
  /\ by = [r \in Rows |-> None] /\ rank \in Ranks
  /\ todo = [d \in Daemons |-> {}] /\ seen = [d \in Daemons |-> {}]
  /\ dupes = [d \in Daemons |-> {}] /\ outer = [d \in Daemons |-> None]
  /\ known = [d \in Daemons |-> Zero] /\ found = [d \in Daemons |-> Zero]
  /\ faults = 0

-----------------------------------------------------------------------------
(* A definition named Bad... is a faulty variant of the one it precedes;   *)
(* no action uses it.                                                      *)

Fault == faults < MaxFaults /\ faults' = faults + 1
Goto(d, there) == pc' = [pc EXCEPT ![d] = there]

Forget(d) ==
  /\ todo' = [todo EXCEPT ![d] = {}] /\ seen' = [seen EXCEPT ![d] = {}]
  /\ dupes' = [dupes EXCEPT ![d] = {}] /\ outer' = [outer EXCEPT ![d] = None]
  /\ known' = [known EXCEPT ![d] = Zero] /\ found' = [found EXCEPT ![d] = Zero]

-----------------------------------------------------------------------------
(* The life of a daemon.  The timer of initialize calls                    *)
(* runBootstrapMaintenance if a client is attached; a SessionStart does,   *)
(* and so does the retry of a call that found no store.                    *)
Boot(d) == pc[d] = "off" /\ Goto(d, "up") /\ UNCHANGED <<store, ran, armed>>

RunBootstrapMaintenance(d) ==
  IF d \in ran THEN UNCHANGED <<ran, pc>>
  ELSE store /\ ran' = ran \cup {d} /\ Goto(d, "heavy")

SessionStart(d) ==
  /\ pc[d] = "up" /\ UNCHANGED store
  /\ \/ RunBootstrapMaintenance(d) /\ UNCHANGED armed
     \/ d \notin ran /\ ~store /\ armed' = armed \cup {d} /\ UNCHANGED <<ran, pc>>

RetryTimer(d) ==
  /\ d \in armed /\ pc[d] = "up" /\ UNCHANGED store
  /\ RunBootstrapMaintenance(d) /\ armed' = armed \ {d}

(* The deferred group: without a store it is left to the next process.     *)
HeavyTimer(d) ==
  /\ pc[d] = "heavy" /\ Goto(d, IF store THEN "gate" ELSE "up") /\ UNCHANGED <<store, ran, armed>>

(* A daemon that has nothing to do is stopped, and started again.          *)
Restart(d) ==
  /\ pc[d] = "up" /\ Goto(d, "off")
  /\ ran' = ran \ {d} /\ armed' = armed \ {d} /\ UNCHANGED store

Outage == store /\ Fault /\ store' = FALSE /\ UNCHANGED <<ran, armed, pc>>
StoreReturns == ~store /\ store' = TRUE /\ UNCHANGED <<ran, armed, pc, faults>>

Life(d) ==
  /\ Boot(d) \/ SessionStart(d) \/ RetryTimer(d) \/ HeavyTimer(d) \/ Restart(d)
  /\ UNCHANGED <<table, big, age, graph, pass, faults>>

-----------------------------------------------------------------------------
(* shouldRunMaintenance("consolidateMemories", 10, 7, count): every row    *)
(* that this job has left says "ok".                                       *)
BadDue == age = None \/ age = Week
Due == age = None \/ age = Week \/ big

(* If the ledger cannot be read, the floor decides alone.                  *)
Gate(d) ==
  /\ pc[d] = "gate" /\ store
  /\ \/ Goto(d, IF Due THEN "list" ELSE "record") /\ UNCHANGED faults
     \/ Goto(d, IF big THEN "list" ELSE "record") /\ Fault
  /\ UNCHANGED <<table, big, age, store, ran, armed, graph, pass>>

(* The pass over memory lists what has been archived, too.                 *)
Listed == {r \in Rows : \/ status[r] = "active"
                        \/ table = "memory" /\ status[r] # "absent"}

List(d) ==
  /\ pc[d] = "list" /\ store /\ Goto(d, "next")
  /\ todo' = [todo EXCEPT ![d] = Listed] /\ known' = [known EXCEPT ![d] = rank]
  /\ UNCHANGED <<table, big, age, store, ran, armed, graph, seen, outer, dupes, found, faults>>

(* The next row that was not dropped, and active ones near it: the index   *)
(* is approximate, and no more than three are taken.                       *)
Rest(d) == todo[d] \ seen[d]

Search(d) ==
  /\ pc[d] = "next" /\ store
  /\ \E x \in Rest(d) : \E near \in SUBSET {y \in Rows \ {x} : status[y] = "active"} :
       /\ \A y \in Rest(d) : x <= y
       /\ todo' = [todo EXCEPT ![d] = Rest(d) \ {x}]
       /\ IF near \subseteq seen[d]
            THEN UNCHANGED <<pc, outer, dupes, found>>
            ELSE /\ outer' = [outer EXCEPT ![d] = x] /\ dupes' = [dupes EXCEPT ![d] = near \ seen[d]]
                 /\ found' = [found EXCEPT ![d] = rank] /\ Goto(d, "merge")
  /\ UNCHANGED <<table, big, age, store, ran, armed, graph, known, seen, faults>>

(* consolidateKeepOuter, over the ranks the two queries had.  Memories of  *)
(* equal importance are told apart by access_count, which the model does   *)
(* not follow.                                                             *)
BadKeepOuter(d, x, y) == known[d][x] >= found[d][y]
KeepOuter(d, x, y) ==
  \/ known[d][x] > found[d][y]
  \/ known[d][x] = found[d][y] /\ (Id[x] > Id[y] \/ table = "memory")
KeepInner(d, x, y) ==
  ~KeepOuter(d, x, y) \/ (table = "memory" /\ known[d][x] = found[d][y])

BadDrop(r, keep) == status' = [status EXCEPT ![r] = "superseded"] /\ by' = [by EXCEPT ![r] = keep]
Drop(r, keep) ==
  IF status[r] = "active"
  THEN status' = [status EXCEPT ![r] = "archived"] /\ by' = [by EXCEPT ![r] = keep]
  ELSE UNCHANGED <<status, by>>

Enrich(keep, y, d) ==
  rank' = IF table = "memory" /\ found[d][y] > rank[keep]
          THEN [rank EXCEPT ![keep] = found[d][y]] ELSE rank

(* One comparison; the loser may be the row it looks at, which it goes on  *)
(* with.                                                                   *)
Merge(d) ==
  LET x == outer[d] IN
  /\ pc[d] = "merge" /\ store
  /\ \E y \in dupes[d] :
       /\ \/ KeepOuter(d, x, y) /\ Drop(y, x) /\ Enrich(x, y, d)
             /\ seen' = [seen EXCEPT ![d] = @ \cup {y}]
          \/ KeepInner(d, x, y) /\ Drop(x, y) /\ Enrich(y, y, d)
             /\ seen' = [seen EXCEPT ![d] = @ \cup {x}]
       /\ dupes' = [dupes EXCEPT ![d] = @ \ {y}]
  /\ IF dupes'[d] # {} THEN UNCHANGED <<pc, outer, found>>
     ELSE /\ Goto(d, "next") /\ outer' = [outer EXCEPT ![d] = None]
          /\ found' = [found EXCEPT ![d] = Zero]
  /\ UNCHANGED <<table, big, age, store, ran, armed, todo, known, faults>>

(* recordMaintenanceRun at the end; its errors are swallowed.              *)
Finish(d) ==
  /\ pc[d] = "next" /\ Rest(d) = {} /\ Goto(d, "record") /\ Forget(d)
  /\ age' = IF store THEN 0 ELSE age
  /\ UNCHANGED <<table, big, store, ran, armed, graph, faults>>

(* Any statement may fail, and does without a store: the pass is over, and *)
(* returns 0.                                                              *)
Throws(d) ==
  /\ pc[d] \in {"gate", "list", "next", "merge"} /\ Goto(d, "record") /\ Forget(d)
  /\ Fault \/ (~store /\ UNCHANGED faults)
  /\ UNCHANGED <<table, big, age, store, ran, armed, graph>>

(* runJob records a run whatever has become of the job, which never throws.*)
Record(d) ==
  /\ pc[d] = "record" /\ Goto(d, "up")
  /\ age' = IF store THEN 0 ELSE age
  /\ UNCHANGED <<table, big, store, ran, armed, graph, pass, faults>>

Dies(d) ==
  /\ pc[d] # "off" /\ Fault /\ Goto(d, "off") /\ Forget(d)
  /\ ran' = ran \ {d} /\ armed' = armed \ {d}
  /\ UNCHANGED <<table, big, age, store, graph>>

-----------------------------------------------------------------------------
(* A day without a run; a new row; a memory that is resolved.              *)
Day ==
  /\ age \in 0..(Week - 1) /\ age' = age + 1
  /\ UNCHANGED <<table, big, boot, graph, pass, faults>>

Create(r) ==
  /\ r \in Family[table] /\ status[r] = "absent" /\ status' = [status EXCEPT ![r] = "active"]
  /\ UNCHANGED <<table, big, age, boot, by, rank, pass, faults>>

Resolve(r) ==
  /\ table = "memory" /\ status[r] \in {"active", "archived"}
  /\ status' = [status EXCEPT ![r] = "resolved"]
  /\ UNCHANGED <<table, big, age, boot, by, rank, pass, faults>>

Job(d) == Gate(d) \/ List(d) \/ Search(d) \/ Merge(d) \/ Finish(d) \/ Record(d)
Availability ==
  /\ Outage \/ StoreReturns
  /\ UNCHANGED <<table, big, age, graph, pass>>

Next ==
  \/ \E d \in Daemons : Life(d) \/ Job(d) \/ Throws(d) \/ Dies(d)
  \/ Availability \/ Day
  \/ \E r \in Rows : Create(r) \/ Resolve(r)

Spec == Init /\ [][Next]_vars

(* Timers fire, statements are answered, an outage ends, and a day does.   *)
(* Daemons are stopped and started again, and someone has a session.       *)
Fairness ==
  /\ \A d \in Daemons :
       /\ WF_vars(Life(d) /\ (Boot(d) \/ HeavyTimer(d)))
       /\ WF_vars(Life(d) /\ RetryTimer(d))
       /\ WF_vars(Life(d) /\ Restart(d)) /\ SF_vars(Life(d) /\ SessionStart(d))
       /\ WF_vars(Job(d))
  /\ WF_vars(Availability /\ StoreReturns) /\ WF_vars(Day)

FairSpec == Init /\ Fairness /\ [][Next]_vars

-----------------------------------------------------------------------------
(* Whatever is archived has a successor, which is active or has one: a     *)
(* family of reflections never loses its last row, although passes over it *)
(* run at once, are cut off and repeated (K9, surreal.ts 118-135).  Who    *)
(* goes from r to successors as long as there are any meets an active row. *)
Onward(S) == \A x \in S \ {None} : status[x] = "archived" => by[x] \in S
Stands(r) == \A S \in SUBSET (Rows \cup {None}) :
               r \in S /\ Onward(S) => \E x \in S \ {None} : status[x] = "active"
FamilyStands ==
  table = "reflection" => \A r \in Rows : status[r] = "archived" => Stands(r)

(* "keeper is enriched, loser is soft-archived with superseded_by pointing *)
(* at keeper" (surreal.ts 3301-3302): a memory that can be recalled is     *)
(* archived for one that can.                                              *)
KeeperIsActive ==
  [][\A r \in Rows : table = "memory" /\ status[r] = "active" /\ status'[r] = "archived"
                        => Stands(r)']_vars

(* Above its floor the job is done again and again (surreal.ts 2638-2671). *)
Consolidates == \E d \in Daemons : pc[d] = "list"
BigIsConsolidated == big => []<>Consolidates

(* "scheduled weekly - consolidation runs even on small graphs"            *)
(* (surreal.ts 3235-3236).                                                 *)
SmallIsConsolidated == ~big => []<>Consolidates
=============================================================================
