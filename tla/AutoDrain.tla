----------------------------- MODULE AutoDrain -----------------------------
(***************************************************************************)
(* The scheduler that drains the queue with headless drainers              *)
(* (src/daemon/auto-drain.ts): triggers that gate, lock and spawn, the     *)
(* lock file auto-drain.pid with its marker and its heart-beat, the daily  *)
(* spend log, the cool-down after fast failures, and what a shutdown does. *)
(*                                                                         *)
(* A daemon is one process: what it does between two awaits is one step.   *)
(* Daemons that overlap (one is still leaving) share the files, so the     *)
(* unlink and the create of a stolen lock are steps of their own, and a    *)
(* process may die between the create and the first marker.                *)
(***************************************************************************)
EXTENDS Naturals, FiniteSets

CONSTANTS
  Daemons,   \* the daemon processes, one after the other
  Triggers,  \* runs of spawnHeadlessDrainer that can be under way
  Kids,      \* the drainers that can be around
  None,      \* no trigger, no drainer
  MaxDaily,  \* opts.maxDaily, the spawns of a day
  MaxFast,   \* DRAIN_FAILURE_COOLDOWN_THRESHOLD
  MaxFaults  \* bound on crashes, shutdowns, suspends, outages and failed calls

ASSUME DrainAssumption ==
  /\ None \notin Triggers \cup Kids /\ Triggers \cap Kids = {} /\ IsFiniteSet(Triggers)
  /\ MaxDaily \in Nat \ {0} /\ MaxFast \in Nat \ {0} /\ MaxFaults \in Nat

VARIABLES
  dstate,   \* daemon -> "off", "up", "leaving" (stopDrainScheduler ran), "gone"
  fails,    \* daemon -> consecutiveFastFailures
  cooling,  \* daemons before drainCooldownUntil
  active,   \* daemon -> the drainer of activeDrainRelease
  pc,       \* trigger -> where it is in spawnHeadlessDrainer
  host,     \* trigger -> its daemon
  kid,      \* drainer -> "none", "run", "exited" (event to come), "tally"
  parent,   \* drainer -> the daemon that spawned it
  held,     \* drainers whose releaseOnce has not run: their lock is beaten
  sized,    \* drainer -> its queueBefore: "none", "few" (below threshold), "many"
  holder,   \* who made the lock file: a trigger, then its drainer; None: no file
  stage,    \* its marker: "empty", "daemon" (interim) or "kid"
  keeper,   \* the daemon that wrote the marker
  old,      \* the file is older than DRAIN_LOCK_STALE_AGE_MS
  work,     \* the queue holds at least threshold actionable items
  store,    \* the store answers
  spend,    \* lines of today in the spend log
  spawned,  \* drainers spawned today (history)
  missed,   \* of these, lines that could not be appended (history)
  loose,    \* drainers that lost the lock on purpose: it was stolen when it
            \* was old, or a shutdown gave it up (history)
  robbed,   \* drainers that run outside the lock for any other reason (history)
  crowded,  \* two daemons have been alive at a time, or the machine has slept (history)
  slips,    \* times a trigger unlinked a lock in use, or got the lock by a
            \* steal when the cap it had checked was reached (history)
  faults

daemon == <<dstate, fails, cooling, active>>
lock   == <<holder, stage, keeper, old>>
money  == <<spend, spawned, missed>>
queue  == <<work, store>>
history == <<loose, robbed, crowded, slips>>
vars == <<daemon, pc, host, kid, parent, held, sized, lock, money, history, queue, faults>>

Alive == {d \in Daemons : dstate[d] \in {"up", "leaving"}}
Running == {k \in Kids : kid[k] = "run"}

(* Types; a trigger is part of a living daemon, and the heart-beat of a    *)
(* drainer ends with the handling of its exit.                             *)
TypeOK ==
  /\ dstate \in [Daemons -> {"off", "up", "leaving", "gone"}]
  /\ fails \in [Daemons -> 0..MaxFast] /\ cooling \subseteq Daemons
  /\ active \in [Daemons -> Kids \cup {None}]
  /\ pc \in [Triggers -> {"idle", "count", "unlink", "create", "stamp", "recount"}]
  /\ host \in [Triggers -> Daemons \cup {None}]
  /\ kid \in [Kids -> {"none", "run", "exited", "tally"}]
  /\ parent \in [Kids -> Daemons \cup {None}] /\ held \subseteq Kids
  /\ sized \in [Kids -> {"none", "few", "many"}]
  /\ holder \in Triggers \cup Kids \cup {None}
  /\ stage \in {"empty", "daemon", "kid"} /\ keeper \in Daemons \cup {None}
  /\ old \in BOOLEAN /\ work \in BOOLEAN /\ store \in BOOLEAN
  /\ spend \in Nat /\ spawned \in Nat /\ missed \in Nat /\ slips \in Nat
  /\ loose \subseteq Kids /\ robbed \subseteq Kids /\ crowded \in BOOLEAN
  /\ faults \in 0..MaxFaults
  /\ stage = "kid" => holder \in Kids
  /\ \A k \in held : kid[k] \in {"run", "exited"}
  /\ \A t \in Triggers : pc[t] # "idle" => host[t] \in Alive

Init ==
  /\ dstate = [d \in Daemons |-> "off"] /\ fails = [d \in Daemons |-> 0]
  /\ cooling = {} /\ active = [d \in Daemons |-> None]
  /\ pc = [t \in Triggers |-> "idle"] /\ host = [t \in Triggers |-> None]
  /\ kid = [k \in Kids |-> "none"] /\ parent = [k \in Kids |-> None] /\ held = {}
  /\ sized = [k \in Kids |-> "none"]
  /\ holder = None /\ stage = "empty" /\ keeper = None /\ old = FALSE
  /\ work = TRUE /\ store = TRUE
  /\ spend = 0 /\ spawned = 0 /\ missed = 0 /\ slips = 0
  /\ loose = {} /\ robbed = {} /\ crowded = FALSE /\ faults = 0

-----------------------------------------------------------------------------
(* A definition named Bad... is a faulty variant of the one it precedes;   *)
(* no action uses it.                                                      *)

Fault == faults < MaxFaults /\ faults' = faults + 1

(* getPendingCount is 0 without a store; Counted: it reaches threshold.    *)
Counted == work /\ store
Sizes == IF Counted THEN {"many"} ELSE IF store THEN {"few", "none"} ELSE {"none"}

(* isPidAlive of the marker, and cmdlineLooksLikeDrainer with it.          *)
BadHolderLives == stage = "kid" /\ kid[holder] = "run"
HolderLives == \/ stage = "daemon" /\ keeper \in Alive
               \/ stage = "kid" /\ kid[holder] = "run"

(* tryAcquireLock: may the lock be stolen?                                 *)
BadStale == IF stage = "empty" THEN FALSE ELSE ~HolderLives \/ old
Stale == IF stage = "empty" THEN old ELSE ~HolderLives \/ old

Unlock == holder' = None /\ stage' = "empty" /\ keeper' = None /\ old' = FALSE

(* Trigger t unlinks whatever the name stands for; what runs under that    *)
(* lock, or is about to, is then outside it.                               *)
InUse(t) == holder # t /\ (HolderLives \/ holder \in {u \in Triggers : pc[u] # "idle"})
UnlinkByName(t) ==
  /\ slips' = IF InUse(t) THEN slips + 1 ELSE slips
  /\ Unlock
Outside == Running \cap {holder}

(* The event loop of d is not in the middle of tryAcquireLock.             *)
Free(d) == \A t \in Triggers : host[t] = d => pc[t] \in {"idle", "count", "recount"}

(* The trigger ends without a drainer.                                     *)
GiveUp(t) == pc' = [pc EXCEPT ![t] = "idle"] /\ host' = [host EXCEPT ![t] = None]

At(t, there) == pc' = [pc EXCEPT ![t] = there] /\ UNCHANGED host

-----------------------------------------------------------------------------
(* spawnHeadlessDrainer up to its first await: the cool-down gate.  The    *)
(* start-up check, the timer and the session end all come this way; a      *)
(* session may still end while the daemon leaves.                          *)
Begin(t, d) ==
  /\ pc[t] = "idle" /\ holder # t /\ d \in Alive \ cooling /\ Free(d)
  /\ pc' = [pc EXCEPT ![t] = "count"] /\ host' = [host EXCEPT ![t] = d]
  /\ UNCHANGED <<daemon, kid, parent, held, sized, lock, money, history, queue, faults>>

(* The count is back: threshold, daily cap, and the lock if it is free.    *)
BadCapped == spend > MaxDaily
Capped == spend >= MaxDaily
Gate(t) ==
  /\ pc[t] = "count" /\ Free(host[t])
  /\ IF ~Counted \/ Capped \/ (holder # None /\ ~Stale)
       THEN GiveUp(t) /\ UNCHANGED lock
       ELSE IF holder # None
       THEN At(t, "unlink") /\ UNCHANGED lock
       ELSE /\ holder' = t /\ stage' = "empty" /\ old' = FALSE /\ UNCHANGED keeper
            /\ At(t, "stamp")
  /\ UNCHANGED <<daemon, kid, parent, held, sized, money, history, queue, faults>>

(* The stale lock is unlinked by name: it may be another file by now, the  *)
(* fresh lock of a drainer that another thief has started.                 *)
Unlink(t) ==
  /\ pc[t] = "unlink"
  /\ UnlinkByName(t) /\ At(t, "create")
  /\ IF old THEN loose' = loose \cup Outside /\ UNCHANGED robbed
            ELSE robbed' = robbed \cup Outside /\ UNCHANGED loose
  /\ UNCHANGED <<daemon, kid, parent, held, sized, money, crowded, queue, faults>>

Create(t) ==
  /\ pc[t] = "create"
  /\ IF holder # None
       THEN GiveUp(t) /\ UNCHANGED lock
       ELSE holder' = t /\ At(t, "stamp") /\ UNCHANGED <<stage, keeper, old>>
  /\ slips' = IF holder = None /\ Capped THEN slips + 1 ELSE slips
  /\ UNCHANGED <<daemon, kid, parent, held, sized, money, loose, robbed, crowded, queue, faults>>

(* writeDaemonInterimMarker goes to the file the trigger has open.         *)
Stamp(t) ==
  /\ pc[t] = "stamp"
  /\ At(t, "recount")
  /\ IF holder = t THEN stage' = "daemon" /\ keeper' = host[t] /\ UNCHANGED <<holder, old>>
                   ELSE UNCHANGED lock
  /\ UNCHANGED <<daemon, kid, parent, held, sized, money, history, queue, faults>>

(* The second count is back: spawn, the marker of the drainer, the         *)
(* heart-beat, one line in the spend log, and the hook for the shutdown.   *)
Spawn(t) ==
  /\ pc[t] = "recount" /\ Free(host[t])
  /\ \E k \in Kids :
       /\ kid[k] = "none" /\ holder # k /\ \A d \in Daemons : active[d] # k
       /\ kid' = [kid EXCEPT ![k] = "run"] /\ parent' = [parent EXCEPT ![k] = host[t]]
       /\ \E n \in Sizes : sized' = [sized EXCEPT ![k] = n]
       /\ held' = held \cup {k} /\ active' = [active EXCEPT ![host[t]] = k]
       /\ IF holder = t
            THEN /\ holder' = k /\ stage' = "kid" /\ keeper' = host[t] /\ old' = FALSE
                 /\ UNCHANGED robbed
            ELSE robbed' = robbed \cup {k} /\ UNCHANGED lock
  /\ spawned' = spawned + 1
  /\ \/ spend' = spend + 1 /\ UNCHANGED <<missed, faults>>
     \/ missed' = missed + 1 /\ Fault /\ UNCHANGED spend
  /\ GiveUp(t)
  /\ UNCHANGED <<dstate, fails, cooling, loose, crowded, slips, queue>>

(* spawn() threw or gave no pid: releaseLock unlinks by name.              *)
SpawnFails(t) ==
  /\ pc[t] = "recount" /\ Free(host[t]) /\ Fault
  /\ UnlinkByName(t) /\ GiveUp(t) /\ robbed' = robbed \cup Outside
  /\ UNCHANGED <<daemon, kid, parent, held, sized, money, loose, crowded, queue>>

-----------------------------------------------------------------------------
(* A drainer ends, with or without progress; its daemon may not be there.  *)
KidEnds(k) ==
  /\ kid[k] = "run"
  /\ kid' = [kid EXCEPT ![k] = IF parent[k] \in Alive THEN "exited" ELSE "none"]
  /\ work' \in {work, FALSE} /\ loose' = loose \ {k} /\ robbed' = robbed \ {k}
  /\ held' = IF parent[k] \in Alive THEN held ELSE held \ {k}
  /\ parent' = [parent EXCEPT ![k] = IF parent[k] \in Alive THEN parent[k] ELSE None]
  /\ UNCHANGED <<daemon, pc, host, sized, lock, money, crowded, slips, store, faults>>

(* releaseOnce: the lock goes only if its marker is this drainer's.        *)
BadOwns(k) == stage = "kid" /\ keeper = parent[k]
Owns(k) == stage = "kid" /\ holder = k
Release(k) ==
  /\ held' = held \ {k}
  /\ active' = [active EXCEPT ![parent[k]] = None]
  /\ IF Owns(k) THEN Unlock ELSE UNCHANGED lock

BadOnExit(k) ==
  /\ kid[k] = "exited" /\ Free(parent[k])
  /\ kid' = [kid EXCEPT ![k] = "tally"]
  /\ IF Owns(k) THEN Unlock ELSE UNCHANGED lock
  /\ UNCHANGED <<daemon, held, sized, pc, host, parent, money, history, queue, faults>>
OnExit(k) ==
  /\ kid[k] = "exited" /\ Free(parent[k])
  /\ kid' = [kid EXCEPT ![k] = "tally"]
  /\ IF k \in held THEN Release(k) ELSE UNCHANGED <<held, active, lock>>
  /\ UNCHANGED <<dstate, fails, cooling, pc, host, parent, sized, money, history, queue, faults>>

(* The recount after the exit, and classifyDrainOutcome.  A recount that   *)
(* is 0, also for want of a store, is progress from any queueBefore above  *)
(* 0; a queue that did not shrink is a fast failure, or neutral if the     *)
(* drainer ran long enough.                                                *)
MayShrink(k) == sized[k] = "many" \/ (sized[k] = "few" /\ ~Counted)
MayNot(k) == sized[k] = "none" \/ Counted \/ (sized[k] = "few" /\ store)
Tally(k) ==
  LET d == parent[k]
      more == IF fails[d] < MaxFast THEN fails[d] + 1 ELSE MaxFast IN
  /\ kid[k] = "tally" /\ Free(d)
  /\ kid' = [kid EXCEPT ![k] = "none"] /\ sized' = [sized EXCEPT ![k] = "none"]
  /\ parent' = [parent EXCEPT ![k] = None]
  /\ \/ /\ MayShrink(k)
        /\ fails' = [fails EXCEPT ![d] = 0] /\ cooling' = cooling \ {d}
     \/ /\ MayNot(k)
        /\ \/ /\ fails' = [fails EXCEPT ![d] = more]
              /\ cooling' = IF more = MaxFast THEN cooling \cup {d} ELSE cooling
           \/ UNCHANGED <<fails, cooling>>
  /\ UNCHANGED <<dstate, active, pc, host, held, lock, money, history, queue, faults>>

-----------------------------------------------------------------------------
(* Daemons: a new one starts when none is up; the last may be leaving.     *)
Start(d) ==
  /\ dstate[d] = "off" /\ \A e \in Daemons : dstate[e] # "up"
  /\ dstate' = [dstate EXCEPT ![d] = "up"] /\ crowded' = (crowded \/ Alive # {})
  /\ UNCHANGED <<fails, cooling, active, pc, host, kid, parent, held, sized, lock, money,
                 loose, robbed, slips, queue, faults>>

(* stopDrainScheduler, from gracefulCleanup: the drainer runs on.          *)
Stop(d) ==
  /\ dstate[d] = "up" /\ Free(d) /\ Fault
  /\ dstate' = [dstate EXCEPT ![d] = "leaving"]
  /\ IF active[d] # None /\ active[d] \in held
       THEN /\ Release(active[d])
            /\ loose' = IF Owns(active[d]) THEN loose \cup (Running \cap {active[d]}) ELSE loose
       ELSE UNCHANGED <<held, active, lock, loose>>
  /\ UNCHANGED <<fails, cooling, pc, host, kid, parent, sized, money, robbed, crowded, slips,
                 queue>>

(* The process ends, after its clean-up or by a crash.                     *)
Ends(d) ==
  /\ dstate[d] \in {"up", "leaving"} /\ (dstate[d] = "up" => Fault)
  /\ dstate[d] = "leaving" => UNCHANGED faults
  /\ dstate' = [dstate EXCEPT ![d] = "gone"]
  /\ fails' = [fails EXCEPT ![d] = 0] /\ cooling' = cooling \ {d}
  /\ active' = [active EXCEPT ![d] = None]
  /\ pc' = [t \in Triggers |-> IF host[t] = d THEN "idle" ELSE pc[t]]
  /\ host' = [t \in Triggers |-> IF host[t] = d THEN None ELSE host[t]]
  /\ kid' = [k \in Kids |-> IF parent[k] = d /\ kid[k] # "run" THEN "none" ELSE kid[k]]
  /\ held' = {k \in held : parent[k] # d}
  /\ sized' = [k \in Kids |-> IF parent[k] = d THEN "none" ELSE sized[k]]
  /\ parent' = [k \in Kids |-> IF parent[k] = d /\ kid[k] # "run" THEN None ELSE parent[k]]
  /\ UNCHANGED <<lock, money, history, queue>>

(* Twenty minutes without a heart-beat: the holder is gone, or its daemon. *)
Ages ==
  /\ holder # None /\ ~old /\ holder \notin held
  /\ stage = "daemon" => keeper \notin Alive
  /\ \A t \in Triggers : holder = t => pc[t] = "idle"
  /\ old' = TRUE
  /\ UNCHANGED <<daemon, pc, host, kid, parent, held, sized, holder, stage, keeper, money,
                 history, queue, faults>>

(* The machine sleeps: a lock that is in use looks old until the next beat.*)
Sleeps ==
  /\ holder # None /\ ~old /\ Fault
  /\ old' = TRUE /\ crowded' = TRUE
  /\ UNCHANGED <<daemon, pc, host, kid, parent, held, sized, holder, stage, keeper, money,
                 loose, robbed, slips, queue>>

HeartBeat(k) ==
  /\ k \in held /\ holder = k /\ old /\ parent[k] \in Alive /\ Free(parent[k])
  /\ old' = FALSE
  /\ UNCHANGED <<daemon, pc, host, kid, parent, held, sized, holder, stage, keeper, money,
                 history, queue, faults>>

CoolDownEnds(d) ==
  /\ d \in cooling
  /\ cooling' = cooling \ {d}
  /\ UNCHANGED <<dstate, fails, active, pc, host, kid, parent, held, sized, lock, money,
                 history, queue, faults>>

(* Sessions end and queue more work; the store goes away and comes back.   *)
Enqueue ==
  /\ ~work /\ work' = TRUE
  /\ UNCHANGED <<daemon, pc, host, kid, parent, held, sized, lock, money, history, store, faults>>

StoreTurns ==
  /\ store' = ~store /\ (store => Fault) /\ (~store => UNCHANGED faults)
  /\ UNCHANGED <<daemon, pc, host, kid, parent, held, sized, lock, money, history, work>>

(* Midnight in UTC: the lines of yesterday no longer count.                *)
Midnight ==
  /\ spawned > 0 /\ Fault
  /\ spend' = 0 /\ spawned' = 0 /\ missed' = 0
  /\ UNCHANGED <<daemon, pc, host, kid, parent, held, sized, lock, history, queue>>

-----------------------------------------------------------------------------
TriggerStep(t) == \/ Gate(t) \/ Unlink(t) \/ Create(t) \/ Stamp(t) \/ Spawn(t)

Next ==
  \/ \E t \in Triggers : \/ \E d \in Daemons : Begin(t, d)
                         \/ TriggerStep(t) \/ SpawnFails(t)
  \/ \E k \in Kids : KidEnds(k) \/ OnExit(k) \/ Tally(k) \/ HeartBeat(k)
  \/ \E d \in Daemons : Start(d) \/ Stop(d) \/ Ends(d) \/ CoolDownEnds(d)
  \/ Ages \/ Sleeps \/ Enqueue \/ StoreTurns \/ Midnight

Spec == Init /\ [][Next]_vars

(* The periodic timer, the event loop and the clock; a drainer may hang,   *)
(* the store may stay away, nobody need start a daemon.                    *)
Fairness ==
  /\ \A t \in Triggers : WF_vars(\E d \in Daemons : dstate[d] = "up" /\ Begin(t, d))
  /\ \A t \in Triggers : WF_vars(TriggerStep(t))
  /\ \A k \in Kids : WF_vars(OnExit(k)) /\ WF_vars(Tally(k))
  /\ WF_vars(Ages)

FairSpec == Spec /\ Fairness

-----------------------------------------------------------------------------
(* Two drainers run at a time only if one of them has lost the lock on     *)
(* purpose, stolen at 20 minutes or given up by a shutdown; or it has been *)
(* robbed, after daemons overlapped or the machine slept.  Robbed is who   *)
(* loses a fresh lock to a thief that judged another file (auto-drain.ts   *)
(* 483-486) or to the releaseLock of a failed spawn (927, 1067), or was    *)
(* spawned when the lock had been taken from its trigger.  One daemon      *)
(* that stays awake robs nobody: what it does from the lock to the marker  *)
(* excludes its other triggers, and every exit leaves the lock of another  *)
(* drainer alone (K10b, 973-995).                                          *)
OneDrainer ==
  \A j, k \in Running : j # k => \/ {j, k} \cap loose # {}
                                 \/ crowded /\ {j, k} \cap robbed # {}

(* "Returns ... null if another live drainer ... already owns it"          *)
(* (auto-drain.ts 425-435).  False: see OneDrainer.                        *)
NobodyRobbed == robbed = {}

(* The spawns of a day stay within the cap, but for lines that could not   *)
(* be appended and for locks stolen in use, or after the thief had checked *)
(* the cap: check, lock, spawn and append go together (833, 958).          *)
SpendCapped == spawned <= MaxDaily + missed + slips

(* A lock nobody uses does not stop the drains: with work to do, a daemon  *)
(* up, the cap not reached and no cool-down, a drainer starts in the end   *)
(* (auto-drain.ts 449-487).                                                *)
Blocked == \/ ~Counted \/ Capped \/ cooling # {} \/ \A d \in Daemons : dstate[d] # "up"
DrainResumes == []<>(Running # {} \/ Blocked)

(* "unknown -> treat as no progress" (auto-drain.ts 1012):                 *)
(* failures are forgotten only after a recount that reached the store.     *)
UnknownIsNoProgress ==
  [][\A d \in Daemons : fails[d] > 0 /\ fails'[d] = 0 /\ dstate'[d] # "gone" => store]_vars
=============================================================================
