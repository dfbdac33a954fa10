-------------------------- MODULE AutoDrain_proofs --------------------------
(* Proofs about the scheduler of AutoDrain: every spawn beyond the daily   *)
(* cap is paid for by a lock that was stolen in use or too late, and what  *)
(* runs outside the lock has lost it on purpose, unless daemons overlap or *)
(* the machine sleeps.                                                     *)
EXTENDS AutoDrain, FiniteSetTheorems, TLAPS

(* The types, by what they are about; a drainer that is around has its     *)
(* daemon.                                                                 *)
DaemonTypes ==
  /\ dstate \in [Daemons -> {"off", "up", "leaving", "gone"}]
  /\ fails \in [Daemons -> 0..MaxFast] /\ cooling \subseteq Daemons
  /\ active \in [Daemons -> Kids \cup {None}]
TriggerTypes ==
  /\ pc \in [Triggers -> {"idle", "count", "unlink", "create", "stamp", "recount"}]
  /\ host \in [Triggers -> Daemons \cup {None}]
  /\ \A t \in Triggers : pc[t] # "idle" => host[t] \in Alive
KidTypes ==
  /\ kid \in [Kids -> {"none", "run", "exited", "tally"}]
  /\ parent \in [Kids -> Daemons \cup {None}] /\ held \subseteq Kids
  /\ sized \in [Kids -> {"none", "few", "many"}]
  /\ \A k \in held : kid[k] \in {"run", "exited"}
  /\ \A k \in Kids : kid[k] # "none" => parent[k] \in Daemons
LockTypes ==
  /\ holder \in Triggers \cup Kids \cup {None}
  /\ stage \in {"empty", "daemon", "kid"} /\ keeper \in Daemons \cup {None}
  /\ stage = "kid" => holder \in Kids
Flags  == old \in BOOLEAN /\ work \in BOOLEAN /\ store \in BOOLEAN
Counts == spend \in Nat /\ spawned \in Nat /\ missed \in Nat /\ slips \in Nat
Histories == /\ loose \subseteq Kids /\ robbed \subseteq Kids /\ crowded \in BOOLEAN
             /\ faults \in 0..MaxFaults
Types  == DaemonTypes /\ TriggerTypes /\ KidTypes /\ LockTypes /\ Flags /\ Counts
          /\ Histories

LEMMA TypesAre == Types => TypeOK
  BY DEF TypeOK, Types, DaemonTypes, TriggerTypes, KidTypes, LockTypes, Flags, Counts, Histories

LEMMA TypesStart == Init => Types
<1> SUFFICES ASSUME Init PROVE Types
  OBVIOUS
<1> USE DrainAssumption DEF Init
<1>1. DaemonTypes
  <2>1. 0 \in 0..MaxFast
    OBVIOUS
  <2> QED
    BY <2>1 DEF DaemonTypes
<1>2. TriggerTypes /\ KidTypes /\ LockTypes
  BY DEF TriggerTypes, KidTypes, LockTypes
<1>3. Flags
  BY DEF Flags
<1>4. Counts
  BY DEF Counts
<1>5. Histories
  <2>1. crowded \in BOOLEAN
    OBVIOUS
  <2>2. loose \subseteq Kids /\ robbed \subseteq Kids /\ faults \in 0..MaxFaults
    OBVIOUS
  <2> QED
    BY <2>1, <2>2 DEF Histories
<1> QED
  BY <1>1, <1>2, <1>3, <1>4, <1>5 DEF Types

LEMMA FaultTyped == Types /\ Fault => faults' \in 0..MaxFaults
  BY DrainAssumption DEF Types, Histories, Fault

LEMMA TypesKept == Types /\ [Next]_vars => Types'
<1> SUFFICES ASSUME Types, [Next]_vars PROVE Types'
  OBVIOUS
<1> USE DrainAssumption, FaultTyped DEF Types, daemon, lock, money, queue, history
<1>1. ASSUME NEW t \in Triggers, NEW d \in Daemons, Begin(t, d) PROVE Types'
  <2> USE <1>1 DEF Begin
  <2>1. DaemonTypes'
    BY DEF DaemonTypes
  <2>2. TriggerTypes'
    BY DEF TriggerTypes, Alive
  <2>3. KidTypes'
    BY DEF KidTypes
  <2>4. LockTypes'
    BY DEF LockTypes
  <2>5. Flags'
    BY DEF Flags
  <2>6. Counts'
    BY DEF Counts
  <2>7. Histories'
    BY DEF Histories
  <2> QED
    BY <2>1, <2>2, <2>3, <2>4, <2>5, <2>6, <2>7
<1>2. ASSUME NEW t \in Triggers, Gate(t) PROVE Types'
  <2> USE <1>2 DEF Gate, GiveUp, At
  <2>1. DaemonTypes'
    BY DEF DaemonTypes
  <2>2. TriggerTypes'
    BY DEF TriggerTypes, Alive
  <2>3. KidTypes'
    BY DEF KidTypes
  <2>4. LockTypes'
    BY DEF LockTypes
  <2>5. Flags'
    BY DEF Flags
  <2>6. Counts'
    BY DEF Counts
  <2>7. Histories'
    BY DEF Histories
  <2> QED
    BY <2>1, <2>2, <2>3, <2>4, <2>5, <2>6, <2>7
<1>3. ASSUME NEW t \in Triggers, Unlink(t) PROVE Types'
  <2> USE <1>3 DEF Unlink, UnlinkByName, Unlock, At
  <2>1. DaemonTypes'
    BY DEF DaemonTypes
  <2>2. TriggerTypes'
    BY DEF TriggerTypes, Alive
  <2>3. KidTypes'
    BY DEF KidTypes
  <2>4. LockTypes'
    BY DEF LockTypes
  <2>5. Flags'
    BY DEF Flags
  <2>6. Counts'
    BY DEF Counts
  <2>7. Histories'
    BY DEF Histories, Outside, Running
  <2> QED
    BY <2>1, <2>2, <2>3, <2>4, <2>5, <2>6, <2>7
<1>4. ASSUME NEW t \in Triggers, Create(t) PROVE Types'
  <2> USE <1>4 DEF Create, GiveUp, At
  <2>1. DaemonTypes'
    BY DEF DaemonTypes
  <2>2. TriggerTypes'
    BY DEF TriggerTypes, Alive
  <2>3. KidTypes'
    BY DEF KidTypes
  <2>4. LockTypes'
    BY DEF LockTypes
  <2>5. Flags'
    BY DEF Flags
  <2>6. Counts'
    BY DEF Counts
  <2>7. Histories'
    BY DEF Histories
  <2> QED
    BY <2>1, <2>2, <2>3, <2>4, <2>5, <2>6, <2>7
<1>5. ASSUME NEW t \in Triggers, Stamp(t) PROVE Types'
  <2> USE <1>5 DEF Stamp, At
  <2>1. DaemonTypes'
    BY DEF DaemonTypes
  <2>2. TriggerTypes'
    BY DEF TriggerTypes, Alive
  <2>3. KidTypes'
    BY DEF KidTypes
  <2>4. LockTypes'
    BY DEF LockTypes, TriggerTypes, Alive
  <2>5. Flags'
    BY DEF Flags
  <2>6. Counts'
    BY DEF Counts
  <2>7. Histories'
    BY DEF Histories
  <2> QED
    BY <2>1, <2>2, <2>3, <2>4, <2>5, <2>6, <2>7
<1>6. ASSUME NEW t \in Triggers, Spawn(t) PROVE Types'
  <2>1. DaemonTypes'
    <3>1. UNCHANGED <<dstate, fails, cooling>>
      BY <1>6 DEF Spawn
    <3>2. PICK k \in Kids : active' = [active EXCEPT ![host[t]] = k]
      BY <1>6 DEF Spawn
    <3> QED
      BY <3>1, <3>2 DEF DaemonTypes
  <2> USE <1>6 DEF Spawn, GiveUp
  <2>2. TriggerTypes'
    BY DEF TriggerTypes, Alive
  <2>3. KidTypes'
    <3>1. host[t] \in Daemons
      BY DEF TriggerTypes, Alive
    <3>2. PICK k \in Kids :
            /\ kid' = [kid EXCEPT ![k] = "run"] /\ parent' = [parent EXCEPT ![k] = host[t]]
            /\ held' = held \cup {k}
            /\ \E n \in Sizes : sized' = [sized EXCEPT ![k] = n]
      BY DEF Spawn
    <3>3. sized' \in [Kids -> {"none", "few", "many"}]
      BY <3>2 DEF KidTypes, Sizes
    <3> QED
      BY <3>1, <3>2, <3>3 DEF KidTypes
  <2>4. LockTypes'
    BY DEF LockTypes, TriggerTypes, Alive
  <2>5. Flags'
    BY DEF Flags
  <2>6. Counts'
    BY DEF Counts
  <2>7. Histories'
    BY DEF Histories
  <2> QED
    BY <2>1, <2>2, <2>3, <2>4, <2>5, <2>6, <2>7
<1>7. ASSUME NEW t \in Triggers, SpawnFails(t) PROVE Types'
  <2> USE <1>7 DEF SpawnFails, UnlinkByName, Unlock, GiveUp
  <2>1. DaemonTypes'
    BY DEF DaemonTypes
  <2>2. TriggerTypes'
    BY DEF TriggerTypes, Alive
  <2>3. KidTypes'
    BY DEF KidTypes
  <2>4. LockTypes'
    BY DEF LockTypes
  <2>5. Flags'
    BY DEF Flags
  <2>6. Counts'
    BY DEF Counts
  <2>7. Histories'
    BY DEF Histories, Outside, Running
  <2> QED
    BY <2>1, <2>2, <2>3, <2>4, <2>5, <2>6, <2>7
<1>8. ASSUME NEW k \in Kids, KidEnds(k) PROVE Types'
  <2> USE <1>8 DEF KidEnds
  <2>1. DaemonTypes'
    BY DEF DaemonTypes
  <2>2. TriggerTypes'
    BY DEF TriggerTypes, Alive
  <2>3. KidTypes'
    BY DEF KidTypes
  <2>4. LockTypes'
    BY DEF LockTypes
  <2>5. Flags'
    BY DEF Flags
  <2>6. Counts'
    BY DEF Counts
  <2>7. Histories'
    BY DEF Histories
  <2> QED
    BY <2>1, <2>2, <2>3, <2>4, <2>5, <2>6, <2>7
<1>9. ASSUME NEW k \in Kids, OnExit(k) PROVE Types'
  <2> USE <1>9 DEF OnExit, Release, Owns, Unlock
  <2>1. DaemonTypes'
    BY DEF DaemonTypes
  <2>2. TriggerTypes'
    BY DEF TriggerTypes, Alive
  <2>3. KidTypes'
    BY DEF KidTypes
  <2>4. LockTypes'
    BY DEF LockTypes
  <2>5. Flags'
    BY DEF Flags
  <2>6. Counts'
    BY DEF Counts
  <2>7. Histories'
    BY DEF Histories
  <2> QED
    BY <2>1, <2>2, <2>3, <2>4, <2>5, <2>6, <2>7
<1>10. ASSUME NEW k \in Kids, Tally(k) PROVE Types'
  <2> USE <1>10 DEF Tally
  <2>1. DaemonTypes'
    <3>1. parent[k] \in Daemons
      BY DEF KidTypes
    <3>2. fails' \in [Daemons -> 0..MaxFast]
      BY <3>1 DEF DaemonTypes
    <3> QED
      BY <3>1, <3>2 DEF DaemonTypes
  <2>2. TriggerTypes'
    BY DEF TriggerTypes, Alive
  <2>3. KidTypes'
    BY DEF KidTypes
  <2>4. LockTypes'
    BY DEF LockTypes
  <2>5. Flags'
    BY DEF Flags
  <2>6. Counts'
    BY DEF Counts
  <2>7. Histories'
    BY DEF Histories
  <2> QED
    BY <2>1, <2>2, <2>3, <2>4, <2>5, <2>6, <2>7
<1>11. ASSUME NEW k \in Kids, HeartBeat(k) PROVE Types'
  <2> USE <1>11 DEF HeartBeat
  <2>1. DaemonTypes'
    BY DEF DaemonTypes
  <2>2. TriggerTypes'
    BY DEF TriggerTypes, Alive
  <2>3. KidTypes'
    BY DEF KidTypes
  <2>4. LockTypes'
    BY DEF LockTypes
  <2>5. Flags'
    BY DEF Flags
  <2>6. Counts'
    BY DEF Counts
  <2>7. Histories'
    BY DEF Histories
  <2> QED
    BY <2>1, <2>2, <2>3, <2>4, <2>5, <2>6, <2>7
<1>12. ASSUME NEW d \in Daemons, Start(d) PROVE Types'
  <2> USE <1>12 DEF Start
  <2>1. DaemonTypes'
    BY DEF DaemonTypes
  <2>2. TriggerTypes'
    BY DEF TriggerTypes, Alive
  <2>3. KidTypes'
    BY DEF KidTypes
  <2>4. LockTypes'
    BY DEF LockTypes
  <2>5. Flags'
    BY DEF Flags
  <2>6. Counts'
    BY DEF Counts
  <2>7. Histories'
    BY DEF Histories
  <2> QED
    BY <2>1, <2>2, <2>3, <2>4, <2>5, <2>6, <2>7
<1>13. ASSUME NEW d \in Daemons, Stop(d) PROVE Types'
  <2> USE <1>13 DEF Stop, Release, Owns, Unlock
  <2>1. DaemonTypes'
    BY DEF DaemonTypes
  <2>2. TriggerTypes'
    BY DEF TriggerTypes, Alive
  <2>3. KidTypes'
    BY DEF KidTypes
  <2>4. LockTypes'
    BY DEF LockTypes
  <2>5. Flags'
    BY DEF Flags
  <2>6. Counts'
    BY DEF Counts
  <2>7. Histories'
    BY DEF Histories, Outside, Running
  <2> QED
    BY <2>1, <2>2, <2>3, <2>4, <2>5, <2>6, <2>7
<1>14. ASSUME NEW d \in Daemons, Ends(d) PROVE Types'
  <2> USE <1>14 DEF Ends
  <2>1. DaemonTypes'
    BY DEF DaemonTypes
  <2>2. TriggerTypes'
    BY DEF TriggerTypes, Alive
  <2>3. KidTypes'
    BY DEF KidTypes
  <2>4. LockTypes'
    BY DEF LockTypes
  <2>5. Flags'
    BY DEF Flags
  <2>6. Counts'
    BY DEF Counts
  <2>7. Histories'
    BY DEF Histories
  <2> QED
    BY <2>1, <2>2, <2>3, <2>4, <2>5, <2>6, <2>7
<1>15. ASSUME NEW d \in Daemons, CoolDownEnds(d) PROVE Types'
  <2> USE <1>15 DEF CoolDownEnds
  <2>1. DaemonTypes'
    BY DEF DaemonTypes
  <2>2. TriggerTypes'
    BY DEF TriggerTypes, Alive
  <2>3. KidTypes'
    BY DEF KidTypes
  <2>4. LockTypes'
    BY DEF LockTypes
  <2>5. Flags'
    BY DEF Flags
  <2>6. Counts'
    BY DEF Counts
  <2>7. Histories'
    BY DEF Histories
  <2> QED
    BY <2>1, <2>2, <2>3, <2>4, <2>5, <2>6, <2>7
<1>16. ASSUME Ages PROVE Types'
  <2> USE <1>16 DEF Ages
  <2>1. DaemonTypes'
    BY DEF DaemonTypes
  <2>2. TriggerTypes'
    BY DEF TriggerTypes, Alive
  <2>3. KidTypes'
    BY DEF KidTypes
  <2>4. LockTypes'
    BY DEF LockTypes
  <2>5. Flags'
    BY DEF Flags
  <2>6. Counts'
    BY DEF Counts
  <2>7. Histories'
    BY DEF Histories
  <2> QED
    BY <2>1, <2>2, <2>3, <2>4, <2>5, <2>6, <2>7
<1>17. ASSUME Sleeps PROVE Types'
  <2> USE <1>17 DEF Sleeps
  <2>1. DaemonTypes'
    BY DEF DaemonTypes
  <2>2. TriggerTypes'
    BY DEF TriggerTypes, Alive
  <2>3. KidTypes'
    BY DEF KidTypes
  <2>4. LockTypes'
    BY DEF LockTypes
  <2>5. Flags'
    BY DEF Flags
  <2>6. Counts'
    BY DEF Counts
  <2>7. Histories'
    BY DEF Histories
  <2> QED
    BY <2>1, <2>2, <2>3, <2>4, <2>5, <2>6, <2>7
<1>18. ASSUME Enqueue PROVE Types'
  <2> USE <1>18 DEF Enqueue
  <2>1. DaemonTypes'
    BY DEF DaemonTypes
  <2>2. TriggerTypes'
    BY DEF TriggerTypes, Alive
  <2>3. KidTypes'
    BY DEF KidTypes
  <2>4. LockTypes'
    BY DEF LockTypes
  <2>5. Flags'
    BY DEF Flags
  <2>6. Counts'
    BY DEF Counts
  <2>7. Histories'
    BY DEF Histories
  <2> QED
    BY <2>1, <2>2, <2>3, <2>4, <2>5, <2>6, <2>7
<1>19. ASSUME StoreTurns PROVE Types'
  <2> USE <1>19 DEF StoreTurns
  <2>1. DaemonTypes'
    BY DEF DaemonTypes
  <2>2. TriggerTypes'
    BY DEF TriggerTypes, Alive
  <2>3. KidTypes'
    BY DEF KidTypes
  <2>4. LockTypes'
    BY DEF LockTypes
  <2>5. Flags'
    BY DEF Flags
  <2>6. Counts'
    BY DEF Counts
  <2>7. Histories'
    BY DEF Histories
  <2> QED
    BY <2>1, <2>2, <2>3, <2>4, <2>5, <2>6, <2>7
<1>20. ASSUME Midnight PROVE Types'
  <2> USE <1>20 DEF Midnight
  <2>1. DaemonTypes'
    BY DEF DaemonTypes
  <2>2. TriggerTypes'
    BY DEF TriggerTypes, Alive
  <2>3. KidTypes'
    BY DEF KidTypes
  <2>4. LockTypes'
    BY DEF LockTypes
  <2>5. Flags'
    BY DEF Flags
  <2>6. Counts'
    BY DEF Counts
  <2>7. Histories'
    BY DEF Histories
  <2> QED
    BY <2>1, <2>2, <2>3, <2>4, <2>5, <2>6, <2>7
<1>21. CASE UNCHANGED vars
  BY <1>21 DEF vars, history, DaemonTypes, TriggerTypes, Alive, KidTypes, LockTypes, Flags, Counts, Histories
<1> QED
  BY <1>1, <1>2, <1>3, <1>4, <1>5, <1>6, <1>7, <1>8, <1>9, <1>10, <1>11, <1>12, <1>13, <1>14, <1>15, <1>16, <1>17, <1>18, <1>19, <1>20, <1>21 DEF Next, TriggerStep

(* The variables have their types, a trigger is part of a living daemon,   *)
(* and the heart-beat of a drainer ends with the handling of its exit.     *)
THEOREM SchedulerIsTyped == Spec => []TypeOK
  BY TypesStart, TypesKept, TypesAre, PTL DEF Spec

-----------------------------------------------------------------------------
-----------------------------------------------------------------------------
(* The triggers that have got the lock and are about to spawn, and those   *)
(* of them whose lock is gone.                                             *)
Bound == {t \in Triggers : pc[t] \in {"stamp", "recount"}}
Robbed == Bound \ {holder}

(* Who was robbed has been counted, and who is about to spawn has its      *)
(* spawn paid: within the cap, or by a slip.                               *)
RobbedCounted == Cardinality(Robbed) <= slips
SpawnsPaid    == spend + Cardinality(Bound) <= MaxDaily + slips
HolderWaits   == \A t \in Triggers : holder = t => pc[t] \in {"idle", "stamp", "recount"}
Paid == spawned = spend + missed /\ HolderWaits /\ RobbedCounted /\ SpawnsPaid

LEMMA BoundIsFinite == IsFiniteSet(Bound) /\ IsFiniteSet(Robbed)
<1>1. Bound \subseteq Triggers /\ Robbed \subseteq Bound
  BY DEF Bound, Robbed
<1> QED
  BY <1>1, DrainAssumption, FS_Subset

(* Nobody new is bound or robbed.                                          *)
LEMMA PaidStays ==
  ASSUME Types, Paid, Bound' \subseteq Bound, Robbed' \subseteq Robbed,
         slips' = slips, spend' \in Nat, spend' <= spend
  PROVE  RobbedCounted' /\ SpawnsPaid'
<1>1. /\ Cardinality(Bound') \in Nat /\ Cardinality(Bound) \in Nat
      /\ Cardinality(Robbed') \in Nat /\ Cardinality(Robbed) \in Nat
      /\ Cardinality(Bound') <= Cardinality(Bound) /\ Cardinality(Robbed') <= Cardinality(Robbed)
  BY BoundIsFinite, FS_Subset, FS_CardinalityType
<1>2. spend \in Nat /\ slips \in Nat /\ MaxDaily \in Nat
  BY DrainAssumption DEF Types, Counts
<1> QED
  BY <1>1, <1>2 DEF Paid, RobbedCounted, SpawnsPaid

(* A trigger gets a lock that nobody has.                                  *)
LEMMA PaidAcquired ==
  ASSUME Types, Paid, NEW t \in Triggers, holder = None, holder' = t, t \notin Bound,
         Bound' = Bound \cup {t}, spend' = spend,
         slips' = IF Capped THEN slips + 1 ELSE slips
  PROVE  RobbedCounted' /\ SpawnsPaid'
<1>1. Robbed = Bound /\ Robbed' = Bound
  BY DrainAssumption DEF Robbed, Bound
<1>2. Cardinality(Bound) \in Nat /\ Cardinality(Bound') = Cardinality(Bound) + 1
  BY BoundIsFinite, FS_AddElement, FS_CardinalityType
<1>3. spend \in Nat /\ slips \in Nat /\ MaxDaily \in Nat
  BY DrainAssumption DEF Types, Counts
<1> QED
  BY <1>1, <1>2, <1>3 DEF Paid, RobbedCounted, SpawnsPaid, Capped

(* The holder is robbed, and that is counted.                              *)
LEMMA PaidRobbed ==
  ASSUME Types, Paid, Bound' \subseteq Bound, Robbed' \subseteq Robbed \cup {holder},
         slips' = slips + 1, spend' = spend
  PROVE  RobbedCounted' /\ SpawnsPaid'
<1>1. Cardinality(Robbed \cup {holder}) <= Cardinality(Robbed) + 1
      /\ IsFiniteSet(Robbed \cup {holder})
  <2>1. IsFiniteSet(Robbed) /\ Cardinality(Robbed) \in Nat
    BY BoundIsFinite, FS_CardinalityType
  <2>2. /\ IsFiniteSet(Robbed \cup {holder})
        /\ Cardinality(Robbed \cup {holder})
             = IF holder \in Robbed THEN Cardinality(Robbed) ELSE Cardinality(Robbed) + 1
    BY <2>1, FS_AddElement
  <2> QED
    BY <2>1, <2>2
<1>2. /\ Cardinality(Bound') \in Nat /\ Cardinality(Bound) \in Nat
      /\ Cardinality(Robbed') \in Nat /\ Cardinality(Robbed) \in Nat
      /\ Cardinality(Robbed \cup {holder}) \in Nat
      /\ Cardinality(Bound') <= Cardinality(Bound)
      /\ Cardinality(Robbed') <= Cardinality(Robbed \cup {holder})
  BY <1>1, BoundIsFinite, FS_Subset, FS_CardinalityType
<1>3. spend \in Nat /\ slips \in Nat /\ MaxDaily \in Nat
  BY DrainAssumption DEF Types, Counts
<1> QED
  BY <1>1, <1>2, <1>3 DEF Paid, RobbedCounted, SpawnsPaid

(* A trigger that is bound spawns.                                         *)
LEMMA PaidSpawned ==
  ASSUME Types, Paid, NEW t \in Bound, Bound' = Bound \ {t}, Robbed' \subseteq Robbed,
         slips' = slips, spend' \in {spend, spend + 1}
  PROVE  RobbedCounted' /\ SpawnsPaid'
<1>1. /\ Cardinality(Bound) \in Nat /\ Cardinality(Bound') = Cardinality(Bound) - 1
      /\ Cardinality(Robbed') \in Nat /\ Cardinality(Robbed) \in Nat
      /\ Cardinality(Robbed') <= Cardinality(Robbed)
  BY BoundIsFinite, FS_RemoveElement, FS_Subset, FS_CardinalityType
<1>2. spend \in Nat /\ slips \in Nat /\ MaxDaily \in Nat
  BY DrainAssumption DEF Types, Counts
<1> QED
  BY <1>1, <1>2 DEF Paid, RobbedCounted, SpawnsPaid

LEMMA UnlinkKeepsPaid ==
  ASSUME Types, Paid, NEW t \in Triggers, UnlinkByName(t), spend' = spend, spawned' = spawned,
         missed' = missed, Bound' = Bound \ {t}, HolderWaits'
  PROVE  Paid'
<1>1. holder' = None /\ Robbed' = Bound'
  BY DrainAssumption DEF UnlinkByName, Unlock, Robbed, Bound
<1>2. CASE InUse(t)
  <2>1. slips' = slips + 1 /\ Robbed' \subseteq Robbed \cup {holder}
    BY <1>1, <1>2 DEF UnlinkByName, Robbed
  <2> QED
    BY <2>1, PaidRobbed DEF Paid
<1>3. CASE ~InUse(t)
  <2>1. holder = t \/ holder \notin Bound
    BY <1>3 DEF InUse, Bound
  <2>2. slips' = slips /\ Robbed' \subseteq Robbed /\ spend' \in Nat /\ spend' <= spend
    BY <1>1, <1>3, <2>1 DEF UnlinkByName, Robbed, Types, Counts
  <2> QED
    BY <2>2, PaidStays DEF Paid
<1> QED
  BY <1>2, <1>3

LEMMA PaidKept == Types /\ Paid /\ [Next]_vars => Paid'
<1> SUFFICES ASSUME Types, Paid, [Next]_vars PROVE Paid'
  OBVIOUS
<1>0. /\ TriggerTypes /\ KidTypes /\ LockTypes
      /\ \A t \in Triggers : t \notin Kids
      /\ None \notin Kids /\ None \notin Triggers
  BY DrainAssumption DEF Types
<1>a. spend \in Nat /\ spend <= spend /\ spawned = spend + missed /\ HolderWaits
  BY DEF Types, Counts, Paid
<1> USE DEF daemon, lock, money, queue, history
<1> DEFINE Still == /\ spend' = spend /\ spawned' = spawned /\ missed' = missed /\ slips' = slips
                    /\ Bound' \subseteq Bound /\ Robbed' \subseteq Robbed /\ HolderWaits'
<1>b. Still => Paid'
  BY <1>a, PaidStays DEF Paid
<1>1. ASSUME NEW t \in Triggers, NEW d \in Daemons, Begin(t, d) PROVE Paid'
  <2>1. Still
    BY <1>0, <1>a, <1>1 DEF Begin, Bound, Robbed, HolderWaits, TriggerTypes
  <2> QED
    BY <2>1, <1>b
<1>2. ASSUME NEW t \in Triggers, Gate(t) PROVE Paid'
  <2>1. spend' = spend /\ spawned' = spawned /\ missed' = missed /\ slips' = slips
    BY <1>2 DEF Gate
  <2>2. CASE UNCHANGED lock
    <3>1. Still
      BY <1>0, <1>a, <1>2, <2>1, <2>2
      DEF Gate, GiveUp, At, Bound, Robbed, HolderWaits, TriggerTypes
    <3> QED
      BY <3>1, <1>b
  <2>3. CASE holder = None /\ holder' = t /\ At(t, "stamp") /\ ~Capped
    <3>1. t \notin Bound /\ Bound' = Bound \cup {t} /\ HolderWaits'
      BY <1>0, <1>a, <1>2, <2>3 DEF Gate, At, Bound, HolderWaits, TriggerTypes
    <3> QED
      BY <2>1, <2>3, <3>1, <1>a, PaidAcquired DEF Paid
  <2> QED
    BY <1>2, <2>2, <2>3 DEF Gate
<1>3. ASSUME NEW t \in Triggers, Unlink(t) PROVE Paid'
  <2>1. Bound' = Bound \ {t} /\ HolderWaits'
    BY <1>0, <1>a, <1>3 DEF Unlink, UnlinkByName, Unlock, At, Bound, HolderWaits, TriggerTypes
  <2> QED
    BY <1>3, <2>1, UnlinkKeepsPaid DEF Unlink
<1>4. ASSUME NEW t \in Triggers, Create(t) PROVE Paid'
  <2>1. CASE holder # None
    <3>1. Still
      BY <1>0, <1>a, <1>4, <2>1 DEF Create, GiveUp, Bound, Robbed, HolderWaits, TriggerTypes
    <3> QED
      BY <3>1, <1>b
  <2>2. CASE holder = None
    <3>1. /\ holder' = t /\ spend' = spend /\ spawned' = spawned /\ missed' = missed
          /\ slips' = IF Capped THEN slips + 1 ELSE slips
      BY <1>4, <2>2 DEF Create
    <3>2. t \notin Bound /\ Bound' = Bound \cup {t} /\ HolderWaits'
      BY <1>0, <1>a, <1>4, <2>2 DEF Create, At, Bound, HolderWaits, TriggerTypes
    <3> QED
      BY <2>2, <3>1, <3>2, <1>a, PaidAcquired DEF Paid
  <2> QED
    BY <2>1, <2>2
<1>5. ASSUME NEW t \in Triggers, Stamp(t) PROVE Paid'
  <2>1. Still
    BY <1>0, <1>a, <1>5 DEF Stamp, At, Bound, Robbed, HolderWaits, TriggerTypes
  <2> QED
    BY <2>1, <1>b
<1>6. ASSUME NEW t \in Triggers, Spawn(t) PROVE Paid'
  <2>1. /\ pc[t] = "recount" /\ pc' = [pc EXCEPT ![t] = "idle"]
        /\ slips' = slips /\ spawned' = spawned + 1
        /\ \/ spend' = spend + 1 /\ missed' = missed
           \/ missed' = missed + 1 /\ spend' = spend
    BY <1>6 DEF Spawn, GiveUp
  <2>2. (holder' = holder /\ holder # t) \/ (holder = t /\ holder' \in Kids)
    BY <1>6 DEF Spawn
  <2>3. /\ t \in Bound /\ Bound' = Bound \ {t} /\ Robbed' \subseteq Robbed
        /\ HolderWaits'
    BY <1>0, <1>a, <2>1, <2>2 DEF Bound, Robbed, HolderWaits, TriggerTypes
  <2>4. spawned' = spend' + missed'
    BY <1>a, <2>1 DEF Types, Counts
  <2> QED
    BY <2>1, <2>3, <2>4, PaidSpawned DEF Paid
<1>7. ASSUME NEW t \in Triggers, SpawnFails(t) PROVE Paid'
  <2>1. Bound' = Bound \ {t} /\ HolderWaits'
    BY <1>0, <1>a, <1>7 DEF SpawnFails, UnlinkByName, Unlock, GiveUp, Bound, HolderWaits, TriggerTypes
  <2> QED
    BY <1>7, <2>1, UnlinkKeepsPaid DEF SpawnFails
<1>8. ASSUME NEW k \in Kids, OnExit(k) PROVE Paid'
  <2>1. UNCHANGED pc /\ (holder' = holder \/ (holder = k /\ holder' = None))
    BY <1>8 DEF OnExit, Release, Owns, Unlock
  <2>2. Still
    BY <1>0, <1>a, <1>8, <2>1 DEF OnExit, Bound, Robbed, HolderWaits
  <2> QED
    BY <2>2, <1>b
<1>9. ASSUME NEW d \in Daemons, Stop(d) PROVE Paid'
  <2>1. UNCHANGED pc /\ (holder' = holder \/ (holder \in Kids /\ holder' = None))
    BY <1>0, <1>9 DEF Stop, Release, Owns, Unlock, LockTypes
  <2>2. Still
    BY <1>0, <1>a, <1>9, <2>1 DEF Stop, Bound, Robbed, HolderWaits
  <2> QED
    BY <2>2, <1>b
<1>10. ASSUME NEW d \in Daemons, Ends(d) PROVE Paid'
  <2>1. Still
    BY <1>0, <1>a, <1>10 DEF Ends, Bound, Robbed, HolderWaits, TriggerTypes
  <2> QED
    BY <2>1, <1>b
<1>11. ASSUME NEW k \in Kids, KidEnds(k) \/ Tally(k) \/ HeartBeat(k) PROVE Paid'
  <2>1. Still
    BY <1>a, <1>11 DEF KidEnds, Tally, HeartBeat, Bound, Robbed, HolderWaits
  <2> QED
    BY <2>1, <1>b
<1>12. ASSUME NEW d \in Daemons, Start(d) \/ CoolDownEnds(d) PROVE Paid'
  <2>1. Still
    BY <1>a, <1>12 DEF Start, CoolDownEnds, Bound, Robbed, HolderWaits
  <2> QED
    BY <2>1, <1>b
<1>13. CASE Ages \/ Sleeps \/ Enqueue \/ StoreTurns \/ UNCHANGED vars
  <2>1. Still
    BY <1>a, <1>13 DEF Ages, Sleeps, Enqueue, StoreTurns, vars, Bound, Robbed, HolderWaits
  <2> QED
    BY <2>1, <1>b
<1>14. CASE Midnight
  <2>1. /\ Bound' \subseteq Bound /\ Robbed' \subseteq Robbed /\ HolderWaits'
        /\ slips' = slips /\ spend' = 0 /\ spawned' = 0 /\ missed' = 0
    BY <1>a, <1>14 DEF Midnight, Bound, Robbed, HolderWaits
  <2>2. spend' \in Nat /\ spend' <= spend /\ spawned' = spend' + missed'
    BY <1>a, <2>1
  <2> QED
    BY <2>1, <2>2, PaidStays DEF Paid
<1> QED
  BY <1>1, <1>2, <1>3, <1>4, <1>5, <1>6, <1>7, <1>8, <1>9, <1>10, <1>11, <1>12, <1>13, <1>14
  DEF Next, TriggerStep

LEMMA PaidStarts == Init => Paid
<1> SUFFICES ASSUME Init PROVE Paid
  OBVIOUS
<1>1. Bound = {} /\ Robbed = {} /\ HolderWaits
  BY DEF Init, Bound, Robbed, HolderWaits
<1>2. Cardinality({}) = 0 /\ MaxDaily \in Nat
  BY DrainAssumption, FS_EmptySet
<1> QED
  BY <1>1, <1>2 DEF Init, Paid, RobbedCounted, SpawnsPaid

(* The spawns of a day stay within the cap, but for lines that could not   *)
(* be appended and for locks stolen in use or too late: check, lock, spawn *)
(* and append go together (auto-drain.ts 833, 958).                        *)
THEOREM SpendStaysCapped == Spec => []SpendCapped
<1>1. Init => Types /\ Paid
  BY TypesStart, PaidStarts
<1>2. (Types /\ Paid) /\ [Next]_vars => (Types /\ Paid)'
  BY TypesKept, PaidKept
<1>3. Types /\ Paid => SpendCapped
  <2> SUFFICES ASSUME Types, Paid PROVE SpendCapped
    OBVIOUS
  <2>1. Cardinality(Bound) \in Nat
    BY BoundIsFinite, FS_CardinalityType
  <2> QED
    BY <2>1, DrainAssumption DEF Types, Counts, Paid, SpawnsPaid, SpendCapped
<1> QED
  BY <1>1, <1>2, <1>3, PTL DEF Spec

-----------------------------------------------------------------------------
(* A drainer that runs inside the lock is its holder.                      *)
InsideHolds == \A k \in Running : k \in loose \cup robbed \/ holder = k

LEMMA InsideHoldsKept == Types /\ InsideHolds /\ [Next]_vars => InsideHolds'
<1> SUFFICES ASSUME Types, InsideHolds, [Next]_vars PROVE InsideHolds'
  OBVIOUS
<1>0. /\ KidTypes /\ LockTypes
      /\ \A t \in Triggers : t \notin Kids
      /\ None \notin Kids
  BY DrainAssumption DEF Types
<1> USE DEF InsideHolds, Running, daemon, lock, money, queue, history
<1>1. ASSUME NEW t \in Triggers, Gate(t) \/ Create(t) PROVE InsideHolds'
  BY <1>0, <1>1 DEF Gate, Create
<1>2. ASSUME NEW t \in Triggers, Unlink(t) \/ SpawnFails(t) PROVE InsideHolds'
  BY <1>2 DEF Unlink, SpawnFails, Outside
<1>3. ASSUME NEW t \in Triggers, Stamp(t) PROVE InsideHolds'
  BY <1>3 DEF Stamp
<1>4. ASSUME NEW t \in Triggers, Spawn(t) PROVE InsideHolds'
  <2>1. PICK k \in Kids :
          /\ kid' = [kid EXCEPT ![k] = "run"] /\ loose' = loose
          /\ IF holder = t THEN holder' = k /\ UNCHANGED robbed
                           ELSE robbed' = robbed \cup {k} /\ UNCHANGED holder
    BY <1>4 DEF Spawn
  <2> QED
    BY <1>0, <2>1 DEF KidTypes
<1>5. ASSUME NEW k \in Kids, KidEnds(k) PROVE InsideHolds'
  BY <1>0, <1>5 DEF KidEnds, KidTypes
<1>6. ASSUME NEW k \in Kids, OnExit(k) PROVE InsideHolds'
  <2>1. kid[k] = "exited" /\ kid' = [kid EXCEPT ![k] = "tally"] /\ UNCHANGED <<loose, robbed>>
    BY <1>6 DEF OnExit
  <2>2. UNCHANGED holder \/ holder = k
    BY <1>6 DEF OnExit, Release, Owns
  <2> QED
    BY <1>0, <2>1, <2>2 DEF KidTypes
<1>7. ASSUME NEW k \in Kids, Tally(k) \/ HeartBeat(k) PROVE InsideHolds'
  BY <1>0, <1>7 DEF Tally, HeartBeat, KidTypes
<1>8. ASSUME NEW d \in Daemons, Stop(d) PROVE InsideHolds'
  BY <1>8 DEF Stop, Release, Owns
<1>9. ASSUME NEW d \in Daemons, Ends(d) PROVE InsideHolds'
  BY <1>0, <1>9 DEF Ends, KidTypes
<1>10. ASSUME NEW d \in Daemons, Start(d) \/ CoolDownEnds(d) PROVE InsideHolds'
  BY <1>10 DEF Start, CoolDownEnds
<1>11. ASSUME NEW t \in Triggers, NEW d \in Daemons, Begin(t, d) PROVE InsideHolds'
  BY <1>11 DEF Begin
<1>12. CASE Ages \/ Sleeps \/ Enqueue \/ StoreTurns \/ Midnight
  BY <1>12 DEF Ages, Sleeps, Enqueue, StoreTurns, Midnight
<1>13. CASE UNCHANGED vars
  BY <1>13 DEF vars
<1> QED
  BY <1>1, <1>2, <1>3, <1>4, <1>5, <1>6, <1>7, <1>8, <1>9, <1>10, <1>11, <1>12, <1>13
  DEF Next, TriggerStep

(* While one daemon at a time is alive and awake: at most one trigger is   *)
(* between the check of the lock and the marker; what it judged stale is   *)
(* stale still, what it unlinked is not there again, and who is about to   *)
(* spawn has the lock.  Nobody has been robbed.                            *)
Places    == {"idle", "count", "unlink", "create", "stamp", "recount"}
Busy(t)   == pc[t] \in {"unlink", "create", "stamp"}
Alone     == \A d, e \in Alive : d = e
OneBusy   == \A t, u \in Triggers : Busy(t) /\ Busy(u) => t = u
KidMarked == holder \in Kids => stage = "kid"
Judged    == \A t \in Triggers : pc[t] = "unlink" =>
               /\ holder \in Running => old
               /\ \A u \in Triggers : holder = u => pc[u] = "idle"
NoneThere == \A t \in Triggers : pc[t] = "create" => holder = None /\ ~old
Mine      == \A t \in Triggers :
               /\ pc[t] \in {"stamp", "recount"} => holder = t /\ ~old
               /\ pc[t] = "recount" => stage = "daemon" /\ keeper = host[t]
Solo == /\ Alone /\ OneBusy /\ KidMarked /\ Judged /\ NoneThere /\ Mine
        /\ robbed = {}

(* Daemons leave, triggers end, drainers end.                              *)
LEMMA SoloStays ==
  ASSUME Solo, Alive' \subseteq Alive, UNCHANGED lock, Running' \subseteq Running,
         robbed' \subseteq robbed,
         \A t \in Triggers : pc'[t] = "idle" \/ (pc'[t] = pc[t] /\ host'[t] = host[t])
  PROVE  Solo'
<1> USE DEF Solo, lock
<1>1. Alone' /\ robbed' = {}
  BY DEF Alone
<1>2. OneBusy'
  BY DEF OneBusy, Busy
<1>3. KidMarked' /\ NoneThere'
  BY DEF KidMarked, NoneThere
<1>4. Judged'
  BY DEF Judged
<1>5. Mine'
  BY DEF Mine
<1> QED
  BY <1>1, <1>2, <1>3, <1>4, <1>5

(* The lock of a drainer is given back.                                    *)
LEMMA SoloUnlocks ==
  ASSUME Solo, Alive' \subseteq Alive, Unlock, holder \in Kids, Running' \subseteq Running,
         UNCHANGED <<pc, host, robbed>>
  PROVE  Solo'
<1> USE DEF Solo
<1>0. None \notin Kids /\ None \notin Triggers /\ \A t \in Triggers : t \notin Kids
  BY DrainAssumption
<1>1. Alone' /\ robbed' = {}
  BY DEF Alone
<1>2. OneBusy'
  BY DEF OneBusy, Busy
<1>3. KidMarked' /\ NoneThere'
  BY <1>0 DEF KidMarked, NoneThere, Unlock
<1>4. Judged'
  BY <1>0 DEF Judged, Unlock, Running
<1>5. Mine'
  BY <1>0 DEF Mine, Unlock
<1> QED
  BY <1>1, <1>2, <1>3, <1>4, <1>5

(* The only daemon is not in the middle of tryAcquireLock.                 *)
LEMMA FreeIsIdle ==
  ASSUME Types, Alone, NEW d \in Alive, Free(d), NEW t \in Triggers
  PROVE  ~Busy(t)
BY DEF Types, TriggerTypes, Alone, Free, Busy

LEMMA SoloGates ==
  ASSUME Types, HolderWaits, Solo, NEW t \in Triggers, Gate(t)
  PROVE  Solo'
<1> USE DEF Solo
<1>0. None \notin Kids /\ None \notin Triggers /\ \A u \in Triggers : u \notin Kids
  BY DrainAssumption
<1>1. /\ pc[t] = "count" /\ host[t] \in Alive /\ Free(host[t]) /\ pc \in [Triggers -> Places]
      /\ UNCHANGED <<dstate, kid, robbed>>
  BY DEF Gate, Types, TriggerTypes, daemon, history, Places
<1>2. \A u \in Triggers : ~Busy(u)
  BY <1>1, FreeIsIdle
<1>3. Alive' = Alive /\ Running' = Running /\ Alone' /\ robbed' = {}
  BY <1>1 DEF Alive, Running, Alone
<1>4. CASE GiveUp(t) /\ UNCHANGED lock
  BY <1>1, <1>3, <1>4, SoloStays DEF GiveUp, Types, TriggerTypes
<1>5. CASE holder # None /\ Stale /\ At(t, "unlink") /\ UNCHANGED lock
  <2>1. pc' = [pc EXCEPT ![t] = "unlink"] /\ host' = host
        /\ holder' = holder /\ stage' = stage /\ keeper' = keeper /\ old' = old
    BY <1>5 DEF At, lock
  <2>2. \A u \in Triggers : Busy(u)' => u = t
    BY <1>1, <1>2, <2>1 DEF Busy
  <2>3. KidMarked' /\ OneBusy' /\ NoneThere' /\ Mine'
    BY <1>1, <2>1, <2>2 DEF KidMarked, OneBusy, NoneThere, Mine, Busy
  <2>4. holder \in Running => old
    BY <1>5 DEF Stale, HolderLives, KidMarked, Running
  <2>5. ASSUME NEW u \in Triggers, holder = u PROVE pc[u] = "idle"
    <3>1. CASE pc[u] = "recount"
      <4>1. stage = "daemon" /\ keeper \in Alive /\ ~old
        BY <3>1 DEF Mine, Types, TriggerTypes
      <4> QED
        BY <1>5, <4>1 DEF Stale, HolderLives
    <3> QED
      BY <1>2, <2>5, <3>1 DEF HolderWaits, Busy
  <2>6. Judged'
    BY <1>1, <1>2, <1>3, <2>1, <2>4, <2>5 DEF Judged, Busy
  <2> QED
    BY <1>3, <2>3, <2>6
<1>6. CASE holder = None /\ holder' = t /\ old' = FALSE /\ At(t, "stamp")
  <2>1. pc' = [pc EXCEPT ![t] = "stamp"] /\ host' = host
    BY <1>6 DEF At
  <2>2. \A u \in Triggers : Busy(u)' => u = t
    BY <1>1, <1>2, <2>1 DEF Busy
  <2>3. \A u \in Triggers : pc[u] # "recount"
    BY <1>0, <1>6 DEF Mine
  <2>4. KidMarked' /\ OneBusy' /\ NoneThere' /\ Judged'
    BY <1>0, <1>1, <1>6, <2>1, <2>2 DEF KidMarked, OneBusy, NoneThere, Judged, Busy
  <2>5. Mine'
    BY <1>1, <1>6, <2>1, <2>2, <2>3 DEF Mine, Busy
  <2> QED
    BY <1>3, <2>4, <2>5
<1> QED
  BY <1>4, <1>5, <1>6 DEF Gate

LEMMA SoloSteals ==
  ASSUME Types, Solo, NEW t \in Triggers, Unlink(t) \/ Create(t) \/ Stamp(t)
  PROVE  Solo'
<1> USE DEF Solo
<1>0. None \notin Kids /\ None \notin Triggers /\ \A u \in Triggers : u \notin Kids
  BY DrainAssumption
<1>1. /\ UNCHANGED <<dstate, kid>> /\ pc \in [Triggers -> Places] /\ Busy(t)
  BY DEF Unlink, Create, Stamp, Types, TriggerTypes, daemon, Busy, Places
<1>2. Alive' = Alive /\ Running' = Running /\ Alone'
  BY <1>1 DEF Alive, Running, Alone
<1>3. \A u \in Triggers : u # t => ~Busy(u)
  BY <1>1 DEF OneBusy
<1>4. CASE Unlink(t)
  <2>1. /\ pc[t] = "unlink" /\ pc' = [pc EXCEPT ![t] = "create"] /\ host' = host
        /\ holder' = None /\ old' = FALSE
    BY <1>4 DEF Unlink, At, UnlinkByName, Unlock
  <2>2. \A u \in Triggers : pc[u] # "recount"
    BY <2>1 DEF Mine, Judged
  <2>3. robbed' = {}
    BY <1>4, <2>1 DEF Unlink, Outside, Judged
  <2>4. OneBusy'
    BY <1>1, <1>3, <2>1 DEF OneBusy, Busy
  <2>5. KidMarked' /\ NoneThere' /\ Judged' /\ Mine'
    BY <1>0, <1>1, <1>3, <2>1, <2>2 DEF KidMarked, NoneThere, Judged, Mine, Busy
  <2> QED
    BY <1>2, <2>3, <2>4, <2>5
<1>5. CASE Create(t)
  <2>1. /\ pc[t] = "create" /\ holder = None /\ ~old
        /\ pc' = [pc EXCEPT ![t] = "stamp"] /\ host' = host /\ holder' = t
        /\ old' = old /\ robbed' = {}
    BY <1>5 DEF Create, NoneThere, At
  <2>2. \A u \in Triggers : pc[u] # "recount"
    BY <1>0, <2>1 DEF Mine
  <2>3. OneBusy'
    BY <1>1, <1>3, <2>1 DEF OneBusy, Busy
  <2>4. KidMarked' /\ NoneThere' /\ Judged' /\ Mine'
    BY <1>0, <1>1, <1>3, <2>1, <2>2 DEF KidMarked, NoneThere, Judged, Mine, Busy
  <2> QED
    BY <1>2, <2>1, <2>3, <2>4
<1>6. CASE Stamp(t)
  <2>1. /\ pc[t] = "stamp" /\ holder = t /\ ~old
        /\ pc' = [pc EXCEPT ![t] = "recount"] /\ host' = host /\ holder' = t
        /\ stage' = "daemon" /\ keeper' = host[t] /\ old' = old /\ robbed' = {}
    BY <1>6 DEF Stamp, Mine, At, history
  <2>2. OneBusy'
    BY <1>1, <1>3, <2>1 DEF OneBusy, Busy
  <2>3. KidMarked' /\ NoneThere' /\ Judged'
    BY <1>0, <1>1, <1>3, <2>1 DEF KidMarked, NoneThere, Judged, Busy
  <2>4. \A u \in Triggers : u # t => pc[u] # "recount"
    BY <2>1 DEF Mine
  <2>5. Mine'
    BY <1>1, <1>3, <2>1, <2>4 DEF Mine, Busy
  <2> QED
    BY <1>2, <2>1, <2>2, <2>3, <2>5
<1> QED
  BY <1>4, <1>5, <1>6

LEMMA SoloSpawns ==
  ASSUME Types, Solo, NEW t \in Triggers, Spawn(t) \/ SpawnFails(t)
  PROVE  Solo'
<1> USE DEF Solo
<1>0. None \notin Kids /\ None \notin Triggers /\ \A u \in Triggers : u \notin Kids
  BY DrainAssumption
<1>1. /\ pc[t] = "recount" /\ pc' = [pc EXCEPT ![t] = "idle"] /\ Free(host[t])
      /\ host[t] \in Alive /\ UNCHANGED dstate /\ pc \in [Triggers -> Places]
  BY DEF Spawn, SpawnFails, GiveUp, Types, TriggerTypes, daemon, Places
<1>2. Alive' = Alive /\ Alone' /\ holder = t
  BY <1>1 DEF Alive, Alone, Mine
<1>3. \A u \in Triggers : ~Busy(u) /\ (u # t => pc[u] # "recount")
  BY <1>1, <1>2, FreeIsIdle DEF Mine
<1>4. \A u \in Triggers : pc'[u] \notin {"unlink", "create", "stamp", "recount"}
  BY <1>1, <1>3 DEF Busy
<1>5. OneBusy' /\ Judged' /\ NoneThere' /\ Mine'
  BY <1>4 DEF OneBusy, Judged, NoneThere, Mine, Busy
<1>6. KidMarked' /\ robbed' = {}
  <2>1. CASE Spawn(t)
    BY <1>2, <2>1 DEF Spawn, KidMarked
  <2>2. CASE SpawnFails(t)
    BY <1>0, <1>2, <2>2 DEF SpawnFails, UnlinkByName, Unlock, Outside, Running, KidMarked
  <2> QED
    BY <2>1, <2>2
<1> QED
  BY <1>2, <1>5, <1>6

LEMMA SoloKept ==
  ASSUME Types, HolderWaits, ~crowded => Solo, [Next]_vars, ~crowded'
  PROVE  Solo'
<1>0. KidTypes /\ TriggerTypes
  BY DEF Types
<1> USE DEF daemon, lock, money, queue, history
<1>1. ASSUME NEW t \in Triggers, Gate(t) PROVE Solo'
  BY <1>1, SoloGates DEF Gate
<1>2. ASSUME NEW t \in Triggers, Unlink(t) \/ Create(t) \/ Stamp(t) PROVE Solo'
  BY <1>2, SoloSteals DEF Unlink, Create, Stamp
<1>3. ASSUME NEW t \in Triggers, Spawn(t) \/ SpawnFails(t) PROVE Solo'
  BY <1>3, SoloSpawns DEF Spawn, SpawnFails
<1>4. ASSUME NEW t \in Triggers, NEW d \in Daemons, Begin(t, d) PROVE Solo'
  <2>1. /\ pc[t] = "idle" /\ holder # t /\ pc' = [pc EXCEPT ![t] = "count"]
        /\ \A u \in Triggers : u # t => host'[u] = host[u]
        /\ UNCHANGED <<dstate, kid, lock, robbed>> /\ Solo
    BY <1>0, <1>4 DEF Begin, TriggerTypes
  <2>2. \A u \in Triggers : pc'[u] = pc[u] \/ (u = t /\ pc'[u] = "count")
    BY <1>0, <2>1 DEF TriggerTypes
  <2>3. Alone' /\ OneBusy' /\ KidMarked' /\ NoneThere'
    BY <2>1, <2>2 DEF Solo, Alone, Alive, OneBusy, Busy, KidMarked, NoneThere
  <2>4. Judged' /\ Mine'
    BY <2>1, <2>2 DEF Solo, Judged, Mine, Running
  <2> QED
    BY <2>1, <2>3, <2>4 DEF Solo
<1>5. ASSUME NEW k \in Kids, KidEnds(k) \/ Tally(k) PROVE Solo'
  <2>1. /\ UNCHANGED <<dstate, pc, host, lock>> /\ robbed' \subseteq robbed /\ Solo
        /\ \A j \in Kids : kid'[j] = "run" => kid[j] = "run"
    BY <1>0, <1>5 DEF KidEnds, Tally, KidTypes
  <2> QED
    BY <2>1, SoloStays DEF Alive, Running
<1>6. ASSUME NEW k \in Kids, OnExit(k) PROVE Solo'
  <2>1. /\ UNCHANGED <<dstate, pc, host, robbed>> /\ Solo
        /\ \A j \in Kids : kid'[j] = "run" => kid[j] = "run"
        /\ UNCHANGED lock \/ (Unlock /\ holder \in Kids)
    BY <1>0, <1>6 DEF OnExit, Release, Owns, KidTypes
  <2>2. Alive' = Alive /\ Running' \subseteq Running
    BY <2>1 DEF Alive, Running
  <2> QED
    BY <2>1, <2>2, SoloStays, SoloUnlocks
<1>7. ASSUME NEW k \in Kids, HeartBeat(k) PROVE Solo'
  <2>1. /\ k \in held /\ holder = k /\ parent[k] \in Alive /\ Free(parent[k]) /\ old' = FALSE
        /\ UNCHANGED <<dstate, pc, host, kid, holder, stage, keeper, robbed>> /\ Solo
    BY <1>7 DEF HeartBeat
  <2>2. \A u \in Triggers : ~Busy(u)
    BY <2>1, FreeIsIdle DEF Solo
  <2>3. Alone' /\ OneBusy' /\ KidMarked' /\ NoneThere' /\ Mine'
    BY <2>1 DEF Solo, Alone, Alive, OneBusy, Busy, KidMarked, NoneThere, Mine
  <2>4. Judged'
    BY <2>1, <2>2 DEF Judged, Busy
  <2> QED
    BY <2>1, <2>3, <2>4 DEF Solo
<1>8. ASSUME NEW d \in Daemons, Start(d) PROVE Solo'
  <2>1. /\ Alive = {} /\ dstate' = [dstate EXCEPT ![d] = "up"]
        /\ UNCHANGED <<pc, host, lock, robbed>> /\ Solo
    BY <1>8 DEF Start
  <2>2. \A t \in Triggers : pc'[t] = "idle"
    BY <1>0, <2>1 DEF TriggerTypes
  <2>3. \A e \in Alive' : e = d
    BY <2>1 DEF Alive, Types, DaemonTypes
  <2>4. OneBusy' /\ NoneThere' /\ Mine' /\ Judged'
    BY <2>2 DEF OneBusy, Busy, NoneThere, Mine, Judged
  <2> QED
    BY <2>1, <2>3, <2>4 DEF Solo, Alone, KidMarked
<1>9. ASSUME NEW d \in Daemons, Stop(d) PROVE Solo'
  <2>1. /\ UNCHANGED <<pc, host, kid, robbed>> /\ Solo
        /\ dstate[d] = "up" /\ dstate' = [dstate EXCEPT ![d] = "leaving"]
    BY <1>9 DEF Stop
  <2>2. UNCHANGED lock \/ (Unlock /\ holder \in Kids)
    BY <1>9 DEF Stop, Release, Owns, Types, LockTypes
  <2>3. Alive' \subseteq Alive /\ Running' \subseteq Running
    BY <2>1 DEF Alive, Running, Types, DaemonTypes
  <2> QED
    BY <2>1, <2>2, <2>3, SoloStays, SoloUnlocks
<1>10. ASSUME NEW d \in Daemons, Ends(d) PROVE Solo'
  <2>1. /\ UNCHANGED <<lock, robbed>> /\ Solo
        /\ dstate' = [dstate EXCEPT ![d] = "gone"]
        /\ \A t \in Triggers : pc'[t] = "idle" \/ (pc'[t] = pc[t] /\ host'[t] = host[t])
        /\ \A j \in Kids : kid'[j] = "run" => kid[j] = "run"
    BY <1>0, <1>10 DEF Ends
  <2>2. Alive' \subseteq Alive /\ Running' \subseteq Running
    BY <2>1 DEF Alive, Running, Types, DaemonTypes
  <2> QED
    BY <2>1, <2>2, SoloStays
<1>11. CASE Ages
  <2>1. /\ holder # None /\ old' = TRUE /\ (\A t \in Triggers : holder = t => pc[t] = "idle")
        /\ UNCHANGED <<dstate, pc, host, kid, holder, stage, keeper, robbed>> /\ Solo
    BY <1>11 DEF Ages
  <2>2. Alone' /\ OneBusy' /\ KidMarked' /\ Judged'
    BY <2>1 DEF Solo, Alone, Alive, OneBusy, Busy, KidMarked, Judged
  <2>3. NoneThere' /\ Mine'
    BY <2>1 DEF Solo, NoneThere, Mine
  <2> QED
    BY <2>1, <2>2, <2>3 DEF Solo
<1>12. ASSUME (\E d \in Daemons : CoolDownEnds(d)) \/ Enqueue \/ StoreTurns \/ Midnight
              \/ UNCHANGED vars
       PROVE  Solo'
  <2>1. UNCHANGED <<dstate, pc, host, kid, lock, robbed>> /\ Solo
    BY <1>12 DEF CoolDownEnds, Enqueue, StoreTurns, Midnight, vars
  <2> QED
    BY <2>1, SoloStays DEF Alive, Running
<1>13. ~Sleeps
  BY DEF Sleeps
<1> QED
  BY <1>1, <1>2, <1>3, <1>4, <1>5, <1>6, <1>7, <1>8, <1>9, <1>10, <1>11, <1>12, <1>13
  DEF Next, TriggerStep

(* However triggers, daemons, exits and steals interleave: of two drainers *)
(* that run at a time, one has lost the lock on purpose; or one has been   *)
(* robbed of it, and then two daemons were alive at a time or the machine  *)
(* slept (auto-drain.ts 449-487, 973-995).                                 *)
THEOREM OneDrainerHolds == Spec => []OneDrainer
<1> DEFINE IInv == Types /\ Paid /\ InsideHolds /\ (~crowded => Solo)
<1>1. Init => IInv
  <2>1. Init => InsideHolds
    BY DEF Init, InsideHolds, Running
  <2>2. Init => Solo
    BY DrainAssumption DEF Init, Solo, Alone, Alive, OneBusy, Busy, KidMarked, Judged, NoneThere, Mine
  <2> QED
    BY <2>1, <2>2, PaidStarts, TypesStart
<1>2. IInv /\ [Next]_vars => IInv'
  <2> SUFFICES ASSUME IInv, [Next]_vars PROVE IInv'
    OBVIOUS
  <2>1. Types' /\ Paid' /\ InsideHolds'
    BY TypesKept, PaidKept, InsideHoldsKept
  <2>2. HolderWaits
    BY DEF Paid
  <2>3. ~crowded' => Solo'
    BY <2>2, SoloKept
  <2> QED
    BY <2>1, <2>3
<1>3. IInv => OneDrainer
  <2> SUFFICES ASSUME IInv, NEW j \in Running, NEW k \in Running, j # k
               PROVE  {j, k} \cap loose # {} \/ (crowded /\ {j, k} \cap robbed # {})
    BY DEF OneDrainer
  <2>1. {j, k} \cap loose # {} \/ {j, k} \cap robbed # {}
    BY DEF InsideHolds
  <2>2. robbed # {} => crowded
    BY DEF Solo
  <2> QED
    BY <2>1, <2>2
<1> QED
  BY <1>1, <1>2, <1>3, PTL DEF Spec
=============================================================================
