---------------------------- MODULE Upkeep_proofs ----------------------------
(* Proofs about the upkeep of the graph: a consolidation never drops the   *)
(* last row of a family, and a migration neither loses what a file held    *)
(* nor makes a skill of it twice.                                          *)
EXTENDS MCUpkeep, FiniteSetTheorems, WellFoundedInduction, TLAPS

-----------------------------------------------------------------------------
(* The weekly consolidation, by what its variables are about.              *)
BootTypes ==
  /\ table \in DOMAIN Family /\ big \in BOOLEAN /\ store \in BOOLEAN
  /\ age \in (0..Week) \cup {None} /\ ran \subseteq Daemons /\ armed \subseteq Daemons
  /\ pc \in [Daemons -> Steps] /\ faults \in 0..MaxFaults
GraphTypes ==
  /\ status \in [Rows -> {"absent", "active", "archived", "resolved"}]
  /\ by \in [Rows -> Rows \cup {None}] /\ rank \in [Rows -> Nat]
PassTypes ==
  /\ todo \in [Daemons -> SUBSET Rows] /\ seen \in [Daemons -> SUBSET Rows]
  /\ dupes \in [Daemons -> SUBSET Rows] /\ outer \in [Daemons -> Rows \cup {None}]
  /\ known \in [Daemons -> [Rows -> Nat]] /\ found \in [Daemons -> [Rows -> Nat]]

(* The ranks of reflections do not change, so two passes agree on which of *)
(* two rows is kept, and whatever is archived points upwards.              *)
Above(k, r) == rank[k] > rank[r] \/ (rank[k] = rank[r] /\ Id[k] > Id[r])
Upwards(r) ==
  /\ status[r] # "resolved"
  /\ status[r] = "archived" => by[r] \in Rows /\ status[by[r]] # "absent" /\ Above(by[r], r)

Present(S) == \A x \in S : status[x] # "absent"
PassFits(d) ==
  /\ Present(todo[d] \cup dupes[d])
  /\ pc[d] = "merge" =>
       /\ outer[d] \in Rows /\ status[outer[d]] # "absent" /\ outer[d] \notin dupes[d]
       /\ table = "reflection" => known[d] = rank /\ found[d] = rank
  /\ pc[d] = "next" /\ table = "reflection" => known[d] = rank

WeeklyInv ==
  /\ BootTypes /\ GraphTypes /\ PassTypes
  /\ table = "reflection" => \A r \in Rows : Upwards(r)
  /\ \A d \in Daemons : PassFits(d)

-----------------------------------------------------------------------------
(* The migration.                                                          *)
PastNow(m) == at[m] \in M!Past
OnSkill == {"artifact", "stub", "stubbing"}
OnArchive == {"archive", "copying", "copied"}

CallFits(m) ==
  /\ at[m] \in {"ingest", "memories"} \cup OnSkill \cup OnArchive => left[m] # {}
  /\ at[m] \in OnSkill => M!At(m) \in Skills
  /\ at[m] = "memories" => M!At(m) \in M!Docs
  /\ at[m] \in {"stub", "stubbing"} => rows[M!At(m)] = "ours"
  /\ at[m] \in OnArchive => left[m] \subseteq M!Docs

(* Calls that do not overlap have the archive to themselves.               *)
Alone == \A m, n \in Calls : PastNow(m) /\ PastNow(n) => m = n
CopyFits(m) ==
  /\ at[m] = "copied" => archive[M!At(m)] = "whole"
  /\ at[m] = "copying" => disk[M!At(m)] # "gone"

(* The files a call has yet to make a skill of.  There may be a skill for  *)
(* every fault, and one more for the call that is past the file, or for    *)
(* the marker.                                                             *)
ToMint(m, f) ==
  \/ at[m] = "collect"
  \/ /\ at[m] \in {"ingest", "memories"} \cup OnSkill /\ f \in left[m]
     /\ at[m] \in OnSkill => M!At(m) # f
MintFits(m, f) ==
  /\ ToMint(m, f) => skills[f] <= slips
  /\ ToMint(m, f) /\ at[m] # "collect" /\ disk[f] = "stub" => f \in stubs[m]
MintedOnce(f) ==
  /\ skills[f] <= 1 + slips
  /\ (~marker /\ \A m \in Calls : ~PastNow(m)) => skills[f] <= slips
OnceInv ==
  /\ Alone /\ \A m \in Calls : CopyFits(m)
  /\ \A f \in Skills : MintedOnce(f) /\ \A m \in Calls : MintFits(m, f)

CallTypes ==
  /\ at \in [Calls -> {"idle", "check"} \cup M!Past]
  /\ files \in [Calls -> SUBSET M!Files] /\ left \in [Calls -> SUBSET M!Files]
  /\ stubs \in [Calls -> SUBSET Skills]
StoreTypes ==
  /\ disk \in [M!Files -> {"full", "stub", "empty", "gone"}]
  /\ archive \in [M!Files -> {"none", "torn", "whole"}]
  /\ rows \in [M!Files -> {"none", "hook", "ours"}]
  /\ memories \subseteq M!Docs /\ marker \in BOOLEAN /\ overlapped \in BOOLEAN
CountTypes == skills \in [Skills -> Nat] /\ slips \in 0..MaxSlips

ImportInv ==
  /\ CallTypes /\ StoreTypes /\ CountTypes /\ M!NothingLost
  /\ \A m \in Calls : CallFits(m)
  /\ ~overlapped => OnceInv


-----------------------------------------------------------------------------
(* Who goes upwards comes to an active row: of the rows met, the one with  *)
(* the fewest above it has no successor.                                   *)
LEMMA LeastNumber ==
  ASSUME NEW T \in SUBSET Nat, T # {}
  PROVE  \E n \in T : \A k \in T : n <= k
<1> DEFINE R == {p \in Nat \X Nat : p[1] < p[2]}
<1>1. IsWellFoundedOn(R, Nat)
  BY Zenon, NatLessThanWellFounded DEF OpToRel
<1>2. PICK n \in T : \A k \in T : ~ (<<k, n>> \in R)
  BY <1>1, WFMin
<1>3. ASSUME NEW k \in T, k < n PROVE FALSE
  <2>1. <<k, n>> \in Nat \X Nat /\ <<k, n>>[1] = k /\ <<k, n>>[2] = n
    OBVIOUS
  <2>2. <<k, n>> \in R
    BY <1>3, <2>1
  <2> QED
    BY <1>2, <2>2
<1> QED
  BY <1>3

LEMMA UpwardsStands ==
  ASSUME GraphTypes, \A r \in Rows : Upwards(r), NEW r \in Rows, status[r] = "archived"
  PROVE  Stands(r)
<1> SUFFICES ASSUME NEW S \in SUBSET (Rows \cup {None}), r \in S, Onward(S)
             PROVE  \E x \in S \ {None} : status[x] = "active"
  BY DEF Stands
<1> DEFINE Higher(x) == {y \in Rows : Above(y, x)}
           Met == {x \in S \ {None} : status[x] # "absent"}
           Counts == {Cardinality(Higher(x)) : x \in Met}
<1>1. Met \subseteq Rows /\ r \in Met
  BY MaintenanceAssumption DEF Met
<1>2. \A x \in Rows : IsFiniteSet(Higher(x)) /\ Cardinality(Higher(x)) \in Nat
  <2>1. \A x \in Rows : Higher(x) \in SUBSET Rows
    OBVIOUS
  <2>2. \A x \in Rows : IsFiniteSet(Higher(x))
    BY <2>1, FS_Subset, MaintenanceAssumption
  <2> QED
    BY <2>2, FS_CardinalityType
<1>3. PICK x \in Met : \A y \in Met : Cardinality(Higher(x)) <= Cardinality(Higher(y))
  <2>1. Counts \in SUBSET Nat /\ Counts # {}
    <3>1. Cardinality(Higher(r)) \in Counts
      BY <1>1
    <3>2. \A y \in Met : Cardinality(Higher(y)) \in Nat
      BY <1>1, <1>2
    <3> QED
      BY <3>1, <3>2
  <2>2. PICK n \in Counts : \A k \in Counts : n <= k
    BY <2>1, LeastNumber
  <2>3. PICK x \in Met : n = Cardinality(Higher(x))
    BY <2>2
  <2>4. \A y \in Met : Cardinality(Higher(y)) \in Counts
    OBVIOUS
  <2> QED
    BY <2>2, <2>3, <2>4
<1>4. ASSUME status[x] = "archived" PROVE FALSE
  <2>1. by[x] \in Rows /\ by[x] \in S /\ status[by[x]] # "absent" /\ Above(by[x], x)
    BY <1>1, <1>4 DEF Upwards, Onward
  <2>2. by[x] \in Met
    BY <2>1, MaintenanceAssumption
  <2>3. Higher(by[x]) \subseteq Higher(x)
    <3>1. \A y \in Rows : Above(y, by[x]) => Above(y, x)
      BY <1>1, <2>1, MaintenanceAssumption DEF Above, GraphTypes
    <3> QED
      BY <3>1
  <2>4. by[x] \in Higher(x) /\ by[x] \notin Higher(by[x])
    BY <2>1, MaintenanceAssumption DEF Above, GraphTypes
  <2>5. Higher(by[x]) # Higher(x)
    BY <2>4
  <2>6. Cardinality(Higher(by[x])) <= Cardinality(Higher(x))
        /\ Cardinality(Higher(by[x])) # Cardinality(Higher(x))
    BY <1>1, <1>2, <2>1, <2>3, <2>5, FS_Subset
  <2>7. Cardinality(Higher(x)) <= Cardinality(Higher(by[x]))
    BY <1>3, <2>2
  <2> QED
    BY <1>1, <1>2, <2>1, <2>6, <2>7
<1>5. status[x] = "active"
  BY <1>1, <1>4 DEF Upwards, GraphTypes
<1> QED
  BY <1>5

LEMMA WeeklyStands == WeeklyInv => FamilyStands
<1> SUFFICES ASSUME WeeklyInv, table = "reflection", NEW r \in Rows, status[r] = "archived"
             PROVE  Stands(r)
  BY DEF FamilyStands
<1> QED
  BY UpwardsStands DEF WeeklyInv

LEMMA WeeklyTypeOK == WeeklyInv => TypeOK
  BY DEF WeeklyInv, BootTypes, GraphTypes, PassTypes, TypeOK

-----------------------------------------------------------------------------
(* What a step leaves to a pass: all it knows, and every row it has met.   *)
SamePass(e) ==
  /\ pc'[e] = pc[e] \/ pc'[e] \notin {"next", "merge"}
  /\ todo'[e] = todo[e] /\ dupes'[e] = dupes[e] /\ outer'[e] = outer[e]
  /\ known'[e] = known[e] /\ found'[e] = found[e]
Grows ==
  /\ table' = table /\ (table = "reflection" => rank' = rank)
  /\ \A x \in Rows : status[x] # "absent" => status'[x] # "absent"

LEMMA SamePassFits ==
  ASSUME PassTypes, Grows, NEW e \in Daemons, PassFits(e), SamePass(e)
  PROVE  PassFits(e)'
<1>1. Present(todo[e] \cup dupes[e])'
  BY DEF Present, PassFits, SamePass, Grows, PassTypes
<1> QED
  BY <1>1 DEF PassFits, SamePass, Grows

(* A step that touches no row, and no list but that it may forget one's.   *)
LEMMA QuietKeeps ==
  ASSUME WeeklyInv, BootTypes', UNCHANGED <<table, status, by, rank>>,
         UNCHANGED pass \/ \E d \in Daemons : Forget(d) /\ pc'[d] \notin {"next", "merge"},
         \A e \in Daemons : pc'[e] = pc[e] \/ pc'[e] \notin {"next", "merge"}
  PROVE  WeeklyInv'
<1>0. BootTypes /\ GraphTypes /\ PassTypes /\ \A e \in Daemons : PassFits(e)
  BY DEF WeeklyInv
<1>1. GraphTypes' /\ Grows
  BY <1>0 DEF GraphTypes, Grows
<1>2. table' = "reflection" => \A r \in Rows : Upwards(r)'
  BY DEF WeeklyInv, Upwards, Above
<1>3. PassTypes'
  <2>1. CASE UNCHANGED pass
    BY <1>0, <2>1 DEF pass, PassTypes
  <2>2. ASSUME NEW d \in Daemons, Forget(d) PROVE PassTypes'
    <3>1. Zero \in [Rows -> Nat]
      BY DEF Zero
    <3> QED
      BY <1>0, <2>2, <3>1 DEF Forget, PassTypes
  <2> QED
    BY <2>1, <2>2
<1>4. ASSUME NEW e \in Daemons PROVE PassFits(e)'
  <2>1. CASE SamePass(e)
    BY <1>0, <1>1, <2>1, SamePassFits
  <2>2. CASE ~SamePass(e)
    <3>1. Forget(e) /\ pc'[e] \notin {"next", "merge"}
      BY <1>0, <2>2 DEF SamePass, pass, Forget, PassTypes
    <3>2. todo'[e] = {} /\ dupes'[e] = {}
      BY <1>0, <3>1 DEF Forget, PassTypes
    <3> QED
      BY <3>1, <3>2 DEF PassFits, Present
  <2> QED
    BY <2>1, <2>2
<1> QED
  BY <1>1, <1>2, <1>3, <1>4 DEF WeeklyInv

-----------------------------------------------------------------------------
(* The steps of the consolidation.                                         *)
QuietPc == \A e \in Daemons : pc'[e] = pc[e] \/ pc'[e] \notin {"next", "merge"}

LEMMA GotoMoves ==
  ASSUME BootTypes, NEW d \in Daemons, NEW s \in Steps, Goto(d, s)
  PROVE  /\ pc' \in [Daemons -> Steps] /\ pc'[d] = s
         /\ \A e \in Daemons \ {d} : pc'[e] = pc[e]
  BY DEF BootTypes, Goto

LEMMA GotoIsQuiet ==
  ASSUME BootTypes, NEW d \in Daemons, NEW s \in Steps \ {"next", "merge"}, Goto(d, s)
  PROVE  pc' \in [Daemons -> Steps] /\ pc'[d] = s /\ QuietPc
<1>1. s \in Steps
  OBVIOUS
<1>2. pc' \in [Daemons -> Steps] /\ pc'[d] = s /\ \A e \in Daemons \ {d} : pc'[e] = pc[e]
  BY <1>1, GotoMoves
<1> QED
  BY <1>2 DEF QuietPc

LEMMA FaultCounts ==
  ASSUME BootTypes, Fault \/ UNCHANGED faults
  PROVE  faults' \in 0..MaxFaults
  BY MaintenanceAssumption DEF BootTypes, Fault

LEMMA LifeKeeps ==
  ASSUME WeeklyInv, NEW d \in Daemons, Life(d)
  PROVE  WeeklyInv'
<1>0. BootTypes /\ UNCHANGED <<table, big, age, graph, pass, faults>>
  BY DEF WeeklyInv, Life
<1>1. /\ store' = store /\ ran' \subseteq Daemons /\ armed' \subseteq Daemons
      /\ pc' = pc \/ Goto(d, "up") \/ Goto(d, "heavy") \/ Goto(d, "gate") \/ Goto(d, "off")
  <2>1. CASE Boot(d)
    BY <1>0, <2>1 DEF Boot, BootTypes
  <2>2. CASE SessionStart(d)
    BY <1>0, <2>2 DEF SessionStart, RunBootstrapMaintenance, BootTypes
  <2>3. CASE RetryTimer(d)
    BY <1>0, <2>3 DEF RetryTimer, RunBootstrapMaintenance, BootTypes
  <2>4. CASE HeavyTimer(d)
    BY <1>0, <2>4 DEF HeavyTimer, BootTypes
  <2>5. CASE Restart(d)
    BY <1>0, <2>5 DEF Restart, BootTypes
  <2> QED
    BY <2>1, <2>2, <2>3, <2>4, <2>5 DEF Life
<1>2. pc' \in [Daemons -> Steps] /\ QuietPc
  <2>1. CASE pc' = pc
    BY <1>0, <2>1 DEF BootTypes, QuietPc
  <2>2. {"up", "heavy", "gate", "off"} \subseteq Steps \ {"next", "merge"}
    BY DEF Steps
  <2> QED
    BY <1>0, <1>1, <2>1, <2>2, GotoIsQuiet
<1>3. BootTypes'
  BY <1>0, <1>1, <1>2 DEF BootTypes
<1> QED
  BY <1>0, <1>2, <1>3, QuietKeeps DEF graph, QuietPc

LEMMA GateKeeps ==
  ASSUME WeeklyInv, NEW d \in Daemons, Gate(d)
  PROVE  WeeklyInv'
<1>0. BootTypes /\ UNCHANGED <<table, big, age, store, ran, armed, graph, pass>>
  BY DEF WeeklyInv, Gate
<1>1. Goto(d, "list") \/ Goto(d, "record")
  BY DEF Gate
<1>2. pc' \in [Daemons -> Steps] /\ QuietPc
  <2>1. {"list", "record"} \subseteq Steps \ {"next", "merge"}
    BY DEF Steps
  <2> QED
    BY <1>0, <1>1, <2>1, GotoIsQuiet
<1>3. faults' \in 0..MaxFaults
  BY <1>0, FaultCounts DEF Gate
<1>4. BootTypes'
  BY <1>0, <1>2, <1>3 DEF BootTypes
<1> QED
  BY <1>0, <1>2, <1>4, QuietKeeps DEF graph, QuietPc

(* What ends a pass, or a run of the job.                                  *)
LEMMA EndsKeep ==
  ASSUME WeeklyInv, NEW d \in Daemons, Finish(d) \/ Record(d) \/ Throws(d) \/ Dies(d)
  PROVE  WeeklyInv'
<1>0. BootTypes /\ UNCHANGED <<table, big, store, graph>>
  BY DEF WeeklyInv, Finish, Record, Throws, Dies
<1>1. PICK s \in {"record", "up", "off"} : Goto(d, s)
  BY DEF Finish, Record, Throws, Dies
<1>2. pc' \in [Daemons -> Steps] /\ pc'[d] = s /\ QuietPc
  <2>1. {"record", "up", "off"} \subseteq Steps \ {"next", "merge"}
    BY DEF Steps
  <2> QED
    BY <1>0, <1>1, <2>1, GotoIsQuiet
<1>3. faults' \in 0..MaxFaults
  BY <1>0, FaultCounts DEF Finish, Record, Throws, Dies
<1>4. age' \in (0..Week) \cup {None}
  BY <1>0, MaintenanceAssumption DEF BootTypes, Finish, Record, Throws, Dies
<1>5. ran' \subseteq Daemons /\ armed' \subseteq Daemons
  BY <1>0 DEF BootTypes, Finish, Record, Throws, Dies
<1>6. BootTypes'
  BY <1>0, <1>2, <1>3, <1>4, <1>5 DEF BootTypes
<1>7. UNCHANGED pass \/ Forget(d)
  BY DEF Finish, Record, Throws, Dies
<1> QED
  BY <1>0, <1>2, <1>6, <1>7, QuietKeeps DEF graph, QuietPc

LEMMA AvailabilityKeeps ==
  ASSUME WeeklyInv, Availability \/ Day
  PROVE  WeeklyInv'
<1>0. /\ BootTypes
      /\ UNCHANGED <<table, big, ran, armed, pc, graph, pass>>
  BY DEF WeeklyInv, Availability, Day, boot, Outage, StoreReturns
<1>1. store' \in BOOLEAN
  BY <1>0 DEF BootTypes, Availability, Outage, StoreReturns, Day, boot
<1>2. age' \in (0..Week) \cup {None}
  BY <1>0, MaintenanceAssumption DEF BootTypes, Availability, Day
<1>3. faults' \in 0..MaxFaults
  BY <1>0, FaultCounts DEF Availability, Outage, StoreReturns, Day
<1>4. BootTypes'
  BY <1>0, <1>1, <1>2, <1>3 DEF BootTypes
<1> QED
  BY <1>0, <1>4, QuietKeeps DEF graph

LEMMA ListKeeps ==
  ASSUME WeeklyInv, NEW d \in Daemons, List(d)
  PROVE  WeeklyInv'
<1>0. /\ BootTypes /\ GraphTypes /\ PassTypes
      /\ UNCHANGED <<table, big, age, store, ran, armed, status, by, rank, seen, outer, dupes,
                     found, faults>>
  BY DEF WeeklyInv, List, graph
<1>1. pc' \in [Daemons -> Steps] /\ pc'[d] = "next" /\ \A e \in Daemons \ {d} : pc'[e] = pc[e]
  <2>1. "next" \in Steps
    BY DEF Steps
  <2> QED
    BY <1>0, <2>1, GotoMoves DEF List
<1>2. BootTypes' /\ GraphTypes' /\ Grows
  BY <1>0, <1>1 DEF BootTypes, GraphTypes, Grows
<1>3. /\ Listed \subseteq Rows /\ Present(Listed)
      /\ todo' = [todo EXCEPT ![d] = Listed] /\ known' = [known EXCEPT ![d] = rank]
  BY <1>0 DEF Listed, Present, List
<1>4. PassTypes' /\ todo'[d] = Listed /\ known'[d] = rank
  BY <1>0, <1>3 DEF PassTypes, GraphTypes
<1>5. table' = "reflection" => \A r \in Rows : Upwards(r)'
  BY <1>0 DEF WeeklyInv, Upwards, Above
<1>6. ASSUME NEW e \in Daemons PROVE PassFits(e)'
  <2>0. PassFits(e)
    BY DEF WeeklyInv
  <2>1. CASE e = d
    BY <1>0, <1>1, <1>3, <1>4, <2>0, <2>1 DEF PassFits, Present
  <2>2. CASE e # d
    <3>1. SamePass(e)
      BY <1>0, <1>1, <1>3, <2>2 DEF SamePass, PassTypes
    <3> QED
      BY <1>0, <1>2, <2>0, <3>1, SamePassFits
  <2> QED
    BY <2>1, <2>2
<1> QED
  BY <1>2, <1>4, <1>5, <1>6 DEF WeeklyInv

LEMMA SearchKeeps ==
  ASSUME WeeklyInv, NEW d \in Daemons, Search(d)
  PROVE  WeeklyInv'
<1>0. /\ BootTypes /\ GraphTypes /\ PassTypes /\ pc[d] = "next"
      /\ UNCHANGED <<table, big, age, store, ran, armed, status, by, rank, known, seen, faults>>
  BY DEF WeeklyInv, Search, graph
<1>1. PICK x \in Rest(d), near \in SUBSET Rows :
        /\ near \subseteq {y \in Rows \ {x} : status[y] = "active"}
        /\ todo' = [todo EXCEPT ![d] = Rest(d) \ {x}]
        /\ IF near \subseteq seen[d]
             THEN UNCHANGED <<pc, outer, dupes, found>>
             ELSE /\ outer' = [outer EXCEPT ![d] = x] /\ dupes' = [dupes EXCEPT ![d] = near \ seen[d]]
                  /\ found' = [found EXCEPT ![d] = rank] /\ Goto(d, "merge")
  BY DEF Search
<1>2. /\ x \in Rows /\ x \in todo[d] /\ near \subseteq Rows /\ x \notin near /\ Present(near)
      /\ Rest(d) \subseteq todo[d] /\ todo[d] \subseteq Rows
  BY <1>0, <1>1 DEF Rest, Present, PassTypes
<1>3. /\ pc' \in [Daemons -> Steps] /\ \A e \in Daemons \ {d} : pc'[e] = pc[e]
      /\ pc'[d] \in {"next", "merge"}
  <2>1. CASE near \subseteq seen[d]
    BY <1>0, <1>1, <2>1 DEF BootTypes
  <2>2. CASE ~(near \subseteq seen[d])
    <3>1. "merge" \in Steps /\ Goto(d, "merge")
      BY <1>1, <2>2 DEF Steps
    <3> QED
      BY <1>0, <3>1, GotoMoves
  <2> QED
    BY <2>1, <2>2
<1>4. BootTypes' /\ GraphTypes' /\ Grows
  BY <1>0, <1>3 DEF BootTypes, GraphTypes, Grows
<1>5. /\ PassTypes' /\ todo'[d] = Rest(d) \ {x} /\ known'[d] = known[d]
      /\ \/ pc'[d] = "next" /\ dupes'[d] = dupes[d]
         \/ pc'[d] = "merge" /\ outer'[d] = x /\ dupes'[d] = near \ seen[d] /\ found'[d] = rank
  <2>1. CASE near \subseteq seen[d]
    BY <1>0, <1>1, <1>2, <2>1 DEF PassTypes
  <2>2. CASE ~(near \subseteq seen[d])
    <3>1. pc'[d] = "merge"
      BY <1>0, <1>1, <2>2 DEF Goto, BootTypes
    <3>2. found' = [found EXCEPT ![d] = rank] /\ rank \in [Rows -> Nat]
      BY <1>0, <1>1, <2>2 DEF GraphTypes
    <3>3. found' \in [Daemons -> [Rows -> Nat]] /\ found'[d] = rank
      BY <1>0, <3>2 DEF PassTypes
    <3>4. /\ todo' = [todo EXCEPT ![d] = Rest(d) \ {x}] /\ dupes' = [dupes EXCEPT ![d] = near \ seen[d]]
          /\ outer' = [outer EXCEPT ![d] = x]
      BY <1>1, <2>2
    <3>5. /\ todo' \in [Daemons -> SUBSET Rows] /\ dupes' \in [Daemons -> SUBSET Rows]
          /\ outer' \in [Daemons -> Rows \cup {None}]
          /\ todo'[d] = Rest(d) \ {x} /\ dupes'[d] = near \ seen[d] /\ outer'[d] = x
      BY <1>0, <1>2, <3>4 DEF PassTypes
    <3> QED
      BY <1>0, <3>1, <3>3, <3>5 DEF PassTypes
  <2> QED
    BY <2>1, <2>2
<1>6. table' = "reflection" => \A r \in Rows : Upwards(r)'
  BY <1>0 DEF WeeklyInv, Upwards, Above
<1>7. PassFits(d)'
  <2>1. Present(todo[d] \cup dupes[d]) /\ (table = "reflection" => known[d] = rank)
    BY <1>0 DEF WeeklyInv, PassFits
  <2>2. Present(todo[d] \cup dupes[d])' /\ status'[x] # "absent"
    BY <1>0, <1>2, <1>5, <2>1 DEF Present
  <2> QED
    BY <1>0, <1>2, <1>5, <2>1, <2>2 DEF PassFits
<1>8. ASSUME NEW e \in Daemons \ {d} PROVE PassFits(e)'
  <2>0. PassFits(e)
    BY DEF WeeklyInv
  <2>1. SamePass(e)
    BY <1>0, <1>1, <1>3 DEF SamePass, PassTypes
  <2> QED
    BY <1>0, <1>4, <2>0, <2>1, SamePassFits
<1> QED
  BY <1>4, <1>5, <1>6, <1>7, <1>8 DEF WeeklyInv

(* The loser of a comparison is archived for a row that is above it.       *)
LEMMA KeeperIsAbove ==
  ASSUME GraphTypes, table = "reflection", NEW d \in Daemons, known[d] = rank, found[d] = rank,
         NEW x \in Rows, NEW y \in Rows, x # y
  PROVE  (KeepOuter(d, x, y) => Above(x, y)) /\ (KeepInner(d, x, y) => Above(y, x))
<1>1. rank[x] \in Nat /\ rank[y] \in Nat /\ Id[x] \in Nat /\ Id[y] \in Nat /\ Id[x] # Id[y]
  BY MaintenanceAssumption DEF GraphTypes
<1> QED
  BY <1>1 DEF KeepOuter, KeepInner, Above

LEMMA DropKeeps ==
  ASSUME GraphTypes, NEW l \in Rows, NEW k \in Rows, Drop(l, k),
         status[l] # "absent", status[k] # "absent", UNCHANGED table,
         table = "reflection" => rank' = rank /\ Above(k, l) /\ \A r \in Rows : Upwards(r)
  PROVE  /\ status' \in [Rows -> {"absent", "active", "archived", "resolved"}]
         /\ by' \in [Rows -> Rows \cup {None}]
         /\ \A r \in Rows : status[r] # "absent" => status'[r] # "absent"
         /\ table' = "reflection" => \A r \in Rows : Upwards(r)'
<1>1. CASE status[l] # "active"
  BY <1>1 DEF Drop, GraphTypes, Upwards, Above
<1>2. CASE status[l] = "active"
  <2>1. /\ status' \in [Rows -> {"absent", "active", "archived", "resolved"}]
        /\ by' \in [Rows -> Rows \cup {None}] /\ status'[l] = "archived" /\ by'[l] = k
        /\ \A r \in Rows \ {l} : status'[r] = status[r] /\ by'[r] = by[r]
    BY <1>2 DEF Drop, GraphTypes
  <2>2. \A r \in Rows : status[r] # "absent" => status'[r] # "absent"
    BY <2>1
  <2>3. ASSUME table = "reflection", NEW r \in Rows PROVE Upwards(r)'
    <3>1. Upwards(r) /\ rank' = rank /\ Above(k, l)
      BY <2>3
    <3>2. CASE r = l
      BY <2>1, <2>2, <3>1, <3>2 DEF Upwards, Above
    <3>3. CASE r # l
      BY <2>1, <2>2, <3>1, <3>3 DEF Upwards, Above
    <3> QED
      BY <3>2, <3>3
  <2> QED
    BY <2>1, <2>2, <2>3
<1> QED
  BY <1>1, <1>2

LEMMA MergeKeeps ==
  ASSUME WeeklyInv, NEW d \in Daemons, Merge(d)
  PROVE  WeeklyInv'
<1> DEFINE x == outer[d]
<1>0. /\ BootTypes /\ GraphTypes /\ PassTypes /\ pc[d] = "merge" /\ PassFits(d)
      /\ UNCHANGED <<table, big, age, store, ran, armed, todo, known, faults>>
  BY DEF WeeklyInv, Merge
<1>1. PICK y \in dupes[d] :
        /\ \/ KeepOuter(d, x, y) /\ Drop(y, x) /\ Enrich(x, y, d)
              /\ seen' = [seen EXCEPT ![d] = @ \cup {y}]
           \/ KeepInner(d, x, y) /\ Drop(x, y) /\ Enrich(y, y, d)
              /\ seen' = [seen EXCEPT ![d] = @ \cup {x}]
        /\ dupes' = [dupes EXCEPT ![d] = @ \ {y}]
  BY DEF Merge
<1>2. /\ x \in Rows /\ y \in Rows /\ x # y /\ status[x] # "absent" /\ status[y] # "absent"
      /\ y \in dupes[d] /\ (table = "reflection" => known[d] = rank /\ found[d] = rank)
  BY <1>0, <1>1 DEF PassFits, PassTypes, Present
<1>3. rank' \in [Rows -> Nat] /\ (table = "reflection" => rank' = rank)
  <2>1. found[d] \in [Rows -> Nat]
    BY <1>0 DEF PassTypes
  <2>2. CASE Enrich(x, y, d)
    BY <1>0, <1>2, <2>1, <2>2 DEF Enrich, GraphTypes
  <2>3. CASE Enrich(y, y, d)
    BY <1>0, <1>2, <2>1, <2>3 DEF Enrich, GraphTypes
  <2> QED
    BY <1>1, <2>2, <2>3
<1>4. /\ status' \in [Rows -> {"absent", "active", "archived", "resolved"}]
      /\ by' \in [Rows -> Rows \cup {None}]
      /\ \A r \in Rows : status[r] # "absent" => status'[r] # "absent"
      /\ table' = "reflection" => \A r \in Rows : Upwards(r)'
  <2>1. table = "reflection" => \A r \in Rows : Upwards(r)
    BY DEF WeeklyInv
  <2>2. CASE KeepOuter(d, x, y) /\ Drop(y, x)
    <3>1. table = "reflection" => Above(x, y)
      BY <1>0, <1>2, <2>2, KeeperIsAbove
    <3> QED
      BY <1>0, <1>2, <1>3, <2>1, <2>2, <3>1, DropKeeps
  <2>3. CASE KeepInner(d, x, y) /\ Drop(x, y)
    <3>1. table = "reflection" => Above(y, x)
      BY <1>0, <1>2, <2>3, KeeperIsAbove
    <3> QED
      BY <1>0, <1>2, <1>3, <2>1, <2>3, <3>1, DropKeeps
  <2> QED
    BY <1>1, <2>2, <2>3
<1>5. GraphTypes' /\ Grows
  BY <1>0, <1>3, <1>4 DEF GraphTypes, Grows
<1>6. seen' \in [Daemons -> SUBSET Rows] /\ dupes' \in [Daemons -> SUBSET Rows]
      /\ dupes'[d] = dupes[d] \ {y} /\ \A e \in Daemons \ {d} : dupes'[e] = dupes[e]
  <2>1. PICK z \in {x, y} : seen' = [seen EXCEPT ![d] = @ \cup {z}]
    BY <1>1
  <2>2. seen' \in [Daemons -> SUBSET Rows]
    BY <1>0, <1>2, <2>1 DEF PassTypes
  <2>3. dupes' = [dupes EXCEPT ![d] = @ \ {y}]
    BY <1>1
  <2> QED
    BY <1>0, <2>2, <2>3 DEF PassTypes
<1>7. \/ dupes'[d] # {} /\ UNCHANGED <<pc, outer, found>>
      \/ Goto(d, "next") /\ outer' = [outer EXCEPT ![d] = None] /\ found' = [found EXCEPT ![d] = Zero]
  BY DEF Merge
<1>8. /\ pc' \in [Daemons -> Steps] /\ \A e \in Daemons \ {d} : pc'[e] = pc[e]
      /\ outer' \in [Daemons -> Rows \cup {None}] /\ found' \in [Daemons -> [Rows -> Nat]]
      /\ \A e \in Daemons \ {d} : outer'[e] = outer[e] /\ found'[e] = found[e]
      /\ pc'[d] = "next" \/ (pc'[d] = "merge" /\ outer'[d] = x /\ found'[d] = found[d])
  <2>1. CASE UNCHANGED <<pc, outer, found>>
    BY <1>0, <2>1 DEF BootTypes, PassTypes
  <2>2. CASE Goto(d, "next") /\ outer' = [outer EXCEPT ![d] = None] /\ found' = [found EXCEPT ![d] = Zero]
    <3>1. "next" \in Steps /\ Zero \in [Rows -> Nat]
      BY DEF Steps, Zero
    <3>2. /\ pc' \in [Daemons -> Steps] /\ pc'[d] = "next"
          /\ \A e \in Daemons \ {d} : pc'[e] = pc[e]
      BY <1>0, <2>2, <3>1, GotoMoves
    <3> QED
      BY <1>0, <2>2, <3>1, <3>2 DEF PassTypes
  <2> QED
    BY <1>7, <2>1, <2>2
<1>9. BootTypes' /\ PassTypes'
  BY <1>0, <1>6, <1>8 DEF BootTypes, PassTypes
<1>10. PassFits(d)'
  <2>1. Present(todo[d] \cup dupes[d])' /\ status'[x] # "absent" /\ x \notin dupes'[d]
    BY <1>0, <1>2, <1>4, <1>6 DEF PassFits, Present, PassTypes
  <2>2. table' = "reflection" => known'[d] = rank' /\ found[d] = rank'
    BY <1>0, <1>2, <1>3
  <2> QED
    BY <1>0, <1>2, <1>8, <2>1, <2>2 DEF PassFits
<1>11. ASSUME NEW e \in Daemons \ {d} PROVE PassFits(e)'
  <2>1. PassFits(e)
    BY DEF WeeklyInv
  <2>2. SamePass(e)
    BY <1>0, <1>6, <1>8 DEF SamePass
  <2> QED
    BY <1>0, <1>5, <2>1, <2>2, SamePassFits
<1> QED
  BY <1>4, <1>5, <1>9, <1>10, <1>11 DEF WeeklyInv

LEMMA RowKeeps ==
  ASSUME WeeklyInv, NEW r \in Rows, Create(r) \/ Resolve(r)
  PROVE  WeeklyInv'
<1>0. /\ BootTypes /\ GraphTypes /\ PassTypes
      /\ UNCHANGED <<table, big, age, store, ran, armed, pc, by, rank, todo, known, seen, outer,
                     dupes, found, faults>>
  BY DEF WeeklyInv, Create, Resolve, boot, pass
<1>1. /\ status' \in [Rows -> {"absent", "active", "archived", "resolved"}]
      /\ \A x \in Rows : status[x] # "absent" => status'[x] # "absent"
      /\ table = "reflection" =>
           \A x \in Rows : status'[x] = status[x] \/ status'[x] = "active"
  BY <1>0 DEF Create, Resolve, GraphTypes
<1>2. BootTypes' /\ GraphTypes' /\ PassTypes' /\ Grows
  BY <1>0, <1>1 DEF BootTypes, GraphTypes, PassTypes, Grows
<1>3. ASSUME table' = "reflection", NEW x \in Rows PROVE Upwards(x)'
  <2>1. Upwards(x)
    BY <1>0, <1>3 DEF WeeklyInv
  <2> QED
    BY <1>0, <1>1, <1>3, <2>1 DEF Upwards, Above
<1>4. ASSUME NEW e \in Daemons PROVE PassFits(e)'
  BY <1>0, <1>2, SamePassFits DEF SamePass, WeeklyInv
<1> QED
  BY <1>2, <1>3, <1>4 DEF WeeklyInv

LEMMA WeeklyStarts == Init => WeeklyInv
<1> SUFFICES ASSUME Init PROVE WeeklyInv
  OBVIOUS
<1>1. rank \in [Rows -> Nat] /\ by = [r \in Rows |-> None]
  BY MaintenanceAssumption DEF Init
<1>2. PICK S \in SUBSET Late :
        status = [r \in Rows |-> IF r \in Family[table] \ S THEN "active" ELSE "absent"]
  BY DEF Init
<1>3. GraphTypes /\ \A r \in Rows : status[r] \in {"active", "absent"}
  BY <1>1, <1>2 DEF GraphTypes
<1>4. /\ BootTypes /\ pc = [d \in Daemons |-> "off"]
  BY MaintenanceAssumption DEF Init, BootTypes, Steps
<1>5. PassTypes /\ todo = [d \in Daemons |-> {}] /\ dupes = [d \in Daemons |-> {}]
  <2>1. Zero \in [Rows -> Nat]
    BY DEF Zero
  <2> QED
    BY <2>1 DEF Init, PassTypes
<1>6. \A d \in Daemons : PassFits(d)
  BY <1>4, <1>5 DEF PassFits, Present
<1>7. \A r \in Rows : Upwards(r)
  BY <1>3 DEF Upwards
<1> QED
  BY <1>3, <1>4, <1>5, <1>6, <1>7 DEF WeeklyInv

LEMMA WeeklyStutters ==
  ASSUME WeeklyInv, UNCHANGED vars
  PROVE  WeeklyInv'
<1>1. UNCHANGED <<table, big, age, store, ran, armed, pc, status, by, rank, todo, known, seen,
                  outer, dupes, found, faults>>
  BY DEF vars, boot, graph, pass
<1>2. BootTypes' /\ GraphTypes' /\ PassTypes'
  BY <1>1 DEF WeeklyInv, BootTypes, GraphTypes, PassTypes
<1>3. ASSUME NEW d \in Daemons PROVE PassFits(d)'
  BY <1>1 DEF WeeklyInv, PassFits, Present
<1>4. (table = "reflection" => \A r \in Rows : Upwards(r))'
  BY <1>1 DEF WeeklyInv, Upwards, Above
<1> QED
  BY <1>2, <1>3, <1>4 DEF WeeklyInv

LEMMA WeeklySteps ==
  ASSUME WeeklyInv, [Next]_vars
  PROVE  WeeklyInv'
<1>1. CASE UNCHANGED vars
  BY <1>1, WeeklyStutters
<1>2. ASSUME NEW d \in Daemons, Life(d) \/ Job(d) \/ Throws(d) \/ Dies(d) PROVE WeeklyInv'
  BY <1>2, LifeKeeps, GateKeeps, ListKeeps, SearchKeeps, MergeKeeps, EndsKeep DEF Job
<1>3. CASE Availability \/ Day
  BY <1>3, AvailabilityKeeps
<1>4. ASSUME NEW r \in Rows, Create(r) \/ Resolve(r) PROVE WeeklyInv'
  BY <1>4, RowKeeps
<1> QED
  BY <1>1, <1>2, <1>3, <1>4 DEF Next

-----------------------------------------------------------------------------
(* The file a call is at is one of those it has left.                      *)
LEMMA EarliestIn ==
  ASSUME NEW S \in SUBSET M!Files, S # {}
  PROVE  M!Earliest(S) \in S
<1>1. \A f \in M!Files : M!Place(f) \in DOMAIN Order
  BY DEF M!Files, M!ToSet, M!Place
<1>2. DOMAIN Order \subseteq Nat
  BY MigrationAssumption
<1>3. {M!Place(f) : f \in S} \in SUBSET Nat /\ {M!Place(f) : f \in S} # {}
  BY <1>1, <1>2
<1>4. PICK p \in {M!Place(f) : f \in S} : \A q \in {M!Place(f) : f \in S} : p <= q
  BY <1>3, LeastNumber
<1>5. PICK f \in S : p = M!Place(f)
  BY <1>4
<1>6. \A g \in S : M!Place(f) <= M!Place(g)
  BY <1>4, <1>5
<1> QED
  BY <1>6 DEF M!Earliest

LEMMA AtLeft ==
  ASSUME CallTypes, NEW m \in Calls, left[m] # {}
  PROVE  M!At(m) \in left[m] /\ M!At(m) \in M!Files
<1>1. left[m] \in SUBSET M!Files
  BY DEF CallTypes
<1> QED
  BY <1>1, EarliestIn DEF M!At

LEMMA AtStays ==
  ASSUME NEW m \in Calls, left'[m] = left[m]
  PROVE  M!At(m)' = M!At(m)
  BY DEF M!At, M!Earliest, M!Place

-----------------------------------------------------------------------------
(* Where a step of a call takes it: Goto, and what follows a file.         *)
OnlyBy(m) ==
  \A n \in Calls \ {m} : at'[n] = at[n] /\ left'[n] = left[n] /\ stubs'[n] = stubs[n]
Moves(m, s, L) == at'[m] = s /\ left'[m] = L /\ stubs'[m] = stubs[m]
GoesOn(m) ==
  /\ stubs'[m] = stubs[m] /\ left'[m] \subseteq M!Files
  /\ \/ at'[m] = "ingest" /\ left'[m] # {} /\ left'[m] = left[m] \ {M!At(m)}
     \/ at'[m] = "archive" /\ left'[m] # {} /\ left'[m] \subseteq M!Docs
     \/ at'[m] = "mark"

LEMMA GotoFits ==
  ASSUME CallTypes, NEW m \in Calls, NEW s \in {"idle", "check"} \cup M!Past, M!Goto(m, s)
  PROVE  CallTypes' /\ OnlyBy(m) /\ Moves(m, s, left[m]) /\ M!At(m)' = M!At(m)
<1>1. CallTypes' /\ OnlyBy(m) /\ Moves(m, s, left[m])
  BY DEF M!Goto, CallTypes, OnlyBy, Moves
<1> QED
  BY <1>1, AtStays DEF Moves

LEMMA TakeUpFits ==
  ASSUME CallTypes, NEW m \in Calls, NEW s \in {"idle", "check"} \cup M!Past,
         NEW L \in SUBSET M!Files, M!TakeUp(m, s, L)
  PROVE  CallTypes' /\ OnlyBy(m) /\ Moves(m, s, L)
  BY DEF M!TakeUp, CallTypes, OnlyBy, Moves

LEMMA ArchivingFits ==
  ASSUME CallTypes, NEW m \in Calls, NEW L \in SUBSET M!Docs, M!Archiving(m, L)
  PROVE  CallTypes' /\ OnlyBy(m) /\ GoesOn(m) /\ at'[m] # "ingest"
<1>1. PICK s \in {"mark", "archive"} : M!TakeUp(m, s, L) /\ (s = "archive" => L # {})
  BY DEF M!Archiving
<1>2. s \in {"idle", "check"} \cup M!Past /\ L \in SUBSET M!Files
  BY DEF M!Past, M!Docs
<1>3. CallTypes' /\ OnlyBy(m) /\ Moves(m, s, L)
  BY <1>1, <1>2, TakeUpFits
<1> QED
  BY <1>1, <1>2, <1>3 DEF Moves, GoesOn

LEMMA NextFileFits ==
  ASSUME CallTypes, NEW m \in Calls, M!NextFile(m)
  PROVE  CallTypes' /\ OnlyBy(m) /\ GoesOn(m)
<1>1. M!Others(m) \in SUBSET M!Files /\ files[m] \ Skills \in SUBSET M!Docs
  BY DEF CallTypes, M!Others, M!Docs
<1>2. CASE M!Others(m) # {}
  <2>1. M!TakeUp(m, "ingest", M!Others(m)) /\ "ingest" \in {"idle", "check"} \cup M!Past
    BY <1>2 DEF M!NextFile, M!Past
  <2>2. CallTypes' /\ OnlyBy(m) /\ Moves(m, "ingest", M!Others(m))
    BY <1>1, <2>1, TakeUpFits
  <2> QED
    BY <1>1, <1>2, <2>2 DEF Moves, GoesOn, M!Others
<1>3. CASE M!Others(m) = {}
  <2>1. M!Archiving(m, files[m] \ Skills)
    BY <1>3 DEF M!NextFile
  <2> QED
    BY <1>1, <2>1, ArchivingFits
<1> QED
  BY <1>2, <1>3

-----------------------------------------------------------------------------
(* What the steps of a call that is past the check have in common.         *)
RowsGrow == \A f \in M!Files : rows[f] = "ours" => rows'[f] = "ours"
MintedNow(m, f) ==
  /\ skills[f] <= 1 + slips
  /\ ~marker /\ ~PastNow(m) => skills[f] <= slips

LEMMA SlipsCount ==
  ASSUME CountTypes, M!Fail \/ M!Fine
  PROVE  slips' \in 0..MaxSlips /\ slips <= slips'
  BY MigrationAssumption DEF CountTypes, M!Fail, M!Fine

LEMMA PastStep ==
  ASSUME ImportInv, NEW m \in Calls, PastNow(m), CallTypes', StoreTypes', CountTypes', OnlyBy(m),
         RowsGrow, UNCHANGED overlapped, M!NothingLost', CallFits(m)',
         ~overlapped => /\ CopyFits(m)'
                        /\ \A f \in Skills : MintedNow(m, f)' /\ MintFits(m, f)'
  PROVE  ImportInv'
<1>1. ASSUME NEW n \in Calls \ {m} PROVE CallFits(n)'
  <2>1. CallFits(n) /\ at'[n] = at[n] /\ left'[n] = left[n] /\ M!At(n)' = M!At(n)
    BY AtStays DEF ImportInv, OnlyBy
  <2>2. left[n] # {} => M!At(n) \in M!Files
    BY AtLeft DEF ImportInv
  <2> QED
    BY <2>1, <2>2 DEF CallFits, RowsGrow, OnSkill
<1>2. ASSUME ~overlapped PROVE OnceInv'
  <2>1. \A n \in Calls \ {m} : ~PastNow(n) /\ ~PastNow(n)'
    BY <1>2 DEF ImportInv, OnceInv, Alone, PastNow, OnlyBy
  <2>2. \A n \in Calls \ {m} : at'[n] \notin OnSkill \cup OnArchive \cup {"collect", "ingest", "memories"}
    BY <2>1 DEF PastNow, M!Past, OnSkill, OnArchive
  <2>3. Alone'
    BY <2>1 DEF Alone
  <2>4. ASSUME NEW n \in Calls PROVE CopyFits(n)'
    <3>1. CASE n = m
      BY <1>2, <3>1
    <3>2. CASE n # m
      BY <2>2, <3>2 DEF CopyFits, OnArchive
    <3> QED
      BY <3>1, <3>2
  <2>5. ASSUME NEW f \in Skills, NEW n \in Calls PROVE MintFits(n, f)'
    <3>1. CASE n = m
      BY <1>2, <3>1
    <3>2. CASE n # m
      <4>1. ~ToMint(n, f)'
        BY <2>2, <3>2 DEF ToMint
      <4> QED
        BY <4>1 DEF MintFits
    <3> QED
      BY <3>1, <3>2
  <2>6. ASSUME NEW f \in Skills PROVE MintedOnce(f)'
    BY <1>2, <2>1 DEF MintedOnce, MintedNow
  <2> QED
    BY <2>3, <2>4, <2>5, <2>6 DEF OnceInv
<1> QED
  BY <1>1, <1>2 DEF ImportInv

(* A step that makes no skill, and leaves none to be made twice.           *)
LEMMA MintStays ==
  ASSUME ImportInv, ~overlapped, NEW m \in Calls, PastNow(m)', UNCHANGED skills,
         M!Fail \/ M!Fine, stubs'[m] = stubs[m], NEW f \in Skills,
         ToMint(m, f)' => ToMint(m, f) /\ at[m] # "collect",
         disk'[f] = "stub" => disk[f] = "stub" \/ ~ToMint(m, f)'
  PROVE  MintedNow(m, f)' /\ MintFits(m, f)'
<1>1. skills[f] \in Nat /\ slips \in Nat /\ slips' \in Nat /\ slips <= slips'
  BY SlipsCount DEF ImportInv, CountTypes
<1>2. skills[f] <= 1 + slips /\ MintFits(m, f)
  BY DEF ImportInv, OnceInv, MintedOnce
<1>3. MintedNow(m, f)'
  BY <1>1, <1>2 DEF MintedNow
<1>4. MintFits(m, f)'
  BY <1>1, <1>2 DEF MintFits
<1> QED
  BY <1>3, <1>4

LEMMA LostStays ==
  ASSUME ImportInv, RowsGrow, UNCHANGED <<disk, archive, overlapped>>
  PROVE  M!NothingLost'
<1>1. Skills \subseteq M!Files
  BY MigrationAssumption DEF M!Files, M!ToSet
<1> QED
  BY <1>1 DEF ImportInv, M!NothingLost, RowsGrow

LEMMA GoesOnFits ==
  ASSUME CallTypes, NEW m \in Calls, GoesOn(m),
         at'[m] = "ingest" => at[m] \in {"ingest", "memories"} \cup OnSkill
  PROVE  /\ CallFits(m)' /\ CopyFits(m)' /\ PastNow(m)'
         /\ \A f \in Skills : ToMint(m, f)' => /\ ToMint(m, f) /\ at[m] # "collect"
                                               /\ f # M!At(m)
<1>1. at'[m] \in {"ingest", "archive", "mark"}
  BY DEF GoesOn
<1>2. CallFits(m)' /\ CopyFits(m)' /\ PastNow(m)'
  BY <1>1 DEF GoesOn, CallFits, CopyFits, PastNow, M!Past, OnSkill, OnArchive
<1>3. ASSUME NEW f \in Skills, ToMint(m, f)'
      PROVE  ToMint(m, f) /\ at[m] # "collect" /\ f # M!At(m)
  <2>1. at'[m] = "ingest" /\ f \in left'[m]
    BY <1>1, <1>3 DEF ToMint, OnSkill
  <2>2. left'[m] = left[m] \ {M!At(m)} /\ at[m] \in {"ingest", "memories"} \cup OnSkill
    BY <2>1 DEF GoesOn
  <2> QED
    BY <2>1, <2>2 DEF ToMint, OnSkill
<1> QED
  BY <1>2, <1>3

LEMMA GotoMints ==
  ASSUME NEW m \in Calls, NEW s, Moves(m, s, left[m]), M!At(m)' = M!At(m),
         \/ s = "memories" /\ at[m] = "ingest"
         \/ s = "artifact" /\ at[m] = "ingest"
         \/ s \in OnSkill /\ at[m] \in OnSkill
         \/ s \in OnArchive
  PROVE  /\ PastNow(m)'
         /\ \A f \in Skills : ToMint(m, f)' => ToMint(m, f) /\ at[m] # "collect"
<1>1. PastNow(m)'
  BY DEF Moves, PastNow, M!Past, OnSkill, OnArchive
<1>2. ASSUME NEW f \in Skills, ToMint(m, f)' PROVE ToMint(m, f) /\ at[m] # "collect"
  BY <1>2 DEF Moves, ToMint, OnSkill, OnArchive
<1> QED
  BY <1>1, <1>2

LEMMA CreateRowFits ==
  ASSUME StoreTypes, NEW m \in Calls, NEW f \in M!Files, NEW s, M!CreateRow(m, f, s)
  PROVE  /\ rows' \in [M!Files -> {"none", "hook", "ours"}] /\ RowsGrow
         /\ (M!Goto(m, s) /\ rows'[f] = "ours") \/ M!NextFile(m)
         /\ M!Fail \/ M!Fine
<1>1. CASE rows' = rows
  BY <1>1 DEF M!CreateRow, M!SkipFile, StoreTypes, RowsGrow
<1>2. CASE rows' = [rows EXCEPT ![f] = "ours"]
  <2>1. rows' \in [M!Files -> {"none", "hook", "ours"}] /\ rows'[f] = "ours" /\ RowsGrow
    BY <1>2 DEF StoreTypes, RowsGrow
  <2> QED
    BY <2>1 DEF M!CreateRow, M!SkipFile
<1> QED
  BY <1>1, <1>2 DEF M!CreateRow

-----------------------------------------------------------------------------
(* A step that touches neither the files nor the skills.                   *)
LEMMA RowsStep ==
  ASSUME ImportInv, NEW m \in Calls, PastNow(m), CallTypes', OnlyBy(m), RowsGrow,
         UNCHANGED <<disk, archive, skills, overlapped>>, stubs'[m] = stubs[m],
         rows' \in [M!Files -> {"none", "hook", "ours"}], memories' \subseteq M!Docs,
         marker' = marker, M!Fail \/ M!Fine, CallFits(m)', CopyFits(m)', PastNow(m)',
         \A f \in Skills : ToMint(m, f)' => ToMint(m, f) /\ at[m] # "collect"
  PROVE  ImportInv'
<1>1. StoreTypes'
  BY DEF ImportInv, StoreTypes
<1>2. CountTypes'
  BY SlipsCount DEF ImportInv, CountTypes
<1>3. M!NothingLost'
  BY LostStays
<1>4. ASSUME ~overlapped, NEW f \in Skills PROVE MintedNow(m, f)' /\ MintFits(m, f)'
  BY <1>4, MintStays
<1> QED
  BY <1>1, <1>2, <1>3, <1>4, PastStep

LEMMA IngestDocKeeps ==
  ASSUME ImportInv, NEW m \in Calls, M!IngestDoc(m)
  PROVE  ImportInv'
<1>0. /\ CallTypes /\ StoreTypes /\ CallFits(m) /\ at[m] = "ingest" /\ M!At(m) \in M!Docs
      /\ M!CreateRow(m, M!At(m), "memories") /\ left[m] # {} /\ PastNow(m)
      /\ UNCHANGED <<disk, archive, memories, skills, marker, overlapped>>
  BY DEF ImportInv, M!IngestDoc, CallFits, PastNow, M!Past
<1>1. /\ rows' \in [M!Files -> {"none", "hook", "ours"}] /\ RowsGrow
      /\ M!Goto(m, "memories") \/ M!NextFile(m)
      /\ M!Fail \/ M!Fine
  BY <1>0, CreateRowFits DEF M!Docs
<1>2. memories' \subseteq M!Docs
  BY <1>0 DEF StoreTypes
<1>3. CASE M!Goto(m, "memories")
  <2>1. "memories" \in {"idle", "check"} \cup M!Past
    BY DEF M!Past
  <2>2. CallTypes' /\ OnlyBy(m) /\ Moves(m, "memories", left[m]) /\ M!At(m)' = M!At(m)
    BY <1>0, <1>3, <2>1, GotoFits
  <2>3. PastNow(m)' /\ \A f \in Skills : ToMint(m, f)' => ToMint(m, f) /\ at[m] # "collect"
    BY <1>0, <2>2, GotoMints
  <2>4. CallFits(m)' /\ CopyFits(m)' /\ stubs'[m] = stubs[m]
    BY <1>0, <2>2 DEF CallFits, CopyFits, Moves, OnSkill, OnArchive
  <2> QED
    BY <1>0, <1>1, <1>2, <2>2, <2>3, <2>4, RowsStep
<1>4. CASE M!NextFile(m)
  <2>1. CallTypes' /\ OnlyBy(m) /\ GoesOn(m)
    BY <1>0, <1>4, NextFileFits
  <2>2. /\ CallFits(m)' /\ CopyFits(m)' /\ PastNow(m)' /\ stubs'[m] = stubs[m]
        /\ \A f \in Skills : ToMint(m, f)' => ToMint(m, f) /\ at[m] # "collect"
    BY <1>0, <2>1, GoesOnFits DEF GoesOn
  <2> QED
    BY <1>0, <1>1, <1>2, <2>1, <2>2, RowsStep
<1> QED
  BY <1>1, <1>3, <1>4

LEMMA CreateArtifactKeeps ==
  ASSUME ImportInv, NEW m \in Calls, M!CreateArtifact(m)
  PROVE  ImportInv'
<1>0. /\ CallTypes /\ StoreTypes /\ CallFits(m) /\ at[m] = "artifact" /\ at[m] \in OnSkill
      /\ M!CreateRow(m, M!At(m), "stub") /\ left[m] # {} /\ PastNow(m) /\ M!At(m) \in Skills
      /\ UNCHANGED <<disk, archive, memories, skills, marker, overlapped>>
  BY DEF ImportInv, M!CreateArtifact, CallFits, PastNow, M!Past, OnSkill
<1>1. M!At(m) \in M!Files
  BY <1>0, AtLeft
<1>2. /\ rows' \in [M!Files -> {"none", "hook", "ours"}] /\ RowsGrow
      /\ (M!Goto(m, "stub") /\ rows'[M!At(m)] = "ours") \/ M!NextFile(m)
      /\ M!Fail \/ M!Fine
  BY <1>0, <1>1, CreateRowFits
<1>3. memories' \subseteq M!Docs
  BY <1>0 DEF StoreTypes
<1>4. CASE M!Goto(m, "stub") /\ rows'[M!At(m)] = "ours"
  <2>1. "stub" \in {"idle", "check"} \cup M!Past /\ "stub" \in OnSkill
    BY DEF M!Past, OnSkill
  <2>2. CallTypes' /\ OnlyBy(m) /\ Moves(m, "stub", left[m]) /\ M!At(m)' = M!At(m)
    BY <1>0, <1>4, <2>1, GotoFits
  <2>3. PastNow(m)' /\ \A f \in Skills : ToMint(m, f)' => ToMint(m, f) /\ at[m] # "collect"
    BY <1>0, <2>1, <2>2, GotoMints
  <2>4. CallFits(m)' /\ CopyFits(m)' /\ stubs'[m] = stubs[m]
    BY <1>0, <1>4, <2>2 DEF CallFits, CopyFits, Moves, OnArchive
  <2> QED
    BY <1>0, <1>2, <1>3, <2>2, <2>3, <2>4, RowsStep
<1>5. CASE M!NextFile(m)
  <2>1. CallTypes' /\ OnlyBy(m) /\ GoesOn(m)
    BY <1>0, <1>5, NextFileFits
  <2>2. /\ CallFits(m)' /\ CopyFits(m)' /\ PastNow(m)' /\ stubs'[m] = stubs[m]
        /\ \A f \in Skills : ToMint(m, f)' => ToMint(m, f) /\ at[m] # "collect"
    BY <1>0, <2>1, GoesOnFits DEF GoesOn
  <2> QED
    BY <1>0, <1>2, <1>3, <2>1, <2>2, RowsStep
<1> QED
  BY <1>2, <1>4, <1>5

LEMMA PassesOnKeeps ==
  ASSUME ImportInv, NEW m \in Calls, M!IngestMemories(m) \/ M!LeaveStub(m)
  PROVE  ImportInv'
<1>0. /\ CallTypes /\ StoreTypes /\ CallFits(m) /\ at[m] \in {"ingest", "memories"}
      /\ left[m] # {} /\ PastNow(m) /\ M!NextFile(m) /\ M!Fine
      /\ UNCHANGED <<disk, archive, rows, skills, marker, overlapped>>
  BY DEF ImportInv, M!IngestMemories, M!LeaveStub, CallFits, PastNow, M!Past, M!Fine, M!stores
<1>1. memories' \subseteq M!Docs
  BY <1>0 DEF StoreTypes, CallFits, M!IngestMemories, M!LeaveStub, M!stores
<1>2. rows' \in [M!Files -> {"none", "hook", "ours"}] /\ RowsGrow
  BY <1>0 DEF StoreTypes, RowsGrow
<1>3. CallTypes' /\ OnlyBy(m) /\ GoesOn(m)
  BY <1>0, NextFileFits
<1>4. /\ CallFits(m)' /\ CopyFits(m)' /\ PastNow(m)' /\ stubs'[m] = stubs[m]
      /\ \A f \in Skills : ToMint(m, f)' => ToMint(m, f) /\ at[m] # "collect"
  BY <1>0, <1>3, GoesOnFits DEF GoesOn
<1> QED
  BY <1>0, <1>1, <1>2, <1>3, <1>4, RowsStep

(* A skill is made of a file that is then dealt with.                      *)
LEMMA CommitSkillKeeps ==
  ASSUME ImportInv, NEW m \in Calls, M!CommitSkill(m)
  PROVE  ImportInv'
<1>0. /\ CallTypes /\ StoreTypes /\ CountTypes /\ CallFits(m) /\ at[m] = "ingest"
      /\ M!At(m) \in Skills /\ left[m] # {} /\ PastNow(m)
      /\ UNCHANGED <<disk, archive, rows, memories, marker, overlapped>>
  BY DEF ImportInv, M!CommitSkill, CallFits, PastNow, M!Past
<1>1. /\ StoreTypes' /\ RowsGrow
      /\ M!Fail \/ M!Fine
  BY <1>0 DEF StoreTypes, RowsGrow, M!CommitSkill
<1>2. rows' \in [M!Files -> {"none", "hook", "ours"}] /\ memories' \subseteq M!Docs
  BY <1>1 DEF StoreTypes
<1>3. CASE M!NextFile(m) /\ UNCHANGED skills
  <2>1. CallTypes' /\ OnlyBy(m) /\ GoesOn(m)
    BY <1>0, <1>3, NextFileFits
  <2>2. /\ CallFits(m)' /\ CopyFits(m)' /\ PastNow(m)' /\ stubs'[m] = stubs[m]
        /\ \A f \in Skills : ToMint(m, f)' => ToMint(m, f) /\ at[m] # "collect"
    BY <1>0, <2>1, GoesOnFits DEF GoesOn
  <2> QED
    BY <1>0, <1>1, <1>2, <1>3, <2>1, <2>2, RowsStep
<1>4. CASE M!Goto(m, "artifact")
  <2>1. "artifact" \in {"idle", "check"} \cup M!Past /\ "artifact" \in OnSkill
    BY DEF M!Past, OnSkill
  <2>2. CallTypes' /\ OnlyBy(m) /\ Moves(m, "artifact", left[m]) /\ M!At(m)' = M!At(m)
    BY <1>0, <1>4, <2>1, GotoFits
  <2>3. PastNow(m)' /\ \A f \in Skills : ToMint(m, f)' => ToMint(m, f) /\ at[m] # "collect"
    BY <1>0, <2>2, GotoMints
  <2>4. CallFits(m)' /\ CopyFits(m)' /\ stubs'[m] = stubs[m]
    BY <1>0, <2>2 DEF CallFits, CopyFits, Moves, OnArchive
  <2>5. CASE UNCHANGED skills
    BY <1>0, <1>1, <1>2, <2>2, <2>3, <2>4, <2>5, RowsStep
  <2>6. ASSUME NEW n \in {1, 2}, skills' = [skills EXCEPT ![M!At(m)] = @ + n],
               slips' \in Nat, slips <= slips', n = 2 => slips' = slips + 1
        PROVE  ImportInv'
    <3>1. /\ skills' \in [Skills -> Nat] /\ skills'[M!At(m)] = skills[M!At(m)] + n
          /\ \A f \in Skills \ {M!At(m)} : skills'[f] = skills[f]
      BY <1>0, <2>6 DEF CountTypes
    <3>2. CountTypes'
      BY <1>0, <1>1, <3>1, SlipsCount DEF CountTypes
    <3>3. M!NothingLost'
      BY <1>0, <1>1, LostStays
    <3>4. ASSUME ~overlapped, NEW f \in Skills PROVE MintedNow(m, f)' /\ MintFits(m, f)'
      <4>0. /\ MintFits(m, f) /\ skills[f] <= 1 + slips /\ skills[f] \in Nat /\ slips \in Nat
            /\ skills'[f] \in Nat
        BY <1>0, <3>1, <3>4 DEF ImportInv, OnceInv, MintedOnce, CountTypes
      <4>1. CASE f = M!At(m)
        <5>1. ToMint(m, f)
          BY <1>0, <4>1, AtLeft DEF ToMint, OnSkill
        <5>2. ~ToMint(m, f)'
          BY <2>1, <2>2, <4>1 DEF ToMint, Moves
        <5>3. skills'[f] <= 1 + slips'
          BY <2>6, <3>1, <4>0, <4>1, <5>1 DEF MintFits
        <5> QED
          BY <2>3, <5>2, <5>3 DEF MintedNow, MintFits
      <4>2. CASE f # M!At(m)
        <5>1. skills'[f] = skills[f] /\ disk' = disk /\ stubs'[m] = stubs[m]
          BY <1>0, <2>4, <3>1, <4>2
        <5>2. MintedNow(m, f)'
          BY <2>3, <2>6, <4>0, <5>1 DEF MintedNow
        <5>3. MintFits(m, f)'
          BY <2>3, <2>6, <4>0, <5>1 DEF MintFits
        <5> QED
          BY <5>2, <5>3
      <4> QED
        BY <4>1, <4>2
    <3> QED
      BY <1>0, <1>1, <2>2, <2>4, <3>2, <3>3, <3>4, PastStep
  <2>7. slips \in Nat /\ slips' \in Nat /\ slips <= slips'
    BY <1>0, <1>1, SlipsCount DEF CountTypes
  <2>8. CASE M!Minted(m, 1)
    BY <2>6, <2>7, <2>8 DEF M!Minted
  <2>9. CASE M!Minted(m, 2) /\ M!Fail
    BY <2>6, <2>7, <2>9 DEF M!Minted, M!Fail
  <2> QED
    BY <1>3, <2>5, <2>8, <2>9 DEF M!CommitSkill
<1> QED
  BY <1>3, <1>4 DEF M!CommitSkill

(* The stub replaces a file whose artifact is there.                       *)
LEMMA StubLosesNothing ==
  ASSUME ImportInv, NEW f \in Skills, rows[f] = "ours", NEW v \in {"empty", "stub"},
         disk' = [disk EXCEPT ![f] = v] \/ UNCHANGED disk, UNCHANGED <<archive, rows, overlapped>>
  PROVE  M!NothingLost' /\ disk' \in [M!Files -> {"full", "stub", "empty", "gone"}]
<1>1. Skills \subseteq M!Files /\ M!Docs \cap Skills = {} /\ M!Docs \subseteq M!Files
  BY MigrationAssumption DEF M!Files, M!ToSet, M!Docs
<1>2. /\ disk' \in [M!Files -> {"full", "stub", "empty", "gone"}]
      /\ \A g \in M!Files \ {f} : disk'[g] = disk[g]
  BY <1>1 DEF ImportInv, StoreTypes
<1>3. \A g \in Skills : disk'[g] # "full" => rows'[g] = "ours"
  BY <1>1, <1>2 DEF ImportInv, M!NothingLost
<1>4. \A g \in M!Docs : disk'[g] = "gone" => archive'[g] = "whole" \/ overlapped'
  BY <1>1, <1>2 DEF ImportInv, M!NothingLost
<1> QED
  BY <1>2, <1>3, <1>4 DEF M!NothingLost

LEMMA WriteStubKeeps ==
  ASSUME ImportInv, NEW m \in Calls, M!WriteStub(m)
  PROVE  ImportInv'
<1>0. /\ CallTypes /\ StoreTypes /\ CallFits(m) /\ at[m] = "stub" /\ at[m] \in OnSkill
      /\ left[m] # {} /\ PastNow(m) /\ M!At(m) \in Skills /\ rows[M!At(m)] = "ours"
      /\ UNCHANGED <<archive, rows, memories, skills, marker, overlapped>>
      /\ M!Fail \/ M!Fine
  BY DEF ImportInv, M!WriteStub, CallFits, PastNow, M!Past, OnSkill
<1>1. RowsGrow /\ rows' \in [M!Files -> {"none", "hook", "ours"}] /\ memories' \subseteq M!Docs
  BY <1>0 DEF StoreTypes, RowsGrow
<1>2. CASE M!NextFile(m) /\ UNCHANGED disk
  <2>1. CallTypes' /\ OnlyBy(m) /\ GoesOn(m)
    BY <1>0, <1>2, NextFileFits
  <2>2. /\ CallFits(m)' /\ CopyFits(m)' /\ PastNow(m)' /\ stubs'[m] = stubs[m]
        /\ \A f \in Skills : ToMint(m, f)' => ToMint(m, f) /\ at[m] # "collect"
    BY <1>0, <2>1, GoesOnFits DEF GoesOn
  <2> QED
    BY <1>0, <1>1, <1>2, <2>1, <2>2, RowsStep
<1>3. CASE disk' = [disk EXCEPT ![M!At(m)] = "empty"] /\ M!Goto(m, "stubbing")
  <2>1. "stubbing" \in {"idle", "check"} \cup M!Past /\ "stubbing" \in OnSkill
    BY DEF M!Past, OnSkill
  <2>2. CallTypes' /\ OnlyBy(m) /\ Moves(m, "stubbing", left[m]) /\ M!At(m)' = M!At(m)
    BY <1>0, <1>3, <2>1, GotoFits
  <2>3. PastNow(m)' /\ \A f \in Skills : ToMint(m, f)' => ToMint(m, f) /\ at[m] # "collect"
    BY <1>0, <2>1, <2>2, GotoMints
  <2>4. CallFits(m)' /\ CopyFits(m)' /\ stubs'[m] = stubs[m]
    BY <1>0, <2>2 DEF CallFits, CopyFits, Moves, OnArchive
  <2>5. M!NothingLost' /\ disk' \in [M!Files -> {"full", "stub", "empty", "gone"}]
    BY <1>0, <1>3, StubLosesNothing
  <2>6. StoreTypes' /\ CountTypes'
    BY <1>0, <1>1, <2>5, SlipsCount DEF ImportInv, StoreTypes, CountTypes
  <2>7. \A f \in Skills : disk'[f] = "stub" => disk[f] = "stub"
    BY <1>0, <1>3, MigrationAssumption DEF StoreTypes, M!Files, M!ToSet
  <2>8. ASSUME ~overlapped, NEW f \in Skills PROVE MintedNow(m, f)' /\ MintFits(m, f)'
    BY <1>0, <2>3, <2>4, <2>7, <2>8, MintStays
  <2> QED
    BY <1>0, <1>1, <2>2, <2>4, <2>5, <2>6, <2>8, PastStep
<1> QED
  BY <1>2, <1>3 DEF M!WriteStub

LEMMA StubWrittenKeeps ==
  ASSUME ImportInv, NEW m \in Calls, M!StubWritten(m)
  PROVE  ImportInv'
<1>0. /\ CallTypes /\ StoreTypes /\ CallFits(m) /\ at[m] = "stubbing" /\ at[m] \in OnSkill
      /\ left[m] # {} /\ PastNow(m) /\ M!At(m) \in Skills /\ rows[M!At(m)] = "ours"
      /\ UNCHANGED <<archive, rows, memories, skills, marker, overlapped>>
      /\ M!NextFile(m)
      /\ M!Fail \/ M!Fine
  BY DEF ImportInv, M!StubWritten, CallFits, PastNow, M!Past, OnSkill
<1>1. disk' = [disk EXCEPT ![M!At(m)] = "stub"] \/ UNCHANGED disk
  BY DEF M!StubWritten
<1>2. RowsGrow /\ rows' \in [M!Files -> {"none", "hook", "ours"}] /\ memories' \subseteq M!Docs
  BY <1>0 DEF StoreTypes, RowsGrow
<1>3. CallTypes' /\ OnlyBy(m) /\ GoesOn(m)
  BY <1>0, NextFileFits
<1>4. /\ CallFits(m)' /\ CopyFits(m)' /\ PastNow(m)' /\ stubs'[m] = stubs[m]
      /\ \A f \in Skills : ToMint(m, f)' => ToMint(m, f) /\ at[m] # "collect" /\ f # M!At(m)
  BY <1>0, <1>3, GoesOnFits DEF GoesOn
<1>5. M!NothingLost' /\ disk' \in [M!Files -> {"full", "stub", "empty", "gone"}]
  BY <1>0, <1>1, StubLosesNothing
<1>6. StoreTypes' /\ CountTypes'
  BY <1>0, <1>2, <1>5, SlipsCount DEF ImportInv, StoreTypes, CountTypes
<1>7. \A f \in Skills : disk'[f] = "stub" => disk[f] = "stub" \/ f = M!At(m)
  BY <1>0, <1>1, MigrationAssumption DEF StoreTypes, M!Files, M!ToSet
<1>8. ASSUME ~overlapped, NEW f \in Skills PROVE MintedNow(m, f)' /\ MintFits(m, f)'
  BY <1>0, <1>4, <1>7, <1>8, MintStays
<1> QED
  BY <1>0, <1>2, <1>3, <1>4, <1>5, <1>6, <1>8, PastStep

-----------------------------------------------------------------------------
(* The archive pass.                                                       *)
LEMMA ArchiveAt ==
  ASSUME ImportInv, NEW m \in Calls, at[m] \in OnArchive
  PROVE  /\ CallTypes /\ StoreTypes /\ CallFits(m) /\ PastNow(m) /\ left[m] \in SUBSET M!Docs
         /\ M!At(m) \in M!Docs /\ M!At(m) \in M!Files /\ M!Others(m) \in SUBSET M!Docs
         /\ left[m] # {} /\ Skills \subseteq M!Files /\ M!At(m) \notin Skills
<1>1. CallTypes /\ StoreTypes /\ CallFits(m)
  BY DEF ImportInv
<1>2. PastNow(m) /\ left[m] \in SUBSET M!Docs /\ left[m] # {}
  BY <1>1 DEF CallFits, PastNow, M!Past, OnArchive
<1>3. M!At(m) \in M!Docs /\ M!At(m) \in M!Files
  BY <1>1, <1>2, AtLeft
<1>4. M!Others(m) \in SUBSET M!Docs
  BY <1>2 DEF M!Others
<1> QED
  BY <1>1, <1>2, <1>3, <1>4, MigrationAssumption DEF M!Docs, M!Files, M!ToSet

(* A step of the archive pass moves one document, and no skill.            *)
LEMMA ArchiveStep ==
  ASSUME ImportInv, NEW m \in Calls, at[m] \in OnArchive, CallTypes', OnlyBy(m),
         UNCHANGED <<rows, memories, skills, overlapped, marker>>, stubs'[m] = stubs[m],
         disk' \in [M!Files -> {"full", "stub", "empty", "gone"}],
         archive' \in [M!Files -> {"none", "torn", "whole"}],
         \A f \in M!Files \ {M!At(m)} : disk'[f] = disk[f] /\ archive'[f] = archive[f],
         disk'[M!At(m)] = "gone" => archive'[M!At(m)] = "whole" \/ overlapped,
         M!Fail \/ M!Fine, CallFits(m)', PastNow(m)',
         ~overlapped => CopyFits(m)', \A f \in Skills : ~ToMint(m, f)'
  PROVE  ImportInv'
<1>0. /\ CallTypes /\ StoreTypes /\ CallFits(m) /\ PastNow(m) /\ M!At(m) \in M!Docs
      /\ Skills \subseteq M!Files /\ M!At(m) \notin Skills
  BY ArchiveAt
<1>1. RowsGrow /\ StoreTypes'
  BY <1>0 DEF StoreTypes, RowsGrow
<1>2. CountTypes'
  BY SlipsCount DEF ImportInv, CountTypes
<1>3. \A f \in Skills : disk'[f] = disk[f]
  BY <1>0
<1>4. M!NothingLost'
  <2>1. M!NothingLost
    BY DEF ImportInv
  <2>2. \A f \in Skills : disk'[f] # "full" => rows'[f] = "ours"
    BY <1>3, <2>1 DEF M!NothingLost
  <2>3. \A f \in M!Docs : disk'[f] = "gone" => archive'[f] = "whole" \/ overlapped'
    BY <2>1 DEF M!NothingLost, M!Docs
  <2> QED
    BY <2>2, <2>3 DEF M!NothingLost
<1>5. ASSUME ~overlapped, NEW f \in Skills PROVE MintedNow(m, f)' /\ MintFits(m, f)'
  BY <1>3, <1>5, MintStays
<1> QED
  BY <1>0, <1>1, <1>2, <1>4, <1>5, PastStep

LEMMA NoneToMint ==
  ASSUME NEW m \in Calls, at'[m] \in OnArchive \cup {"mark"}
  PROVE  \A f \in Skills : ~ToMint(m, f)'
  BY DEF ToMint, OnArchive, OnSkill

(* The archive pass goes to its next file.                                 *)
LEMMA NextArchived ==
  ASSUME ImportInv, NEW m \in Calls, at[m] \in OnArchive, M!Archiving(m, M!Others(m)),
         UNCHANGED <<rows, memories, skills, overlapped, marker>>,
         disk' \in [M!Files -> {"full", "stub", "empty", "gone"}],
         archive' \in [M!Files -> {"none", "torn", "whole"}],
         \A f \in M!Files \ {M!At(m)} : disk'[f] = disk[f] /\ archive'[f] = archive[f],
         disk'[M!At(m)] = "gone" => archive'[M!At(m)] = "whole" \/ overlapped,
         M!Fail \/ M!Fine
  PROVE  ImportInv'
<1>1. CallTypes' /\ OnlyBy(m) /\ GoesOn(m) /\ at'[m] # "ingest"
  BY ArchiveAt, ArchivingFits
<1>2. CallFits(m)' /\ CopyFits(m)' /\ PastNow(m)' /\ stubs'[m] = stubs[m]
  BY <1>1, ArchiveAt, GoesOnFits DEF GoesOn
<1>3. \A f \in Skills : ~ToMint(m, f)'
  BY <1>1, NoneToMint DEF GoesOn, OnArchive
<1> QED
  BY <1>1, <1>2, <1>3, ArchiveStep

(* What the archive holds of the file a call is at, while nothing is lost. *)
LEMMA AtIsKept ==
  ASSUME ImportInv, NEW m \in Calls, at[m] \in OnArchive
  PROVE  /\ disk[M!At(m)] = "gone" => archive[M!At(m)] = "whole" \/ overlapped
         /\ ~overlapped => CopyFits(m)
  BY ArchiveAt DEF ImportInv, M!NothingLost, OnceInv

LEMMA CopyFileKeeps ==
  ASSUME ImportInv, NEW m \in Calls, M!CopyFile(m)
  PROVE  ImportInv'
<1>0. /\ at[m] \in OnArchive
      /\ UNCHANGED <<disk, rows, memories, skills, marker, overlapped>>
      /\ M!Fail \/ M!Fine
  BY DEF M!CopyFile, OnArchive
<1>1. disk' \in [M!Files -> {"full", "stub", "empty", "gone"}]
  BY <1>0, ArchiveAt DEF StoreTypes
<1>2. CASE M!Archiving(m, M!Others(m)) /\ UNCHANGED archive
  <2>1. archive' \in [M!Files -> {"none", "torn", "whole"}]
    BY <1>0, <1>2, ArchiveAt DEF StoreTypes
  <2> QED
    BY <1>0, <1>1, <1>2, <2>1, AtIsKept, NextArchived
<1>3. CASE /\ disk[M!At(m)] # "gone" /\ archive' = [archive EXCEPT ![M!At(m)] = "torn"]
           /\ M!Goto(m, "copying")
  <2>1. "copying" \in {"idle", "check"} \cup M!Past
    BY DEF M!Past
  <2>2. CallTypes' /\ OnlyBy(m) /\ Moves(m, "copying", left[m]) /\ M!At(m)' = M!At(m)
    BY <1>0, <1>3, <2>1, ArchiveAt, GotoFits
  <2>3. /\ archive' \in [M!Files -> {"none", "torn", "whole"}]
        /\ \A f \in M!Files \ {M!At(m)} : archive'[f] = archive[f]
    BY <1>0, <1>3, ArchiveAt DEF StoreTypes
  <2>4. CallFits(m)' /\ CopyFits(m)' /\ PastNow(m)' /\ stubs'[m] = stubs[m]
    BY <1>0, <1>3, <2>2, ArchiveAt DEF CallFits, CopyFits, PastNow, M!Past, Moves, OnSkill
  <2>5. \A f \in Skills : ~ToMint(m, f)'
    BY <2>2, NoneToMint DEF Moves, OnArchive
  <2> QED
    BY <1>0, <1>1, <1>3, <2>2, <2>3, <2>4, <2>5, ArchiveStep
<1> QED
  BY <1>2, <1>3 DEF M!CopyFile

LEMMA CopyEndsKeeps ==
  ASSUME ImportInv, NEW m \in Calls, M!CopyEnds(m)
  PROVE  ImportInv'
<1>0. /\ at[m] \in OnArchive /\ at[m] = "copying"
      /\ UNCHANGED <<disk, rows, memories, skills, marker, overlapped>>
      /\ M!Fail \/ M!Fine
  BY DEF M!CopyEnds, OnArchive
<1>1. disk' \in [M!Files -> {"full", "stub", "empty", "gone"}]
  BY <1>0, ArchiveAt DEF StoreTypes
<1>2. PICK v \in {"whole", "none"} :
        /\ archive' = [archive EXCEPT ![M!At(m)] = v]
        /\ v = "whole" => M!Goto(m, "copied")
        /\ v = "none" => M!Archiving(m, M!Others(m))
  BY DEF M!CopyEnds
<1>3. /\ archive' \in [M!Files -> {"none", "torn", "whole"}] /\ archive'[M!At(m)] = v
      /\ \A f \in M!Files \ {M!At(m)} : archive'[f] = archive[f]
  BY <1>0, <1>2, ArchiveAt DEF StoreTypes
<1>4. CASE v = "none"
  <2>1. disk'[M!At(m)] = "gone" => overlapped
    BY <1>0, AtIsKept DEF CopyFits
  <2> QED
    BY <1>0, <1>1, <1>2, <1>3, <1>4, <2>1, NextArchived
<1>5. CASE v = "whole"
  <2>1. "copied" \in {"idle", "check"} \cup M!Past
    BY DEF M!Past
  <2>2. CallTypes' /\ OnlyBy(m) /\ Moves(m, "copied", left[m]) /\ M!At(m)' = M!At(m)
    BY <1>0, <1>2, <1>5, <2>1, ArchiveAt, GotoFits
  <2>4. CallFits(m)' /\ CopyFits(m)' /\ PastNow(m)' /\ stubs'[m] = stubs[m]
    BY <1>0, <1>3, <1>5, <2>2, ArchiveAt DEF CallFits, CopyFits, PastNow, M!Past, Moves, OnSkill
  <2>5. \A f \in Skills : ~ToMint(m, f)'
    BY <2>2, NoneToMint DEF Moves, OnArchive
  <2> QED
    BY <1>0, <1>1, <1>3, <1>5, <2>2, <2>4, <2>5, ArchiveStep
<1> QED
  BY <1>4, <1>5

LEMMA UnlinkKeeps ==
  ASSUME ImportInv, NEW m \in Calls, M!Unlink(m)
  PROVE  ImportInv'
<1>0. /\ at[m] \in OnArchive /\ at[m] = "copied" /\ M!Archiving(m, M!Others(m))
      /\ UNCHANGED <<archive, rows, memories, skills, marker, overlapped>>
      /\ M!Fail \/ M!Fine
  BY DEF M!Unlink, M!Copied, OnArchive
<1>1. /\ disk' \in [M!Files -> {"full", "stub", "empty", "gone"}]
      /\ \A f \in M!Files \ {M!At(m)} : disk'[f] = disk[f]
  BY <1>0, ArchiveAt DEF StoreTypes, M!Unlink
<1>2. archive' \in [M!Files -> {"none", "torn", "whole"}]
  BY <1>0, ArchiveAt DEF StoreTypes
<1>3. archive'[M!At(m)] = "whole" \/ overlapped
  BY <1>0, AtIsKept DEF CopyFits
<1> QED
  BY <1>0, <1>1, <1>2, <1>3, NextArchived

-----------------------------------------------------------------------------
(* The beginning and the end of a call, and the death of the daemon.       *)
LEMMA CollectKeeps ==
  ASSUME ImportInv, NEW m \in Calls, M!Collect(m)
  PROVE  ImportInv'
<1>0. /\ CallTypes /\ StoreTypes /\ at[m] = "collect" /\ PastNow(m)
      /\ UNCHANGED <<disk, archive, rows, memories, skills, marker, overlapped>>
  BY DEF ImportInv, M!Collect, M!stores, PastNow, M!Past
<1>1. PICK got \in SUBSET M!Files :
        /\ files' = [files EXCEPT ![m] = got] /\ left' = [left EXCEPT ![m] = got]
        /\ at' = [at EXCEPT ![m] = IF got = {} THEN "idle" ELSE "ingest"]
        /\ M!Fail \/ M!Fine
  <2>1. PICK unread \in SUBSET M!Files :
          LET here == {f \in M!Files : disk[f] \notin {"gone", "empty"}} \ unread
          IN  /\ IF unread = {} THEN UNCHANGED slips ELSE M!Fail
              /\ files' = [files EXCEPT ![m] = here] /\ left' = [left EXCEPT ![m] = here]
              /\ at' = [at EXCEPT ![m] = IF here = {} THEN "idle" ELSE "ingest"]
    BY DEF M!Collect
  <2>2. M!Fail \/ M!Fine
    BY <2>1 DEF M!Fine
  <2> QED
    BY <2>1, <2>2
<1>2. stubs' = [stubs EXCEPT ![m] = {f \in Skills : disk[f] = "stub"}]
  BY DEF M!Collect
<1>3. {"idle", "ingest"} \subseteq {"idle", "check"} \cup M!Past
  BY DEF M!Past
<1>4. /\ CallTypes' /\ OnlyBy(m) /\ left'[m] = got
      /\ stubs'[m] = {f \in Skills : disk[f] = "stub"}
      /\ at'[m] \in {"idle", "ingest"} /\ (at'[m] = "ingest" => got # {})
  BY <1>0, <1>1, <1>2, <1>3 DEF CallTypes, OnlyBy
<1>5. RowsGrow /\ StoreTypes' /\ M!NothingLost'
  BY <1>0, LostStays DEF RowsGrow, StoreTypes
<1>6. CountTypes' /\ slips <= slips'
  BY <1>0, <1>1, SlipsCount DEF ImportInv, CountTypes
<1>7. CallFits(m)' /\ CopyFits(m)'
  BY <1>4 DEF CallFits, CopyFits, OnSkill, OnArchive
<1>8. ASSUME ~overlapped, NEW f \in Skills PROVE MintedNow(m, f)' /\ MintFits(m, f)'
  <2>1. MintFits(m, f) /\ ToMint(m, f)
    BY <1>0, <1>8 DEF ImportInv, OnceInv, ToMint
  <2>2. skills'[f] <= slips' /\ skills'[f] \in Nat /\ slips' \in Nat
    BY <1>0, <1>6, <2>1 DEF MintFits, ImportInv, CountTypes
  <2>3. disk'[f] = "stub" => f \in stubs'[m]
    BY <1>0, <1>4
  <2> QED
    BY <2>2, <2>3 DEF MintedNow, MintFits
<1> QED
  BY <1>0, <1>4, <1>5, <1>6, <1>7, <1>8, PastStep

LEMMA MarkKeeps ==
  ASSUME ImportInv, NEW m \in Calls, M!Mark(m)
  PROVE  ImportInv'
<1>0. /\ CallTypes /\ StoreTypes /\ at[m] = "mark" /\ PastNow(m) /\ M!Goto(m, "idle")
      /\ UNCHANGED <<disk, archive, rows, memories, skills, overlapped>>
      /\ (marker' = TRUE /\ M!Fine) \/ (M!Fail /\ UNCHANGED marker)
  BY DEF ImportInv, M!Mark, PastNow, M!Past
<1>1. CallTypes' /\ OnlyBy(m) /\ Moves(m, "idle", left[m])
  BY <1>0, GotoFits
<1>2. RowsGrow /\ StoreTypes' /\ M!NothingLost'
  BY <1>0, LostStays DEF RowsGrow, StoreTypes
<1>3. CountTypes'
  BY <1>0, SlipsCount DEF ImportInv, CountTypes
<1>4. CallFits(m)' /\ CopyFits(m)'
  BY <1>1 DEF Moves, CallFits, CopyFits, OnSkill, OnArchive
<1>5. ASSUME ~overlapped, NEW f \in Skills PROVE MintedNow(m, f)' /\ MintFits(m, f)'
  <2>1. ~ToMint(m, f)'
    BY <1>1 DEF Moves, ToMint, OnSkill
  <2>2. skills[f] <= 1 + slips /\ skills[f] \in Nat /\ slips \in Nat
    BY <1>5 DEF ImportInv, OnceInv, MintedOnce, CountTypes
  <2>3. skills' = skills /\ (marker' \/ slips' = slips + 1) /\ slips <= slips'
    BY <1>0, <2>2 DEF M!Fail, M!Fine
  <2>4. slips' \in Nat
    BY <1>3 DEF CountTypes
  <2> QED
    BY <2>1, <2>2, <2>3, <2>4 DEF MintedNow, MintFits
<1> QED
  BY <1>0, <1>1, <1>2, <1>3, <1>4, <1>5, PastStep

(* A step that moves no file, while no call that it concerns is past the   *)
(* check.                                                                  *)
LEMMA EntryKeeps ==
  ASSUME ImportInv, NEW m \in Calls, M!Call(m) \/ M!Check(m)
  PROVE  ImportInv'
<1>0. /\ CallTypes /\ StoreTypes /\ CountTypes /\ at[m] \in {"idle", "check"} /\ ~PastNow(m)
      /\ UNCHANGED <<disk, archive, rows, memories, skills, marker>>
  BY DEF ImportInv, M!Call, M!Check, M!stores, PastNow, M!Past
<1>1. PICK s \in {"idle", "check", "collect"} : M!Goto(m, s)
  BY DEF M!Call, M!Check
<1>2. s \in {"idle", "check"} \cup M!Past
  BY DEF M!Past
<1>3. CallTypes' /\ OnlyBy(m) /\ Moves(m, s, left[m])
  BY <1>0, <1>1, <1>2, GotoFits
<1>4. /\ overlapped' \in BOOLEAN /\ (M!Fail \/ M!Fine) /\ (overlapped => overlapped')
      /\ ~overlapped' /\ s = "collect" =>
           /\ \A n \in Calls \ {m} : ~PastNow(n)
           /\ ~marker \/ slips' = slips + 1
  <2>1. CASE M!Call(m)
    <3>1. M!Goto(m, "check") /\ overlapped' = overlapped /\ slips' = slips
      BY <2>1 DEF M!Call
    <3>2. at'[m] = "check"
      BY <1>0, <3>1 DEF M!Goto, CallTypes
    <3>3. s # "collect"
      BY <1>3, <3>2 DEF Moves
    <3> QED
      BY <1>0, <3>1, <3>3 DEF StoreTypes, M!Fine
  <2>2. CASE M!Check(m) /\ M!Goto(m, "idle") /\ M!Fine /\ UNCHANGED overlapped
    <3>1. s # "collect"
      BY <1>0, <1>3, <2>2 DEF M!Goto, CallTypes, Moves
    <3> QED
      BY <1>0, <2>2, <3>1 DEF StoreTypes
  <2>3. CASE /\ (~M!Migrated /\ M!Fine) \/ (marker /\ M!Fail)
             /\ overlapped' = (overlapped \/ \E n \in Calls \ {m} : at[n] \in M!Past)
    BY <1>0, <2>3 DEF StoreTypes, M!Migrated, M!Fail, PastNow
  <2> QED
    BY <2>1, <2>2, <2>3 DEF M!Check
<1>5. CountTypes' /\ slips <= slips' /\ slips \in Nat /\ slips' \in Nat
  BY <1>0, <1>4, SlipsCount DEF CountTypes
<1>6. StoreTypes'
  BY <1>0, <1>4 DEF StoreTypes
<1>7. M!NothingLost'
  <2>1. M!NothingLost
    BY DEF ImportInv
  <2> QED
    BY <1>0, <1>4, <2>1 DEF M!NothingLost
<1>8. ASSUME NEW n \in Calls PROVE CallFits(n)'
  <2>1. CASE n = m
    BY <1>3, <2>1 DEF Moves, CallFits, OnSkill, OnArchive
  <2>2. CASE n # m
    <3>1. CallFits(n) /\ at'[n] = at[n] /\ left'[n] = left[n] /\ M!At(n)' = M!At(n)
      BY <1>3, <2>2, AtStays DEF ImportInv, OnlyBy
    <3> QED
      BY <1>0, <3>1 DEF CallFits
  <2> QED
    BY <2>1, <2>2
<1>9. ASSUME ~overlapped' PROVE OnceInv'
  <2>0. OnceInv
    BY <1>4, <1>9 DEF ImportInv
  <2>1. \A n \in Calls \ {m} : PastNow(n)' <=> PastNow(n)
    BY <1>3 DEF OnlyBy, PastNow
  <2>2. PastNow(m)' => s = "collect"
    BY <1>3 DEF Moves, PastNow, M!Past
  <2>3. Alone'
    BY <1>4, <1>9, <2>0, <2>1, <2>2 DEF OnceInv, Alone
  <2>4. ASSUME NEW n \in Calls PROVE CopyFits(n)'
    <3>1. CASE n = m
      BY <1>3, <3>1 DEF Moves, CopyFits
    <3>2. CASE n # m
      <4>1. CopyFits(n) /\ at'[n] = at[n] /\ M!At(n)' = M!At(n)
        BY <1>3, <2>0, <3>2, AtStays DEF OnlyBy, OnceInv
      <4> QED
        BY <1>0, <4>1 DEF CopyFits
    <3> QED
      BY <3>1, <3>2
  <2>5. ASSUME NEW f \in Skills
        PROVE  /\ skills[f] \in Nat /\ skills' = skills /\ skills[f] <= 1 + slips
               /\ s = "collect" => skills[f] <= slips'
    <3>1. skills[f] \in Nat /\ skills' = skills /\ MintedOnce(f)
      BY <1>0, <2>0 DEF CountTypes, OnceInv
    <3>2. s = "collect" /\ ~marker => skills[f] <= slips
      BY <1>0, <1>4, <1>9, <3>1 DEF MintedOnce
    <3>3. s = "collect" /\ marker => skills[f] <= slips'
      BY <1>4, <1>5, <1>9, <3>1 DEF MintedOnce
    <3> QED
      BY <1>5, <3>1, <3>2, <3>3 DEF MintedOnce
  <2>6. ASSUME NEW f \in Skills PROVE MintedOnce(f)'
    <3>1. skills'[f] <= 1 + slips'
      BY <1>5, <2>5
    <3>2. CASE s = "collect"
      BY <1>5, <2>5, <3>1, <3>2 DEF MintedOnce
    <3>3. CASE s # "collect"
      <4>1. (\A n \in Calls : ~PastNow(n)') => \A n \in Calls : ~PastNow(n)
        BY <1>0, <2>1
      <4>2. MintedOnce(f) /\ marker' = marker
        BY <1>0, <2>0 DEF OnceInv
      <4> QED
        BY <1>5, <2>5, <3>1, <4>1, <4>2 DEF MintedOnce
    <3> QED
      BY <3>2, <3>3
  <2>7. ASSUME NEW f \in Skills, NEW n \in Calls PROVE MintFits(n, f)'
    <3>1. CASE n = m
      <4>1. ToMint(m, f)' => s = "collect" /\ at'[m] = "collect"
        BY <1>3 DEF Moves, ToMint, OnSkill
      <4> QED
        BY <2>5, <3>1, <4>1 DEF MintFits
    <3>2. CASE n # m
      <4>1. /\ MintFits(n, f) /\ at'[n] = at[n] /\ left'[n] = left[n] /\ stubs'[n] = stubs[n]
            /\ M!At(n)' = M!At(n)
        BY <1>3, <2>0, <3>2, AtStays DEF OnlyBy, OnceInv
      <4>2. ToMint(n, f)' <=> ToMint(n, f)
        BY <4>1 DEF ToMint
      <4>3. skills'[f] = skills[f] /\ disk'[f] = disk[f] /\ skills[f] \in Nat
        BY <1>0, <2>5
      <4> QED
        BY <1>5, <4>1, <4>2, <4>3 DEF MintFits
    <3> QED
      BY <3>1, <3>2
  <2> QED
    BY <2>3, <2>4, <2>6, <2>7 DEF OnceInv
<1> QED
  BY <1>3, <1>5, <1>6, <1>7, <1>8, <1>9 DEF ImportInv

LEMMA CrashKeeps ==
  ASSUME ImportInv, M!Crash
  PROVE  ImportInv'
<1>0. /\ StoreTypes /\ CountTypes /\ M!Fail /\ \A m \in Calls : at'[m] = "idle"
      /\ UNCHANGED <<disk, archive, rows, memories, skills, marker, overlapped>>
  BY DEF ImportInv, M!Crash, M!stores
<1>1. CallTypes'
  BY DEF M!Crash, CallTypes
<1>2. StoreTypes' /\ RowsGrow /\ M!NothingLost'
  BY <1>0, LostStays DEF StoreTypes, RowsGrow
<1>3. CountTypes' /\ slips' = slips + 1 /\ slips \in Nat
  BY <1>0, SlipsCount DEF CountTypes, M!Fail
<1>4. \A m \in Calls : CallFits(m)' /\ CopyFits(m)' /\ ~PastNow(m)' /\ \A f \in Skills : ~ToMint(m, f)'
  BY <1>0 DEF CallFits, CopyFits, PastNow, M!Past, ToMint, OnSkill, OnArchive
<1>5. ASSUME ~overlapped, NEW f \in Skills PROVE MintedOnce(f)'
  <2>1. skills[f] <= 1 + slips /\ skills[f] \in Nat /\ skills' = skills
    BY <1>0, <1>5 DEF ImportInv, OnceInv, MintedOnce, CountTypes
  <2> QED
    BY <1>3, <2>1 DEF MintedOnce
<1>6. ASSUME ~overlapped PROVE OnceInv'
  BY <1>4, <1>5, <1>6 DEF OnceInv, Alone, MintFits
<1> QED
  BY <1>0, <1>1, <1>2, <1>3, <1>4, <1>6 DEF ImportInv

-----------------------------------------------------------------------------
(* A skill is made only of a file that the call has not read as a stub;    *)
(* and a call that has yet to make one knows every stub.                   *)
LEMMA StubsMakeNoSkill ==
  ASSUME ImportInv, M!Next, ~overlapped', NEW f \in Skills, disk[f] = "stub"
  PROVE  skills'[f] = skills[f]
<1>1. CASE UNCHANGED skills
  BY <1>1
<1>2. ASSUME NEW m \in Calls, M!CommitSkill(m) PROVE skills'[f] = skills[f]
  <2>0. /\ CallTypes /\ CountTypes /\ CallFits(m) /\ at[m] = "ingest" /\ left[m] # {}
        /\ M!At(m) \in Skills /\ M!At(m) \notin stubs[m] /\ ~overlapped
    BY <1>2 DEF ImportInv, M!CommitSkill, M!IsSkillStub, CallFits
  <2>1. CASE f = M!At(m)
    <3>1. ToMint(m, f) /\ MintFits(m, f)
      BY <2>0, <2>1, AtLeft DEF ToMint, OnSkill, ImportInv, OnceInv
    <3> QED
      BY <2>0, <2>1, <3>1 DEF MintFits
  <2>2. CASE f # M!At(m)
    BY <1>2, <2>0, <2>2 DEF M!CommitSkill, M!Minted, CountTypes
  <2> QED
    BY <2>1, <2>2
<1>3. (\E m \in Calls : M!CommitSkill(m)) \/ UNCHANGED skills
  BY DEF M!Next, M!stores, M!Crash, M!Call, M!Check, M!Collect, M!IngestDoc, M!IngestMemories,
         M!LeaveStub, M!CreateArtifact, M!WriteStub, M!StubWritten, M!CopyFile, M!CopyEnds,
         M!Unlink, M!Mark
<1> QED
  BY <1>1, <1>2, <1>3

LEMMA ImportStarts == M!Init => ImportInv
<1> SUFFICES ASSUME M!Init PROVE ImportInv
  OBVIOUS
<1>1. Skills \subseteq M!Files
  BY MigrationAssumption DEF M!Files, M!ToSet
<1>2. CallTypes
  BY DEF M!Init, CallTypes
<1>3. StoreTypes
  BY DEF M!Init, StoreTypes
<1>4. CountTypes
  BY MigrationAssumption DEF M!Init, CountTypes
<1>5. M!NothingLost
  BY <1>1 DEF M!Init, M!NothingLost, M!Docs
<1>6. \A m \in Calls : CallFits(m) /\ CopyFits(m) /\ ~PastNow(m) /\ \A f \in Skills : ~ToMint(m, f)
  BY DEF M!Init, CallFits, CopyFits, PastNow, M!Past, ToMint, OnSkill, OnArchive
<1>7. \A f \in Skills : skills[f] = 0 /\ slips = 0
  BY DEF M!Init
<1>8. OnceInv
  BY <1>6, <1>7 DEF OnceInv, Alone, MintedOnce, MintFits
<1> QED
  BY <1>2, <1>3, <1>4, <1>5, <1>6, <1>8 DEF ImportInv

LEMMA ImportStutters ==
  ASSUME ImportInv, UNCHANGED M!vars
  PROVE  ImportInv'
<1>1. UNCHANGED <<disk, archive, rows, memories, skills, marker, at, files, left, stubs,
                  overlapped, slips>>
  BY DEF M!vars, M!stores, M!call
<1>2. CallTypes' /\ StoreTypes' /\ CountTypes'
  BY <1>1 DEF ImportInv, CallTypes, StoreTypes, CountTypes
<1>3. M!NothingLost'
  BY <1>1 DEF ImportInv, M!NothingLost
<1>4. ASSUME NEW m \in Calls
      PROVE  /\ CallFits(m)' /\ (CopyFits(m) => CopyFits(m)') /\ (PastNow(m)' <=> PastNow(m))
             /\ \A f \in Skills : MintFits(m, f) => MintFits(m, f)'
  <2>1. M!At(m)' = M!At(m)
    BY <1>1, AtStays
  <2> QED
    BY <1>1, <2>1 DEF ImportInv, CallFits, CopyFits, PastNow, MintFits, ToMint
<1>5. (\A f \in Skills : MintedOnce(f)) => \A f \in Skills : MintedOnce(f)'
  BY <1>1, <1>4 DEF MintedOnce
<1>6. OnceInv => OnceInv'
  BY <1>4, <1>5 DEF OnceInv, Alone
<1> QED
  BY <1>1, <1>2, <1>3, <1>4, <1>6 DEF ImportInv

LEMMA ImportSteps ==
  ASSUME ImportInv, [M!Next]_(M!vars)
  PROVE  ImportInv'
<1>1. CASE UNCHANGED M!vars
  BY <1>1, ImportStutters
<1>2. CASE M!Crash
  BY <1>2, CrashKeeps
<1>3. ASSUME NEW m \in Calls,
             M!Call(m) \/ M!Check(m) \/ M!Collect(m) \/ M!IngestDoc(m) \/ M!IngestMemories(m)
             \/ M!LeaveStub(m) \/ M!CommitSkill(m) \/ M!CreateArtifact(m)
      PROVE  ImportInv'
  BY <1>3, EntryKeeps, CollectKeeps, IngestDocKeeps, PassesOnKeeps, CommitSkillKeeps,
     CreateArtifactKeeps
<1>4. ASSUME NEW m \in Calls,
             M!WriteStub(m) \/ M!StubWritten(m) \/ M!CopyFile(m) \/ M!CopyEnds(m)
             \/ M!Unlink(m) \/ M!Mark(m)
      PROVE  ImportInv'
  BY <1>4, WriteStubKeeps, StubWrittenKeeps, CopyFileKeeps, CopyEndsKeeps, UnlinkKeeps, MarkKeeps
<1> QED
  BY <1>1, <1>2, <1>3, <1>4 DEF M!Next

-----------------------------------------------------------------------------
(* Both parts together: a step of one leaves the other alone.              *)
LEMMA StepsAreSteps ==
  ASSUME [UpkeepNext]_UpkeepVars
  PROVE  [Next]_vars /\ [M!Next]_(M!vars)
<1>1. CASE UNCHANGED UpkeepVars
  BY <1>1 DEF UpkeepVars, migrationVars, M!vars, M!stores, M!call
<1>2. CASE \E d \in Daemons :
             \/ LifeOf(d, Boot(d)) \/ LifeOf(d, SessionStart(d)) \/ LifeOf(d, RetryTimer(d))
             \/ LifeOf(d, HeavyTimer(d)) \/ LifeOf(d, Restart(d))
             \/ Weekly(Gate(d)) \/ Weekly(List(d)) \/ Weekly(Search(d)) \/ Weekly(Merge(d))
             \/ Weekly(Finish(d)) \/ Weekly(Record(d)) \/ Weekly(Throws(d)) \/ Weekly(Dies(d))
  <2>1. /\ UNCHANGED M!vars
        /\ \E d \in Daemons : Life(d) \/ Job(d) \/ Throws(d) \/ Dies(d)
    BY <1>2 DEF LifeOf, Weekly, Job, migrationVars, M!vars, M!stores, M!call
  <2> QED
    BY <2>1 DEF Next
<1>3. CASE \/ Weekly(Availability /\ Outage) \/ Weekly(Availability /\ StoreReturns) \/ Weekly(Day)
           \/ \E r \in Rows : Weekly(Create(r)) \/ Weekly(Resolve(r))
  <2>1. /\ UNCHANGED M!vars
        /\ Availability \/ Day \/ \E r \in Rows : Create(r) \/ Resolve(r)
    BY <1>3 DEF Weekly, migrationVars, M!vars, M!stores, M!call
  <2> QED
    BY <2>1 DEF Next
<1>4. CASE \/ \E m \in Calls :
                \/ Import(M!Call(m)) \/ Import(M!Check(m)) \/ Import(M!Collect(m))
                \/ Import(M!IngestDoc(m)) \/ Import(M!IngestMemories(m)) \/ Import(M!LeaveStub(m))
                \/ Import(M!CommitSkill(m)) \/ Import(M!CreateArtifact(m))
                \/ Import(M!WriteStub(m)) \/ Import(M!StubWritten(m))
                \/ Import(M!CopyFile(m)) \/ Import(M!CopyEnds(m)) \/ Import(M!Unlink(m))
                \/ Import(M!Mark(m))
           \/ Import(M!Crash)
  BY <1>4 DEF Import, M!Next
<1> QED
  BY <1>1, <1>2, <1>3, <1>4 DEF UpkeepNext

(* The invariant of the weekly consolidation holds at all times.           *)
THEOREM WeeklyInvariant == UpkeepSpec => []WeeklyInv
<1>1. UpkeepInit => WeeklyInv
  BY WeeklyStarts DEF UpkeepInit
<1>2. WeeklyInv /\ [UpkeepNext]_UpkeepVars => WeeklyInv'
  BY StepsAreSteps, WeeklySteps
<1> QED
  BY <1>1, <1>2, PTL DEF UpkeepSpec

(* The invariant of the migration holds at all times.                      *)
THEOREM ImportInvariant == UpkeepSpec => []ImportInv
<1>1. UpkeepInit => ImportInv
  BY ImportStarts DEF UpkeepInit
<1>2. ImportInv /\ [UpkeepNext]_UpkeepVars => ImportInv'
  BY StepsAreSteps, ImportSteps
<1> QED
  BY <1>1, <1>2, PTL DEF UpkeepSpec

(* A family of reflections never loses its last row: whatever passes       *)
(* archive, at once, cut off or repeated, who follows superseded_by comes  *)
(* to an active row (surreal.ts, consolidateMemories).                     *)
THEOREM FamiliesStand == UpkeepSpec => []FamilyStands
  BY WeeklyInvariant, WeeklyStands, PTL

(* Nothing a workspace file held is lost, whatever fails and whenever the  *)
(* daemon dies (workspace-migrate.ts, writeSkillStub and archiveFiles).    *)
THEOREM FilesAreKept == UpkeepSpec => []NothingLost
<1>1. ImportInv => NothingLost
  BY DEF ImportInv, NothingLost
<1> QED
  BY <1>1, ImportInvariant, PTL

(* Calls that do not overlap make a skill of a SKILL.md once, but for one  *)
(* more per fault, and none of a stub (workspace-migrate.ts, isSkillStub). *)
THEOREM SkillsAreMadeOnce == UpkeepSpec => MigratesOnce
<1> DEFINE Once == ~overlapped' => \A f \in Skills :
                     /\ skills'[f] <= 1 + slips'
                     /\ disk[f] = "stub" => skills'[f] = skills[f]
<1>1. ImportInv /\ ImportInv' /\ [UpkeepNext]_UpkeepVars => [Once]_(M!vars)
  <2> SUFFICES ASSUME ImportInv, ImportInv', [UpkeepNext]_UpkeepVars PROVE [Once]_(M!vars)
    OBVIOUS
  <2>1. CASE UNCHANGED M!vars
    BY <2>1
  <2>2. CASE M!Next
    <3>1. ASSUME ~overlapped', NEW f \in Skills
          PROVE  skills'[f] <= 1 + slips' /\ (disk[f] = "stub" => skills'[f] = skills[f])
      BY <2>2, <3>1, StubsMakeNoSkill DEF ImportInv, OnceInv, MintedOnce
    <3> QED
      BY <3>1
  <2> QED
    BY <2>1, <2>2, StepsAreSteps
<1> QED
  BY <1>1, ImportInvariant, PTL DEF UpkeepSpec, MigratesOnce, M!MigratesOnce

(* The variables of both parts have their types.                           *)
THEOREM UpkeepIsTyped == UpkeepSpec => []UpkeepTypeOK
<1>1. WeeklyInv /\ ImportInv => UpkeepTypeOK
  BY WeeklyTypeOK DEF ImportInv, CallTypes, StoreTypes, CountTypes, UpkeepTypeOK, M!TypeOK
<1> QED
  BY <1>1, WeeklyInvariant, ImportInvariant, PTL
=============================================================================
