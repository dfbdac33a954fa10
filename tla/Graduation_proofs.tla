-------------------------- MODULE Graduation_proofs --------------------------
(* Proofs about the work that changes the agent: concurrent drains lose    *)
(* nothing of the soul they have not read, its copy in Tier 0 follows it,  *)
(* it is celebrated once, and a causal chain becomes a skill once and is   *)
(* never stranded.                                                         *)
EXTENDS Graduation, FiniteSetTheorems, TLAPS

-----------------------------------------------------------------------------
(* The variables by what they are about.                                   *)
RowTypes ==
  /\ kind \in [Items -> Work] /\ kind \in Kinds
  /\ row \in [Items -> {"open", "processing", "committing", "done"}]
  /\ token \in [Items -> Runs \cup {None}] /\ carried \in [Items -> SUBSET Chains]
  /\ rescue \in [Items -> {"none", "seen", "released"}] /\ noted \in [Items -> SUBSET Chains]
  /\ usurped \subseteq Items /\ faults \in 0..MaxFaults
RunTypes == item \in [Runs -> Items \cup {None}] /\ pc \in [Runs -> Steps]
SoulTypes ==
  /\ alive \in BOOLEAN /\ doc \in Docs
  /\ seen \in [Runs -> Docs] /\ snap \in [Runs -> Docs] /\ subm \in [Runs -> Docs]
  /\ attempt \in [Runs -> 0..MaxAttempts]
  /\ events \in Nat /\ resent \in Nat /\ blurred \in BOOLEAN
CoreRows == [by : Entries, sect : Sections, text : SUBSET Entries]
CopyTypes ==
  /\ core \in SUBSET CoreRows /\ listed \in [Runs -> SUBSET CoreRows]
  /\ view \in [Runs -> Docs] /\ copied \in [Runs -> SUBSET Sections]
ChainTypes ==
  /\ stamped \in SUBSET Chains /\ lost \in SUBSET Chains
  /\ cand \in [Runs -> SUBSET Chains] /\ won \in [Runs -> SUBSET Chains]
  /\ own \in [Runs -> SUBSET Chains]
  /\ made \in [Chains -> Nat] /\ reopened \in [Chains -> Nat]

(* Where a run may be with an item of its kind.                            *)
OnChains == {"group", "select", "claim", "persist", "skills", "unstamp"}
OnSoul == {"build", "probe", "create", "read", "update", "view", "list", "copy", "event"}
Fits(r) ==
  /\ pc[r] # "new" => item[r] \in Items
  /\ pc[r] \in OnChains => kind[item[r]] = "chains"
  /\ pc[r] \in OnSoul => kind[item[r]] # "chains"
  /\ pc[r] \in {"probe", "create", "event"} => kind[item[r]] = "generate"
  /\ pc[r] \in {"read", "update"} => kind[item[r]] = "evolve"
  /\ won[r] # {} => /\ pc[r] \in {"persist", "agent", "check", "skills", "unstamp", "mark"}
                    /\ kind[item[r]] = "chains"
BeforeRevision == {"new", "build", "group", "select", "claim", "persist", "agent", "check"}
Attempts(r) ==
  /\ pc[r] \in BeforeRevision => attempt[r] = 0
  /\ pc[r] = "read" => attempt[r] < MaxAttempts

BaseInv ==
  /\ RowTypes /\ RunTypes /\ SoulTypes /\ CopyTypes /\ ChainTypes
  /\ \A r \in Runs : Fits(r) /\ Attempts(r)
  /\ ~alive => doc = Nothing /\ \A r \in Runs : pc[r] # "update"

-----------------------------------------------------------------------------
(* The copy.  A row of a run is there only once the run has copied it, and *)
(* of every section one row is safe from all who have copied the section   *)
(* and have yet to archive what they listed before.                        *)
Copied(r, s) == (pc[r] = "copy" /\ s \in copied[r]) \/ pc[r] \in {"event", "mark", "end"}
Authored(x) == x.by \in Runs => Copied(x.by, x.sect)
Safe(x) == \A r \in Runs : x.sect \in copied[r] => x \notin listed[r]
CopyInv ==
  /\ \A r \in Runs : pc[r] # "copy" => copied[r] = {}
  /\ \A x \in core : Authored(x) /\ doc[x.sect] # {}
  /\ \A r \in Runs : /\ \A x \in listed[r] : Authored(x)
                     /\ \A s \in Sections : view[r][s] # {} => doc[s] # {}
  /\ \A s \in Sections : Has(s) => \E x \in core : x.sect = s /\ Safe(x)

(* Without a failure and without two at a time, who copies has seen the    *)
(* last revision, unless another run has one to copy, and what is in Tier  *)
(* 0 is what it has listed and what it has copied.                         *)
Copies(r) == pc[r] \in {"list", "copy"}
Views == \E r \in Runs : pc[r] = "view"
Matches(s) == {x.text : x \in {y \in core : y.sect = s}} = IF doc[s] = {} THEN {} ELSE {doc[s]}
FollowInv ==
  ~blurred =>
    /\ \A r, q \in Runs : Copies(r) /\ Copies(q) => r = q
    /\ \A r \in Runs : Copies(r) /\ ~Views => view[r] = doc
    /\ \A r \in Runs : pc[r] = "copy" =>
         /\ core = listed[r] \cup {[by |-> r, sect |-> s, text |-> view[r][s]] : s \in copied[r]}
         /\ \A s \in copied[r] : view[r][s] # {}
    /\ ~Views /\ (\A r \in Runs : ~Copies(r)) => \A s \in Sections : Matches(s)

(* One run creates the soul, and goes on to celebrate it.                  *)
Creator(r) == pc[r] \in {"view", "list", "copy", "event"} /\ kind[item[r]] = "generate"
EventInv ==
  /\ \A r, q \in Runs : Creator(r) /\ Creator(q) => r = q
  /\ \A r \in Runs : Creator(r) => events <= resent
  /\ ~alive => events = 0 /\ \A r \in Runs : ~Creator(r)
  /\ CelebratedOnce

-----------------------------------------------------------------------------
(* The chains.  Skills made of a chain, runs that may still make some, and *)
(* one if it can be claimed, are at most one and the releases.             *)
MayMake == {"persist", "agent", "check", "skills"}
Makers(c) == {r \in Runs : c \in won[r] /\ pc[r] \in MayMake}
BudgetOf(c) ==
  made[c] + Cardinality(Makers(c)) + (IF c \in stamped THEN 0 ELSE 1) <= 1 + reopened[c]
BudgetInv == \A c \in Chains : BudgetOf(c)

(* While no row has been taken from a live drainer, a row has one run, and *)
(* what that has won is carried by the row or lost.                        *)
Active(r) == pc[r] \notin {"new", "end"}
Early == {"build", "group", "select", "claim", "persist", "agent"}
Tied(r) ==
  /\ Active(r) =>
       /\ rescue[item[r]] = "none"
       /\ IF pc[r] \in Early THEN row[item[r]] = "processing" ELSE Owned(r)
  /\ pc[r] \in {"agent", "check", "skills"} => won[r] \subseteq carried[item[r]] \cup lost
  /\ pc[r] \in {"check", "skills", "unstamp"} => own[r] = carried[item[r]]
  /\ pc[r] = "unstamp" => won[r] \subseteq own[r] \cup lost
Tended(i) ==
  /\ rescue[i] # "none" => row[i] \in {"processing", "committing"}
  /\ rescue[i] = "seen" => noted[i] = carried[i]

(* Who has a chain: a run that has won it, or a row whose run has died and *)
(* that recovery has yet to release.                                       *)
HeldByRun(c) == \E r \in Runs : c \in won[r] /\ pc[r] \in MayMake \cup {"unstamp"}
HeldByRow(c) ==
  \E i \in Items : /\ c \in carried[i] /\ row[i] \in {"processing", "committing"}
                   /\ rescue[i] # "released"
                   /\ \A r \in Runs : item[r] = i => ~Active(r)
Held(c) == made[c] > 0 \/ HeldByRun(c) \/ HeldByRow(c)
Alone == \A r, q \in Runs : Active(r) /\ Active(q) /\ item[r] = item[q] => r = q
Linked ==
  /\ Alone /\ (\A r \in Runs : Tied(r)) /\ (\A i \in Items : Tended(i))
  /\ \A c \in stamped \ lost : Held(c)
HandInv == usurped = {} => Linked

GraduationInv == BaseInv /\ CopyInv /\ FollowInv /\ EventInv /\ BudgetInv /\ HandInv

-----------------------------------------------------------------------------
(* Types.  Each group of variables is touched by few actions.              *)
RunAction(r) == Fetching(r) \/ Committing(r) \/ Die(r)
ItemAction(i) == Stuck(i) \/ Release(i) \/ GiveBack(i)

LEMMA FaultCounts ==
  ASSUME faults \in 0..MaxFaults, Fault PROVE faults' \in 0..MaxFaults
BY GraduationAssumption DEF Fault

LEMMA DocsWith ==
  ASSUME NEW f \in Docs, NEW s \in Sections, NEW E \in SUBSET Entries
  PROVE  [f EXCEPT ![s] = E] \in Docs /\ Nothing \in Docs
BY DEF Docs, Nothing

LEMMA NoDraftTyped ==
  ASSUME SoulTypes, NEW r \in Runs, NoDraft(r)
  PROVE  /\ seen' \in [Runs -> Docs] /\ snap' \in [Runs -> Docs] /\ subm' \in [Runs -> Docs]
         /\ attempt' \in [Runs -> 0..MaxAttempts]
<1>1. Nothing \in Docs /\ 0 \in 0..MaxAttempts
  BY GraduationAssumption DEF Docs, Nothing
<1> QED
  BY <1>1 DEF SoulTypes, NoDraft

LEMMA RowTypesStep ==
  ASSUME BaseInv, [Next]_vars PROVE RowTypes'
<1> USE DEF BaseInv, RowTypes, RunTypes, ChainTypes
<1>1. CASE UNCHANGED vars
  BY <1>1 DEF vars, rows, past
<1>2. ASSUME NEW r \in Runs, RunAction(r) PROVE RowTypes'
  <2>1. CASE Fetching(r)
    <3>1. pc[r] # "new" => item[r] \in Items
      BY DEF Fits
    <3>2. CASE \E i \in Items : Fetch(r, i)
      BY <3>2 DEF Fetch, past
    <3>3. CASE Build(r) \/ Group(r) \/ Select(r)
      BY <3>1, <3>3, FaultCounts DEF Build, Group, Select, Empty, past
    <3>4. CASE Claim(r) \/ ClaimReplyLost(r)
      BY <3>1, <3>4, FaultCounts DEF Claim, ClaimReplyLost, Empty, past
    <3>5. CASE Persist(r)
      BY <3>1, <3>5, FaultCounts DEF Persist
    <3> QED
      BY <2>1, <3>2, <3>3, <3>4, <3>5 DEF Fetching
  <2>2. CASE Commit(r) \/ Mark(r)
    <3>1. pc[r] # "new" => item[r] \in Items
      BY DEF Fits
    <3> QED
      BY <2>2, <3>1 DEF Commit, Mark, past
  <2>3. CASE StillOwned(r) \/ Skills(r) \/ Unstamp(r)
    BY <2>3, FaultCounts DEF StillOwned, Skills, Unstamp, rows, past
  <2>4. CASE Probe(r) \/ CreateSoul(r) \/ CreateSoulFails(r) \/ ReadSoul(r)
    BY <2>4, FaultCounts DEF Probe, CreateSoul, CreateSoulFails, ReadSoul, rows, past
  <2>5. CASE Revise(r) \/ ReviseFails(r)
    BY <2>5, FaultCounts DEF Revise, ReviseFails, rows, past
  <2>6. CASE View(r) \/ List(r) \/ Copy(r) \/ Archive(r) \/ Celebrate(r) \/ Die(r)
    BY <2>6, FaultCounts DEF View, List, Copy, Archive, Celebrate, Die, rows, past
  <2> QED
    BY <1>2, <2>1, <2>2, <2>3, <2>4, <2>5, <2>6 DEF RunAction, Committing
<1>3. ASSUME NEW i \in Items, ItemAction(i) PROVE RowTypes'
  BY <1>3, FaultCounts DEF ItemAction, Stuck, Release, GiveBack, past
<1> QED
  BY <1>1, <1>2, <1>3 DEF Next, RunAction, ItemAction

LEMMA ChainTypesStep ==
  ASSUME BaseInv, [Next]_vars PROVE ChainTypes'
<1> USE DEF BaseInv, RowTypes, RunTypes, ChainTypes
<1>1. CASE UNCHANGED vars
  BY <1>1 DEF vars, chains, past
<1>2. ASSUME NEW r \in Runs, RunAction(r) PROVE ChainTypes'
  <2> USE DEF chains, past
  <2>1. CASE Fetching(r)
    <3>1. CASE (\E i \in Items : Fetch(r, i)) \/ Build(r) \/ Group(r)
      BY <3>1 DEF Fetch, Build, Group
    <3>2. CASE Select(r)
      BY <3>2 DEF Select
    <3>3. CASE Claim(r) \/ ClaimReplyLost(r)
      BY <3>3 DEF Claim, ClaimReplyLost, Winnable
    <3>4. CASE Persist(r)
      BY <3>4 DEF Persist
    <3> QED
      BY <2>1, <3>1, <3>2, <3>3, <3>4 DEF Fetching
  <2>2. CASE Commit(r)
    <3>1. item[r] \in Items
      BY <2>2 DEF Fits, Commit
    <3> QED
      BY <2>2, <3>1 DEF Commit, NoChains
  <2>3. CASE StillOwned(r) \/ Mark(r)
    BY <2>3 DEF StillOwned, Mark, NoChains
  <2>4. CASE Skills(r)
    BY <2>4 DEF Skills
  <2>5. CASE Unstamp(r)
    BY <2>5 DEF Unstamp, Reset
  <2>6. CASE Probe(r) \/ CreateSoul(r) \/ CreateSoulFails(r) \/ ReadSoul(r)
    BY <2>6 DEF Probe, CreateSoul, CreateSoulFails, ReadSoul
  <2>7. CASE Revise(r) \/ ReviseFails(r) \/ View(r) \/ List(r) \/ Copy(r) \/ Archive(r) \/ Celebrate(r)
    BY <2>7 DEF Revise, ReviseFails, View, List, Copy, Archive, Celebrate
  <2>8. CASE Die(r)
    BY <2>8 DEF Die, NoChains
  <2> QED
    BY <1>2, <2>1, <2>2, <2>3, <2>4, <2>5, <2>6, <2>7, <2>8 DEF RunAction, Committing
<1>3. ASSUME NEW i \in Items, ItemAction(i) PROVE ChainTypes'
  BY <1>3 DEF ItemAction, Stuck, Release, GiveBack, Reset, chains, past
<1> QED
  BY <1>1, <1>2, <1>3 DEF Next, RunAction, ItemAction

LEMMA CopyTypesStep ==
  ASSUME BaseInv, [Next]_vars PROVE CopyTypes'
<1> USE DEF BaseInv, SoulTypes, CopyTypes
<1>1. CASE UNCHANGED vars
  BY <1>1 DEF vars, tier0
<1>2. ASSUME NEW r \in Runs, RunAction(r) PROVE CopyTypes'
  <2> USE DocsWith DEF tier0
  <2>1. CASE Fetching(r)
    BY <2>1 DEF Fetching, Fetch, Build, Group, Select, Claim, ClaimReplyLost, Persist
  <2>2. CASE Commit(r) \/ StillOwned(r) \/ Skills(r) \/ Unstamp(r)
    BY <2>2 DEF Commit, StillOwned, Skills, Unstamp
  <2>3. CASE Probe(r) \/ CreateSoul(r) \/ CreateSoulFails(r) \/ ReadSoul(r)
    BY <2>3 DEF Probe, CreateSoul, CreateSoulFails, ReadSoul
  <2>4. CASE Revise(r) \/ ReviseFails(r) \/ Celebrate(r)
    BY <2>4 DEF Revise, ReviseFails, Celebrate
  <2>5. CASE View(r) \/ List(r)
    BY <2>5 DEF View, List
  <2>6. CASE Copy(r)
    <3>1. PICK s \in ToCopy(r) :
            \/ /\ core' = core \cup {[by |-> r, sect |-> s, text |-> view[r][s]]}
               /\ copied' = [copied EXCEPT ![r] = @ \cup {s}] /\ UNCHANGED <<view, blurred, faults>>
            \/ /\ Fault /\ blurred' = TRUE /\ view' = [view EXCEPT ![r][s] = {}]
               /\ UNCHANGED <<core, copied>>
      BY <2>6 DEF Copy
    <3>2. s \in Sections /\ listed' = listed
      BY <2>6, <3>1 DEF ToCopy, Copy
    <3>3. [by |-> r, sect |-> s, text |-> view[r][s]] \in CoreRows
      BY <3>2 DEF CoreRows, Entries, Docs
    <3>4. [view EXCEPT ![r][s] = {}] \in [Runs -> Docs]
      BY <3>2 DEF Docs
    <3>5. CASE UNCHANGED view
      BY <3>1, <3>2, <3>3, <3>5
    <3>6. CASE UNCHANGED <<core, copied>>
      BY <3>1, <3>2, <3>4, <3>6
    <3> QED
      BY <3>1, <3>5, <3>6
  <2>7. CASE Archive(r) \/ Mark(r) \/ Die(r)
    <3>1. Nothing \in Docs
      BY DEF Docs, Nothing
    <3> QED
      BY <2>7, <3>1 DEF Archive, Mark, Die, NoCopy, Superseded
  <2> QED
    BY <1>2, <2>1, <2>2, <2>3, <2>4, <2>5, <2>6, <2>7 DEF RunAction, Committing
<1>3. ASSUME NEW i \in Items, ItemAction(i) PROVE CopyTypes'
  BY <1>3 DEF ItemAction, Stuck, Release, GiveBack, tier0
<1> QED
  BY <1>1, <1>2, <1>3 DEF Next, RunAction, ItemAction

LEMMA SoulTypesStep ==
  ASSUME BaseInv, [Next]_vars PROVE SoulTypes' /\ (~alive' => doc' = Nothing)
<1> USE DEF BaseInv, RunTypes, SoulTypes
<1> DEFINE Goal == SoulTypes' /\ (~alive' => doc' = Nothing)
<1>1. CASE UNCHANGED vars
  BY <1>1 DEF vars, soul, revise
<1>2. ASSUME NEW r \in Runs, RunAction(r) PROVE Goal
  <2> USE DEF soul, revise
  <2>0. Nothing \in Docs /\ 0 \in 0..MaxAttempts
    BY GraduationAssumption DEF Docs, Nothing
  <2>1. CASE Fetching(r)
    BY <2>1 DEF Fetching, Fetch, Build, Group, Select, Claim, ClaimReplyLost, Persist
  <2>2. CASE Commit(r)
    BY <2>0, <2>2 DEF Commit, NoDraft
  <2>3. CASE StillOwned(r)
    BY <2>3, NoDraftTyped DEF StillOwned
  <2>9. CASE Mark(r) \/ Die(r)
    BY <2>9, NoDraftTyped DEF Mark, Die
  <2>4. CASE Skills(r) \/ Unstamp(r) \/ Probe(r)
    BY <2>4 DEF Skills, Unstamp, Probe
  <2>5. CASE CreateSoul(r) \/ CreateSoulFails(r)
    <3>1. [s \in Sections |-> {r} \cap subm[r][s]] \in Docs
      BY DEF Docs
    <3>2. CASE CreateSoul(r)
      BY <3>1, <3>2, NoDraftTyped DEF CreateSoul
    <3>3. CASE CreateSoulFails(r)
      BY <3>1, <3>3 DEF CreateSoulFails
    <3> QED
      BY <2>5, <3>2, <3>3
  <2>6. CASE ReadSoul(r)
    <3>1. attempt[r] + 1 \in 0..MaxAttempts
      BY <2>6, GraduationAssumption DEF ReadSoul, Attempts
    <3> QED
      BY <2>6, <3>1 DEF ReadSoul
  <2>7. CASE Revise(r) \/ ReviseFails(r)
    <3>1. doc' \in Docs /\ alive' = alive
      BY <2>7 DEF Revise, ReviseFails, Revised
    <3>2. alive
      BY <2>7 DEF Revise, ReviseFails
    <3> QED
      BY <2>7, <3>1, <3>2, NoDraftTyped DEF Revise, ReviseFails
  <2>8. CASE View(r) \/ List(r) \/ Archive(r)
    BY <2>8 DEF View, List, Archive
  <2>11. CASE Celebrate(r)
    BY <2>11 DEF Celebrate
  <2>10. CASE Copy(r)
    BY <2>10 DEF Copy
  <2> QED
    BY <1>2, <2>1, <2>2, <2>3, <2>4, <2>5, <2>6, <2>7, <2>8, <2>9, <2>10, <2>11 DEF RunAction, Committing
<1>3. ASSUME NEW i \in Items, ItemAction(i) PROVE Goal
  BY <1>3 DEF ItemAction, Stuck, Release, GiveBack, soul, revise
<1> QED
  BY <1>1, <1>2, <1>3 DEF Next, RunAction, ItemAction

(* An action of a run leaves the other runs alone.                         *)
Others(r) ==
  /\ kind' = kind
  /\ \A q \in Runs \ {r} : /\ pc'[q] = pc[q] /\ item'[q] = item[q] /\ won'[q] = won[q]
                           /\ attempt'[q] = attempt[q]

LEMMA OthersStand ==
  ASSUME BaseInv, NEW r \in Runs, RunAction(r) PROVE Others(r) /\ RunTypes'
<1> USE DEF BaseInv, RunTypes, SoulTypes, ChainTypes, Others, rows, drain, revise, chains, Goto, Steps
<1>1. CASE Fetching(r)
  <2>1. CASE (\E i \in Items : Fetch(r, i)) \/ Build(r) \/ Group(r)
    BY <2>1 DEF Fetch, Build, Group, Empty
  <2>2. CASE Select(r) \/ Claim(r) \/ ClaimReplyLost(r) \/ Persist(r)
    BY <2>2 DEF Select, Claim, ClaimReplyLost, Persist, Empty
  <2> QED
    BY <1>1, <2>1, <2>2 DEF Fetching
<1>2. CASE Commit(r) \/ StillOwned(r)
  <2>1. CASE Commit(r)
    BY <2>1 DEF Commit, NoDraft, NoChains
  <2>2. CASE StillOwned(r)
    <3>1. pc[r] = "check"
      BY <2>2 DEF StillOwned
    <3>2. item[r] \in Items
      BY <3>1 DEF Fits
    <3>3. kind[item[r]] \in Work
      BY <3>2 DEF RowTypes
    <3>4. CASE kind[item[r]] = "generate"
      BY <2>2, <3>4 DEF StillOwned, NoDraft, NoChains
    <3>5. CASE kind[item[r]] = "evolve"
      BY <2>2, <3>5 DEF StillOwned, NoDraft, NoChains
    <3>6. CASE kind[item[r]] = "chains"
      BY <2>2, <3>6 DEF StillOwned, NoDraft, NoChains
    <3> QED
      BY <3>3, <3>4, <3>5, <3>6 DEF Work
  <2> QED
    BY <1>2, <2>1, <2>2
<1>3. CASE Mark(r) \/ Skills(r) \/ Unstamp(r)
  BY <1>3 DEF Mark, Skills, Unstamp, NoDraft, NoChains
<1>4. CASE Probe(r) \/ CreateSoul(r) \/ CreateSoulFails(r) \/ ReadSoul(r)
  BY <1>4 DEF Probe, CreateSoul, CreateSoulFails, ReadSoul, Outcome, NoDraft
<1>5. CASE Revise(r) \/ ReviseFails(r)
  BY <1>5 DEF Revise, ReviseFails, Conflict, NoDraft
<1>6. CASE View(r) \/ List(r) \/ Copy(r) \/ Archive(r) \/ Celebrate(r)
  BY <1>6 DEF View, List, Copy, Archive, Celebrate, After
<1>7. CASE Die(r)
  BY <1>7 DEF Die, NoDraft, NoChains
<1> QED
  BY <1>1, <1>2, <1>3, <1>4, <1>5, <1>6, <1>7 DEF RunAction, Committing

LEMMA ItemsStand ==
  ASSUME BaseInv, NEW i \in Items, ItemAction(i)
  PROVE  UNCHANGED <<kind, drain, soul, revise, tier0, events, resent, blurred, cand, won, own, made>>
BY DEF ItemAction, Stuck, Release, GiveBack, drain, soul, revise, tier0, chains, past

LEMMA RunFits ==
  ASSUME BaseInv, NEW r \in Runs, RunAction(r) PROVE Fits(r)' /\ Attempts(r)'
<1> USE DEF BaseInv, RunTypes, RowTypes, SoulTypes, ChainTypes, Fits, Attempts, BeforeRevision,
            OnChains, OnSoul, rows, drain, revise, chains, Goto
<1>1. CASE Fetching(r)
  <2>1. ASSUME NEW i \in Items, Fetch(r, i) PROVE Fits(r)' /\ Attempts(r)'
    <3>1. /\ item'[r] = i /\ UNCHANGED <<kind, won, attempt, snap, subm>>
          /\ pc'[r] = IF kind[i] = "chains" THEN "group" ELSE "build"
          /\ pc[r] = "new"
      BY <2>1 DEF Fetch
    <3> QED
      BY <3>1
  <2>2. CASE Build(r) \/ Group(r)
    BY <2>2 DEF Build, Group, Empty
  <2>3. CASE Select(r)
    BY <2>3 DEF Select, Empty
  <2>5. CASE Claim(r)
    <3>1. won' = [won EXCEPT ![r] = Winnable(r)] /\ item' = item /\ kind' = kind
      BY <2>5 DEF Claim
    <3>2. CASE Winnable(r) = {}
      BY <2>5, <3>1, <3>2 DEF Claim, Empty
    <3>3. CASE Winnable(r) # {}
      BY <2>5, <3>1, <3>3 DEF Claim
    <3> QED
      BY <3>2, <3>3
  <2>4. CASE ClaimReplyLost(r)
    BY <2>4 DEF ClaimReplyLost, Empty
  <2>6. CASE Persist(r)
    BY <2>6 DEF Persist
  <2> QED
    BY <1>1, <2>1, <2>2, <2>3, <2>4, <2>5, <2>6 DEF Fetching
<1>2. CASE Commit(r)
  BY <1>2 DEF Commit, NoDraft, NoChains
<1>3. CASE StillOwned(r)
  <2>1. item[r] \in Items /\ kind[item[r]] \in Work /\ 0 < MaxAttempts
    BY <1>3, GraduationAssumption DEF StillOwned
  <2>2. CASE ~Owned(r)
    BY <1>3, <2>1, <2>2 DEF StillOwned, NoDraft, NoChains
  <2>3. CASE Owned(r) /\ kind[item[r]] = "generate"
    BY <1>3, <2>1, <2>3 DEF StillOwned
  <2>4. CASE Owned(r) /\ kind[item[r]] = "evolve"
    BY <1>3, <2>1, <2>4 DEF StillOwned
  <2>5. CASE Owned(r) /\ kind[item[r]] = "chains"
    BY <1>3, <2>1, <2>5 DEF StillOwned
  <2> QED
    BY <2>1, <2>2, <2>3, <2>4, <2>5 DEF Work
<1>4. CASE Mark(r) \/ Skills(r) \/ Unstamp(r)
  BY <1>4 DEF Mark, Skills, Unstamp, NoDraft, NoChains
<1>5. CASE Probe(r) \/ CreateSoul(r) \/ CreateSoulFails(r) \/ ReadSoul(r)
  BY <1>5 DEF Probe, CreateSoul, CreateSoulFails, ReadSoul, Outcome, NoDraft
<1>6. CASE Revise(r)
  BY <1>6 DEF Revise, Conflict, NoDraft
<1>7. CASE ReviseFails(r)
  BY <1>7 DEF ReviseFails, Conflict
<1>8. CASE View(r) \/ List(r) \/ Copy(r)
  BY <1>8 DEF View, List, Copy, After
<1>9. CASE Archive(r) \/ Celebrate(r)
  BY <1>9 DEF Archive, Celebrate, After
<1>10. CASE Die(r)
  BY <1>10 DEF Die, NoDraft, NoChains
<1> QED
  BY <1>1, <1>2, <1>3, <1>4, <1>5, <1>6, <1>7, <1>8, <1>9, <1>10 DEF RunAction, Committing

LEMMA UpdatesOnlyASoul ==
  ASSUME BaseInv, NEW r \in Runs, RunAction(r)
  PROVE  (alive => alive') /\ (pc'[r] = "update" => alive')
<1> USE DEF BaseInv, RunTypes, drain, soul, Goto
<1>1. CASE Fetching(r)
  BY <1>1 DEF Fetching, Fetch, Build, Group, Select, Claim, ClaimReplyLost, Persist, Empty
<1>2. CASE Commit(r) \/ Mark(r) \/ Skills(r) \/ Unstamp(r) \/ Die(r)
  BY <1>2 DEF Commit, Mark, Skills, Unstamp, Die
<1>3. CASE StillOwned(r)
  <2>1. kind[item[r]] \in Work
    BY <1>3 DEF StillOwned, RowTypes, Fits
  <2> QED
    BY <1>3, <2>1 DEF StillOwned, Work
<1>4. CASE Probe(r) \/ CreateSoul(r) \/ CreateSoulFails(r) \/ ReadSoul(r)
  BY <1>4 DEF Probe, CreateSoul, CreateSoulFails, ReadSoul, Outcome
<1>5. CASE Revise(r) \/ ReviseFails(r)
  BY <1>5 DEF Revise, ReviseFails, Conflict
<1>6. CASE View(r) \/ List(r) \/ Copy(r) \/ Archive(r) \/ Celebrate(r)
  BY <1>6 DEF View, List, Copy, Archive, Celebrate, After
<1> QED
  BY <1>1, <1>2, <1>3, <1>4, <1>5, <1>6 DEF RunAction, Committing

LEMMA BaseStep ==
  ASSUME BaseInv, [Next]_vars PROVE BaseInv'
<1> DEFINE Goal == /\ RunTypes' /\ \A q \in Runs : Fits(q)' /\ Attempts(q)'
                   /\ ~alive' => \A q \in Runs : pc'[q] # "update"
<1>1. CASE UNCHANGED vars
  <2>1. UNCHANGED <<kind, item, pc, alive, attempt, won>>
    BY <1>1 DEF vars, rows, drain, soul, revise, chains
  <2> QED
    BY <2>1, RowTypesStep, ChainTypesStep, CopyTypesStep, SoulTypesStep
       DEF BaseInv, RunTypes, Fits, Attempts
<1>2. ASSUME NEW r \in Runs, RunAction(r) PROVE Goal
  <2>1. Others(r) /\ RunTypes' /\ Fits(r)' /\ Attempts(r)'
    BY <1>2, OthersStand, RunFits
  <2>2. ASSUME NEW q \in Runs \ {r} PROVE Fits(q)' /\ Attempts(q)'
    BY <2>1 DEF BaseInv, Others, Fits, Attempts
  <2>3. ASSUME NEW q \in Runs, pc'[q] = "update" PROVE alive'
    BY <1>2, <2>1, <2>3, UpdatesOnlyASoul DEF BaseInv, SoulTypes, Others
  <2>4. alive' \in BOOLEAN
    BY SoulTypesStep DEF SoulTypes
  <2> QED
    BY <2>1, <2>2, <2>3, <2>4
<1>3. ASSUME NEW i \in Items, ItemAction(i) PROVE Goal
  <2>1. UNCHANGED <<kind, item, pc, alive, attempt, won>>
    BY <1>3, ItemsStand DEF drain, soul, revise
  <2> QED
    BY <2>1 DEF BaseInv, RunTypes, Fits, Attempts
<1>4. CASE Next
  <2>1. Goal
    BY <1>2, <1>3, <1>4 DEF Next, RunAction, ItemAction
  <2> QED
    BY <2>1, RowTypesStep, ChainTypesStep, CopyTypesStep, SoulTypesStep DEF BaseInv
<1> QED
  BY <1>1, <1>4

-----------------------------------------------------------------------------
(* The soul.  A section that has entries keeps some, whatever is merged.   *)
LEMMA MergesStay ==
  ASSUME NEW cur \in SUBSET Entries, NEW new \in SUBSET Entries, new # {},
         NEW m \in Merges(cur, new)
  PROVE  m # {}
<1>1. IsFiniteSet(cur \cup new) /\ IsFiniteSet(new) /\ IsFiniteSet({})
  <2>1. IsFiniteSet(Entries)
    BY GraduationAssumption, FS_AddElement DEF Entries
  <2> QED
    BY <2>1, FS_Subset, FS_EmptySet
<1>2. Cardinality(new) # 0 /\ Cardinality(cur \cup new) # 0
  BY <1>1, FS_EmptySet
<1>3. SUFFICES ASSUME m = {} PROVE FALSE
  OBVIOUS
<1>4. Cardinality(m) = 0
  BY <1>3, FS_EmptySet
<1>5. Cardinality(new) \in Nat /\ Cardinality(cur \cup new) \in Nat /\ SectionCap # 0
  BY <1>1, FS_CardinalityType, GraduationAssumption
<1> QED
  BY <1>2, <1>3, <1>4, <1>5 DEF Merges

(* Fetches and the steps of a commit up to the soul touch neither the soul *)
(* nor its copy.                                                           *)
OnCopy == {"view", "list", "copy", "event"}
Done == {"event", "mark", "end"}
Elsewhere(r) ==
  /\ UNCHANGED <<soul, tier0, events, resent, blurred>>
  /\ pc[r] \notin OnCopy \cup Done /\ pc'[r] \notin OnCopy
Prepares(r) ==
  Fetching(r) \/ Commit(r) \/ StillOwned(r) \/ Skills(r) \/ Unstamp(r) \/ Probe(r) \/ ReadSoul(r)
Writes(r) == CreateSoul(r) \/ CreateSoulFails(r) \/ Revise(r) \/ ReviseFails(r)
Seeds(r) == View(r) \/ List(r) \/ Copy(r) \/ Archive(r) \/ Celebrate(r) \/ Mark(r) \/ Die(r)

LEMMA PreparesElsewhere ==
  ASSUME BaseInv, NEW r \in Runs, Prepares(r) PROVE Elsewhere(r)
<1> USE DEF BaseInv, RunTypes, Elsewhere, OnCopy, Done, Goto
<1>1. CASE Fetching(r)
  <2>1. CASE (\E i \in Items : Fetch(r, i)) \/ Build(r) \/ Group(r)
    BY <2>1 DEF Fetch, Build, Group, Empty
  <2>2. CASE Select(r) \/ Claim(r) \/ ClaimReplyLost(r) \/ Persist(r)
    BY <2>2 DEF Select, Claim, ClaimReplyLost, Persist, Empty
  <2> QED
    BY <1>1, <2>1, <2>2 DEF Fetching
<1>2. CASE Commit(r) \/ Skills(r) \/ Unstamp(r) \/ Probe(r) \/ ReadSoul(r)
  BY <1>2 DEF Commit, Skills, Unstamp, Probe, ReadSoul
<1>3. CASE StillOwned(r)
  <2>1. kind[item[r]] \in Work
    BY <1>3 DEF StillOwned, RowTypes, Fits
  <2> QED
    BY <1>3, <2>1 DEF StillOwned, Work
<1> QED
  BY <1>1, <1>2, <1>3 DEF Prepares

LEMMA RunActions ==
  ASSUME NEW r \in Runs, RunAction(r) PROVE Prepares(r) \/ Writes(r) \/ Seeds(r)
BY DEF RunAction, Committing, Prepares, Writes, Seeds

LEMMA SeedsOnly ==
  ASSUME NEW r \in Runs, Seeds(r) PROVE UNCHANGED soul
BY DEF Seeds, View, List, Copy, Archive, Celebrate, Mark, Die, soul

(* Who writes has read what it replaces.                                   *)
LEMMA WritesKeep ==
  ASSUME BaseInv, NEW r \in Runs, Writes(r), NEW s \in Sections
  PROVE  /\ doc[s] # {} => doc'[s] # {}
         /\ \A e \in doc[s] \ doc'[s] : pc[r] = "update" /\ e \in snap[r][s]
<1> USE DEF BaseInv, SoulTypes
<1>1. CASE CreateSoul(r) \/ CreateSoulFails(r)
  <2>1. ~alive => doc[s] = {}
    BY DEF Nothing
  <2>2. alive => doc' = doc
    BY <1>1 DEF CreateSoul, CreateSoulFails, soul
  <2> QED
    BY <2>1, <2>2
<1>2. CASE doc' # doc /\ (Revise(r) \/ ReviseFails(r))
  <2>1. pc[r] = "update" /\ Unmoved(r) /\ Revised(r)
    BY <1>2 DEF Revise, ReviseFails
  <2>2. CASE s \notin Wanted(r)
    BY <2>1, <2>2 DEF Revised
  <2>3. CASE s \in Wanted(r)
    <3>1. doc[s] = snap[r][s] /\ doc'[s] \in Merges(snap[r][s], subm[r][s])
      BY <2>1, <2>3 DEF Unmoved, Revised
    <3>2. snap[r][s] \in SUBSET Entries /\ subm[r][s] \in SUBSET Entries /\ subm[r][s] # {}
      BY <2>3 DEF Docs, Wanted
    <3> QED
      BY <2>1, <3>1, <3>2, MergesStay
  <2> QED
    BY <2>2, <2>3
<1>3. CASE doc' = doc
  BY <1>3
<1> QED
  BY <1>1, <1>2, <1>3 DEF Writes

LEMMA DropsStep ==
  ASSUME BaseInv, [Next]_vars, NEW s \in Sections
  PROVE  /\ doc[s] # {} => doc'[s] # {}
         /\ \A e \in doc[s] \ doc'[s] : \E r \in Runs : pc[r] = "update" /\ e \in snap[r][s]
<1>1. CASE UNCHANGED vars
  BY <1>1 DEF vars, soul
<1>2. ASSUME NEW r \in Runs, RunAction(r) PROVE doc' = doc \/ Writes(r)
  BY <1>2, RunActions, PreparesElsewhere, SeedsOnly DEF Elsewhere, soul
<1>3. ASSUME NEW i \in Items, ItemAction(i) PROVE doc' = doc
  BY <1>3, ItemsStand DEF soul
<1>4. CASE Next
  <2>1. doc' = doc \/ \E r \in Runs : Writes(r)
    BY <1>2, <1>3, <1>4 DEF Next, RunAction, ItemAction
  <2> QED
    BY <2>1, WritesKeep
<1> QED
  BY <1>1, <1>4

-----------------------------------------------------------------------------
(* The copy.                                                               *)
Late(r) ==
  /\ pc'[r] = pc[r] \/ pc[r] # "copy"
  /\ pc[r] \in Done => pc'[r] \in Done

LEMMA CopyStands ==
  ASSUME BaseInv, CopyInv, [Next]_vars, UNCHANGED tier0, \A r \in Runs : Late(r)
  PROVE  CopyInv'
<1> USE DEF tier0, CopyInv
<1>1. \A s \in Sections : doc[s] # {} => doc'[s] # {}
  BY DropsStep
<1>2. ASSUME NEW x \in CoreRows, Authored(x) PROVE Authored(x)'
  BY <1>2 DEF Authored, Copied, Late, Done
<1>3. \A x : Safe(x)' = Safe(x)
  BY DEF Safe
<1>4. \A x \in CoreRows : x.sect \in Sections
  BY DEF CoreRows
<1>5. core \subseteq CoreRows /\ \A r \in Runs : listed[r] \subseteq CoreRows
  BY DEF BaseInv, CopyTypes
<1>6. \A r \in Runs : pc'[r] # "copy" => copied'[r] = {}
  BY DEF Late
<1> QED
  BY <1>1, <1>2, <1>3, <1>4, <1>5, <1>6 DEF Has

LEMMA CopyListed ==
  ASSUME BaseInv, CopyInv, [Next]_vars, NEW r \in Runs, View(r) \/ List(r) PROVE CopyInv'
<1> USE DEF CopyInv, Goto
<1>1. \A s \in Sections : doc[s] # {} => doc'[s] # {}
  BY DropsStep
<1>2. core' = core /\ copied' = copied /\ doc' = doc
  BY DEF View, List, soul
<1>3. \A q \in Runs : listed'[q] = listed[q] \/ (listed'[q] = core /\ copied[q] = {})
  BY DEF View, List, BaseInv, CopyTypes
<1>4. \A q \in Runs : view'[q] = view[q] \/ view'[q] = doc
  BY DEF View, List, BaseInv, CopyTypes
<1>5. pc[r] \notin Done \cup {"copy"} /\ \A q \in Runs \ {r} : pc'[q] = pc[q]
  BY DEF View, List, BaseInv, RunTypes, Done
<1>6. ASSUME NEW x \in CoreRows, Authored(x) PROVE Authored(x)'
  BY <1>2, <1>5, <1>6 DEF Authored, Copied, Done
<1>7. ASSUME NEW x, Safe(x), x.sect \in Sections PROVE Safe(x)'
  BY <1>2, <1>3, <1>7 DEF Safe
<1>8. core \subseteq CoreRows /\ \A q \in Runs : listed[q] \subseteq CoreRows
  BY DEF BaseInv, CopyTypes
<1>9. \A q \in Runs : pc'[q] # "copy" => copied'[q] = {}
  BY <1>2, <1>5
<1>10. \A s \in Sections : Has(s)' => \E x \in core' : x.sect = s /\ Safe(x)'
  BY <1>2, <1>7 DEF Has
<1>11. \A q \in Runs : \A x \in listed'[q] : Authored(x)'
  BY <1>3, <1>6, <1>8
<1>12. \A x \in core' : Authored(x)' /\ doc'[x.sect] # {}
  BY <1>2, <1>6, <1>8
<1> QED
  BY <1>2, <1>4, <1>9, <1>10, <1>11, <1>12

(* Nobody has listed a row that is new.                                    *)
LEMMA CopyCopied ==
  ASSUME BaseInv, CopyInv, [Next]_vars, NEW r \in Runs, Copy(r) PROVE CopyInv'
<1> USE DEF CopyInv
<1>1. PICK s \in ToCopy(r) :
        \/ /\ core' = core \cup {[by |-> r, sect |-> s, text |-> view[r][s]]}
           /\ copied' = [copied EXCEPT ![r] = @ \cup {s}] /\ UNCHANGED <<view, blurred, faults>>
        \/ /\ Fault /\ blurred' = TRUE /\ view' = [view EXCEPT ![r][s] = {}]
           /\ UNCHANGED <<core, copied>>
  BY DEF Copy
<1>2. /\ s \in Sections /\ view[r][s] # {} /\ s \notin copied[r]
      /\ pc[r] = "copy" /\ pc' = pc /\ listed' = listed /\ doc' = doc
  BY <1>1 DEF ToCopy, Copy, drain, soul
<1>3. core \subseteq CoreRows /\ \A q \in Runs : listed[q] \subseteq CoreRows
  BY DEF BaseInv, CopyTypes
<1>4. \A x \in CoreRows : x.sect \in Sections
  BY DEF CoreRows
<1>5. CASE UNCHANGED <<core, copied>>
  <2>1. \A q \in Runs, t \in Sections : view'[q][t] = {} \/ view'[q][t] = view[q][t]
    BY <1>1, <1>2 DEF BaseInv, CopyTypes, Docs
  <2>2. \A x : Safe(x)' = Safe(x) /\ Authored(x)' = Authored(x)
    BY <1>2, <1>5 DEF Safe, Authored, Copied
  <2> QED
    BY <1>2, <1>5, <2>1, <2>2 DEF Has
<1>6. CASE UNCHANGED view /\ ~UNCHANGED <<core, copied>>
  <2>0. PICK new \in CoreRows : new = [by |-> r, sect |-> s, text |-> view[r][s]]
    <3>1. [by |-> r, sect |-> s, text |-> view[r][s]] \in CoreRows
      BY <1>2 DEF BaseInv, CopyTypes, CoreRows, Entries, Docs
    <3> QED
      BY <3>1
  <2>1. core' = core \cup {new} /\ copied' = [copied EXCEPT ![r] = @ \cup {s}]
    BY <1>1, <1>6, <2>0
  <2>2. /\ copied[r] \subseteq copied'[r] /\ s \in copied'[r]
        /\ \A t \in Sections \ {s} : t \in copied'[r] => t \in copied[r]
        /\ \A q \in Runs \ {r} : copied'[q] = copied[q]
    BY <1>2, <2>1 DEF BaseInv, CopyTypes
  <2>3. \A x \in CoreRows : Authored(x) => Authored(x)'
    BY <1>2, <2>2 DEF Authored, Copied
  <2>4. Authored(new)' /\ \A q \in Runs : new \notin listed[q]
    <3>1. ~Authored(new)
      BY <1>2, <2>0 DEF Authored, Copied, Done
    <3> QED
      BY <1>2, <2>0, <2>2, <3>1 DEF Authored, Copied
  <2>5. Safe(new)'
    BY <1>2, <2>0, <2>4 DEF Safe
  <2>6. ASSUME NEW x \in core, x.sect # s, Safe(x) PROVE Safe(x)'
    BY <1>2, <1>3, <1>4, <2>2, <2>6 DEF Safe
  <2>7. \A t \in Sections : Has(t)' => \E x \in core' : x.sect = t /\ Safe(x)'
    <3>1. ASSUME NEW t \in Sections \ {s}, Has(t)' PROVE Has(t)
      BY <2>0, <2>1, <3>1 DEF Has
    <3> QED
      BY <2>0, <2>1, <2>5, <2>6, <3>1
  <2>8. doc[s] # {}
    BY <1>2
  <2>9. \A x \in core' : Authored(x)' /\ doc'[x.sect] # {}
    BY <1>2, <1>3, <2>0, <2>1, <2>3, <2>4, <2>8
  <2>10. \A q \in Runs : pc'[q] # "copy" => copied'[q] = {}
    BY <1>2, <2>2
  <2>11. \A q \in Runs : \A x \in listed'[q] : Authored(x)'
    BY <1>2, <1>3, <2>3
  <2> QED
    BY <1>2, <1>6, <2>7, <2>9, <2>10, <2>11
<1> QED
  BY <1>1, <1>5, <1>6

(* What goes was listed, and its section copied, by the run that archives. *)
LEMMA CopyEnds ==
  ASSUME BaseInv, CopyInv, NEW r \in Runs, Archive(r) \/ Mark(r) \/ Die(r)
  PROVE  CopyInv' /\ \A s \in Sections : Has(s) => Has(s)'
<1> USE DEF CopyInv, Goto, Done
<1>1. /\ UNCHANGED soul /\ NoCopy(r) /\ pc'[r] \in Done
      /\ \A q \in Runs \ {r} : pc'[q] = pc[q]
  BY DEF Archive, Mark, Die, After, BaseInv, RunTypes
<1>2. core' = core \/ core' = core \ Superseded(r)
  BY DEF Archive, Mark, Die
<1>3. core \subseteq CoreRows /\ \A q \in Runs : listed[q] \subseteq CoreRows
  BY DEF BaseInv, CopyTypes
<1>4. /\ copied'[r] = {} /\ listed'[r] = {} /\ view'[r] = Nothing
      /\ \A q \in Runs \ {r} : copied'[q] = copied[q] /\ listed'[q] = listed[q] /\ view'[q] = view[q]
  BY <1>1 DEF NoCopy, BaseInv, CopyTypes
<1>5. \A x \in CoreRows : Authored(x) => Authored(x)'
  BY <1>1, <1>4 DEF Authored, Copied
<1>6. ASSUME NEW x \in core, Safe(x) PROVE x \in core' /\ Safe(x)'
  <2>1. x \notin Superseded(r)
    BY <1>6 DEF Safe, Superseded
  <2>2. Safe(x)'
    BY <1>4, <1>6 DEF Safe
  <2> QED
    BY <1>2, <2>1, <2>2
<1>7. \A s \in Sections : Has(s)' => Has(s)
  BY <1>2 DEF Has
<1>8. \A s \in Sections : Has(s) => Has(s)' /\ \E x \in core' : x.sect = s /\ Safe(x)'
  BY <1>6 DEF Has
<1>9. \A q \in Runs : pc'[q] # "copy" => copied'[q] = {}
  BY <1>1, <1>4
<1>10. \A q \in Runs : /\ \A x \in listed'[q] : Authored(x)'
                       /\ \A s \in Sections : view'[q][s] # {} => doc'[s] # {}
  BY <1>1, <1>3, <1>4, <1>5 DEF soul, Nothing
<1>11. \A x \in core' : Authored(x)' /\ doc'[x.sect] # {}
  BY <1>1, <1>2, <1>3, <1>5 DEF soul
<1> QED
  BY <1>7, <1>8, <1>9, <1>10, <1>11

LEMMA CopyStep ==
  ASSUME BaseInv, CopyInv, [Next]_vars
  PROVE  CopyInv' /\ \A s \in Sections : Has(s) => Has(s)'
<1> DEFINE Goal == CopyInv' /\ \A s \in Sections : Has(s) => Has(s)'
<1>1. CASE UNCHANGED vars
  <2>1. UNCHANGED tier0 /\ \A r \in Runs : Late(r)
    BY <1>1 DEF vars, drain, Late
  <2> QED
    BY <2>1, CopyStands DEF Has, tier0
<1>2. ASSUME NEW i \in Items, ItemAction(i) PROVE Goal
  <2>1. UNCHANGED tier0 /\ \A r \in Runs : Late(r)
    BY <1>2, ItemsStand DEF drain, Late
  <2> QED
    BY <2>1, CopyStands DEF Has, tier0
<1>3. ASSUME NEW r \in Runs, RunAction(r) PROVE Goal
  <2>1. \A q \in Runs \ {r} : pc'[q] = pc[q]
    BY <1>3, OthersStand DEF Others
  <2>2. CASE Prepares(r)
    <3>1. UNCHANGED tier0 /\ \A q \in Runs : Late(q)
      BY <2>1, <2>2, PreparesElsewhere DEF Elsewhere, Late, OnCopy, Done
    <3> QED
      BY <3>1, CopyStands DEF Has, tier0
  <2>3. CASE Writes(r) \/ Celebrate(r)
    <3>1. UNCHANGED tier0 /\ pc[r] \in {"create", "update", "event"}
      BY <2>3 DEF Writes, CreateSoul, CreateSoulFails, Revise, ReviseFails, Celebrate, tier0
    <3>2. pc[r] = "event" => pc'[r] = "mark"
      BY <2>3 DEF Writes, CreateSoul, CreateSoulFails, Revise, ReviseFails, Celebrate, Goto,
                  BaseInv, RunTypes
    <3>3. \A q \in Runs : Late(q)
      BY <2>1, <3>1, <3>2 DEF Late, Done
    <3> QED
      BY <3>1, <3>3, CopyStands DEF Has, tier0
  <2>4. CASE View(r) \/ List(r)
    <3>1. core' = core
      BY <2>4 DEF View, List
    <3> QED
      BY <2>4, <3>1, CopyListed DEF Has
  <2>5. CASE Copy(r)
    <3>1. core \subseteq core'
      BY <2>5 DEF Copy
    <3> QED
      BY <2>5, <3>1, CopyCopied DEF Has
  <2>6. CASE Archive(r) \/ Mark(r) \/ Die(r)
    BY <2>6, CopyEnds
  <2> QED
    BY <1>3, <2>2, <2>3, <2>4, <2>5, <2>6, RunActions DEF Seeds
<1> QED
  BY <1>1, <1>2, <1>3 DEF Next, RunAction, ItemAction

-----------------------------------------------------------------------------
(* Tier 0 follows the soul.                                                *)
LEMMA MatchesMeans ==
  ASSUME NEW s \in Sections
  PROVE  Matches(s) <=> /\ doc[s] = {} => ~Has(s)
                        /\ doc[s] # {} => Has(s) /\ \A x \in core : x.sect = s => x.text = doc[s]
BY DEF Matches, Has

LEMMA FollowStands ==
  ASSUME FollowInv, core' = core, doc' = doc \/ Views', blurred => blurred', Views => Views',
         \A q \in Runs : /\ Copies(q)' = Copies(q) /\ (pc'[q] = "copy") = (pc[q] = "copy")
                         /\ Copies(q) => /\ view'[q] = view[q] /\ listed'[q] = listed[q]
                                         /\ copied'[q] = copied[q]
  PROVE  FollowInv'
<1> SUFFICES ASSUME ~blurred' PROVE FollowInv'
  BY DEF FollowInv
<1> USE DEF FollowInv
<1>1. \A q, p \in Runs : Copies(q)' /\ Copies(p)' => q = p
  OBVIOUS
<1>2. \A q \in Runs : Copies(q)' /\ ~Views' => view'[q] = doc'
  OBVIOUS
<1>3. ASSUME NEW q \in Runs, pc'[q] = "copy"
      PROVE  /\ core' = listed'[q] \cup {[by |-> q, sect |-> s, text |-> view'[q][s]] : s \in copied'[q]}
             /\ \A s \in copied'[q] : view'[q][s] # {}
  <2>1. pc[q] = "copy" /\ view'[q] = view[q] /\ listed'[q] = listed[q] /\ copied'[q] = copied[q]
    BY <1>3 DEF Copies
  <2> QED
    BY <2>1
<1>4. ASSUME ~Views', \A q \in Runs : ~Copies(q)' PROVE \A s \in Sections : Matches(s)'
  <2>1. doc' = doc /\ \A s \in Sections : Matches(s)
    BY <1>4
  <2> QED
    BY <2>1 DEF Matches
<1> QED
  BY <1>1, <1>2, <1>3, <1>4

LEMMA FollowViewed ==
  ASSUME BaseInv, CopyInv, FollowInv, NEW r \in Runs, View(r) \/ List(r) PROVE FollowInv'
<1> SUFFICES ASSUME ~blurred' PROVE FollowInv'
  BY DEF FollowInv
<1> USE DEF FollowInv, Goto
<1>1. ~blurred /\ core' = core /\ doc' = doc /\ copied' = copied
  BY DEF View, List, soul, BaseInv, SoulTypes
<1>2. \A q \in Runs \ {r} : pc'[q] = pc[q] /\ view'[q] = view[q] /\ listed'[q] = listed[q]
  BY DEF View, List, BaseInv, RunTypes, CopyTypes
<1>3. CASE View(r)
  <2>1. pc[r] = "view" /\ pc'[r] = "list" /\ view'[r] = doc
    BY <1>3 DEF View, BaseInv, RunTypes, CopyTypes
  <2>2. \A q \in Runs : ~Copies(q)
    BY <1>3 DEF View, Copying, Copies
  <2>3. \A q \in Runs : Copies(q)' => q = r
    BY <1>2, <2>2 DEF Copies
  <2>4. Copies(r)' /\ \A q \in Runs : pc'[q] # "copy"
    BY <2>1, <2>3 DEF Copies
  <2> QED
    BY <1>1, <2>1, <2>3, <2>4
<1>4. CASE List(r)
  <2>1. /\ pc[r] = "list" /\ pc'[r] = "copy" /\ view' = view /\ listed'[r] = core
        /\ copied[r] = {}
    BY <1>4 DEF List, BaseInv, RunTypes, CopyTypes, CopyInv
  <2>2. \A q \in Runs : Copies(q) => q = r
    BY <1>1, <2>1 DEF Copies
  <2>3. \A q \in Runs : Copies(q)' => q = r
    BY <1>2, <2>2 DEF Copies
  <2>4. ~Views' => ~Views
    BY <1>2, <2>1 DEF Views
  <2>5. ~Views' => view'[r] = doc'
    BY <1>1, <2>1, <2>4 DEF Copies
  <2>6. \A q \in Runs : pc'[q] = "copy" => q = r
    BY <2>3 DEF Copies
  <2>7. core' = listed'[r] \cup {[by |-> r, sect |-> s, text |-> view'[r][s]] : s \in copied'[r]}
    BY <1>1, <2>1
  <2>8. \A s \in copied'[r] : view'[r][s] # {}
    BY <1>1, <2>1
  <2>9. Copies(r)'
    BY <2>1 DEF Copies
  <2> QED
    BY <2>3, <2>5, <2>6, <2>7, <2>8, <2>9
<1> QED
  BY <1>3, <1>4

LEMMA FollowCopied ==
  ASSUME BaseInv, CopyInv, FollowInv, NEW r \in Runs, Copy(r) PROVE FollowInv'
<1> SUFFICES ASSUME ~blurred' PROVE FollowInv'
  BY DEF FollowInv
<1> USE DEF FollowInv
<1>1. PICK s \in ToCopy(r) :
        /\ core' = core \cup {[by |-> r, sect |-> s, text |-> view[r][s]]}
        /\ copied' = [copied EXCEPT ![r] = @ \cup {s}] /\ UNCHANGED <<view, blurred, faults>>
  BY DEF Copy, BaseInv, SoulTypes
<1>2. /\ view[r][s] # {} /\ pc' = pc /\ listed' = listed /\ doc' = doc /\ ~blurred
      /\ view' = view /\ pc[r] = "copy"
  BY <1>1 DEF ToCopy, Copy, drain, soul
<1>3. \A q \in Runs : Copies(q)' = Copies(q)
  BY <1>2 DEF Copies
<1>4. Views' = Views
  BY <1>2 DEF Views
<1>5. copied'[r] = copied[r] \cup {s}
  BY <1>1 DEF BaseInv, CopyTypes
<1>6. \A q \in Runs : pc'[q] = "copy" => q = r
  BY <1>2 DEF Copies
<1>7. core' = listed'[r] \cup {[by |-> r, sect |-> t, text |-> view'[r][t]] : t \in copied'[r]}
  BY <1>1, <1>2, <1>5
<1>8. \A t \in copied'[r] : view'[r][t] # {}
  BY <1>2, <1>5
<1> QED
  BY <1>2, <1>3, <1>4, <1>6, <1>7, <1>8 DEF Copies

LEMMA FollowArchived ==
  ASSUME BaseInv, CopyInv, FollowInv, NEW r \in Runs, Archive(r) PROVE FollowInv'
<1> SUFFICES ASSUME ~blurred' PROVE FollowInv'
  BY DEF FollowInv
<1> USE DEF FollowInv
<1>1. /\ ~blurred /\ pc[r] = "copy" /\ pc'[r] \in {"event", "mark"} /\ ToCopy(r) = {}
      /\ core' = core \ Superseded(r) /\ doc' = doc
      /\ \A q \in Runs \ {r} : pc'[q] = pc[q]
  BY DEF Archive, soul, Goto, After, BaseInv, RunTypes, SoulTypes
<1>2. \A q \in Runs : Copies(q) => q = r
  BY <1>1 DEF Copies
<1>3. \A q \in Runs : ~Copies(q)'
  BY <1>1, <1>2 DEF Copies
<1>4. ASSUME ~Views', NEW s \in Sections PROVE Matches(s)'
  <2>1. ~Views
    BY <1>1, <1>4 DEF Views
  <2>2. view[r] = doc
    BY <1>1, <2>1 DEF Copies
  <2>3. /\ core = listed[r] \cup {[by |-> r, sect |-> t, text |-> view[r][t]] : t \in copied[r]}
        /\ \A t \in copied[r] : view[r][t] # {}
    BY <1>1
  <2>4. \A x \in core' : x \in core /\ (x.sect \in copied[r] => x \notin listed[r])
    BY <1>1 DEF Superseded
  <2>5. CASE doc[s] = {}
    <3>1. ~Has(s)'
      BY <2>4, <2>5 DEF Has, CopyInv
    <3> QED
      BY <1>1, <2>5, <3>1 DEF Matches, Has
  <2>6. CASE doc[s] # {}
    <3>1. s \in copied[r]
      BY <1>1, <2>2, <2>6 DEF ToCopy
    <3>2. [by |-> r, sect |-> s, text |-> view[r][s]] \in core
      BY <2>3, <3>1
    <3>3. Has(s)
      BY <3>2 DEF Has
    <3>4. Has(s)'
      BY <3>3, CopyEnds
    <3>5. ASSUME NEW x \in core', x.sect = s PROVE x.text = doc[s]
      <4>1. x \in {[by |-> r, sect |-> t, text |-> view[r][t]] : t \in copied[r]}
        BY <2>3, <2>4, <3>1, <3>5
      <4> QED
        BY <2>2, <3>5, <4>1
    <3> QED
      BY <1>1, <2>6, <3>4, <3>5 DEF Matches, Has
  <2> QED
    BY <2>5, <2>6
<1>5. \A q \in Runs : pc'[q] # "copy"
  BY <1>3 DEF Copies
<1> QED
  BY <1>3, <1>4, <1>5

LEMMA FollowStep ==
  ASSUME BaseInv, CopyInv, FollowInv, [Next]_vars PROVE FollowInv'
<1>1. CASE UNCHANGED vars
  BY <1>1, FollowStands DEF vars, drain, soul, tier0, Views, Copies
<1>2. ASSUME NEW i \in Items, ItemAction(i) PROVE FollowInv'
  BY <1>2, ItemsStand, FollowStands DEF drain, soul, tier0, Views, Copies
<1>3. ASSUME NEW r \in Runs, RunAction(r) PROVE FollowInv'
  <2>1. \A q \in Runs \ {r} : pc'[q] = pc[q]
    BY <1>3, OthersStand DEF Others
  <2>2. ASSUME pc[r] \notin {"view", "list", "copy"}, pc'[r] \notin {"list", "copy"},
               core' = core, doc' = doc \/ pc'[r] = "view", blurred => blurred',
               \A q \in Runs \ {r} : /\ view'[q] = view[q] /\ listed'[q] = listed[q]
                                     /\ copied'[q] = copied[q]
        PROVE  FollowInv'
    <3>1. Views => Views'
      BY <2>1, <2>2 DEF Views
    <3>2. \A q \in Runs : Copies(q)' = Copies(q) /\ (pc'[q] = "copy") = (pc[q] = "copy")
      BY <2>1, <2>2 DEF Copies
    <3>3. doc' = doc \/ Views'
      BY <2>2 DEF Views
    <3>4. \A q \in Runs : Copies(q) => q # r
      BY <2>2 DEF Copies
    <3> QED
      BY <2>2, <3>1, <3>2, <3>3, <3>4, FollowStands
  <2>3. CASE Prepares(r)
    BY <2>2, <2>3, PreparesElsewhere DEF Elsewhere, OnCopy, soul, tier0
  <2>4. CASE CreateSoul(r)
    <3>1. pc[r] = "create" /\ pc'[r] = Outcome /\ UNCHANGED <<tier0, blurred>>
      BY <2>4 DEF CreateSoul, Goto, BaseInv, RunTypes
    <3>2. doc' = doc \/ pc'[r] = "view"
      BY <2>4, <3>1 DEF CreateSoul, Outcome
    <3> QED
      BY <2>2, <3>1, <3>2 DEF tier0, Outcome
  <2>5. CASE Revise(r)
    <3>1. pc[r] = "update" /\ pc'[r] \in {"view", "read", "mark"} /\ UNCHANGED <<tier0, blurred>>
      BY <2>5 DEF Revise, Goto, Conflict, BaseInv, RunTypes
    <3>2. doc' = doc \/ pc'[r] = "view"
      BY <2>5 DEF Revise, Goto, BaseInv, RunTypes
    <3> QED
      BY <2>2, <3>1, <3>2 DEF tier0
  <2>6. CASE CreateSoulFails(r) \/ ReviseFails(r) \/ Die(r)
    BY <2>6 DEF CreateSoulFails, ReviseFails, Die, FollowInv
  <2>7. CASE Celebrate(r) \/ Mark(r)
    <3>1. /\ pc[r] \in {"event", "mark"} /\ pc'[r] \in {"mark", "end"}
          /\ UNCHANGED <<soul, core, blurred>>
      BY <2>7 DEF Celebrate, Mark, tier0, Goto, BaseInv, RunTypes
    <3>2. \A q \in Runs \ {r} : /\ view'[q] = view[q] /\ listed'[q] = listed[q]
                                /\ copied'[q] = copied[q]
      BY <2>7 DEF Celebrate, Mark, tier0, NoCopy, BaseInv, CopyTypes
    <3> QED
      BY <2>2, <3>1, <3>2 DEF soul
  <2>8. CASE View(r) \/ List(r) \/ Copy(r) \/ Archive(r)
    BY <2>8, FollowViewed, FollowCopied, FollowArchived
  <2> QED
    BY <1>3, <2>3, <2>4, <2>5, <2>6, <2>7, <2>8, RunActions DEF Writes, Seeds
<1> QED
  BY <1>1, <1>2, <1>3 DEF Next, RunAction, ItemAction

-----------------------------------------------------------------------------
(* The celebration.                                                        *)
LEMMA EventStands ==
  ASSUME BaseInv, EventInv, UNCHANGED <<events, resent>>, alive => alive',
         \A q \in Runs : Creator(q)' => Creator(q)
  PROVE  EventInv'
<1> USE DEF EventInv
<1>1. CelebratedOnce' = CelebratedOnce
  BY DEF CelebratedOnce
<1> QED
  BY <1>1

LEMMA EventStep ==
  ASSUME BaseInv, EventInv, [Next]_vars PROVE EventInv'
<1>1. CASE UNCHANGED vars
  BY <1>1, EventStands DEF vars, rows, drain, soul, Creator
<1>2. ASSUME NEW i \in Items, ItemAction(i) PROVE EventInv'
  BY <1>2, ItemsStand, EventStands DEF drain, soul, Creator
<1>3. ASSUME NEW r \in Runs, RunAction(r) PROVE EventInv'
  <2>1. /\ kind' = kind /\ \A q \in Runs \ {r} : pc'[q] = pc[q] /\ item'[q] = item[q]
        /\ alive => alive'
    BY <1>3, OthersStand, UpdatesOnlyASoul DEF Others
  <2>2. \A q \in Runs \ {r} : Creator(q)' = Creator(q)
    BY <2>1 DEF Creator
  <2>3. ASSUME UNCHANGED <<events, resent>>, Creator(r)' => Creator(r) PROVE EventInv'
    BY <2>1, <2>2, <2>3, EventStands
  <2>4. CASE Prepares(r)
    BY <2>3, <2>4, PreparesElsewhere DEF Elsewhere, Creator, OnCopy
  <2>5. CASE CreateSoul(r) /\ ~alive
    <3>1. /\ events' = events /\ resent' = resent /\ alive'
          /\ \A q \in Runs : ~Creator(q)
      BY <2>5 DEF CreateSoul, EventInv
    <3>2. \A q \in Runs : Creator(q)' => q = r
      BY <2>2, <3>1
    <3> QED
      BY <2>5, <3>1, <3>2 DEF EventInv, CelebratedOnce, BaseInv, SoulTypes
  <2>6. CASE (CreateSoul(r) /\ alive) \/ CreateSoulFails(r)
    <3>1. pc'[r] = "mark" /\ UNCHANGED <<events, resent>>
      BY <2>6 DEF CreateSoul, CreateSoulFails, Outcome, Goto, BaseInv, RunTypes
    <3> QED
      BY <2>3, <3>1 DEF Creator
  <2>7. CASE Revise(r) \/ ReviseFails(r)
    <3>1. pc[r] = "update" /\ UNCHANGED <<item, events, resent>>
      BY <2>7 DEF Revise, ReviseFails
    <3>2. kind[item[r]] = "evolve"
      BY <3>1 DEF BaseInv, Fits
    <3> QED
      BY <2>1, <2>3, <3>1, <3>2 DEF Creator
  <2>8. CASE View(r) \/ List(r) \/ Copy(r) \/ Archive(r)
    <3>1. pc[r] \in {"view", "list", "copy"} /\ UNCHANGED <<item, events, resent>>
      BY <2>8 DEF View, List, Copy, Archive, drain
    <3> QED
      BY <2>1, <2>3, <3>1 DEF Creator
  <2>9. CASE Mark(r) \/ Die(r)
    <3>1. pc'[r] = "end" /\ UNCHANGED <<events, resent>>
      BY <2>9 DEF Mark, Die, Goto, BaseInv, RunTypes
    <3> QED
      BY <2>3, <3>1 DEF Creator
  <2>10. CASE Celebrate(r)
    <3>1. pc[r] = "event" /\ pc'[r] = "mark" /\ alive' = alive
      BY <2>10 DEF Celebrate, Goto, soul, BaseInv, RunTypes
    <3>2. Creator(r) /\ ~Creator(r)'
      BY <3>1 DEF Creator, BaseInv, Fits
    <3>3. \A q \in Runs : ~Creator(q)'
      BY <2>2, <3>2 DEF EventInv
    <3>4. events <= resent /\ alive /\ events \in Nat /\ resent \in Nat
      BY <3>2 DEF EventInv, BaseInv, SoulTypes
    <3>5. events' <= 1 + resent'
      BY <2>10, <3>4 DEF Celebrate
    <3> QED
      BY <3>1, <3>3, <3>4, <3>5 DEF EventInv, CelebratedOnce
  <2> QED
    BY <1>3, <2>4, <2>5, <2>6, <2>7, <2>8, <2>9, <2>10, RunActions DEF Writes, Seeds
<1> QED
  BY <1>1, <1>2, <1>3 DEF Next, RunAction, ItemAction

-----------------------------------------------------------------------------
(* The chains.  The steps about the soul are those of runs that have won   *)
(* nothing, and leave rows and chains alone.                               *)
SoulWork(r) ==
  Probe(r) \/ ReadSoul(r) \/ Writes(r) \/ View(r) \/ List(r) \/ Copy(r) \/ Archive(r) \/ Celebrate(r)
ChainWork(r) == Fetching(r) \/ Commit(r) \/ StillOwned(r) \/ Skills(r) \/ Unstamp(r) \/ Mark(r) \/ Die(r)

LEMMA ChainActions ==
  ASSUME NEW r \in Runs, RunAction(r) PROVE SoulWork(r) \/ ChainWork(r)
BY DEF RunAction, Committing, SoulWork, ChainWork, Writes

LEMMA SoulWorkStands ==
  ASSUME BaseInv, NEW r \in Runs, SoulWork(r)
  PROVE  /\ UNCHANGED <<rows, item, chains, past>>
         /\ pc[r] \in OnSoul \ {"build"} /\ pc'[r] \in (OnSoul \ {"build"}) \cup {"mark"}
         /\ won[r] = {}
<1> USE DEF Goto, OnSoul
<1>1. /\ UNCHANGED <<rows, item, chains, past>>
      /\ pc[r] \in OnSoul \ {"build"} /\ pc'[r] \in (OnSoul \ {"build"}) \cup {"mark"}
  <2> USE DEF BaseInv, RunTypes
  <2>1. CASE Probe(r) \/ ReadSoul(r)
    BY <2>1 DEF Probe, ReadSoul
  <2>2. CASE CreateSoul(r) \/ CreateSoulFails(r)
    BY <2>2 DEF CreateSoul, CreateSoulFails, Outcome
  <2>3. CASE Revise(r) \/ ReviseFails(r)
    BY <2>3 DEF Revise, ReviseFails, Conflict
  <2>4. CASE View(r) \/ List(r) \/ Copy(r)
    BY <2>4 DEF View, List, Copy, After, drain
  <2>5. CASE Archive(r) \/ Celebrate(r)
    BY <2>5 DEF Archive, Celebrate, After
  <2> QED
    BY <2>1, <2>2, <2>3, <2>4, <2>5 DEF SoulWork, Writes
<1>2. won[r] = {}
  BY <1>1 DEF BaseInv, Fits
<1> QED
  BY <1>1, <1>2

(* Steps that make no skill only take runs away from those that may.       *)
LEMMA MakersCount ==
  ASSUME BaseInv, NEW c \in Chains
  PROVE  IsFiniteSet(Makers(c)) /\ Cardinality(Makers(c)) \in Nat
<1>1. Makers(c) \subseteq Runs
  BY DEF Makers
<1> QED
  BY <1>1, GraduationAssumption, FS_Subset, FS_CardinalityType

LEMMA BudgetShrinks ==
  ASSUME BaseInv, BaseInv', NEW c \in Chains, BudgetOf(c), Makers(c)' \subseteq Makers(c),
         c \in stamped => c \in stamped', made'[c] = made[c], reopened'[c] = reopened[c]
  PROVE  BudgetOf(c)'
<1>1. /\ Cardinality(Makers(c)') <= Cardinality(Makers(c))
      /\ Cardinality(Makers(c)') \in Nat /\ Cardinality(Makers(c)) \in Nat
  BY MakersCount, FS_Subset, FS_CardinalityType
<1>2. Cardinality(Makers(c))' = Cardinality(Makers(c)')
  OBVIOUS
<1>3. made[c] \in Nat /\ reopened[c] \in Nat
  BY DEF BaseInv, ChainTypes
<1> QED
  BY <1>1, <1>2, <1>3 DEF BudgetOf

LEMMA BudgetReset ==
  ASSUME BaseInv, BaseInv', NEW c \in Chains, BudgetOf(c), Makers(c)' \subseteq Makers(c),
         made'[c] = made[c], NEW C \in SUBSET Chains, Reset(C)
  PROVE  BudgetOf(c)'
<1>1. CASE c \in C \cap stamped
  <2>1. /\ Cardinality(Makers(c)') <= Cardinality(Makers(c))
        /\ Cardinality(Makers(c)') \in Nat /\ Cardinality(Makers(c)) \in Nat
    BY MakersCount, FS_Subset, FS_CardinalityType
  <2>2. reopened'[c] = reopened[c] + 1 /\ c \in stamped
    BY <1>1 DEF Reset
  <2>3. made[c] \in Nat /\ reopened[c] \in Nat
    BY DEF BaseInv, ChainTypes
  <2> QED
    BY <2>1, <2>2, <2>3 DEF BudgetOf
<1>2. CASE c \notin C \cap stamped
  <2>1. reopened'[c] = reopened[c] /\ (c \in stamped => c \in stamped')
    BY <1>2 DEF Reset
  <2> QED
    BY <2>1, BudgetShrinks
<1> QED
  BY <1>1, <1>2

LEMMA BudgetOfRun ==
  ASSUME BaseInv, BaseInv', BudgetInv, NEW r \in Runs, RunAction(r), NEW c \in Chains
  PROVE  BudgetOf(c)'
<1> USE DEF BaseInv, RunTypes, ChainTypes, Goto
<1>1. \A q \in Runs \ {r} : pc'[q] = pc[q] /\ won'[q] = won[q]
  BY OthersStand DEF Others
<1>2. BudgetOf(c)
  BY DEF BudgetInv
<1>3. ASSUME c \in won'[r] => c \in won[r] /\ (pc'[r] \in MayMake => pc[r] \in MayMake)
      PROVE  Makers(c)' \subseteq Makers(c)
  BY <1>1, <1>3 DEF Makers
<1>4. ASSUME c \in won'[r] => c \in won[r] /\ (pc'[r] \in MayMake => pc[r] \in MayMake),
             c \in stamped => c \in stamped', made'[c] = made[c], reopened'[c] = reopened[c]
      PROVE  BudgetOf(c)'
  BY <1>2, <1>3, <1>4, BudgetShrinks
<1>5. CASE SoulWork(r)
  BY <1>4, <1>5, SoulWorkStands DEF chains, past
<1>6. CASE (\E i \in Items : Fetch(r, i)) \/ Build(r) \/ Group(r) \/ Select(r)
  <2>1. won[r] = {} /\ UNCHANGED <<stamped, won, made, reopened>>
    BY <1>6 DEF Fetch, Build, Group, Select, chains, past, Fits
  <2> QED
    BY <1>4, <2>1
<1>7. CASE Claim(r)
  <2>1. /\ won'[r] = Winnable(r) /\ stamped' = stamped \cup Winnable(r) /\ pc[r] = "claim"
        /\ UNCHANGED <<made, reopened>>
    BY <1>7 DEF Claim, past
  <2>2. CASE c \in Winnable(r)
    <3>1. Makers(c)' \subseteq Makers(c) \cup {r}
      BY <1>1 DEF Makers
    <3>2. /\ IsFiniteSet(Makers(c) \cup {r})
          /\ Cardinality(Makers(c) \cup {r}) <= Cardinality(Makers(c)) + 1
      <4>1. IsFiniteSet(Makers(c)) /\ Cardinality(Makers(c)) \in Nat
        BY MakersCount
      <4>2. /\ IsFiniteSet(Makers(c) \cup {r})
            /\ Cardinality(Makers(c) \cup {r}) =
                 IF r \in Makers(c) THEN Cardinality(Makers(c)) ELSE Cardinality(Makers(c)) + 1
        BY <4>1, FS_AddElement
      <4> QED
        BY <4>1, <4>2
    <3>3. /\ Cardinality(Makers(c)') <= Cardinality(Makers(c)) + 1
          /\ Cardinality(Makers(c)') \in Nat /\ Cardinality(Makers(c)) \in Nat
      BY <3>1, <3>2, MakersCount, FS_Subset, FS_CardinalityType
    <3>4. c \notin stamped /\ c \in stamped'
      BY <2>1, <2>2 DEF Winnable
    <3> QED
      BY <1>2, <2>1, <3>3, <3>4 DEF BudgetOf
  <2>3. CASE c \notin Winnable(r)
    BY <1>4, <2>1, <2>3
  <2> QED
    BY <2>2, <2>3
<1>8. CASE ClaimReplyLost(r) \/ Persist(r)
  <2>1. /\ stamped \subseteq stamped' /\ UNCHANGED <<won, made, reopened>>
        /\ pc[r] = "persist" \/ won[r] = {}
    BY <1>8 DEF ClaimReplyLost, Persist, chains, Fits
  <2> QED
    BY <1>4, <2>1 DEF MayMake
<1>9. CASE Commit(r) \/ StillOwned(r) \/ Mark(r) \/ Die(r)
  <2>1. UNCHANGED <<stamped, made, reopened>> /\ won'[r] \subseteq won[r]
    BY <1>9 DEF Commit, StillOwned, Mark, Die, NoChains, past
  <2>2. pc[r] \in {"agent", "check"} \/ pc'[r] = "end"
    BY <1>9 DEF Commit, StillOwned, Mark, Die
  <2> QED
    BY <1>4, <2>1, <2>2 DEF MayMake
<1>10. CASE Skills(r)
  <2>1. /\ pc[r] = "skills" /\ pc'[r] \in {"mark", "unstamp"}
        /\ UNCHANGED <<stamped, won, reopened>>
        /\ made'[c] = made[c] \/ (c \in won[r] /\ made'[c] = made[c] + 1)
    BY <1>10 DEF Skills, chains
  <2>2. CASE made'[c] = made[c]
    BY <1>4, <2>1, <2>2 DEF MayMake
  <2>3. CASE c \in won[r] /\ made'[c] = made[c] + 1
    <3>1. r \in Makers(c) /\ Makers(c)' = Makers(c) \ {r}
      BY <1>1, <2>1, <2>3 DEF Makers, MayMake
    <3>2. Cardinality(Makers(c)') = Cardinality(Makers(c)) - 1
      BY <3>1, MakersCount, FS_RemoveElement
    <3>3. /\ Cardinality(Makers(c)) \in Nat /\ made[c] \in Nat /\ reopened[c] \in Nat
          /\ Cardinality(Makers(c)') = Cardinality(Makers(c))'
      BY MakersCount
    <3> QED
      BY <1>2, <2>1, <2>3, <3>2, <3>3 DEF BudgetOf
  <2> QED
    BY <2>1, <2>2, <2>3
<1>11. CASE Unstamp(r)
  <2>1. pc'[r] = "mark" /\ UNCHANGED <<won, made>>
    BY <1>11 DEF Unstamp
  <2>2. CASE Reset(own[r])
    <3>1. Makers(c)' \subseteq Makers(c)
      BY <1>3, <2>1 DEF MayMake
    <3> QED
      BY <1>2, <2>1, <2>2, <3>1, BudgetReset
  <2>3. CASE UNCHANGED <<stamped, reopened>>
    BY <1>4, <2>1, <2>3 DEF MayMake
  <2> QED
    BY <1>11, <2>2, <2>3 DEF Unstamp
<1> QED
  BY <1>5, <1>6, <1>7, <1>8, <1>9, <1>10, <1>11, ChainActions DEF ChainWork, Fetching

LEMMA BudgetStep ==
  ASSUME BaseInv, BaseInv', BudgetInv, [Next]_vars PROVE BudgetInv'
<1> SUFFICES ASSUME NEW c \in Chains PROVE BudgetOf(c)'
  BY DEF BudgetInv
<1>1. BudgetOf(c)
  BY DEF BudgetInv
<1>2. CASE UNCHANGED <<pc, won, stamped, made, reopened>>
  BY <1>1, <1>2, BudgetShrinks DEF Makers
<1>3. ASSUME NEW i \in Items, ItemAction(i) PROVE BudgetOf(c)'
  <2>1. UNCHANGED <<pc, won, made>>
    BY <1>3, ItemsStand DEF drain
  <2>2. Makers(c)' = Makers(c)
    BY <2>1 DEF Makers
  <2>3. CASE Stuck(i) \/ GiveBack(i)
    BY <1>2, <2>1, <2>3 DEF Stuck, GiveBack, chains, past
  <2>4. CASE Release(i) /\ Reset(noted[i])
    BY <1>1, <2>1, <2>2, <2>4, BudgetReset DEF BaseInv, RowTypes
  <2>5. CASE Release(i) /\ UNCHANGED <<stamped, reopened>>
    BY <1>2, <2>1, <2>5
  <2> QED
    BY <1>3, <2>3, <2>4, <2>5 DEF ItemAction, Release
<1>4. CASE UNCHANGED vars
  BY <1>2, <1>4 DEF vars, drain, chains, past
<1> QED
  BY <1>3, <1>4, BudgetOfRun DEF Next, RunAction, ItemAction

-----------------------------------------------------------------------------
(* No chain is stranded.                                                   *)
LEMMA TiedStays ==
  ASSUME NEW r \in Runs, Tied(r),
         UNCHANGED <<pc[r], item[r], won[r], own[r]>>, lost \subseteq lost',
         Active(r) => UNCHANGED <<row[item[r]], token[item[r]], rescue[item[r]], carried[item[r]]>>
  PROVE  Tied(r)'
<1>1. CASE ~Active(r)
  <2>1. ~Active(r)' /\ pc'[r] \in {"new", "end"}
    BY <1>1 DEF Active
  <2> QED
    BY <2>1 DEF Tied
<1>2. CASE Active(r)
  BY <1>2 DEF Tied, Active, Owned
<1> QED
  BY <1>1, <1>2

LEMMA HandSoul ==
  ASSUME BaseInv, Linked, NEW r \in Runs, Others(r), SoulWork(r) PROVE Linked'
<1> USE DEF Linked, Others
<1>1. /\ UNCHANGED <<rows, item, chains, past>>
      /\ pc[r] \in OnSoul \ {"build"} /\ pc'[r] \in (OnSoul \ {"build"}) \cup {"mark"}
      /\ won[r] = {}
  BY SoulWorkStands
<1>2. \A q \in Runs : Active(q)' = Active(q)
  BY <1>1 DEF Active, OnSoul
<1>3. Alone'
  BY <1>1, <1>2 DEF Alone
<1>4. Tied(r)'
  <2>1. rescue[item[r]] = "none" /\ Owned(r)
    BY <1>1 DEF Tied, Active, Early, OnSoul
  <2> QED
    BY <1>1, <2>1 DEF Tied, Active, Early, OnSoul, rows, Owned
<1>5. ASSUME NEW q \in Runs \ {r} PROVE Tied(q)'
  BY <1>1, <1>5, TiedStays DEF rows, chains, past
<1>6. ASSUME NEW i \in Items PROVE Tended(i)'
  BY <1>1, <1>6 DEF Tended, rows
<1>7. ASSUME NEW c \in stamped \ lost, HeldByRun(c) PROVE HeldByRun(c)'
  BY <1>1, <1>7 DEF HeldByRun, chains
<1>8. ASSUME NEW c \in stamped \ lost, HeldByRow(c) PROVE HeldByRow(c)'
  BY <1>1, <1>2, <1>8 DEF HeldByRow, rows
<1> QED
  BY <1>1, <1>3, <1>4, <1>5, <1>6, <1>7, <1>8 DEF Held, chains, past

(* A step of a run that goes on with its item: rows of the others, and     *)
(* what they have won, stay.                                               *)
OthersRows(r) ==
  /\ \A i \in Items \ {item[r]} : UNCHANGED <<row[i], token[i], carried[i]>>
  /\ UNCHANGED <<rescue, noted, usurped>> /\ lost \subseteq lost'
  /\ \A q \in Runs \ {r} : own'[q] = own[q]
  /\ \A c \in Chains : made'[c] >= made[c]

LEMMA HandStays ==
  ASSUME BaseInv, BaseInv', Linked, NEW r \in Runs, Others(r), OthersRows(r),
         Active(r), item'[r] = item[r], Tied(r)',
         row'[item[r]] \in {"processing", "committing"} \/ pc'[r] = "end",
         \A c \in stamped' \ lost' :
           Held(c)' \/ (c \in stamped \ lost /\ (c \in won[r] => pc[r] \notin MayMake \cup {"unstamp"}))
  PROVE  Linked'
<1> USE DEF Linked, Others, OthersRows
<1>1. item[r] \in Items
  BY DEF BaseInv, Fits, Active
<1>2. \A q \in Runs \ {r} : Active(q) => item[q] \in Items \ {item[r]}
  BY DEF Alone, BaseInv, Fits, Active
<1>3. \A q \in Runs : Active(q)' => Active(q)
  BY DEF Active
<1>4. Alone'
  BY <1>3 DEF Alone
<1>5. ASSUME NEW q \in Runs \ {r} PROVE Tied(q)'
  BY <1>2, <1>5, TiedStays
<1>6. ASSUME NEW i \in Items PROVE Tended(i)'
  <2>1. CASE i = item[r]
    BY <2>1 DEF Tended, Tied, Active
  <2>2. CASE i # item[r]
    BY <2>2, <1>6 DEF Tended
  <2> QED
    BY <2>1, <2>2
<1>7. ASSUME NEW c \in Chains, NEW q \in Runs \ {r}, c \in won[q], pc[q] \in MayMake \cup {"unstamp"}
      PROVE  HeldByRun(c)'
  BY <1>7 DEF HeldByRun
<1>8. ASSUME NEW c \in Chains, HeldByRow(c) PROVE HeldByRow(c)'
  <2>1. PICK i \in Items : /\ c \in carried[i] /\ row[i] \in {"processing", "committing"}
                           /\ rescue[i] # "released"
                           /\ \A q \in Runs : item[q] = i => ~Active(q)
    BY <1>8 DEF HeldByRow
  <2>2. i # item[r]
    BY <2>1
  <2>3. \A q \in Runs : item'[q] = i => ~Active(q)'
    BY <1>3, <2>1, <2>2
  <2> QED
    BY <2>1, <2>2, <2>3 DEF HeldByRow
<1>9. ASSUME NEW c \in stamped' \ lost' PROVE Held(c)'
  <2>1. CASE c \in stamped \ lost /\ ~Held(c)'
    <3>1. c \in Chains /\ Held(c)
      BY <2>1 DEF BaseInv, ChainTypes
    <3>2. CASE made[c] > 0
      BY <3>1, <3>2 DEF Held, BaseInv, ChainTypes
    <3>3. CASE HeldByRow(c)
      BY <1>8, <3>1, <3>3 DEF Held
    <3>4. CASE HeldByRun(c)
      BY <1>7, <1>9, <2>1, <3>1, <3>4 DEF Held, HeldByRun
    <3> QED
      BY <3>1, <3>2, <3>3, <3>4 DEF Held
  <2> QED
    BY <1>9, <2>1
<1> QED
  BY <1>4, <1>5, <1>6, <1>9

LEMMA HandFetch ==
  ASSUME BaseInv, BaseInv', Linked, NEW r \in Runs, Others(r), NEW i \in Items, Fetch(r, i)
  PROVE  Linked'
<1> USE DEF Linked, Others
<1>1. /\ pc[r] = "new" /\ pc'[r] \in {"build", "group"} /\ item'[r] = i /\ row[i] = "open"
      /\ row'[i] = "processing" /\ \A j \in Items \ {i} : row'[j] = row[j]
      /\ UNCHANGED <<token, carried, rescue, noted, chains, past>> /\ won[r] = {}
  BY DEF Fetch, Goto, BaseInv, RunTypes, RowTypes, Fits
<1>2. rescue[i] = "none"
  BY <1>1 DEF Tended, BaseInv, RowTypes
<1>3. \A q \in Runs : Active(q) => item[q] # i
  BY <1>1 DEF Tied, Owned
<1>4. \A q \in Runs \ {r} : Active(q)' = Active(q)
  BY DEF Active
<1>5. Alone'
  BY <1>1, <1>3, <1>4 DEF Alone
<1>6. Tied(r)'
  BY <1>1, <1>2 DEF Tied, Early
<1>7. ASSUME NEW q \in Runs \ {r} PROVE Tied(q)'
  <2>1. Active(q) => item[q] \in Items \ {i}
    BY <1>3 DEF BaseInv, Fits, Active
  <2> QED
    BY <1>1, <1>7, <2>1, TiedStays DEF chains, past
<1>8. ASSUME NEW j \in Items PROVE Tended(j)'
  BY <1>1, <1>2, <1>8 DEF Tended
<1>9. ASSUME NEW c \in stamped \ lost, HeldByRun(c) PROVE HeldByRun(c)'
  BY <1>1, <1>9 DEF HeldByRun, chains
<1>10. ASSUME NEW c \in stamped \ lost, HeldByRow(c) PROVE HeldByRow(c)'
  <2>1. PICK j \in Items : /\ c \in carried[j] /\ row[j] \in {"processing", "committing"}
                           /\ rescue[j] # "released"
                           /\ \A q \in Runs : item[q] = j => ~Active(q)
    BY <1>10 DEF HeldByRow
  <2>2. j # i
    BY <1>1, <2>1
  <2> QED
    BY <1>1, <1>4, <2>1, <2>2 DEF HeldByRow
<1> QED
  BY <1>1, <1>5, <1>6, <1>7, <1>8, <1>9, <1>10 DEF Held, chains, past

(* A run that has nothing any more; it may leave its item as it is.        *)
LEMMA HandEnds ==
  ASSUME BaseInv, BaseInv', Linked, NEW r \in Runs, Others(r), OthersRows(r), Active(r),
         item'[r] = item[r], pc'[r] = "end", stamped' \ lost' \subseteq stamped \ lost,
         \/ won[r] = {} \/ pc[r] = "mark"
         \/ UNCHANGED rows /\ (pc[r] = "persist" => won[r] \subseteq lost')
  PROVE  Linked'
<1> USE DEF Linked, Others, OthersRows
<1>1. Tied(r)'
  BY DEF Tied, Active, MayMake
<1>2. ASSUME NEW c \in stamped' \ lost', c \in won[r], pc[r] \in MayMake \cup {"unstamp"}
      PROVE  Held(c)'
  <2>1. UNCHANGED rows /\ c \notin lost /\ pc[r] # "persist"
    BY <1>2 DEF MayMake
  <2>2. c \in carried[item[r]]
    BY <1>2, <2>1 DEF Tied, MayMake
  <2>3. /\ item[r] \in Items /\ rescue[item[r]] = "none"
        /\ row[item[r]] \in {"processing", "committing"}
    BY DEF Tied, Owned, Active, BaseInv, Fits
  <2>4. \A q \in Runs : item'[q] = item[r] => ~Active(q)'
    BY DEF Alone, Active
  <2> QED
    BY <2>1, <2>2, <2>3, <2>4 DEF Held, HeldByRow, rows
<1> QED
  BY <1>1, <1>2, HandStays

LEMMA HandRun ==
  ASSUME BaseInv, BaseInv', Linked, NEW r \in Runs, Others(r), ChainWork(r) PROVE Linked'
<1> USE DEF Goto, OthersRows
<1>1. CASE \E i \in Items : Fetch(r, i)
  BY <1>1, HandFetch
<1> SUFFICES ASSUME ~ \E i \in Items : Fetch(r, i) PROVE Linked'
  BY <1>1
<1>2. Active(r) /\ item'[r] = item[r] /\ usurped' = usurped
  <2>1. CASE Build(r) \/ Group(r) \/ Select(r) \/ Claim(r) \/ ClaimReplyLost(r) \/ Persist(r)
    BY <2>1 DEF Active, Build, Group, Select, Claim, ClaimReplyLost, Persist, past
  <2>2. CASE Commit(r) \/ StillOwned(r) \/ Skills(r) \/ Unstamp(r) \/ Mark(r) \/ Die(r)
    BY <2>2 DEF Active, Commit, StillOwned, Skills, Unstamp, Mark, Die, past
  <2> QED
    BY <2>1, <2>2 DEF ChainWork, Fetching
<1>3. item[r] \in Items /\ Tied(r)
  BY <1>2 DEF BaseInv, Fits, Linked, Active
<1> USE DEF BaseInv, RunTypes, RowTypes, ChainTypes
<1>4. CASE Build(r) \/ Group(r) \/ Select(r)
  <2>1. won[r] = {} /\ UNCHANGED <<token, carried, rescue, noted, stamped, won, own, past>>
    BY <1>4 DEF Build, Group, Select, Fits, chains
  <2>2. CASE Empty(r)
    <3>1. pc'[r] = "end" /\ \A i \in Items \ {item[r]} : row'[i] = row[i]
      BY <2>2 DEF Empty
    <3>2. OthersRows(r)
      BY <2>1, <3>1 DEF past
    <3>3. stamped' \ lost' \subseteq stamped \ lost
      BY <2>1 DEF past
    <3> QED
      BY <1>2, <2>1, <3>1, <3>2, <3>3, HandEnds
  <2>3. CASE ~Empty(r)
    <3>1. row' = row /\ pc[r] \in Early /\ pc'[r] \in Early
      BY <1>4, <2>3 DEF Build, Group, Select, Early
    <3>2. Tied(r)' /\ row'[item[r]] = "processing"
      BY <1>2, <1>3, <2>1, <3>1 DEF Tied, Early, Active, MayMake
    <3> QED
      BY <1>2, <2>1, <3>1, <3>2, HandStays DEF past
  <2> QED
    BY <2>2, <2>3
<1>5. CASE Claim(r)
  <2>1. /\ won[r] = {} /\ pc[r] = "claim" /\ UNCHANGED <<token, carried, rescue, noted, own, past>>
        /\ won'[r] = Winnable(r) /\ stamped' = stamped \cup Winnable(r)
    <3>1. won' = [won EXCEPT ![r] = Winnable(r)] /\ stamped' = stamped \cup Winnable(r)
      BY <1>5 DEF Claim
    <3>2. pc[r] = "claim" /\ UNCHANGED <<token, carried, rescue, noted, own, past>>
      BY <1>5 DEF Claim, past
    <3>3. Fits(r) /\ won[r] = {}
      BY <3>2 DEF Fits
    <3>4. won'[r] = Winnable(r)
      BY <3>1
    <3> QED
      BY <3>1, <3>2, <3>3, <3>4
  <2>2. CASE Winnable(r) = {}
    <3>1. pc'[r] = "end" /\ \A i \in Items \ {item[r]} : row'[i] = row[i]
      BY <1>5, <2>2 DEF Claim, Empty
    <3>2. stamped' \ lost' \subseteq stamped \ lost
      BY <2>1, <2>2 DEF past
    <3>3. OthersRows(r)
      BY <2>1, <3>1 DEF past
    <3> QED
      BY <1>2, <2>1, <3>1, <3>2, <3>3, HandEnds
  <2>3. CASE Winnable(r) # {}
    <3>1. row' = row /\ pc'[r] = "persist"
      BY <1>5, <2>3 DEF Claim
    <3>2. Tied(r)' /\ row'[item[r]] = "processing"
      BY <1>2, <1>3, <2>1, <3>1 DEF Tied, Early, Active
    <3>3. \A c \in Winnable(r) : Held(c)'
      BY <2>1, <3>1 DEF Held, HeldByRun, MayMake
    <3>4. OthersRows(r)
      BY <2>1, <3>1 DEF past
    <3>5. \A c \in stamped' \ lost' : Held(c)' \/ (c \in stamped \ lost /\ pc[r] \notin MayMake \cup {"unstamp"})
      BY <2>1, <3>3 DEF past, MayMake
    <3> QED
      BY <1>2, <3>2, <3>4, <3>5, HandStays
  <2> QED
    BY <2>2, <2>3
<1>6. CASE ClaimReplyLost(r)
  <2>1. won[r] = {}
    BY <1>6 DEF ClaimReplyLost, Fits
  <2> QED
    BY <1>2, <1>6, <2>1, HandEnds DEF ClaimReplyLost, Empty
<1>7. CASE Persist(r)
  <2>1. /\ pc[r] = "persist" /\ pc'[r] = "agent"
        /\ UNCHANGED <<row, token, rescue, noted, stamped, won, own, made>>
        /\ lost \subseteq lost' /\ \A i \in Items \ {item[r]} : carried'[i] = carried[i]
        /\ won[r] \subseteq carried'[item[r]] \cup lost'
    BY <1>3, <1>7 DEF Persist, chains
  <2>2. Tied(r)' /\ row'[item[r]] = "processing"
    BY <1>2, <1>3, <2>1 DEF Tied, Early, Active
  <2>3. \A c \in won[r] : Held(c)'
    BY <2>1 DEF Held, HeldByRun, MayMake
  <2>4. OthersRows(r)
    BY <1>2, <2>1
  <2>5. \A c \in stamped' \ lost' : Held(c)' \/ (c \in stamped \ lost /\ c \notin won[r])
    BY <2>1, <2>3
  <2> QED
    BY <1>2, <2>2, <2>4, <2>5, HandStays
<1>8. CASE Commit(r)
  <2>1. pc[r] = "agent" /\ row[item[r]] = "processing"
    BY <1>2, <1>3, <1>8 DEF Commit, Tied, Early
  <2>2. /\ pc'[r] = "check" /\ row' = [row EXCEPT ![item[r]] = "committing"]
        /\ token' = [token EXCEPT ![item[r]] = r] /\ own' = [own EXCEPT ![r] = carried[item[r]]]
        /\ UNCHANGED <<carried, rescue, noted, won, stamped, past>>
    BY <1>8, <2>1 DEF Commit
  <2>3. Tied(r)' /\ row'[item[r]] = "committing"
    BY <1>2, <1>3, <2>1, <2>2 DEF Tied, Early, Active, Owned, past
  <2>4. \A c \in won[r] : Held(c)'
    BY <2>2 DEF Held, HeldByRun, MayMake
  <2>5. OthersRows(r)
    BY <1>2, <2>2 DEF past
  <2>6. \A c \in stamped' \ lost' : Held(c)' \/ (c \in stamped \ lost /\ c \notin won[r])
    BY <2>2, <2>4 DEF past
  <2> QED
    BY <1>2, <2>3, <2>5, <2>6, HandStays
<1>9. CASE StillOwned(r)
  <2>1. pc[r] = "check" /\ Owned(r) /\ UNCHANGED <<rows, stamped, past>>
    BY <1>2, <1>3, <1>9 DEF StillOwned, Tied, Early
  <2>2. /\ UNCHANGED <<won, own>>
        /\ pc'[r] = CASE kind[item[r]] = "generate" -> "probe"
                      [] kind[item[r]] = "evolve" -> IF subm[r] = Nothing THEN "mark" ELSE "read"
                      [] kind[item[r]] = "chains"   -> "skills"
    BY <1>9, <2>1 DEF StillOwned
  <2>3. kind[item[r]] \in Work /\ (won[r] # {} => kind[item[r]] = "chains")
    BY <1>3 DEF Fits
  <2>4. pc'[r] \in {"probe", "mark", "read", "skills"} /\ (won[r] # {} => pc'[r] = "skills")
    BY <2>2, <2>3 DEF Work
  <2>5. Tied(r)' /\ row'[item[r]] = "committing"
    BY <1>2, <1>3, <2>1, <2>2, <2>4 DEF Tied, Early, Active, Owned, rows, past
  <2>6. \A c \in won[r] : Held(c)'
    BY <2>2, <2>4 DEF Held, HeldByRun, MayMake
  <2>7. OthersRows(r)
    BY <1>2, <2>1, <2>2 DEF rows, past
  <2>8. \A c \in stamped' \ lost' : Held(c)' \/ (c \in stamped \ lost /\ c \notin won[r])
    BY <2>1, <2>6 DEF past
  <2> QED
    BY <1>2, <2>5, <2>7, <2>8, HandStays
<1>10. CASE Skills(r)
  <2>1. /\ pc[r] = "skills" /\ pc'[r] \in {"mark", "unstamp"}
        /\ UNCHANGED <<rows, chains, reopened, lost, usurped>>
        /\ \A c \in Chains : made'[c] >= made[c]
        /\ pc'[r] = "mark" => \A c \in won[r] : made'[c] > 0
    BY <1>10 DEF Skills
  <2>2. Tied(r)' /\ row'[item[r]] = "committing"
    BY <1>2, <1>3, <2>1 DEF Tied, Early, Active, Owned, rows, chains
  <2>3. \A c \in won[r] : Held(c)'
    BY <2>1 DEF Held, HeldByRun, chains
  <2>4. OthersRows(r)
    BY <1>2, <2>1 DEF rows, chains
  <2>5. \A c \in stamped' \ lost' : Held(c)' \/ (c \in stamped \ lost /\ c \notin won[r])
    BY <2>1, <2>3 DEF chains
  <2> QED
    BY <1>2, <2>2, <2>4, <2>5, HandStays
<1>11. CASE Unstamp(r)
  <2>1. pc[r] = "unstamp" /\ pc'[r] = "mark" /\ UNCHANGED <<rows, won, own, made, usurped>>
    BY <1>11 DEF Unstamp
  <2>2. /\ stamped' \subseteq stamped /\ lost \subseteq lost'
        /\ stamped' \cap own[r] \subseteq lost'
    BY <1>11 DEF Unstamp, Reset
  <2>3. \A c \in won[r] : c \notin stamped' \ lost'
    BY <1>3, <2>1, <2>2 DEF Tied
  <2>4. Tied(r)' /\ row'[item[r]] = "committing"
    BY <1>2, <1>3, <2>1 DEF Tied, Early, Active, Owned, rows
  <2>5. OthersRows(r)
    BY <1>2, <2>1, <2>2 DEF rows
  <2>6. \A c \in stamped' \ lost' : c \in stamped \ lost /\ c \notin won[r]
    BY <2>2, <2>3
  <2> QED
    BY <1>2, <2>4, <2>5, <2>6, HandStays
<1>12. CASE Mark(r)
  <2>1. /\ pc[r] = "mark" /\ pc'[r] = "end"
        /\ UNCHANGED <<token, carried, rescue, noted, stamped, past>>
        /\ \A i \in Items \ {item[r]} : row'[i] = row[i]
        /\ \A q \in Runs \ {r} : own'[q] = own[q]
    BY <1>12 DEF Mark, NoChains
  <2>2. OthersRows(r)
    BY <1>2, <2>1 DEF past
  <2>3. stamped' \ lost' \subseteq stamped \ lost
    BY <2>1 DEF past
  <2> QED
    BY <1>2, <2>1, <2>2, <2>3, HandEnds
<1>13. CASE Die(r)
  <2>1. /\ pc'[r] = "end" /\ UNCHANGED <<rows, stamped, made, usurped>>
        /\ lost \subseteq lost' /\ (pc[r] = "persist" => won[r] \subseteq lost')
        /\ \A q \in Runs \ {r} : own'[q] = own[q]
    BY <1>13 DEF Die, NoChains
  <2>2. OthersRows(r)
    BY <1>2, <2>1 DEF rows
  <2>3. stamped' \ lost' \subseteq stamped \ lost
    BY <2>1
  <2> QED
    BY <1>2, <2>1, <2>2, <2>3, HandEnds
<1> QED
  BY <1>4, <1>5, <1>6, <1>7, <1>8, <1>9, <1>10, <1>11, <1>12, <1>13 DEF ChainWork, Fetching

(* Recovery takes a row from nobody as long as no item is usurped.         *)
LEMMA HandItem ==
  ASSUME BaseInv, BaseInv', Linked, usurped' = {}, NEW i \in Items, ItemAction(i) PROVE Linked'
<1> USE DEF Linked, BaseInv, RowTypes
<1>1. UNCHANGED <<kind, item, pc, cand, won, own, made>>
  BY ItemsStand DEF drain
<1>2. \A r \in Runs : Active(r)' = Active(r)
  BY <1>1 DEF Active
<1>3. Alone'
  BY <1>1, <1>2 DEF Alone
<1>4. \A r \in Runs : Active(r) => item[r] # i
  <2>1. CASE Stuck(i)
    BY <2>1 DEF Stuck, Active
  <2>2. CASE Release(i) \/ GiveBack(i)
    BY <2>2 DEF Release, GiveBack, Tied
  <2> QED
    BY <2>1, <2>2 DEF ItemAction
<1>5. \A j \in Items \ {i} : UNCHANGED <<row[j], token[j], carried[j], rescue[j], noted[j]>>
  BY DEF ItemAction, Stuck, Release, GiveBack
<1>6. lost \subseteq lost'
  BY DEF ItemAction, Stuck, Release, GiveBack, past
<1>7. ASSUME NEW r \in Runs PROVE Tied(r)'
  <2>1. Active(r) => item[r] \in Items \ {i}
    BY <1>4 DEF Fits, Active
  <2> QED
    BY <1>1, <1>5, <1>6, <1>7, <2>1, TiedStays
<1>8. /\ Tended(i)' /\ UNCHANGED carried /\ stamped' \subseteq stamped
      /\ \/ /\ rescue[i] # "released" => rescue'[i] # "released"
            /\ row[i] \in {"processing", "committing"} => row'[i] \in {"processing", "committing"}
         \/ rescue[i] = "released"
         \/ \A c \in carried[i] : c \notin stamped' \ lost'
  <2>1. CASE Stuck(i)
    BY <2>1 DEF Stuck, Tended, chains
  <2>2. CASE Release(i)
    <3>1. /\ noted[i] = carried[i] /\ UNCHANGED <<row, carried, noted>> /\ rescue'[i] = "released"
          /\ row[i] \in {"processing", "committing"}
      BY <2>2 DEF Release, Tended
    <3>2. stamped' \subseteq stamped /\ \A c \in noted[i] : c \notin stamped' \ lost'
      BY <2>2 DEF Release, Reset
    <3> QED
      BY <3>1, <3>2 DEF Tended
  <2>3. CASE GiveBack(i)
    BY <2>3 DEF GiveBack, Tended, chains
  <2> QED
    BY <2>1, <2>2, <2>3 DEF ItemAction
<1>9. ASSUME NEW j \in Items PROVE Tended(j)'
  BY <1>5, <1>8, <1>9 DEF Tended
<1>10. ASSUME NEW c \in stamped' \ lost', HeldByRow(c) PROVE HeldByRow(c)'
  <2>1. PICK j \in Items : /\ c \in carried[j] /\ row[j] \in {"processing", "committing"}
                           /\ rescue[j] # "released"
                           /\ \A q \in Runs : item[q] = j => ~Active(q)
    BY <1>10 DEF HeldByRow
  <2>2. rescue'[j] # "released" /\ row'[j] \in {"processing", "committing"}
    BY <1>5, <1>8, <1>10, <2>1
  <2> QED
    BY <1>1, <1>2, <1>8, <2>1, <2>2 DEF HeldByRow
<1>11. ASSUME NEW c \in stamped' \ lost' PROVE Held(c)'
  <2>1. Held(c)
    BY <1>6, <1>8, <1>11
  <2> QED
    BY <1>1, <1>10, <1>11, <2>1 DEF Held, HeldByRun
<1> QED
  BY <1>3, <1>7, <1>9, <1>11

LEMMA UsurpedGrows ==
  ASSUME [Next]_vars PROVE usurped \subseteq usurped'
<1>1. ASSUME NEW r \in Runs, Fetching(r) PROVE usurped' = usurped
  BY <1>1 DEF Fetching, Fetch, Build, Group, Select, Claim, ClaimReplyLost, Persist, past
<1>2. ASSUME NEW r \in Runs, Committing(r) PROVE usurped' = usurped
  <2>1. CASE Commit(r) \/ StillOwned(r) \/ Skills(r) \/ Unstamp(r) \/ Mark(r)
    BY <2>1 DEF Commit, StillOwned, Skills, Unstamp, Mark, past
  <2>2. CASE Probe(r) \/ ReadSoul(r) \/ Writes(r)
    BY <2>2 DEF Probe, ReadSoul, Writes, CreateSoul, CreateSoulFails, Revise, ReviseFails, past
  <2>3. CASE View(r) \/ List(r) \/ Copy(r) \/ Archive(r) \/ Celebrate(r)
    BY <2>3 DEF View, List, Copy, Archive, Celebrate, past
  <2> QED
    BY <1>2, <2>1, <2>2, <2>3 DEF Committing, Writes
<1>3. ASSUME NEW r \in Runs, Die(r) PROVE usurped' = usurped
  BY <1>3 DEF Die
<1>4. ASSUME NEW i \in Items, ItemAction(i) PROVE usurped \subseteq usurped'
  BY <1>4 DEF ItemAction, Stuck, Release, GiveBack, past
<1>5. CASE UNCHANGED vars
  BY <1>5 DEF vars, past
<1> QED
  BY <1>1, <1>2, <1>3, <1>4, <1>5 DEF Next, ItemAction

LEMMA HandStep ==
  ASSUME BaseInv, BaseInv', HandInv, [Next]_vars PROVE HandInv'
<1> SUFFICES ASSUME usurped' = {} PROVE Linked'
  BY DEF HandInv
<1>1. Linked
  BY UsurpedGrows DEF HandInv
<1>2. CASE UNCHANGED vars
  BY <1>1, <1>2 DEF vars, rows, drain, chains, past, Linked, Alone, Active, Tied, Tended, Owned,
                    Held, HeldByRun, HeldByRow
<1>3. ASSUME NEW r \in Runs, RunAction(r) PROVE Linked'
  BY <1>1, <1>3, OthersStand, ChainActions, HandSoul, HandRun
<1>4. ASSUME NEW i \in Items, ItemAction(i) PROVE Linked'
  BY <1>1, <1>4, HandItem
<1> QED
  BY <1>2, <1>3, <1>4 DEF Next, RunAction, ItemAction

-----------------------------------------------------------------------------
LEMMA InitBase == Init => BaseInv
<1> SUFFICES ASSUME Init PROVE BaseInv
  OBVIOUS
<1> USE GraduationAssumption DEF Init
<1>1. doc \in Docs /\ Nothing \in Docs /\ (~alive => doc = Nothing)
  BY DEF Docs, Nothing, Entries
<1>2. RowTypes /\ RunTypes /\ ChainTypes
  BY DEF RowTypes, RunTypes, ChainTypes, Steps
<1>3. SoulTypes
  <2>1. attempt \in [Runs -> 0..MaxAttempts]
    OBVIOUS
  <2>2. /\ seen \in [Runs -> Docs] /\ snap \in [Runs -> Docs]
        /\ subm \in [Runs -> Docs]
    <3> HIDE DEF Init
    <3>1. seen = [r \in Runs |-> Nothing] /\ snap = [r \in Runs |-> Nothing]
          /\ subm = [r \in Runs |-> Nothing]
      BY DEF Init
    <3> QED
      BY <1>1, <3>1
  <2>3. alive \in BOOLEAN /\ events \in Nat /\ resent \in Nat /\ blurred \in BOOLEAN
    OBVIOUS
  <2> QED
    BY <1>1, <2>1, <2>2, <2>3 DEF SoulTypes
<1>4. core \in SUBSET CoreRows
  BY DEF CoreRows, Entries
<1>5. CopyTypes
  BY <1>1, <1>4 DEF CopyTypes
<1>6. \A r \in Runs : Fits(r) /\ Attempts(r) /\ pc[r] # "update"
  BY DEF Fits, Attempts, OnChains, OnSoul
<1> QED
  BY <1>1, <1>2, <1>3, <1>5, <1>6 DEF BaseInv

LEMMA InitRest == Init => CopyInv /\ FollowInv /\ EventInv /\ BudgetInv /\ HandInv
<1> SUFFICES ASSUME Init PROVE CopyInv /\ FollowInv /\ EventInv /\ BudgetInv /\ HandInv
  OBVIOUS
<1> USE GraduationAssumption DEF Init
<1>1. \A x \in core : x.by = None /\ x.sect \in Sections /\ x.text = {None} /\ alive
  OBVIOUS
<1>2. ASSUME alive, NEW s \in Sections PROVE \E x \in core : x.sect = s
  <2> DEFINE x0 == [by |-> None, sect |-> s, text |-> {None}]
  <2>1. core = {[by |-> None, sect |-> t, text |-> {None}] : t \in Sections}
    BY <1>2
  <2>2. x0 \in core /\ x0.sect = s
    BY <2>1
  <2> QED
    BY <2>2
<1>3. CopyInv
  BY <1>1 DEF CopyInv, Authored, Safe, Has, Nothing
<1>4. \A s \in Sections : Matches(s)
  BY <1>1, <1>2, MatchesMeans DEF Has
<1>5. FollowInv
  BY <1>4 DEF FollowInv, Copies, Views
<1>6. EventInv
  BY DEF EventInv, Creator, CelebratedOnce
<1>7. BudgetInv
  <2> SUFFICES ASSUME NEW c \in Chains PROVE BudgetOf(c)
    BY DEF BudgetInv
  <2>1. Makers(c) = {}
    BY DEF Makers
  <2> QED
    BY <2>1, FS_EmptySet DEF BudgetOf
<1>8. HandInv
  BY DEF HandInv, Linked, Alone, Tied, Tended, Active
<1> QED
  BY <1>3, <1>5, <1>6, <1>7, <1>8

LEMMA GraduationStep == GraduationInv /\ [Next]_vars => GraduationInv'
<1> SUFFICES ASSUME GraduationInv, [Next]_vars PROVE GraduationInv'
  OBVIOUS
<1> USE DEF GraduationInv
<1>1. BaseInv'
  BY BaseStep
<1>2. CopyInv' /\ FollowInv' /\ EventInv'
  BY CopyStep, FollowStep, EventStep
<1>3. BudgetInv' /\ HandInv'
  BY <1>1, BudgetStep, HandStep
<1> QED
  BY <1>1, <1>2, <1>3

(* The inductive invariant: where a run may be with its item, whose rows   *)
(* Tier 0 has, who celebrates, and who has which chain.                    *)
THEOREM GraduationInvariant == Spec => []GraduationInv
<1>1. Init => GraduationInv
  BY InitBase, InitRest DEF GraduationInv
<1> QED
  BY <1>1, GraduationStep, PTL DEF Spec

(* Every variable of the soul, its copy and the chains keeps its type.     *)
THEOREM GraduationIsTyped == Spec => []TypeOK
<1>1. GraduationInv => TypeOK
  BY DEF GraduationInv, BaseInv, RowTypes, RunTypes, SoulTypes, CopyTypes, CoreRows, ChainTypes, TypeOK
<1> QED
  BY <1>1, GraduationInvariant, PTL

(* seedSoulAsCoreMemory (soul.ts): between commits Tier 0 says what the    *)
(* soul says, however many drains revise it, unless a copy failed or two   *)
(* overlapped.                                                             *)
THEOREM TierZeroIsCurrent == Spec => []TierZeroFollows
<1>1. GraduationInv => TierZeroFollows
  BY DEF GraduationInv, FollowInv, TierZeroFollows, Settled, Views, Copies, Matches
<1> QED
  BY <1>1, GraduationInvariant, PTL

(* A soul is celebrated once (soul.ts), and a causal chain makes skills    *)
(* once and is in somebody's hands until it has (pending-work.ts), for any *)
(* number of items, drains, chains and faults.                             *)
THEOREM GraduatesOnce == Spec => []DoneOnce
<1>1. GraduationInv => SkillsBudget
  <2> SUFFICES ASSUME GraduationInv, NEW c \in Chains PROVE made[c] <= 1 + reopened[c]
    BY DEF SkillsBudget
  <2>1. Cardinality(Makers(c)) \in Nat /\ made[c] \in Nat /\ reopened[c] \in Nat
    BY MakersCount DEF GraduationInv, BaseInv, ChainTypes
  <2> QED
    BY <2>1 DEF GraduationInv, BudgetInv, BudgetOf
<1>2. GraduationInv => NotStranded
  <2> SUFFICES ASSUME GraduationInv, usurped = {}, NEW c \in stamped \ lost
               PROVE  made[c] > 0 \/ InHand(c)
    BY DEF NotStranded
  <2>1. Held(c)
    BY DEF GraduationInv, HandInv, Linked
  <2> QED
    BY <2>1 DEF Held, HeldByRun, HeldByRow, InHand, MayMake
<1>3. GraduationInv => DoneOnce
  BY <1>1, <1>2 DEF DoneOnce, ChainsOnce, GraduationInv, EventInv
<1> QED
  BY <1>3, GraduationInvariant, PTL

(* reviseSoulGuarded and seedSoulAsCoreMemory (soul.ts): a revision drops  *)
(* only entries it has read, and Tier 0 never loses a section.             *)
THEOREM UnseenIsKept == Spec => NothingUnseenLost
<1> DEFINE Drops == \A s \in Sections : \A e \in doc[s] \ doc'[s] :
                      \E r \in Runs : pc[r] = "update" /\ e \in snap[r][s]
           Keeps == \A s \in Sections : Has(s) => Has(s)'
<1>1. GraduationInv /\ [Next]_vars => [Drops]_vars /\ [Keeps]_vars
  BY DropsStep, CopyStep DEF GraduationInv
<1>2. Spec => [][Drops]_vars /\ [][Keeps]_vars
  BY <1>1, GraduationInvariant, PTL DEF Spec
<1> QED
  BY <1>2 DEF NothingUnseenLost, DropsOnlyRead, IdentityKept
=============================================================================
