----------------------------- MODULE Graduation -----------------------------
(***************************************************************************)
(* The three kinds of work that change what the agent is: soul_generate,   *)
(* soul_evolve and causal_graduate (src/tools/pending-work.ts), from the   *)
(* fetch to the commit, with the soul document and its copy in Tier 0 of   *)
(* the core memory (src/engine/soul.ts).                                   *)
(*                                                                         *)
(* The row of a work item is reduced to what PendingWork shows in detail:  *)
(* who may commit, and that recovery hands it out again.  A step is one    *)
(* round trip to the store.  A run is a drainer with one item: the fetch,  *)
(* the agent's work and the commit.                                        *)
(***************************************************************************)
EXTENDS Naturals, FiniteSets

CONSTANTS
  Items,        \* rows of pending_work
  Kinds,        \* the kinds they may have: a subset of [Items -> Work]
  Runs,         \* drainers with an item, each used once
  Sections,     \* the sections of the soul that may change
  SectionCap,   \* SOUL_SECTION_CAPS
  Chains,       \* causal chains of one eligible chain_type
  MinChains,    \* how many of them make a group (3 in the code)
  MaxAttempts,  \* MAX_CAS_ATTEMPTS
  MaxFaults,    \* bound on lost replies, failed statements, deaths of a run
                \* and recoveries of a row whose drainer is alive
  None

Work == {"generate", "evolve", "chains"}

ASSUME GraduationAssumption ==
  /\ Kinds \subseteq [Items -> Work]
  /\ SectionCap \in Nat \ {0} /\ MinChains \in Nat \ {0}
  /\ MaxAttempts \in Nat \ {0} /\ MaxFaults \in Nat
  /\ None \notin Runs \cup Items /\ IsFiniteSet(Runs)

VARIABLES
  kind,     \* item -> its work_type
  row,      \* item -> "open", "processing", "committing" or "done"
  token,    \* item -> the run of its committing_token
  carried,  \* item -> won_chain_ids
  rescue,   \* item -> recovery of the row: "none", "seen", "released"
  noted,    \* item -> won_chain_ids as recovery has read them
  item,     \* run -> the item it has claimed
  pc,       \* run -> where it is
  alive,    \* the soul exists
  doc,      \* section -> its entries: the runs that wrote them, None for one
            \* that was there before
  seen,     \* run -> the document it was given
  snap,     \* run -> the document its attempt to revise has read
  subm,     \* run -> section -> what the agent returns, {} if left out
  attempt,  \* run -> attempts to revise
  core,     \* active soul rows of core_memory: [by, sect, text]
  view,     \* run -> the document it copies into core memory
  listed,   \* run -> the rows it has listed before it copies
  copied,   \* run -> sections it has copied
  events,   \* rows of graduation_event
  stamped,  \* chains with graduated_at
  cand,     \* run -> chains it has selected
  won,      \* run -> chains it has claimed, the input of its synthesis
  own,      \* run -> won_chain_ids of the item its commit was given
  made,     \* chain -> runs that made skills from it (history)
  reopened, \* chain -> how often it was un-stamped (history)
  lost,     \* chains whose claim was cut off from their item (history)
  usurped,  \* items recovered while their drainer was alive (history)
  resent,   \* CREATEs of graduation_event sent twice (history)
  blurred,  \* a copy into core memory failed, or two overlapped (history)
  faults

rows   == <<kind, row, token, carried, rescue, noted>>
drain  == <<item, pc>>
soul   == <<alive, doc>>
revise == <<seen, snap, subm, attempt>>
tier0  == <<core, view, listed, copied>>
chains == <<stamped, cand, won, own>>
past   == <<made, reopened, lost, usurped>>
vars == <<rows, drain, soul, revise, tier0, events, resent, blurred, chains, past, faults>>

Entries == Runs \cup {None}
Docs == [Sections -> SUBSET Entries]
Steps == {"new", "build", "group", "select", "claim", "persist", "agent", "check", "probe",
          "create", "read", "update", "skills", "unstamp", "view", "list", "copy", "archive",
          "event", "mark", "end"}

TypeOK ==
  /\ kind \in Kinds /\ row \in [Items -> {"open", "processing", "committing", "done"}]
  /\ token \in [Items -> Runs \cup {None}] /\ carried \in [Items -> SUBSET Chains]
  /\ rescue \in [Items -> {"none", "seen", "released"}] /\ noted \in [Items -> SUBSET Chains]
  /\ item \in [Runs -> Items \cup {None}] /\ pc \in [Runs -> Steps]
  /\ alive \in BOOLEAN /\ doc \in Docs
  /\ seen \in [Runs -> Docs] /\ snap \in [Runs -> Docs] /\ subm \in [Runs -> Docs]
  /\ attempt \in [Runs -> 0..MaxAttempts]
  /\ core \subseteq [by : Entries, sect : Sections, text : SUBSET Entries]
  /\ view \in [Runs -> Docs] /\ copied \in [Runs -> SUBSET Sections]
  /\ \A r \in Runs : listed[r] \subseteq [by : Entries, sect : Sections, text : SUBSET Entries]
  /\ events \in Nat /\ resent \in Nat /\ blurred \in BOOLEAN
  /\ stamped \subseteq Chains
  /\ cand \in [Runs -> SUBSET Chains] /\ won \in [Runs -> SUBSET Chains]
  /\ own \in [Runs -> SUBSET Chains]
  /\ made \in [Chains -> Nat] /\ reopened \in [Chains -> Nat]
  /\ lost \subseteq Chains /\ usurped \subseteq Items /\ faults \in 0..MaxFaults

Nothing == [s \in Sections |-> {}]

(* With or without a soul, which then has been copied.                     *)
Init ==
  /\ kind \in Kinds /\ row = [i \in Items |-> "open"] /\ token = [i \in Items |-> None]
  /\ carried = [i \in Items |-> {}] /\ rescue = [i \in Items |-> "none"]
  /\ noted = [i \in Items |-> {}]
  /\ item = [r \in Runs |-> None] /\ pc = [r \in Runs |-> "new"]
  /\ alive \in BOOLEAN
  /\ doc = [s \in Sections |-> IF alive THEN {None} ELSE {}]
  /\ seen = [r \in Runs |-> Nothing] /\ snap = [r \in Runs |-> Nothing]
  /\ subm = [r \in Runs |-> Nothing] /\ attempt = [r \in Runs |-> 0]
  /\ core = IF alive THEN {[by |-> None, sect |-> s, text |-> {None}] : s \in Sections} ELSE {}
  /\ view = [r \in Runs |-> Nothing] /\ listed = [r \in Runs |-> {}]
  /\ copied = [r \in Runs |-> {}]
  /\ events = 0 /\ resent = 0 /\ blurred = FALSE
  /\ stamped = {} /\ cand = [r \in Runs |-> {}] /\ won = [r \in Runs |-> {}]
  /\ own = [r \in Runs |-> {}]
  /\ made = [c \in Chains |-> 0] /\ reopened = [c \in Chains |-> 0]
  /\ lost = {} /\ usurped = {} /\ faults = 0

-----------------------------------------------------------------------------
(* A definition named Bad... is a faulty variant of the one it precedes;   *)
(* no action uses it.                                                      *)

Fault == faults < MaxFaults /\ faults' = faults + 1
Goto(r, there) == pc' = [pc EXCEPT ![r] = there]

(* What a run holds is cleared when nothing reads it any more.             *)
NoDraft(r) == /\ seen' = [seen EXCEPT ![r] = Nothing] /\ snap' = [snap EXCEPT ![r] = Nothing]
              /\ subm' = [subm EXCEPT ![r] = Nothing] /\ attempt' = [attempt EXCEPT ![r] = 0]
NoCopy(r) == /\ view' = [view EXCEPT ![r] = Nothing] /\ listed' = [listed EXCEPT ![r] = {}]
             /\ copied' = [copied EXCEPT ![r] = {}]
NoChains(r) == /\ cand' = [cand EXCEPT ![r] = {}] /\ won' = [won EXCEPT ![r] = {}]
               /\ own' = [own EXCEPT ![r] = {}]

(* markTerminal without a token: an item with nothing to do.               *)
Empty(r) == Goto(r, "end") /\ row' = [row EXCEPT ![item[r]] = "done"]

(* handleFetchPendingWork claims a row; buildWorkPayload follows.          *)
Fetch(r, i) ==
  /\ pc[r] = "new" /\ row[i] = "open"
  /\ row' = [row EXCEPT ![i] = "processing"]
  /\ item' = [item EXCEPT ![r] = i]
  /\ Goto(r, IF kind[i] = "chains" THEN "group" ELSE "build")
  /\ UNCHANGED <<kind, token, carried, rescue, noted, soul, revise, tier0, events, resent,
                 blurred, chains, past, faults>>

(* soul_generate: superseded if there is a soul, or not ready; soul_evolve:*)
(* no soul, or no new experience.  A query of hasSoul that fails says no.  *)
Build(r) ==
  /\ pc[r] = "build"
  /\ \/ Empty(r) /\ UNCHANGED <<seen, faults>>
     \/ /\ \/ alive = (kind[item[r]] = "evolve") /\ UNCHANGED faults
           \/ alive /\ kind[item[r]] = "generate" /\ Fault
        /\ Goto(r, "agent") /\ seen' = [seen EXCEPT ![r] = doc] /\ UNCHANGED row
  /\ UNCHANGED <<kind, token, carried, rescue, noted, item, soul, snap, subm, attempt, tier0,
                 events, resent, blurred, chains, past>>

-----------------------------------------------------------------------------
(* causal_graduate: count the groups, select the candidates, claim those   *)
(* nobody has claimed since, and write their ids to the item.              *)
Group(r) ==
  /\ pc[r] = "group"
  /\ IF Cardinality(Chains \ stamped) >= MinChains THEN Goto(r, "select") /\ UNCHANGED row
                                                  ELSE Empty(r)
  /\ UNCHANGED <<kind, token, carried, rescue, noted, item, soul, revise, tier0, events,
                 resent, blurred, chains, past, faults>>

(* CLAIM_CAP may leave some of them out.                                   *)
Select(r) ==
  /\ pc[r] = "select"
  /\ IF stamped = Chains
       THEN Empty(r) /\ UNCHANGED cand
       ELSE /\ \E C \in SUBSET (Chains \ stamped) : C # {} /\ cand' = [cand EXCEPT ![r] = C]
            /\ Goto(r, "claim") /\ UNCHANGED row
  /\ UNCHANGED <<kind, token, carried, rescue, noted, item, soul, revise, tier0, events,
                 resent, blurred, stamped, won, own, past, faults>>

BadWinnable(r) == cand[r]
Winnable(r) == cand[r] \ stamped
Claim(r) ==
  /\ pc[r] = "claim"
  /\ won' = [won EXCEPT ![r] = Winnable(r)] /\ stamped' = stamped \cup Winnable(r)
  /\ cand' = [cand EXCEPT ![r] = {}]
  /\ IF Winnable(r) = {} THEN Empty(r) ELSE Goto(r, "persist") /\ UNCHANGED row
  /\ UNCHANGED <<kind, token, carried, rescue, noted, item, soul, revise, tier0, events,
                 resent, blurred, own, past, faults>>

(* The claim lands, its reply is lost, and the one that withRetry sends    *)
(* finds nothing left to win.                                              *)
ClaimReplyLost(r) ==
  /\ pc[r] = "claim" /\ Winnable(r) # {} /\ Fault
  /\ stamped' = stamped \cup Winnable(r) /\ lost' = lost \cup Winnable(r)
  /\ Empty(r) /\ cand' = [cand EXCEPT ![r] = {}]
  /\ UNCHANGED <<kind, token, carried, rescue, noted, item, soul, revise, tier0, events,
                 resent, blurred, won, own, made, reopened, usurped>>

(* A failed write of won_chain_ids is swallowed.                           *)
Persist(r) ==
  /\ pc[r] = "persist" /\ Goto(r, "agent")
  /\ \/ carried' = [carried EXCEPT ![item[r]] = won[r]] /\ UNCHANGED <<lost, faults>>
     \/ Fault /\ lost' = lost \cup won[r] /\ UNCHANGED carried
  /\ UNCHANGED <<kind, row, token, rescue, noted, item, soul, revise, tier0, events, resent,
                 blurred, chains, made, reopened, usurped>>

-----------------------------------------------------------------------------
(* handleCommitWorkResults.  What an agent returns for a section is a list *)
(* of entries it was shown and of its own; nothing if it leaves it out.    *)
Commit(r) ==
  LET i == item[r] IN
  /\ pc[r] = "agent"
  /\ IF row[i] = "processing"
       THEN /\ row' = [row EXCEPT ![i] = "committing"] /\ token' = [token EXCEPT ![i] = r]
            /\ own' = [own EXCEPT ![r] = carried[i]] /\ Goto(r, "check")
            /\ IF kind[i] = "chains" THEN UNCHANGED subm
               ELSE \E f \in Docs : /\ \A s \in Sections : f[s] \subseteq seen[r][s] \cup {r}
                                    /\ subm' = [subm EXCEPT ![r] = f]
            /\ UNCHANGED <<seen, snap, attempt, cand, won>>
       ELSE Goto(r, "end") /\ NoDraft(r) /\ NoChains(r) /\ UNCHANGED <<row, token>>
  /\ UNCHANGED <<kind, carried, rescue, noted, item, soul, tier0, events, resent, blurred,
                 stamped, past, faults>>

Owned(r) == row[item[r]] = "committing" /\ token[item[r]] = r

StillOwned(r) ==
  /\ pc[r] = "check"
  /\ IF Owned(r)
       THEN /\ Goto(r, CASE kind[item[r]] = "generate" -> "probe"
                         [] kind[item[r]] = "evolve" ->
                              IF subm[r] = Nothing THEN "mark" ELSE "read"
                         [] kind[item[r]] = "chains"   -> "skills")
            /\ UNCHANGED <<revise, cand, won, own>>
       ELSE Goto(r, "end") /\ NoDraft(r) /\ NoChains(r)
  /\ UNCHANGED <<rows, item, soul, tier0, events, resent, blurred, stamped, past, faults>>

(* markTerminal with the token, for a result and for an error.             *)
Mark(r) ==
  /\ pc[r] = "mark" /\ Goto(r, "end") /\ NoDraft(r) /\ NoCopy(r) /\ NoChains(r)
  /\ row' = [row EXCEPT ![item[r]] = IF Owned(r) THEN "done" ELSE @]
  /\ UNCHANGED <<kind, token, carried, rescue, noted, item, soul, core, events, resent,
                 blurred, stamped, past, faults>>

-----------------------------------------------------------------------------
(* commitResults, causal_graduate: skills from what the run was given, or  *)
(* none, or an error, before or after the first.                           *)
Skills(r) ==
  /\ pc[r] = "skills"
  /\ \E some \in BOOLEAN : \E throws \in BOOLEAN :
       /\ made' = [c \in Chains |-> IF some /\ c \in won[r] THEN made[c] + 1 ELSE made[c]]
       /\ throws => Fault
       /\ ~throws => UNCHANGED faults
       /\ Goto(r, IF some /\ ~throws THEN "mark" ELSE "unstamp")
  /\ UNCHANGED <<rows, item, soul, revise, tier0, events, resent, blurred, chains, reopened,
                 lost, usurped>>

(* unstampGraduatedChains: whoever has stamped them; its errors are        *)
(* swallowed.                                                              *)
BadReset(C) == UNCHANGED <<stamped, reopened>>
Reset(C) ==
  /\ stamped' = stamped \ C
  /\ reopened' = [c \in Chains |-> IF c \in C \cap stamped THEN reopened[c] + 1 ELSE reopened[c]]

Unstamp(r) ==
  /\ pc[r] = "unstamp" /\ Goto(r, "mark")
  /\ \/ Reset(own[r]) /\ UNCHANGED <<lost, faults>>
     \/ Fault /\ lost' = lost \cup own[r] /\ UNCHANGED <<stamped, reopened>>
  /\ UNCHANGED <<rows, item, soul, revise, tier0, events, resent, blurred, cand, won, own,
                 made, usurped>>

-----------------------------------------------------------------------------
(* createSoul: a probe, then the CREATE of a fixed id.  Who finds a soul   *)
(* has not written it, and leaves the rest alone.                          *)
Probe(r) ==
  /\ pc[r] = "probe"
  /\ \/ Goto(r, IF alive THEN "mark" ELSE "create") /\ UNCHANGED faults
     \/ alive /\ Fault /\ Goto(r, "create")
  /\ UNCHANGED <<rows, item, soul, revise, tier0, events, resent, blurred, chains, past>>

BadOutcome == "view"
Outcome == IF alive THEN "mark" ELSE "view"
CreateSoul(r) ==
  /\ pc[r] = "create" /\ Goto(r, Outcome) /\ NoDraft(r)
  /\ alive' = TRUE
  /\ doc' = IF alive THEN doc ELSE [s \in Sections |-> {r} \cap subm[r][s]]
  /\ UNCHANGED <<rows, item, tier0, events, resent, blurred, chains, past, faults>>

(* Landed or not, the retry throws.                                        *)
CreateSoulFails(r) ==
  /\ pc[r] = "create" /\ ~alive /\ Fault /\ Goto(r, "mark")
  /\ blurred' = TRUE
  /\ \/ UNCHANGED soul
     \/ alive' = TRUE /\ doc' = [s \in Sections |-> {r} \cap subm[r][s]]
  /\ UNCHANGED <<rows, item, revise, tier0, events, resent, chains, past>>

-----------------------------------------------------------------------------
(* commitResults, soul_evolve.  A soul that cannot be read is none.        *)
ReadSoul(r) ==
  /\ pc[r] = "read"
  /\ \/ Goto(r, IF alive THEN "update" ELSE "mark") /\ UNCHANGED faults
     \/ Fault /\ Goto(r, "mark")
  /\ snap' = [snap EXCEPT ![r] = doc] /\ attempt' = [attempt EXCEPT ![r] = @ + 1]
  /\ UNCHANGED <<rows, item, soul, seen, subm, tier0, events, resent, blurred, chains, past>>

Wanted(r) == {s \in Sections : subm[r][s] # {}}

(* mergeSoulSection and applySoulSectionCap: what shares no entry with the *)
(* section is appended, and the oldest give way; else it replaces it.      *)
Merges(cur, new) ==
  IF cur # {} /\ cur \cap new = {}
  THEN {m \in SUBSET (cur \cup new) :
          /\ (new \subseteq m \/ m \subseteq new)
          /\ Cardinality(m) = IF Cardinality(cur \cup new) <= SectionCap
                              THEN Cardinality(cur \cup new) ELSE SectionCap}
  ELSE {m \in SUBSET new : \/ m = new /\ Cardinality(new) <= SectionCap
                           \/ Cardinality(new) > SectionCap /\ Cardinality(m) = SectionCap}

(* reviseSoulGuarded: every section it writes is as it was read.  (One     *)
(* that is missing in an old row would be written without this guard: here *)
(* every section is there.)                                                *)
BadUnmoved(r) == alive
Unmoved(r) == \A s \in Wanted(r) : doc[s] = snap[r][s]

Revised(r) ==
  \E f \in Docs :
    /\ \A s \in Sections : IF s \in Wanted(r) THEN f[s] \in Merges(snap[r][s], subm[r][s])
                                              ELSE f[s] = doc[s]
    /\ doc' = f

BadConflict(r) == Goto(r, IF attempt[r] <= MaxAttempts THEN "read" ELSE "mark")
Conflict(r) == Goto(r, IF attempt[r] < MaxAttempts THEN "read" ELSE "mark")

Revise(r) ==
  /\ pc[r] = "update"
  /\ IF Unmoved(r) THEN Revised(r) /\ Goto(r, "view") /\ NoDraft(r)
                   ELSE Conflict(r) /\ UNCHANGED <<doc, revise>>
  /\ UNCHANGED <<rows, item, alive, tier0, events, resent, blurred, chains, past, faults>>

(* The update lands and its reply is lost: the second one finds other      *)
(* values, unless nothing changed.  Or it fails, and the loop ends.        *)
ReviseFails(r) ==
  /\ pc[r] = "update" /\ Fault
  /\ \/ /\ Unmoved(r) /\ Revised(r)
        /\ IF doc' = doc THEN Goto(r, "view") ELSE Conflict(r)
     \/ Goto(r, "mark") /\ UNCHANGED doc
  /\ blurred' = TRUE
  /\ UNCHANGED <<rows, item, alive, revise, tier0, events, resent, chains, past>>

-----------------------------------------------------------------------------
(* seedSoulAsCoreMemory: list the active rows, create one per section that *)
(* has entries, and archive those of the list that have a successor.       *)
Copying(r) == pc[r] \in {"list", "copy", "archive"}

After(r) == IF kind[item[r]] = "generate" THEN "event" ELSE "mark"

View(r) ==
  /\ pc[r] = "view"
  /\ \/ /\ Goto(r, "list") /\ view' = [view EXCEPT ![r] = doc]
        /\ blurred' = (blurred \/ \E q \in Runs : Copying(q)) /\ UNCHANGED faults
     \/ Fault /\ Goto(r, After(r)) /\ blurred' = TRUE /\ UNCHANGED view
  /\ UNCHANGED <<rows, item, soul, revise, core, listed, copied, events, resent, chains, past>>

List(r) ==
  /\ pc[r] = "list" /\ Goto(r, "copy")
  /\ \/ listed' = [listed EXCEPT ![r] = core] /\ UNCHANGED <<blurred, faults>>
     \/ Fault /\ blurred' = TRUE /\ UNCHANGED listed
  /\ UNCHANGED <<rows, item, soul, revise, core, view, copied, events, resent, chains, past>>

(* The sections that seedSoulAsCoreMemory copies: emotional_dimensions is  *)
(* not one of them, and so not one of Sections.                            *)
ToCopy(r) == {s \in Sections : view[r][s] # {}} \ copied[r]

(* The next section; createCoreMemory may fail.                            *)
Copy(r) ==
  /\ pc[r] = "copy" /\ ToCopy(r) # {}
  /\ \E s \in ToCopy(r) :
       \/ /\ core' = core \cup {[by |-> r, sect |-> s, text |-> view[r][s]]}
          /\ copied' = [copied EXCEPT ![r] = @ \cup {s}] /\ UNCHANGED <<view, blurred, faults>>
       \/ /\ Fault /\ blurred' = TRUE /\ view' = [view EXCEPT ![r][s] = {}]
          /\ UNCHANGED <<core, copied>>
  /\ UNCHANGED <<rows, drain, soul, revise, listed, events, resent, chains, past>>

BadSuperseded(r) == listed[r]
BadOldest(r) == {x \in listed[r] : x.by = None}
Superseded(r) == {x \in listed[r] : x.sect \in copied[r]}

Archive(r) ==
  /\ pc[r] = "copy" /\ ToCopy(r) = {} /\ Goto(r, After(r))
  /\ \/ core' = core \ Superseded(r) /\ UNCHANGED <<blurred, faults>>
     \/ Fault /\ blurred' = TRUE /\ UNCHANGED core
  /\ NoCopy(r)
  /\ UNCHANGED <<rows, item, soul, revise, events, resent, chains, past>>

(* recordGraduationEvent; sent again when the reply is lost.               *)
Celebrate(r) ==
  /\ pc[r] = "event" /\ Goto(r, "mark")
  /\ \/ events' = events + 1 /\ UNCHANGED <<resent, faults>>
     \/ Fault /\ events' = events + 2 /\ resent' = resent + 1
     \/ Fault /\ UNCHANGED <<events, resent>>
  /\ UNCHANGED <<rows, item, soul, revise, tier0, blurred, chains, past>>

-----------------------------------------------------------------------------
(* A drainer, or the daemon in the middle of a call, dies.                 *)
Die(r) ==
  /\ pc[r] \notin {"new", "end"} /\ Fault /\ Goto(r, "end")
  /\ NoDraft(r) /\ NoCopy(r) /\ NoChains(r)
  /\ lost' = IF pc[r] = "persist" THEN lost \cup won[r] ELSE lost
  /\ blurred' = TRUE
  /\ UNCHANGED <<rows, item, soul, core, events, resent, stamped, made, reopened, usurped>>

(* Recovery of a row: it is seen with its chain ids, these are released,   *)
(* and it is given back whatever has become of it.                         *)
Stuck(i) ==
  /\ row[i] \in {"processing", "committing"} /\ rescue[i] = "none"
  /\ rescue' = [rescue EXCEPT ![i] = "seen"] /\ noted' = [noted EXCEPT ![i] = carried[i]]
  /\ IF \E r \in Runs : item[r] = i /\ pc[r] # "end"
       THEN Fault /\ usurped' = usurped \cup {i}
       ELSE UNCHANGED <<faults, usurped>>
  /\ UNCHANGED <<kind, row, token, carried, drain, soul, revise, tier0, events, resent,
                 blurred, chains, made, reopened, lost>>

Release(i) ==
  /\ rescue[i] = "seen" /\ rescue' = [rescue EXCEPT ![i] = "released"]
  /\ \/ Reset(noted[i]) /\ UNCHANGED <<lost, faults>>
     \/ Fault /\ lost' = lost \cup noted[i] /\ UNCHANGED <<stamped, reopened>>
  /\ UNCHANGED <<kind, row, token, carried, noted, drain, soul, revise, tier0, events, resent,
                 blurred, cand, won, own, made, usurped>>

GiveBack(i) ==
  /\ rescue[i] = "released" /\ rescue' = [rescue EXCEPT ![i] = "none"]
  /\ noted' = [noted EXCEPT ![i] = {}]
  /\ \/ row' = [row EXCEPT ![i] = "open"] /\ UNCHANGED faults
     \/ Fault /\ UNCHANGED row
  /\ UNCHANGED <<kind, token, carried, drain, soul, revise, tier0, events, resent, blurred,
                 chains, past>>

-----------------------------------------------------------------------------
Fetching(r) == \/ \E i \in Items : Fetch(r, i)
               \/ Build(r) \/ Group(r) \/ Select(r) \/ Claim(r) \/ ClaimReplyLost(r) \/ Persist(r)
Committing(r) == \/ Commit(r) \/ StillOwned(r) \/ Skills(r) \/ Unstamp(r)
                 \/ Probe(r) \/ CreateSoul(r) \/ CreateSoulFails(r)
                 \/ ReadSoul(r) \/ Revise(r) \/ ReviseFails(r)
                 \/ View(r) \/ List(r) \/ Copy(r) \/ Archive(r) \/ Celebrate(r) \/ Mark(r)

Next ==
  \/ \E r \in Runs : Fetching(r) \/ Committing(r) \/ Die(r)
  \/ \E i \in Items : Stuck(i) \/ Release(i) \/ GiveBack(i)

Spec == Init /\ [][Next]_vars

-----------------------------------------------------------------------------
(* A revision drops an entry of a section only if the attempt has read it: *)
(* what another drain has written since is kept, by a conflict and a new   *)
(* merge (soul.ts 585-616).                                                *)
DropsOnlyRead ==
  [][\A s \in Sections : \A e \in doc[s] \ doc'[s] :
       \E r \in Runs : pc[r] = "update" /\ e \in snap[r][s]]_vars

(* Once Tier 0 has a section of the soul it always has it, whichever seeds *)
(* run side by side, fail or die half-way (soul.ts 782-846).               *)
Has(s) == \E x \in core : x.sect = s
IdentityKept == [][\A s \in Sections : Has(s) => Has(s)']_vars

(* Concurrent drains of soul work lose nothing they have not seen, in the  *)
(* soul or in its copy.                                                    *)
NothingUnseenLost == DropsOnlyRead /\ IdentityKept

(* Between commits Tier 0 says what the soul says, unless a seed failed or *)
(* two overlapped (pending-work.ts 1519-1528).                             *)
Settled == \A r \in Runs : pc[r] \notin {"view", "list", "copy", "event"}
TierZeroFollows ==
  Settled /\ ~blurred =>
    \A s \in Sections : {x.text : x \in {y \in core : y.sect = s}} =
                        IF doc[s] = {} THEN {} ELSE {doc[s]}

(* Skills are made from a chain once, and once more for every time it was  *)
(* released (K31, pending-work.ts 618-631).                                *)
SkillsBudget == \A c \in Chains : made[c] <= 1 + reopened[c]

(* A claimed chain has become a skill, or a drain has it, or its item      *)
(* still knows it: nothing else keeps it from the next fetch.  Claims cut  *)
(* off by a fault and items that two drains share are apart (R8, S5).      *)
InHand(c) ==
  \/ \E r \in Runs : c \in won[r] /\ pc[r] # "end"
  \/ \E i \in Items : c \in carried[i] /\ (row[i] # "done" \/ rescue[i] # "none")
NotStranded ==
  usurped = {} => \A c \in stamped \ lost : made[c] > 0 \/ InHand(c)

ChainsOnce == SkillsBudget /\ NotStranded

(* One graduation is celebrated, however many drains generate a soul, but  *)
(* for a CREATE that was sent twice (soul.ts 513-520).                     *)
CelebratedOnce == events <= 1 + resent

(* Graduation happens once, of the soul and of a chain.                    *)
DoneOnce == CelebratedOnce /\ ChainsOnce

(* "the old read-modify-write lost-update race can no longer clobber a     *)
(* section" (pending-work.ts 1481-1483): a drain does not drop an entry    *)
(* that was not there when it was given the soul.                          *)
NoClobber ==
  [][\A s \in Sections : \A e \in doc[s] \ doc'[s] :
       \E r \in Runs : pc[r] = "update" /\ pc'[r] # "update" /\ e \in seen[r][s]]_vars

(* "a nonconforming agent can add but never destroy" (1234-1236): who      *)
(* returns entries of its own only does not drop those of others.          *)
AddsOnly ==
  [][\A r \in Runs, s \in Sections :
       pc[r] = "update" /\ doc' # doc /\ subm[r][s] = {r} /\ Cardinality(doc[s]) < SectionCap
         => doc[s] \subseteq doc'[s]]_vars
=============================================================================
