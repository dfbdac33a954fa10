-------------------------- MODULE KnowledgeCommit --------------------------
(***************************************************************************)
(* How knowledge enters the graph and is corrected (src/engine/commit.ts   *)
(* with upsertConcept, createMemory and relate of src/engine/surreal.ts).  *)
(*                                                                         *)
(* Learners commit concepts: look for a concept that is the same, create   *)
(* one under an id that is a hash of its content, or find out who was      *)
(* faster.  Correctors commit corrections: write a memory, look for the    *)
(* concepts that hold the old belief, link each and demote it.  Each       *)
(* statement is its own transaction, other calls interleave, statements    *)
(* fail, replies are lost (withRetry sends the statement again) and the    *)
(* daemon dies.                                                            *)
(***************************************************************************)
EXTENDS Integers, FiniteSets, FiniteSetsExt

CONSTANTS
  Learners,   \* calls of commitConcept ...
  Content,    \* ... and the content of each
  Correctors, \* calls of commitCorrection ...
  Wrong,      \* ... the content each declares wrong ...
  Said,       \* ... and the text of its correction
  Alike,      \* pairs of contents whose vectors are close enough to be one
  Worn,       \* what the concepts that are there at the start may be worth
  Reborn,     \* bound on the rows of one content with a random id
  Nothing,    \* no row
  MaxBusy,    \* bound on the calls that run at a time
  MaxMem,     \* bound on the rows of one correction memory
  MaxSignals, \* bound on retrieval feedback
  MaxFaults   \* bound on failed statements, lost replies and deaths

VARIABLES
  concept,    \* row -> [is, embedded, stability, scans]; scans counts the
              \* times the link scans have run for it (history)
  believed,   \* row -> the stabilities it had while it was active (history)
  memory,     \* the rows of correction memories
  edges,      \* the supersedes edges
  armed,      \* the UNIQUE (in, out) index on supersedes is there
  pc,         \* call -> where it is
  vec,        \* learner -> it has a vector
  row,        \* learner -> the row its call is about
  mine,       \* corrector -> its memory row
  todo,       \* corrector -> [row -> stability] of the targets that are left
  lapsed,     \* a look-up after a collision has failed (history)
  signals, faults

rowvars   == <<concept, believed>>
graph     == <<memory, edges, armed>>
learning  == <<vec, row>>
correcting == <<mine, todo>>
vars == <<rowvars, graph, pc, learning, correcting, lapsed, signals, faults>>

Contents == {Content[l] : l \in Learners} \cup {Wrong[k] : k \in Correctors}
Rows     == Contents \X (0..Reborn)      \* 0: the id is the hash of the content
Memories == {Said[k] : k \in Correctors} \X (1..MaxMem)
Levels   == {10, 15, 16, 25, 40, 64, 100, 160, 400, 1000}  \* stability in percent

(* No call learns and corrects, and a belief is worth one of the levels.   *)
ASSUME KnowledgeAssumption ==
  /\ Learners \cap Correctors = {} /\ Worn \subseteq Levels
  /\ Reborn \in Nat /\ MaxMem \in Nat /\ MaxSignals \in Nat /\ MaxFaults \in Nat

TypeOK ==
  /\ concept \in [Rows -> [is : {"none", "active", "superseded"}, embedded : BOOLEAN,
                           stability : Levels, scans : 0..2]]
  /\ believed \in [Rows -> SUBSET Levels]
  /\ memory \subseteq Memories /\ edges \subseteq Memories \X Rows /\ armed \in BOOLEAN
  /\ \A l \in Learners : pc[l] \in {"idle", "look", "fold", "create", "rematch", "near",
                                    "reborn", "link"}
  /\ \A k \in Correctors : pc[k] \in {"idle", "memory", "create", "resolve", "edge", "relate",
                                      "decay"}
  /\ vec \in [Learners -> BOOLEAN] /\ row \in [Learners -> Rows \cup {Nothing}]
  /\ mine \in [Correctors -> Memories \cup {Nothing}]
  /\ \A k \in Correctors : todo[k] \in UNION {[R -> Levels] : R \in SUBSET Rows}
  /\ lapsed \in BOOLEAN /\ signals \in 0..MaxSignals /\ faults \in 0..MaxFaults

None   == [r \in {} |-> 100]
Absent == [is |-> "none", embedded |-> FALSE, stability |-> 100, scans |-> 0]
Old(s) == [is |-> "active", embedded |-> TRUE, stability |-> s, scans |-> 1]
Init ==
  /\ \E there \in [Contents -> {Absent} \cup {Old(s) : s \in Worn}] :
       concept = [r \in Rows |-> IF r[2] = 0 THEN there[r[1]] ELSE Absent]
  /\ believed = [r \in Rows |-> IF concept[r] = Absent THEN {} ELSE {concept[r].stability}]
  /\ memory = {} /\ edges = {} /\ armed \in BOOLEAN
  /\ pc = [c \in Learners \cup Correctors |-> "idle"]
  /\ vec = [l \in Learners |-> FALSE] /\ row = [l \in Learners |-> Nothing]
  /\ mine = [k \in Correctors |-> Nothing] /\ todo = [k \in Correctors |-> None]
  /\ lapsed = FALSE /\ signals = 0 /\ faults = 0

-----------------------------------------------------------------------------
(* A definition named Bad... is a faulty variant of the one it precedes;   *)
(* no action uses it.                                                      *)

Active == {r \in Rows : concept[r].is = "active"}
Same(c) == {r \in Active : r[1] = c}
Close(c) == {r \in Active : concept[r].embedded /\ (r[1] = c \/ {r[1], c} \in Alike)}

Fail == faults < MaxFaults /\ faults' = faults + 1
Fine == UNCHANGED faults
Room == Cardinality({c \in DOMAIN pc : pc[c] # "idle"}) < MaxBusy
Goto(c, s) == pc' = [pc EXCEPT ![c] = s]

(* A call goes on at s, about row r; what it no longer needs is forgotten. *)
On(l, s, r) ==
  /\ Goto(l, s)
  /\ row' = [row EXCEPT ![l] = IF s = "idle" THEN Nothing ELSE r]
  /\ vec' = [vec EXCEPT ![l] = s # "idle" /\ @]
Stay(l, s) == On(l, s, row[l])
Give(k) ==
  /\ Goto(k, "idle")
  /\ mine' = [mine EXCEPT ![k] = Nothing] /\ todo' = [todo EXCEPT ![k] = None]

(* A new row, and what a demotion makes of one.                            *)
Born(r, v) ==
  /\ concept' = [concept EXCEPT ![r] = [Absent EXCEPT !.is = "active", !.embedded = v]]
  /\ believed' = [believed EXCEPT ![r] = {100}]
BadLower(s, floor) == (s * 2) \div 5
Lower(s, floor) == IF (s * 2) \div 5 < floor THEN floor ELSE (s * 2) \div 5

-----------------------------------------------------------------------------
(* commitConcept: the vector, if the embedding service has one.            *)
Learn(l) ==
  /\ pc[l] = "idle" /\ Room /\ Goto(l, "look")
  /\ \E v \in BOOLEAN : vec' = [vec EXCEPT ![l] = v]
  /\ UNCHANGED <<rowvars, graph, row, correcting, lapsed, signals, faults>>

(* upsertConcept looks for an active row of the same content, or for one   *)
(* that is close; without a vector only for the former.                    *)
Look(l) ==
  /\ pc[l] = "look"
  /\ LET close == IF vec[l] THEN Close(Content[l]) ELSE Same(Content[l])
         exact == close \cap Same(Content[l])
     IN  \/ close = {} /\ Stay(l, "create") /\ Fine
         \/ /\ \E r \in IF exact # {} THEN exact ELSE close : On(l, "fold", r)
            /\ Fine
         \/ Fail /\ Stay(l, "idle")
  /\ UNCHANGED <<rowvars, graph, correcting, lapsed, signals>>

(* A row that is there gets a vector if it has none.  No links: those were *)
(* made at its birth.                                                      *)
BadExisted == "link"
Existed == "idle"
Fold(l) ==
  /\ pc[l] = "fold"
  /\ \/ /\ concept' = [concept EXCEPT ![row[l]].embedded = @ \/ vec[l]]
        /\ Stay(l, Existed) /\ Fine
     \/ Fail /\ Stay(l, "idle") /\ UNCHANGED concept
  /\ UNCHANGED <<believed, graph, correcting, lapsed, signals>>

(* CREATE under the hash of the content; a collision, which may be one     *)
(* with the first try of the same statement, is not an error.              *)
BadKey(c) == {n \in 0..Reborn : concept[<<c, n>>].is = "none"}
Key(c) == {0}
Create(l) ==
  /\ pc[l] = "create"
  /\ \E n \in Key(Content[l]) :
       LET r == <<Content[l], n>>
       IN  \/ /\ concept[r].is = "none" /\ Born(r, vec[l])
              /\ \/ On(l, "link", r) /\ Fine
                 \/ Fail /\ Stay(l, "rematch")
           \/ /\ concept[r].is # "none"
              /\ Stay(l, "rematch") /\ Fine /\ UNCHANGED rowvars
           \/ Fail /\ Stay(l, "idle") /\ UNCHANGED rowvars
  /\ UNCHANGED <<graph, correcting, lapsed, signals>>

(* After a collision: the same content, else what is close, else the only  *)
(* occupant of the id is superseded.  A look-up that fails finds nothing.  *)
Rematch(l) ==
  /\ pc[l] = "rematch"
  /\ LET next == IF vec[l] THEN "near" ELSE "reborn"
     IN  \/ Same(Content[l]) # {} /\ Stay(l, "idle") /\ Fine /\ UNCHANGED lapsed
         \/ Same(Content[l]) = {} /\ Stay(l, next) /\ Fine /\ UNCHANGED lapsed
         \/ Fail /\ Stay(l, next) /\ lapsed' = TRUE
  /\ UNCHANGED <<rowvars, graph, correcting, signals>>

Near(l) ==
  /\ pc[l] = "near"
  /\ \/ Close(Content[l]) # {} /\ Stay(l, "idle") /\ Fine
     \/ Close(Content[l]) = {} /\ Stay(l, "reborn") /\ Fine
     \/ Fail /\ Stay(l, "reborn")
  /\ UNCHANGED <<rowvars, graph, correcting, lapsed, signals>>

(* Content that was superseded is learnt again, under a random id.         *)
Rebirth(l) ==
  /\ pc[l] = "reborn"
  /\ \/ \E n \in 1..Reborn :
          LET r == <<Content[l], n>>
          IN  /\ concept[r].is = "none" /\ Born(r, vec[l])
              /\ \/ On(l, "link", r) /\ Fine
                 \/ Fail /\ Stay(l, "idle")
     \/ Fail /\ Stay(l, "idle") /\ UNCHANGED rowvars
     \/ /\ \A n \in 1..Reborn : concept[<<Content[l], n>>].is # "none"     \* the bound on ids
        /\ Stay(l, "idle") /\ Fine /\ UNCHANGED rowvars
  /\ UNCHANGED <<graph, correcting, lapsed, signals>>

(* linkConceptHierarchy and linkToRelevantConcepts, for a new row.         *)
Link(l) ==
  /\ pc[l] = "link"
  /\ concept' = [concept EXCEPT ![row[l]].scans = @ + 1]
  /\ Stay(l, "idle")
  /\ UNCHANGED <<believed, graph, correcting, lapsed, signals, faults>>

-----------------------------------------------------------------------------
(* commitCorrection; commitMemory first.  The memory row is one that says  *)
(* the same, or a new one; a reply that is lost makes two.                 *)
Correct(k) ==
  /\ pc[k] = "idle" /\ Room /\ Goto(k, "memory")
  /\ UNCHANGED <<rowvars, graph, learning, correcting, lapsed, signals, faults>>

Told(k) == {m \in memory : m[1] = Said[k]}
FindMemory(k) ==
  /\ pc[k] = "memory"
  /\ \/ /\ Told(k) = {} /\ Goto(k, "create") /\ Fine /\ UNCHANGED correcting
     \/ /\ \E m \in Told(k) : mine' = [mine EXCEPT ![k] = m]
        /\ Goto(k, "resolve") /\ Fine /\ UNCHANGED todo
     \/ Fail /\ Give(k)
  /\ UNCHANGED <<rowvars, graph, learning, lapsed, signals>>

CreateMemory(k) ==
  /\ pc[k] = "create"
  /\ LET n == Cardinality(Told(k))
         M(i) == <<Said[k], n + i>>
     IN  \/ /\ n < MaxMem /\ memory' = memory \cup {M(1)}
            /\ mine' = [mine EXCEPT ![k] = M(1)] /\ Goto(k, "resolve") /\ Fine /\ UNCHANGED todo
         \/ /\ n + 1 < MaxMem /\ memory' = memory \cup {M(1), M(2)}
            /\ mine' = [mine EXCEPT ![k] = M(2)] /\ Goto(k, "resolve") /\ Fail /\ UNCHANGED todo
         \/ Fail /\ Give(k) /\ UNCHANGED memory
  /\ UNCHANGED <<rowvars, edges, armed, learning, lapsed, signals>>

(* The targets: active concepts above the floor that say the old text, or  *)
(* else are close to it.  A target that the caller names by its id, which  *)
(* neither filter looks at, is left out.                                   *)
BadCandidates == {r \in Rows : concept[r].is # "none"}
Candidates == Active
Resolve(k) ==
  /\ pc[k] = "resolve"
  /\ LET seen  == {r \in Candidates : concept[r].embedded /\ concept[r].stability > 15}
         exact == {r \in seen : r[1] = Wrong[k]}
         close == {r \in seen : {r[1], Wrong[k]} \in Alike}
         hit   == IF exact # {} THEN exact ELSE close
     IN  \/ /\ hit # {} /\ Goto(k, "edge") /\ Fine
            /\ todo' = [todo EXCEPT ![k] = [r \in hit |-> concept[r].stability]]
            /\ UNCHANGED mine
         \/ hit = {} /\ Give(k) /\ Fine
         \/ Fail /\ Give(k)                               \* no vector
  /\ UNCHANGED <<rowvars, graph, learning, lapsed, signals>>

(* The target in hand, and the step to the next.                           *)
Target(k) == CHOOSE r \in DOMAIN todo[k] : TRUE
NextTarget(k) ==
  LET left == DOMAIN todo[k] \ {Target(k)}
  IN  IF left = {} THEN Give(k)
      ELSE /\ todo' = [todo EXCEPT ![k] = [r \in left |-> todo[k][r]]]
           /\ Goto(k, "edge") /\ UNCHANGED mine

CheckEdge(k) ==
  /\ pc[k] = "edge"
  /\ \/ <<mine[k], Target(k)>> \in edges /\ NextTarget(k) /\ Fine
     \/ <<mine[k], Target(k)>> \notin edges /\ Goto(k, "relate") /\ Fine /\ UNCHANGED correcting
     \/ Fail /\ Goto(k, "relate") /\ UNCHANGED correcting
  /\ UNCHANGED <<rowvars, graph, learning, lapsed, signals>>

(* relate: with the index an edge that exists is no new edge, not even if  *)
(* it is the one whose reply was lost.                                     *)
Relate(k) ==
  /\ pc[k] = "relate"
  /\ LET e == <<mine[k], Target(k)>>
     IN  \/ /\ edges' = edges \cup {e} /\ Fine
            /\ IF armed /\ e \in edges THEN NextTarget(k) ELSE Goto(k, "decay") /\ UNCHANGED correcting
         \/ /\ edges' = edges \cup {e} /\ Fail /\ armed /\ NextTarget(k)
         \/ Fail /\ NextTarget(k) /\ UNCHANGED edges
  /\ UNCHANGED <<rowvars, memory, armed, learning, lapsed, signals>>

Decay(k) ==
  /\ pc[k] = "decay"
  /\ \/ /\ concept' = [concept EXCEPT ![Target(k)].is = "superseded",
                                      ![Target(k)].stability = Lower(todo[k][Target(k)], 15)]
        /\ Fine
     \/ Fail /\ UNCHANGED concept
  /\ NextTarget(k)
  /\ UNCHANGED <<believed, graph, learning, lapsed, signals>>

-----------------------------------------------------------------------------
(* record_retrieval_feedback, "outdated" and "pin".                        *)
Feedback(r) ==
  /\ concept[r].is # "none" /\ signals < MaxSignals /\ signals' = signals + 1
  /\ \E s \in {Lower(concept[r].stability, 10), 1000} :
       /\ concept' = [concept EXCEPT ![r].stability = s]
       /\ believed' = [believed EXCEPT ![r] = IF r \in Active THEN @ \cup {s} ELSE @]
  /\ UNCHANGED <<graph, pc, learning, correcting, lapsed, faults>>

(* The daemon dies.                                                        *)
Crash ==
  /\ \E c \in DOMAIN pc : pc[c] # "idle"
  /\ Fail /\ pc' = [c \in DOMAIN pc |-> "idle"]
  /\ vec' = [l \in Learners |-> FALSE] /\ row' = [l \in Learners |-> Nothing]
  /\ mine' = [k \in Correctors |-> Nothing] /\ todo' = [k \in Correctors |-> None]
  /\ UNCHANGED <<rowvars, graph, lapsed, signals>>

Next ==
  \/ \E l \in Learners :
       Learn(l) \/ Look(l) \/ Fold(l) \/ Create(l) \/ Rematch(l) \/ Near(l) \/ Rebirth(l) \/ Link(l)
  \/ \E k \in Correctors :
       \/ Correct(k) \/ FindMemory(k) \/ CreateMemory(k)
       \/ Resolve(k) \/ CheckEdge(k) \/ Relate(k) \/ Decay(k)
  \/ \E r \in Rows : Feedback(r)
  \/ Crash

Spec == Init /\ [][Next]_vars

-----------------------------------------------------------------------------
(* However calls race, content that nobody has corrected has one active    *)
(* row (surreal.ts:1942), unless the look-up after a collision has failed. *)
(* The link scans have run once at most for any row: each run again would  *)
(* add its edges once more (commit.ts:529).                                *)
ConceptsFold ==
  /\ \A c \in Contents :
       ~lapsed /\ (\A r \in Rows : r[1] = c => concept[r].is # "superseded")
         => Cardinality(Same(c)) <= 1
  /\ \A r \in Rows : concept[r].scans <= 1

(* A correction demotes a belief once, from what it was worth when it was  *)
(* still believed, however often it is sent again, races with its own      *)
(* retry or with another correction (commit.ts:1222).  And what was        *)
(* superseded is never believed again.                                     *)
DecayedOnce ==
  [][\A r \in Rows :
       /\ concept[r].is = "superseded" => concept'[r].is = "superseded"
       /\ concept'[r].is = "superseded" /\ concept'[r].stability # concept[r].stability
            /\ UNCHANGED signals
          => concept'[r].stability \in {Lower(s, 15) : s \in believed[r]}]_vars

(* What the comment at commit.ts:1229 says of an edge that exists: the     *)
(* decay has already run.                                                  *)
EdgeMeansDecayed ==
  (\A k \in Correctors : pc[k] = "idle") =>
    \A e \in edges : concept[e[2]].is = "superseded"

(* What supersede.ts:10 says of a correction: it lowers the stability.     *)
DecayLowers ==
  [][\A r \in Rows : concept[r].is = "active" /\ concept'[r].is = "superseded"
       => concept'[r].stability <= concept[r].stability]_vars
=============================================================================
