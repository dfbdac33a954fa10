------------------------ MODULE Conversation_proofs ------------------------
(* Proofs about the four modules that MCConversation composes: what the    *)
(* gates let through, which row a sub-agent's stop closes, what            *)
(* corrections and new concepts leave in the graph, and what the turns     *)
(* record.  Each has its inductive invariant (UsersOwn, AgentsInv,         *)
(* KnowledgeInv, TurnsInv); the composition is lifted from them at the     *)
(* end, since a behaviour is one of one part.                              *)
EXTENDS MCConversation, FiniteSetTheorems, TLAPS

-----------------------------------------------------------------------------
(* The gates.  What could let a destructive command through was the        *)
(* user's: the text of the last prompt, the rows of the role "user" that   *)
(* are written or on their way, and what a gate remembers.                 *)
UsersOwn ==
  /\ (lastText \cup checked \cup allowed) \cap (Commands \cup {destroy}) # {} => named # {}
  /\ <<"user", destroy>> \in writing \cup texts => named # {}

GateStep ==
  \/ \E text \in G!Texts : G!UserPrompt(text)
  \/ \E y \in G!Subjects : G!AgentSays(y)
  \/ \E w \in G!Roles \X G!Subjects : G!Ingest(w)
  \/ \E f \in Files : G!Read(f) \/ G!Edit(f)
  \/ \E c \in Commands : G!Bash(c)
  \/ G!GoesIdle \/ G!StoreFails \/ G!StoreReturns \/ G!Forget

LEMMA GateStart == G!Init => UsersOwn
  BY DEF G!Init, UsersOwn

LEMMA GateKeeps == UsersOwn /\ GateStep => UsersOwn'
<1> SUFFICES ASSUME UsersOwn, GateStep PROVE UsersOwn'
  OBVIOUS
<1> USE ConversationAssumption DEF UsersOwn
<1>1. ASSUME NEW text \in G!Texts, G!UserPrompt(text) PROVE UsersOwn'
  <2>1. text \cap (Commands \cup {destroy}) # {} => named' # {}
    BY <1>1 DEF G!UserPrompt
  <2>2. <<"user", destroy>> \in writing' => <<"user", destroy>> \in writing \/ destroy \in text
    BY <1>1 DEF G!UserPrompt
  <2> QED
    BY <1>1, <2>1, <2>2 DEF G!UserPrompt, G!gate
<1>2. ASSUME NEW y \in G!Subjects, G!AgentSays(y) PROVE UsersOwn'
  BY <1>2 DEF G!AgentSays, G!gate, G!past
<1>3. ASSUME NEW w \in G!Roles \X G!Subjects, G!Ingest(w) PROVE UsersOwn'
  BY <1>3 DEF G!Ingest, G!gate, G!past
<1>4. ASSUME NEW f \in Files, G!Read(f) \/ G!Edit(f) PROVE UsersOwn'
  BY <1>4 DEF G!Read, G!Edit, G!Recall, G!Remembered, G!texts
<1>5. ASSUME NEW c \in Commands, G!Bash(c) PROVE UsersOwn'
  <2>1. G!Authorised(c) => named # {}
    BY DEF G!Authorised, G!Remembered, G!Mentioned
  <2>2. (checked' \cup allowed') \cap (Commands \cup {destroy}) # {} => named # {}
    BY <1>5, <2>1 DEF G!Bash, G!Recall, G!Remembered
  <2> QED
    BY <1>5, <2>2 DEF G!Bash, G!texts
<1>6. CASE G!GoesIdle
  BY <1>6 DEF G!GoesIdle, G!texts, G!past
<1>7. CASE G!StoreFails \/ G!StoreReturns
  BY <1>7 DEF G!StoreFails, G!StoreReturns, G!gate, G!texts, G!past
<1>8. CASE G!Forget
  BY <1>8 DEF G!Forget, G!past
<1> QED
  BY <1>1, <1>2, <1>3, <1>4, <1>5, <1>6, <1>7, <1>8 DEF GateStep

-----------------------------------------------------------------------------
(* The sub-agents.  A session that is not in the map has nothing, and a    *)
(* spawn that has not been asked for, or has no row yet, has none.         *)
Gone  == ~session => ours = {} /\ active = {}
Order ==
  /\ \A k \in Spawns : agent[k] = "off" => call[k] = "off"
  /\ \A k \in Spawns : call[k] \in {"off", "create"} => sub[k] # "in_progress"

(* Unless a row was lost or a stop came twice: an agent runs when its row  *)
(* is there, the row is closed after the agent has ended, and a stop means *)
(* the row of its own agent.                                               *)
Calm(k) ==
  /\ agent[k] = "running" => call[k] = "done"
  /\ call[k] \in {"seal", "done"} => sub[k] # "none"
  /\ sub[k] = "completed" => agent[k] = "ended"
  /\ stopping[k] # "off" => agent[k] = "ended"
  /\ stopping[k] \in {"select", "update"} => target[k] = k
  /\ by[k] \in {Nothing, k}

AgentTypes ==
  /\ agent \in [Spawns -> {"off", "asked", "running", "ended"}]
  /\ call \in [Spawns -> {"off", "create", "seal", "done"}]
  /\ stopping \in [Spawns -> {"off", "select", "update", "orphan"}]
  /\ target \in [Spawns -> Spawns \cup {Nothing}]
  /\ by \in [Spawns -> Spawns \cup {Nothing}]
  /\ sub \in [Spawns -> {"none", "in_progress", "completed"}]
  /\ active \subseteq Spawns

AgentsInv ==
  /\ AgentTypes /\ Gone /\ Order /\ A!Remembered
  /\ lost = {} /\ ~again => \A k \in Spawns : Calm(k)

AgentStep ==
  \/ \E k \in Spawns :
       \/ A!Spawn(k) \/ A!Create(k) \/ A!Seal(k) \/ A!Start(k) \/ A!Stop(k) \/ A!Redeliver(k)
       \/ A!Select(k) \/ A!Update(k) \/ A!Orphan(k)
  \/ \E u \in Edits : A!PreEdit(u) \/ A!PostEdit(u)
  \/ A!UserPrompt \/ A!TwoHours \/ A!Vanish \/ A!Reap \/ A!Evict

LEMMA AgentStart == A!Init => AgentsInv
  BY DEF A!Init, AgentsInv, AgentTypes, Gone, Order, A!Remembered, Calm

(* A stop without a key takes the one spawn that is in flight.             *)
LEMMA OneInFlight ==
  ASSUME AgentTypes, NEW j \in A!InFlight, NEW k \in active
  PROVE  j = k
<1>1. IsFiniteSet(active)
  BY FS_Subset, ConversationAssumption DEF AgentTypes
<1>2. Cardinality(active) = 1 /\ j \in active
  BY Zenon DEF A!InFlight, A!Cardinality, Cardinality
<1>3. PICK i : active = {i}
  BY <1>1, <1>2, FS_Singleton
<1> QED
  BY <1>2, <1>3

LEMMA AgentKeeps == AgentsInv /\ AgentStep => AgentsInv'
<1> SUFFICES ASSUME AgentsInv, AgentStep PROVE AgentsInv'
  OBVIOUS
<1> USE DEF A!spawning, A!stopping, A!rows, A!session, A!past
<1>1. ASSUME NEW k \in Spawns, A!Spawn(k) PROVE AgentsInv'
  <2>1. AgentTypes'
    BY <1>1 DEF AgentsInv, AgentTypes, A!Spawn, A!Fault
  <2>2. Gone'
    BY <1>1 DEF AgentsInv, Gone, A!Spawn, A!Fault
  <2>3. Order'
    BY <1>1 DEF AgentsInv, AgentTypes, Order, A!Spawn, A!Fault
  <2>4. A!Remembered'
    BY <1>1 DEF AgentsInv, AgentTypes, Gone, Order, A!Remembered, A!Spawn, A!Fault
  <2>5. ASSUME lost' = {}, ~again', NEW j \in Spawns PROVE Calm(j)'
    BY <1>1, <2>5 DEF AgentsInv, AgentTypes, Gone, Order, A!Remembered, Calm, A!Spawn, A!Fault
  <2> QED
    BY <2>1, <2>2, <2>3, <2>4, <2>5 DEF AgentsInv
<1>2. ASSUME NEW k \in Spawns, A!Create(k) PROVE AgentsInv'
  <2>1. AgentTypes'
    BY <1>2 DEF AgentsInv, AgentTypes, A!Create, A!Fault
  <2>2. Gone'
    BY <1>2 DEF AgentsInv, Gone, A!Create, A!Fault
  <2>3. Order'
    BY <1>2 DEF AgentsInv, AgentTypes, Order, A!Create, A!Fault
  <2>4. A!Remembered'
    BY <1>2 DEF AgentsInv, AgentTypes, Gone, Order, A!Remembered, A!Create, A!Fault
  <2>5. ASSUME lost' = {}, ~again', NEW j \in Spawns PROVE Calm(j)'
    BY <1>2, <2>5 DEF AgentsInv, AgentTypes, Gone, Order, A!Remembered, Calm, A!Create, A!Fault
  <2> QED
    BY <2>1, <2>2, <2>3, <2>4, <2>5 DEF AgentsInv
<1>3. ASSUME NEW k \in Spawns, A!Seal(k) PROVE AgentsInv'
  <2>1. AgentTypes'
    BY <1>3 DEF AgentsInv, AgentTypes, A!Seal
  <2>2. Gone'
    BY <1>3 DEF AgentsInv, Gone, A!Seal
  <2>3. Order'
    BY <1>3 DEF AgentsInv, AgentTypes, Order, A!Seal
  <2>4. A!Remembered'
    BY <1>3 DEF AgentsInv, AgentTypes, Gone, Order, A!Remembered, A!Seal
  <2>5. ASSUME lost' = {}, ~again', NEW j \in Spawns PROVE Calm(j)'
    BY <1>3, <2>5 DEF AgentsInv, AgentTypes, Gone, Order, A!Remembered, Calm, A!Seal
  <2> QED
    BY <2>1, <2>2, <2>3, <2>4, <2>5 DEF AgentsInv
<1>4. ASSUME NEW k \in Spawns, A!Start(k) PROVE AgentsInv'
  <2>1. AgentTypes'
    BY <1>4 DEF AgentsInv, AgentTypes, A!Start, A!Fault
  <2>2. Gone'
    BY <1>4 DEF AgentsInv, Gone, A!Start, A!Fault
  <2>3. Order'
    BY <1>4 DEF AgentsInv, AgentTypes, Order, A!Start, A!Fault
  <2>4. A!Remembered'
    BY <1>4 DEF AgentsInv, AgentTypes, Gone, Order, A!Remembered, A!Start, A!Fault
  <2>5. ASSUME lost' = {}, ~again', NEW j \in Spawns PROVE Calm(j)'
    BY <1>4, <2>5 DEF AgentsInv, AgentTypes, Gone, Order, A!Remembered, Calm, A!Start, A!Fault
  <2> QED
    BY <2>1, <2>2, <2>3, <2>4, <2>5 DEF AgentsInv
<1>5. ASSUME NEW k \in Spawns, A!Stop(k) PROVE AgentsInv'
  <2>1. AgentTypes'
    BY <1>5 DEF AgentsInv, AgentTypes, A!Stop, A!Deliver, A!Resolve, A!InFlight, A!Fault
  <2>2. Gone'
    BY <1>5 DEF AgentsInv, Gone, A!Stop, A!Deliver, A!Resolve, A!InFlight, A!Fault
  <2>3. Order'
    BY <1>5 DEF AgentsInv, AgentTypes, Order, A!Stop, A!Deliver, A!Resolve, A!InFlight, A!Fault
  <2>4. A!Remembered'
    BY <1>5 DEF AgentsInv, AgentTypes, Gone, Order, A!Remembered, A!Stop, A!Deliver, A!Resolve, A!InFlight, A!Fault
  <2>5. ASSUME lost' = {}, ~again', NEW j \in Spawns PROVE Calm(j)'
    <3>1. lost = {} /\ ~again /\ \A i \in Spawns : Calm(i)
      BY <1>5, <2>5 DEF AgentsInv, A!Stop
    <3>2. agent[k] = "running" /\ agent' = [agent EXCEPT ![k] = "ended"]
          /\ UNCHANGED <<call, sub, by>>
      BY <1>5 DEF A!Stop
    <3>3. AgentTypes
      BY DEF AgentsInv
    <3>4. sub[k] = "in_progress" /\ k \in active /\ session
      <4>1. Calm(k) /\ call[k] = "done"
        BY <3>1, <3>2 DEF Calm
      <4>2. sub[k] = "in_progress"
        BY <4>1, <3>2, <3>3 DEF Calm, AgentTypes
      <4> QED
        BY <4>1, <4>2, <3>1 DEF AgentsInv, A!Remembered
    <3>5. (stopping'[k] \in {"select", "update"} => target'[k] = k)
          /\ \A i \in Spawns \ {k} : stopping'[i] = stopping[i] /\ target'[i] = target[i]
      <4>1. CASE A!Deliver(k)
        <5>1. CASE exact
          BY <4>1, <5>1, <3>3 DEF A!Deliver, A!Resolve, AgentTypes
        <5>2. CASE ~exact
          <6>1. \A i \in A!InFlight : i = k
            BY <3>3, <3>4, OneInFlight
          <6> QED
            BY <4>1, <5>2, <6>1, <3>1, <3>3, <3>4 DEF A!Deliver, A!Resolve, AgentTypes, Calm
        <5> QED
          BY <5>1, <5>2
      <4>2. CASE UNCHANGED <<stopping, target>>
        BY <4>2, <3>1 DEF Calm
      <4> QED
        BY <4>1, <4>2, <1>5 DEF A!Stop
    <3> QED
      BY <3>1, <3>2, <3>3, <3>5 DEF AgentTypes, Calm
  <2> QED
    BY <2>1, <2>2, <2>3, <2>4, <2>5 DEF AgentsInv
<1>6. ASSUME NEW k \in Spawns, A!Redeliver(k) PROVE AgentsInv'
  <2>1. AgentTypes'
    BY <1>6 DEF AgentsInv, AgentTypes, A!Redeliver, A!Deliver, A!Resolve, A!InFlight, A!Fault
  <2>2. Gone'
    BY <1>6 DEF AgentsInv, Gone, A!Redeliver, A!Deliver, A!Resolve, A!InFlight, A!Fault
  <2>3. Order'
    BY <1>6 DEF AgentsInv, AgentTypes, Order, A!Redeliver, A!Deliver, A!Resolve, A!InFlight, A!Fault
  <2>4. A!Remembered'
    BY <1>6 DEF AgentsInv, AgentTypes, Gone, Order, A!Remembered, A!Redeliver, A!Deliver, A!Resolve, A!InFlight, A!Fault
  <2>5. ASSUME lost' = {}, ~again', NEW j \in Spawns PROVE Calm(j)'
    BY <1>6, <2>5 DEF AgentsInv, AgentTypes, Gone, Order, A!Remembered, Calm, A!Redeliver, A!Deliver, A!Resolve, A!InFlight, A!Fault
  <2> QED
    BY <2>1, <2>2, <2>3, <2>4, <2>5 DEF AgentsInv
<1>7. ASSUME NEW k \in Spawns, A!Select(k) PROVE AgentsInv'
  <2>1. AgentTypes'
    BY <1>7 DEF AgentsInv, AgentTypes, A!Select, A!Fault
  <2>2. Gone'
    BY <1>7 DEF AgentsInv, Gone, A!Select, A!Fault
  <2>3. Order'
    BY <1>7 DEF AgentsInv, AgentTypes, Order, A!Select, A!Fault
  <2>4. A!Remembered'
    BY <1>7 DEF AgentsInv, AgentTypes, Gone, Order, A!Remembered, A!Select, A!Fault
  <2>5. ASSUME lost' = {}, ~again', NEW j \in Spawns PROVE Calm(j)'
    BY <1>7, <2>5 DEF AgentsInv, AgentTypes, Gone, Order, A!Remembered, Calm, A!Select, A!Fault
  <2> QED
    BY <2>1, <2>2, <2>3, <2>4, <2>5 DEF AgentsInv
<1>8. ASSUME NEW k \in Spawns, A!Update(k) PROVE AgentsInv'
  <2>1. AgentTypes'
    BY <1>8 DEF AgentsInv, AgentTypes, A!Update, A!Close, A!Closed, A!Forgotten, A!Fault
  <2>2. Gone'
    BY <1>8 DEF AgentsInv, Gone, A!Update, A!Close, A!Closed, A!Forgotten, A!Fault
  <2>3. Order'
    BY <1>8 DEF AgentsInv, AgentTypes, Order, A!Update, A!Close, A!Closed, A!Forgotten, A!Fault
  <2>4. A!Remembered'
    BY <1>8 DEF AgentsInv, AgentTypes, Gone, Order, A!Remembered, A!Update, A!Close, A!Closed, A!Forgotten, A!Fault
  <2>5. ASSUME lost' = {}, ~again', NEW j \in Spawns PROVE Calm(j)'
    BY <1>8, <2>5 DEF AgentsInv, AgentTypes, Gone, Order, A!Remembered, Calm, A!Update, A!Close, A!Closed, A!Forgotten, A!Fault
  <2> QED
    BY <2>1, <2>2, <2>3, <2>4, <2>5 DEF AgentsInv
<1>9. ASSUME NEW k \in Spawns, A!Orphan(k) PROVE AgentsInv'
  <2>1. AgentTypes'
    BY <1>9 DEF AgentsInv, AgentTypes, A!Orphan
  <2>2. Gone'
    BY <1>9 DEF AgentsInv, Gone, A!Orphan
  <2>3. Order'
    BY <1>9 DEF AgentsInv, AgentTypes, Order, A!Orphan
  <2>4. A!Remembered'
    BY <1>9 DEF AgentsInv, AgentTypes, Gone, Order, A!Remembered, A!Orphan
  <2>5. ASSUME lost' = {}, ~again', NEW j \in Spawns PROVE Calm(j)'
    BY <1>9, <2>5 DEF AgentsInv, AgentTypes, Gone, Order, A!Remembered, Calm, A!Orphan
  <2> QED
    BY <2>1, <2>2, <2>3, <2>4, <2>5 DEF AgentsInv
<1>10. ASSUME NEW u \in Edits, A!PreEdit(u) \/ A!PostEdit(u) PROVE AgentsInv'
  <2>1. AgentTypes'
    BY <1>10 DEF AgentsInv, AgentTypes, A!PreEdit, A!PostEdit
  <2>2. Gone'
    BY <1>10 DEF AgentsInv, Gone, A!PreEdit, A!PostEdit
  <2>3. Order'
    BY <1>10 DEF AgentsInv, AgentTypes, Order, A!PreEdit, A!PostEdit
  <2>4. A!Remembered'
    BY <1>10 DEF AgentsInv, AgentTypes, Gone, Order, A!Remembered, A!PreEdit, A!PostEdit
  <2>5. ASSUME lost' = {}, ~again', NEW j \in Spawns PROVE Calm(j)'
    BY <1>10, <2>5 DEF AgentsInv, AgentTypes, Gone, Order, A!Remembered, Calm, A!PreEdit, A!PostEdit
  <2> QED
    BY <2>1, <2>2, <2>3, <2>4, <2>5 DEF AgentsInv
<1>11. ASSUME A!UserPrompt PROVE AgentsInv'
  <2>1. AgentTypes'
    BY <1>11 DEF AgentsInv, AgentTypes, A!UserPrompt
  <2>2. Gone'
    BY <1>11 DEF AgentsInv, Gone, A!UserPrompt
  <2>3. Order'
    BY <1>11 DEF AgentsInv, AgentTypes, Order, A!UserPrompt
  <2>4. A!Remembered'
    BY <1>11 DEF AgentsInv, AgentTypes, Gone, Order, A!Remembered, A!UserPrompt
  <2>5. ASSUME lost' = {}, ~again', NEW j \in Spawns PROVE Calm(j)'
    BY <1>11, <2>5 DEF AgentsInv, AgentTypes, Gone, Order, A!Remembered, Calm, A!UserPrompt
  <2> QED
    BY <2>1, <2>2, <2>3, <2>4, <2>5 DEF AgentsInv
<1>12. ASSUME A!TwoHours PROVE AgentsInv'
  <2>1. AgentTypes'
    BY <1>12 DEF AgentsInv, AgentTypes, A!TwoHours
  <2>2. Gone'
    BY <1>12 DEF AgentsInv, Gone, A!TwoHours
  <2>3. Order'
    BY <1>12 DEF AgentsInv, AgentTypes, Order, A!TwoHours
  <2>4. A!Remembered'
    BY <1>12 DEF AgentsInv, AgentTypes, Gone, Order, A!Remembered, A!TwoHours
  <2>5. ASSUME lost' = {}, ~again', NEW j \in Spawns PROVE Calm(j)'
    BY <1>12, <2>5 DEF AgentsInv, AgentTypes, Gone, Order, A!Remembered, Calm, A!TwoHours
  <2> QED
    BY <2>1, <2>2, <2>3, <2>4, <2>5 DEF AgentsInv
<1>13. ASSUME A!Vanish PROVE AgentsInv'
  <2>1. AgentTypes'
    BY <1>13 DEF AgentsInv, AgentTypes, A!Vanish
  <2>2. Gone'
    BY <1>13 DEF AgentsInv, Gone, A!Vanish
  <2>3. Order'
    BY <1>13 DEF AgentsInv, AgentTypes, Order, A!Vanish
  <2>4. A!Remembered'
    BY <1>13 DEF AgentsInv, AgentTypes, Gone, Order, A!Remembered, A!Vanish
  <2>5. ASSUME lost' = {}, ~again', NEW j \in Spawns PROVE Calm(j)'
    BY <1>13, <2>5 DEF AgentsInv, AgentTypes, Gone, Order, A!Remembered, Calm, A!Vanish
  <2> QED
    BY <2>1, <2>2, <2>3, <2>4, <2>5 DEF AgentsInv
<1>14. ASSUME A!Reap PROVE AgentsInv'
  <2>1. AgentTypes'
    BY <1>14 DEF AgentsInv, AgentTypes, A!Reap, A!Idle, A!Drop
  <2>2. Gone'
    BY <1>14 DEF AgentsInv, Gone, A!Reap, A!Idle, A!Drop
  <2>3. Order'
    BY <1>14 DEF AgentsInv, AgentTypes, Order, A!Reap, A!Idle, A!Drop
  <2>4. A!Remembered'
    BY <1>14 DEF AgentsInv, AgentTypes, Gone, Order, A!Remembered, A!Reap, A!Idle, A!Drop
  <2>5. ASSUME lost' = {}, ~again', NEW j \in Spawns PROVE Calm(j)'
    BY <1>14, <2>5 DEF AgentsInv, AgentTypes, Gone, Order, A!Remembered, Calm, A!Reap, A!Idle, A!Drop
  <2> QED
    BY <2>1, <2>2, <2>3, <2>4, <2>5 DEF AgentsInv
<1>15. ASSUME A!Evict PROVE AgentsInv'
  <2>1. AgentTypes'
    BY <1>15 DEF AgentsInv, AgentTypes, A!Evict, A!Drop, A!Fault
  <2>2. Gone'
    BY <1>15 DEF AgentsInv, Gone, A!Evict, A!Drop, A!Fault
  <2>3. Order'
    BY <1>15 DEF AgentsInv, AgentTypes, Order, A!Evict, A!Drop, A!Fault
  <2>4. A!Remembered'
    BY <1>15 DEF AgentsInv, AgentTypes, Gone, Order, A!Remembered, A!Evict, A!Drop, A!Fault
  <2>5. ASSUME lost' = {}, ~again', NEW j \in Spawns PROVE Calm(j)'
    BY <1>15, <2>5 DEF AgentsInv, AgentTypes, Gone, Order, A!Remembered, Calm, A!Evict, A!Drop, A!Fault
  <2> QED
    BY <2>1, <2>2, <2>3, <2>4, <2>5 DEF AgentsInv
<1> QED
  BY <1>1, <1>2, <1>3, <1>4, <1>5, <1>6, <1>7, <1>8, <1>9, <1>10, <1>11, <1>12, <1>13, <1>14, <1>15 DEF AgentStep

-----------------------------------------------------------------------------
(* What is learnt and corrected.  TypeOK in parts, and where calls can be. *)
Concepts == [is : {"none", "active", "superseded"}, embedded : BOOLEAN,
             stability : Levels, scans : 0..2]
LearnerStates == {"idle", "look", "fold", "create", "rematch", "near", "reborn", "link"}
CorrectorStates == {"idle", "memory", "create", "resolve", "edge", "relate", "decay"}

RowType  == concept \in [Rows -> Concepts] /\ believed \in [Rows -> SUBSET Levels]
GraphType == memory \subseteq Memories /\ edges \subseteq Memories \X Rows /\ armed \in BOOLEAN
CallType ==
  /\ DOMAIN pc = Learners \cup Correctors
  /\ \A l \in Learners : pc[l] \in LearnerStates
  /\ \A k \in Correctors : pc[k] \in CorrectorStates
LearnerType == vec \in [Learners -> BOOLEAN] /\ row \in [Learners -> Rows \cup {Nothing}]
CorrectorType ==
  /\ mine \in [Correctors -> Memories \cup {Nothing}]
  /\ DOMAIN todo = Correctors
  /\ \A k \in Correctors : todo[k] \in UNION {[R -> Levels] : R \in SUBSET Rows}
CountType == lapsed \in BOOLEAN /\ signals \in 0..MaxSignals /\ faults \in 0..MaxFaults

Types == RowType /\ GraphType /\ CallType /\ LearnerType /\ CorrectorType /\ CountType

There(r) == concept[r].is # "none"

(* Why concepts fold: who has collided, collided with the row under the    *)
(* hash; who goes on to a random id has seen that row superseded.          *)
Folding ==
  /\ \A l \in Learners : pc[l] = "rematch" => There(<<Content[l], 0>>)
  /\ ~lapsed => \A l \in Learners :
                 pc[l] \in {"near", "reborn"} => concept[<<Content[l], 0>>].is = "superseded"
  /\ ~lapsed => \A r \in Rows :
                 r[2] # 0 /\ There(r) => concept[<<r[1], 0>>].is = "superseded"

(* The links of a row are made by the one call that has created it.        *)
Linking ==
  /\ \A r \in Rows : concept[r].scans <= 1 /\ (~There(r) => concept[r].scans = 0)
  /\ \A l \in Learners : pc[l] \in {"fold", "link"} => row[l] \in Rows /\ There(row[l])
  /\ \A l \in Learners : pc[l] = "link" => concept[row[l]].scans = 0
  /\ \A l, m \in Learners :
       pc[l] = "link" /\ pc[m] = "link" /\ row[l] = row[m] => l = m

(* Why a demotion is from a worth the belief had: a corrector holds what   *)
(* it has read of rows that were there, and of one row at least.  A call   *)
(* that is past its memory has one.                                        *)
Holding ==
  /\ \A r \in Rows : concept[r].is = "active" => concept[r].stability \in believed[r]
  /\ \A k \in Correctors : \A r \in DOMAIN todo[k] :
       r \in Rows /\ There(r) /\ todo[k][r] \in believed[r]
  /\ \A k \in Correctors : pc[k] \in {"edge", "relate", "decay"} => DOMAIN todo[k] # {}
  /\ \A k \in Correctors :
       pc[k] \in {"resolve", "edge", "relate", "decay"} => mine[k] \in Memories

KnowledgeInv == Types /\ Folding /\ Linking /\ Holding

LEMMA TypesAreTypeOK == Types => TypeOK
  BY DEF Types, TypeOK, RowType, GraphType, CallType, LearnerType, CorrectorType, CountType,
         Concepts, LearnerStates, CorrectorStates

LEMMA HashId == \A l \in Learners : <<Content[l], 0>> \in Rows
  BY KnowledgeAssumption DEF Rows, Contents

LEMMA HashRow == \A r \in Rows : <<r[1], 0>> \in Rows /\ r = <<r[1], r[2]>> /\ r[2] \in 0..Reborn
  BY KnowledgeAssumption DEF Rows

LEMMA KnowledgeStart == Init => KnowledgeInv
<1> SUFFICES ASSUME Init PROVE KnowledgeInv
  OBVIOUS
<1> USE KnowledgeAssumption
<1>1. PICK there \in [Contents -> {Absent} \cup {Old(s) : s \in Worn}] :
        concept = [r \in Rows |-> IF r[2] = 0 THEN there[r[1]] ELSE Absent]
  BY DEF Init
<1>2. Absent \in Concepts /\ \A s \in Worn : Old(s) \in Concepts
  BY DEF Absent, Old, Concepts, Levels
<1>3. \A r \in Rows : concept[r] = Absent \/ (r[2] = 0 /\ \E s \in Worn : concept[r] = Old(s))
  BY <1>1, HashRow DEF Rows
<1>4. RowType
  <2>1. concept \in [Rows -> Concepts]
    BY <1>1, <1>2, <1>3
  <2>2. believed \in [Rows -> SUBSET Levels]
    BY <2>1 DEF Init, Concepts
  <2> QED
    BY <2>1, <2>2 DEF RowType
<1>5. CallType /\ LearnerType
  BY DEF Init, CallType, LearnerType, LearnerStates, CorrectorStates
<1>6. CorrectorType
  <2>1. \A k \in Correctors : todo[k] = None
    BY DEF Init
  <2>2. None \in [{} -> Levels]
    BY DEF None
  <2> QED
    BY <2>1, <2>2 DEF Init, CorrectorType
<1>7. GraphType /\ CountType
  <2>1. lapsed \in BOOLEAN /\ armed \in BOOLEAN
    BY DEF Init
  <2>2. memory \subseteq Memories /\ edges \subseteq Memories \X Rows
        /\ signals \in 0..MaxSignals /\ faults \in 0..MaxFaults
    BY DEF Init
  <2> QED
    BY <2>1, <2>2 DEF GraphType, CountType
<1>8. \A r \in Rows : \/ concept[r].is = "none" /\ concept[r].scans = 0
                      \/ concept[r].is = "active" /\ concept[r].scans = 1 /\ r[2] = 0
  <2>1. Absent.is = "none" /\ Absent.scans = 0
    BY DEF Absent
  <2>2. \A s \in Worn : Old(s).is = "active" /\ Old(s).scans = 1
    BY DEF Old
  <2> QED
    BY <1>3, <2>1, <2>2
<1>9. Folding
  BY <1>8 DEF Init, Folding, There
<1>10. Linking
  BY <1>8 DEF Init, Linking, There
<1>11. Holding
  <2>1. \A k \in Correctors : DOMAIN todo[k] = {}
    BY DEF Init, None
  <2>2. \A r \in Rows : concept[r].is = "active" => concept[r].stability \in believed[r]
    BY DEF Init, Absent
  <2> QED
    BY <2>1, <2>2 DEF Init, Holding
<1> QED
  BY <1>4, <1>5, <1>6, <1>7, <1>9, <1>10, <1>11 DEF KnowledgeInv, Types

(* Where a step of a learner leaves the calls ...                          *)
Learns(l, s, r) ==
  /\ CallType' /\ LearnerType' /\ pc'[l] = s /\ (s # "idle" => row'[l] = r)
  /\ \A m \in Learners \ {l} : pc'[m] = pc[m] /\ row'[m] = row[m]
  /\ \A k \in Correctors : pc'[k] = pc[k]

LEMMA OnLearns ==
  ASSUME CallType, LearnerType, NEW l \in Learners, NEW s \in LearnerStates,
         NEW r \in Rows \cup {Nothing}, On(l, s, r)
  PROVE  Learns(l, s, r)
<1>1. pc' = [pc EXCEPT ![l] = s] /\ l \in DOMAIN pc /\ l \notin Correctors
  BY KnowledgeAssumption DEF On, Goto, CallType
<1>2. DOMAIN pc' = DOMAIN pc /\ pc'[l] = s /\ \A c \in DOMAIN pc \ {l} : pc'[c] = pc[c]
  BY <1>1
<1>3. CallType'
  BY <1>1, <1>2 DEF CallType
<1>4. LearnerType'
  BY DEF On, LearnerType
<1>5. (s # "idle" => row'[l] = r) /\ \A m \in Learners \ {l} : row'[m] = row[m]
  BY DEF On, LearnerType
<1> QED
  BY <1>1, <1>2, <1>3, <1>4, <1>5 DEF Learns, CallType

LEMMA StayLearns ==
  ASSUME CallType, LearnerType, NEW l \in Learners, NEW s \in LearnerStates, Stay(l, s)
  PROVE  Learns(l, s, row[l])
  BY OnLearns DEF Stay, LearnerType

(* ... and what it does to the rows.                                       *)
Same1(r) == concept'[r] = concept[r] /\ believed'[r] = believed[r]

LEMMA BornRow ==
  ASSUME RowType, NEW r \in Rows, NEW v \in BOOLEAN, Born(r, v)
  PROVE  /\ RowType' /\ concept'[r].is = "active" /\ concept'[r].scans = 0
         /\ concept'[r].stability \in believed'[r]
         /\ \A q \in Rows \ {r} : Same1(q)
<1> DEFINE new == [Absent EXCEPT !.is = "active", !.embedded = v]
<1>1. new \in Concepts
  <2>1. Absent \in Concepts
    BY DEF Absent, Concepts, Levels
  <2> QED
    BY <2>1 DEF Concepts
<1>2. concept' = [concept EXCEPT ![r] = new] /\ new.is = "active" /\ new.scans = 0
      /\ new.stability = 100
  BY DEF Born, Absent
<1> HIDE DEF new
<1>3. concept' \in [Rows -> Concepts] /\ concept'[r] = new
      /\ \A q \in Rows \ {r} : concept'[q] = concept[q]
  BY <1>1, <1>2 DEF RowType
<1>4. believed' \in [Rows -> SUBSET Levels] /\ believed'[r] = {100}
      /\ \A q \in Rows \ {r} : believed'[q] = believed[q]
  BY DEF Born, RowType, Levels
<1> QED
  BY <1>2, <1>3, <1>4 DEF RowType, Same1

(* What every step of a learner is like: rows that are there keep what     *)
(* they are worth, a new one is born active and under an id that is due,   *)
(* and the one that links a row has created it.                            *)
Due(q) == q[2] = 0 \/ lapsed \/ concept[<<q[1], 0>>].is = "superseded"

LearnerRows(l, s) ==
  /\ RowType'
  /\ \A q \in Rows : There(q) =>
       /\ concept'[q].is = concept[q].is /\ concept'[q].stability = concept[q].stability
       /\ believed'[q] = believed[q]
       /\ \/ concept'[q].scans = concept[q].scans
          \/ pc[l] = "link" /\ s = "idle" /\ q = row[l] /\ concept'[q].scans = 1
  /\ \A q \in Rows : ~There(q) =>
       \/ Same1(q)
       \/ /\ concept'[q].is = "active" /\ concept'[q].scans = 0
          /\ concept'[q].stability \in believed'[q] /\ Due(q)

LearnerGoes(l, s, r) ==
  /\ Learns(l, s, r) /\ CountType' /\ (lapsed => lapsed')
  /\ UNCHANGED <<graph, correcting>>
  /\ s = "fold" => r \in Rows /\ There(r)
  /\ s = "link" => r \in Rows /\ ~There(r) /\ There(r)'
  /\ s = "rematch" => There(<<Content[l], 0>>)'
  /\ s \in {"near", "reborn"} => lapsed' \/ concept[<<Content[l], 0>>].is = "superseded"

LEMMA LearnerKeeps ==
  ASSUME KnowledgeInv, NEW l \in Learners, NEW s, NEW r, LearnerGoes(l, s, r), LearnerRows(l, s)
  PROVE  KnowledgeInv'
<1>1. Types'
  BY DEF KnowledgeInv, Types, LearnerGoes, LearnerRows, Learns, GraphType, CorrectorType, graph,
         correcting
<1>2. /\ Learns(l, s, r) /\ (lapsed => lapsed') /\ UNCHANGED <<graph, correcting>>
      /\ s = "fold" => r \in Rows /\ There(r)
      /\ s = "link" => r \in Rows /\ ~There(r) /\ There(r)'
      /\ s = "rematch" => There(<<Content[l], 0>>)'
      /\ s \in {"near", "reborn"} => lapsed' \/ concept[<<Content[l], 0>>].is = "superseded"
  BY DEF LearnerGoes
<1>3. \A q \in Rows : (There(q) => There(q)') /\ (concept[q].is = "superseded" =>
                        concept'[q].is = "superseded")
  BY DEF LearnerRows, There
<1>4. Folding'
  <2>1. \A m \in Learners : pc'[m] = "rematch" => There(<<Content[m], 0>>)'
    BY <1>2, <1>3, HashId DEF KnowledgeInv, Folding, Learns
  <2>2. ASSUME ~lapsed', NEW m \in Learners, pc'[m] \in {"near", "reborn"}
        PROVE  concept'[<<Content[m], 0>>].is = "superseded"
    BY <2>2, <1>2, <1>3, HashId DEF KnowledgeInv, Folding, Learns
  <2>3. ASSUME ~lapsed', NEW q \in Rows, q[2] # 0, There(q)'
        PROVE  concept'[<<q[1], 0>>].is = "superseded"
    <3>1. There(q) \/ Due(q)
      BY <2>3 DEF LearnerRows, There, Same1
    <3>2. concept[<<q[1], 0>>].is = "superseded"
      BY <2>3, <3>1, <1>2 DEF KnowledgeInv, Folding, Due
    <3> QED
      BY <3>2, <1>3, HashRow
  <2> QED
    BY <2>1, <2>2, <2>3 DEF Folding
<1>5. Linking'
  <2>1. \A q \in Rows : concept'[q].scans <= 1 /\ (~There(q)' => concept'[q].scans = 0)
    BY <1>3 DEF KnowledgeInv, Linking, LearnerRows, There, Same1
  <2>2. \A m \in Learners : pc'[m] \in {"fold", "link"} => row'[m] \in Rows
                                                         /\ concept'[row'[m]].is # "none"
    BY <1>2, <1>3 DEF KnowledgeInv, Linking, Learns, There
  <2>3. ASSUME NEW m \in Learners, pc'[m] = "link" PROVE concept'[row'[m]].scans = 0
    <3>1. CASE m = l
      BY <2>3, <3>1, <1>2 DEF LearnerRows, Learns, There, Same1
    <3>2. CASE m # l
      BY <2>3, <3>2, <1>2 DEF KnowledgeInv, Linking, LearnerRows, Learns, There
    <3> QED
      BY <3>1, <3>2
  <2>4. \A m, n \in Learners :
          pc'[m] = "link" /\ pc'[n] = "link" /\ row'[m] = row'[n] => m = n
    BY <1>2 DEF KnowledgeInv, Linking, Learns
  <2> QED
    BY <2>1, <2>2, <2>3, <2>4 DEF Linking, There
<1>6. Holding'
  <2>1. ASSUME NEW q \in Rows, concept'[q].is = "active" PROVE concept'[q].stability \in believed'[q]
    BY <2>1 DEF KnowledgeInv, Holding, LearnerRows, Same1, There
  <2>2. todo' = todo /\ mine' = mine /\ \A k \in Correctors : pc'[k] = pc[k]
    BY <1>2 DEF Learns, correcting
  <2>3. \A k \in Correctors : \A q \in DOMAIN todo[k] :
          q \in Rows /\ There(q)' /\ todo[k][q] \in believed'[q]
    BY <1>3 DEF KnowledgeInv, Holding, LearnerRows
  <2> QED
    BY <2>1, <2>2, <2>3 DEF KnowledgeInv, Holding
<1> QED
  BY <1>1, <1>4, <1>5, <1>6 DEF KnowledgeInv

(* Rows that nobody touches.                                               *)
LEMMA RowsStand ==
  ASSUME RowType, UNCHANGED rowvars, NEW l, NEW s
  PROVE  LearnerRows(l, s)
  BY DEF RowType, rowvars, LearnerRows, Same1

LEMMA LearnerSteps ==
  ASSUME KnowledgeInv, NEW l \in Learners,
         \/ Learn(l) \/ Look(l) \/ Fold(l) \/ Create(l) \/ Rematch(l) \/ Near(l) \/ Rebirth(l)
         \/ Link(l)
  PROVE  \E s \in LearnerStates, r \in Rows \cup {Nothing} :
           LearnerGoes(l, s, r) /\ LearnerRows(l, s)
<1> USE KnowledgeAssumption
<1>1. /\ RowType /\ GraphType /\ CallType /\ LearnerType /\ CorrectorType /\ CountType
      /\ row[l] \in Rows \cup {Nothing} /\ vec[l] \in BOOLEAN
  BY DEF KnowledgeInv, Types, LearnerType
<1>2. Folding /\ Linking
  BY DEF KnowledgeInv
<1>c. (UNCHANGED lapsed \/ lapsed' = TRUE) /\ UNCHANGED signals /\ (Fail \/ Fine) =>
        CountType' /\ (lapsed => lapsed')
  <2>1. Fail \/ Fine => faults' \in 0..MaxFaults
    BY <1>1 DEF CountType, Fail, Fine
  <2>2. UNCHANGED lapsed \/ lapsed' = TRUE => lapsed' \in BOOLEAN
    BY <1>1 DEF CountType
  <2> QED
    BY <1>1, <2>1, <2>2 DEF CountType
<1>3. CASE Learn(l)
  <2>1. Learns(l, "look", row[l])
    BY <1>1, <1>3 DEF Learn, Goto, Learns, CallType, LearnerType, LearnerStates
  <2>2. LearnerGoes(l, "look", row[l]) /\ UNCHANGED rowvars
    BY <2>1, <1>1, <1>c, <1>3 DEF Learn, LearnerGoes, Fine
  <2> QED
    BY <2>2, <1>1, RowsStand DEF LearnerStates
<1>4. CASE Look(l)
  <2>1. PICK s \in {"create", "fold", "idle"}, r \in Rows \cup {Nothing} :
          On(l, s, r) /\ (s = "fold" => r \in Active) /\ (Fail \/ Fine)
    BY <1>1, <1>4 DEF Look, Stay, Same, Close, Active
  <2>2. Learns(l, s, r)
    BY <1>1, <2>1, OnLearns DEF LearnerStates
  <2>3. LearnerGoes(l, s, r) /\ UNCHANGED rowvars
    BY <2>1, <2>2, <1>1, <1>c, <1>4 DEF Look, LearnerGoes, Active, There
  <2> QED
    BY <2>3, <1>1, RowsStand DEF LearnerStates
<1>5. CASE Fold(l)
  <2>1. Stay(l, "idle") /\ (Fail \/ Fine) /\ UNCHANGED lapsed
    BY <1>5 DEF Fold, Existed
  <2>2. LearnerGoes(l, "idle", row[l])
    BY <2>1, <1>1, <1>c, <1>5, StayLearns DEF Fold, LearnerGoes, LearnerStates
  <2>3. LearnerRows(l, "idle")
    <3>1. CASE UNCHANGED concept
      BY <3>1, <1>1, <1>5, RowsStand DEF Fold, rowvars
    <3>2. CASE concept' = [concept EXCEPT ![row[l]].embedded = @ \/ vec[l]]
      <4>1. PICK r : r = row[l] /\ r \in Rows /\ There(r)
        BY <1>2, <1>5 DEF Linking, Fold
      <4>2. PICK new : new = [concept[r] EXCEPT !.embedded = @ \/ vec[l]]
        OBVIOUS
      <4>3. concept[r] \in Concepts
        BY <1>1, <4>1 DEF RowType
      <4>4. new.is = concept[r].is /\ new.stability = concept[r].stability
            /\ new.scans = concept[r].scans /\ new \in Concepts
        BY <1>1, <4>2, <4>3 DEF Concepts
      <4>5. concept' \in [Rows -> Concepts] /\ concept'[r] = new
            /\ \A q \in Rows \ {r} : concept'[q] = concept[q]
        BY <3>2, <4>1, <4>2, <4>4, <1>1 DEF RowType
      <4>6. believed' = believed
        BY <1>5 DEF Fold
      <4>7. RowType'
        BY <4>5, <4>6, <1>1 DEF RowType
      <4>8. ASSUME NEW q \in Rows
            PROVE  /\ concept'[q].is = concept[q].is /\ concept'[q].scans = concept[q].scans
                   /\ concept'[q].stability = concept[q].stability
                   /\ ~There(q) => q # r
        BY <4>1, <4>4, <4>5
      <4> QED
        BY <4>5, <4>6, <4>7, <4>8 DEF LearnerRows, Same1
    <3> QED
      BY <3>1, <3>2, <1>5 DEF Fold
  <2> QED
    BY <2>2, <2>3, <1>1 DEF LearnerStates
<1>6. CASE Create(l)
  <2>1. PICK r \in Rows : r = <<Content[l], 0>>
    BY HashId
  <2>2. CASE ~There(r) /\ Born(r, vec[l])
             /\ ((On(l, "link", r) /\ Fine) \/ (Fail /\ Stay(l, "rematch")))
    <3>1. /\ RowType' /\ concept'[r].is = "active" /\ concept'[r].scans = 0
          /\ concept'[r].stability \in believed'[r]
          /\ \A q \in Rows \ {r} : Same1(q)
      BY <2>1, <2>2, <1>1, BornRow
    <3>2. LearnerRows(l, "link") /\ LearnerRows(l, "rematch") /\ There(r)'
      BY <2>1, <2>2, <3>1 DEF LearnerRows, Due, There, Same1
    <3>3. CASE On(l, "link", r)
      <4>1. LearnerGoes(l, "link", r)
        BY <2>1, <2>2, <3>2, <3>3, <1>1, <1>c, <1>6, OnLearns DEF Create, LearnerGoes, LearnerStates
      <4> QED
        BY <4>1, <3>2, <2>1 DEF LearnerStates
    <3>4. CASE Stay(l, "rematch")
      <4>1. LearnerGoes(l, "rematch", row[l])
        BY <2>1, <2>2, <3>2, <3>4, <1>1, <1>c, <1>6, StayLearns DEF Create, LearnerGoes, LearnerStates
      <4> QED
        BY <4>1, <3>2, <1>1 DEF LearnerStates
    <3> QED
      BY <2>2, <3>3, <3>4
  <2>3. CASE There(r) /\ Stay(l, "rematch") /\ Fine /\ UNCHANGED rowvars
    <3>1. LearnerGoes(l, "rematch", row[l])
      BY <2>1, <2>3, <1>1, <1>c, <1>6, StayLearns
      DEF Create, LearnerGoes, LearnerStates, There, rowvars
    <3> QED
      BY <3>1, <2>3, <1>1, RowsStand DEF LearnerStates
  <2>4. CASE Fail /\ Stay(l, "idle") /\ UNCHANGED rowvars
    <3>1. LearnerGoes(l, "idle", row[l])
      BY <2>4, <1>1, <1>c, <1>6, StayLearns DEF Create, LearnerGoes, LearnerStates
    <3> QED
      BY <3>1, <2>4, <1>1, RowsStand DEF LearnerStates
  <2> QED
    BY <2>1, <2>2, <2>3, <2>4, <1>6 DEF Create, Key, There
<1>7. CASE Rematch(l)
  <2>1. Same(Content[l]) = {} => concept[<<Content[l], 0>>].is = "superseded"
    <3>1. PICK r \in Rows : r = <<Content[l], 0>>
      BY HashId
    <3>2. r[1] = Content[l] /\ There(r)
      BY <3>1, <1>2, <1>7 DEF Rematch, Folding
    <3>3. concept[r].is \in {"none", "active", "superseded"}
      BY <1>1 DEF RowType, Concepts
    <3> QED
      BY <3>1, <3>2, <3>3 DEF Same, Active, There
  <2>2. PICK s \in {"idle", "near", "reborn"} :
          Stay(l, s) /\ (Fail \/ Fine) /\ (UNCHANGED lapsed \/ lapsed' = TRUE)
          /\ (s # "idle" => Same(Content[l]) = {} \/ lapsed')
    BY <1>7 DEF Rematch
  <2>3. LearnerGoes(l, s, row[l]) /\ UNCHANGED rowvars
    BY <2>1, <2>2, <1>1, <1>c, <1>7, StayLearns DEF Rematch, LearnerGoes, LearnerStates
  <2> QED
    BY <2>3, <1>1, RowsStand DEF LearnerStates
<1>8. CASE Near(l)
  <2>1. PICK s \in {"idle", "reborn"} : Stay(l, s) /\ (Fail \/ Fine)
    BY <1>8 DEF Near
  <2>2. lapsed \/ concept[<<Content[l], 0>>].is = "superseded"
    BY <1>2, <1>8 DEF Near, Folding
  <2>3. LearnerGoes(l, s, row[l]) /\ UNCHANGED rowvars
    BY <2>1, <2>2, <1>1, <1>c, <1>8, StayLearns DEF Near, LearnerGoes, LearnerStates
  <2> QED
    BY <2>3, <1>1, RowsStand DEF LearnerStates
<1>9. CASE Rebirth(l)
  <2>1. ASSUME NEW n \in 1..Reborn, NEW r, r = <<Content[l], n>>, ~There(r), Born(r, vec[l]),
               (On(l, "link", r) /\ Fine) \/ (Fail /\ Stay(l, "idle"))
        PROVE  \E s \in LearnerStates, q \in Rows \cup {Nothing} :
                 LearnerGoes(l, s, q) /\ LearnerRows(l, s)
    <3>1. r \in Rows /\ Due(r)
      BY <2>1, <1>2, <1>9 DEF Rebirth, Folding, Due, Rows, Contents
    <3>2. /\ RowType' /\ concept'[r].is = "active" /\ concept'[r].scans = 0
          /\ concept'[r].stability \in believed'[r]
          /\ \A q \in Rows \ {r} : Same1(q)
      BY <2>1, <3>1, <1>1, BornRow
    <3>3. LearnerRows(l, "link") /\ LearnerRows(l, "idle") /\ There(r)'
      BY <2>1, <3>1, <3>2 DEF LearnerRows, There, Same1
    <3>4. CASE On(l, "link", r)
      <4>1. LearnerGoes(l, "link", r)
        BY <2>1, <3>1, <3>3, <3>4, <1>1, <1>c, <1>9, OnLearns DEF Rebirth, LearnerGoes, LearnerStates
      <4> QED
        BY <4>1, <3>1, <3>3 DEF LearnerStates
    <3>5. CASE Stay(l, "idle")
      <4>1. LearnerGoes(l, "idle", row[l])
        BY <2>1, <3>5, <1>1, <1>c, <1>9, StayLearns DEF Rebirth, LearnerGoes, LearnerStates
      <4> QED
        BY <4>1, <3>3, <1>1 DEF LearnerStates
    <3> QED
      BY <2>1, <3>4, <3>5
  <2>2. CASE Stay(l, "idle") /\ (Fail \/ Fine) /\ UNCHANGED rowvars
    <3>1. LearnerGoes(l, "idle", row[l])
      BY <2>2, <1>1, <1>c, <1>9, StayLearns DEF Rebirth, LearnerGoes, LearnerStates
    <3> QED
      BY <3>1, <2>2, <1>1, RowsStand DEF LearnerStates
  <2> QED
    BY <2>1, <2>2, <1>9 DEF Rebirth, There
<1>10. CASE Link(l)
  <2>1. LearnerGoes(l, "idle", row[l])
    BY <1>1, <1>10, <1>c, StayLearns DEF Link, LearnerGoes, LearnerStates, Fine
  <2>2. LearnerRows(l, "idle")
    <3>1. PICK r : r = row[l] /\ r \in Rows /\ There(r) /\ concept[r].scans = 0 /\ pc[l] = "link"
      BY <1>2, <1>10 DEF Linking, Link
    <3>2. PICK new : new = [concept[r] EXCEPT !.scans = @ + 1]
      OBVIOUS
    <3>3. concept[r] \in Concepts
      BY <1>1, <3>1 DEF RowType
    <3>4. new.is = concept[r].is /\ new.stability = concept[r].stability
          /\ new.scans = 1 /\ new \in Concepts
      BY <3>1, <3>2, <3>3 DEF Concepts
    <3>5. concept' \in [Rows -> Concepts] /\ concept'[r] = new
          /\ \A q \in Rows \ {r} : concept'[q] = concept[q]
      BY <1>10, <3>1, <3>2, <3>4, <1>1 DEF Link, RowType
    <3> QED
      BY <3>1, <3>4, <3>5, <1>1, <1>10 DEF Link, LearnerRows, RowType, Same1, There
  <2> QED
    BY <2>1, <2>2, <1>1 DEF LearnerStates
<1> QED
  BY <1>3, <1>4, <1>5, <1>6, <1>7, <1>8, <1>9, <1>10

(* What every step of a corrector is like: it goes on with what it has     *)
(* read, and the only row it touches is demoted from there.                *)
CorrectorGoes(k) ==
  /\ CallType' /\ CorrectorType' /\ CountType' /\ GraphType'
  /\ UNCHANGED <<learning, lapsed>>
  /\ \A l \in Learners : pc'[l] = pc[l]
  /\ \A j \in Correctors \ {k} : pc'[j] = pc[j] /\ todo'[j] = todo[j] /\ mine'[j] = mine[j]
  /\ pc'[k] \in {"edge", "relate", "decay"} => DOMAIN todo'[k] # {}
  /\ pc'[k] \in {"resolve", "edge", "relate", "decay"} => mine'[k] \in Memories
  /\ \A q \in DOMAIN todo'[k] : q \in Rows /\ There(q) /\ todo'[k][q] \in believed[q]

CorrectorRows ==
  /\ RowType' /\ UNCHANGED believed
  /\ \A q \in Rows :
       \/ concept'[q] = concept[q]
       \/ /\ There(q) /\ concept'[q].is = "superseded" /\ concept'[q].scans = concept[q].scans
          /\ concept'[q].stability \in {Lower(s, 15) : s \in believed[q]}

LEMMA CorrectorKeeps ==
  ASSUME KnowledgeInv, NEW k \in Correctors, CorrectorGoes(k), CorrectorRows
  PROVE  KnowledgeInv'
<1>1. Types'
  BY DEF KnowledgeInv, Types, CorrectorGoes, CorrectorRows, LearnerType, learning
<1>2. /\ UNCHANGED <<row, lapsed>> /\ \A l \in Learners : pc'[l] = pc[l]
      /\ \A j \in Correctors \ {k} : pc'[j] = pc[j] /\ todo'[j] = todo[j] /\ mine'[j] = mine[j]
  BY DEF CorrectorGoes, learning
<1>3. \A q \in Rows : /\ (There(q) <=> There(q)') /\ concept'[q].scans = concept[q].scans
                      /\ concept[q].is = "superseded" => concept'[q].is = "superseded"
                      /\ concept'[q].is = "active" => concept'[q] = concept[q]
  BY DEF CorrectorRows, There
<1>4. Folding'
  BY <1>2, <1>3, HashId, HashRow DEF KnowledgeInv, Folding
<1>5. Linking'
  BY <1>2, <1>3 DEF KnowledgeInv, Linking, There
<1>6. Holding'
  <2>1. \A q \in Rows : concept'[q].is = "active" => concept'[q].stability \in believed'[q]
    BY <1>3 DEF KnowledgeInv, Holding, CorrectorRows
  <2>2. ASSUME NEW j \in Correctors
        PROVE  /\ \A q \in DOMAIN todo'[j] : q \in Rows /\ There(q)' /\ todo'[j][q] \in believed'[q]
               /\ pc'[j] \in {"edge", "relate", "decay"} => DOMAIN todo'[j] # {}
               /\ pc'[j] \in {"resolve", "edge", "relate", "decay"} => mine'[j] \in Memories
    <3>1. CASE j = k
      BY <3>1, <1>3 DEF CorrectorGoes, CorrectorRows
    <3>2. CASE j # k
      BY <3>2, <1>2, <1>3 DEF KnowledgeInv, Holding, CorrectorRows
    <3> QED
      BY <3>1, <3>2
  <2> QED
    BY <2>1, <2>2 DEF Holding, Memories
<1> QED
  BY <1>1, <1>4, <1>5, <1>6 DEF KnowledgeInv

(* What a corrector changes of its own.                                    *)
Corrects(k) ==
  /\ CallType' /\ CorrectorType'
  /\ \A l \in Learners : pc'[l] = pc[l]
  /\ \A j \in Correctors \ {k} : pc'[j] = pc[j] /\ todo'[j] = todo[j] /\ mine'[j] = mine[j]

LEMMA GotoCalls ==
  ASSUME CallType, NEW k \in Correctors, NEW s \in CorrectorStates, Goto(k, s)
  PROVE  /\ CallType' /\ pc'[k] = s /\ \A l \in Learners : pc'[l] = pc[l]
         /\ \A j \in Correctors \ {k} : pc'[j] = pc[j]
<1>1. pc' = [pc EXCEPT ![k] = s] /\ k \in DOMAIN pc /\ k \notin Learners
  BY KnowledgeAssumption DEF Goto, CallType
<1>2. DOMAIN pc' = DOMAIN pc /\ pc'[k] = s /\ \A c \in DOMAIN pc \ {k} : pc'[c] = pc[c]
  BY <1>1
<1> QED
  BY <1>1, <1>2 DEF CallType

LEMMA GiveCorrects ==
  ASSUME CallType, CorrectorType, NEW k \in Correctors, Give(k)
  PROVE  Corrects(k) /\ pc'[k] = "idle" /\ DOMAIN todo'[k] = {}
<1>1. CallType' /\ pc'[k] = "idle" /\ (\A l \in Learners : pc'[l] = pc[l])
      /\ \A j \in Correctors \ {k} : pc'[j] = pc[j]
  BY GotoCalls DEF Give, CorrectorStates
<1>2. todo' = [todo EXCEPT ![k] = None] /\ mine' = [mine EXCEPT ![k] = Nothing]
  BY DEF Give
<1>3. None \in [{} -> Levels] /\ DOMAIN None = {}
  BY DEF None
<1>4. DOMAIN todo' = Correctors /\ todo'[k] = None
      /\ \A j \in Correctors \ {k} : todo'[j] = todo[j]
  BY <1>2 DEF CorrectorType
<1>5. mine' \in [Correctors -> Memories \cup {Nothing}]
      /\ \A j \in Correctors \ {k} : mine'[j] = mine[j]
  BY <1>2 DEF CorrectorType
<1>6. CorrectorType'
  BY <1>3, <1>4, <1>5 DEF CorrectorType, Rows, Memories
<1> QED
  BY <1>1, <1>3, <1>4, <1>5, <1>6 DEF Corrects

LEMMA TargetIsHeld ==
  ASSUME Holding, CorrectorType, NEW k \in Correctors, pc[k] \in {"edge", "relate", "decay"}
  PROVE  Target(k) \in DOMAIN todo[k] /\ Target(k) \in Rows /\ There(Target(k))
         /\ todo[k][Target(k)] \in believed[Target(k)]
<1>1. DOMAIN todo[k] # {}
  BY DEF Holding
<1>2. Target(k) \in DOMAIN todo[k]
  BY <1>1 DEF Target
<1> QED
  BY <1>2 DEF Holding

LEMMA NextCorrects ==
  ASSUME CallType, CorrectorType, NEW k \in Correctors, NextTarget(k)
  PROVE  /\ Corrects(k) /\ pc'[k] \in {"idle", "edge"}
         /\ pc'[k] = "edge" => DOMAIN todo'[k] # {} /\ mine'[k] = mine[k]
         /\ \A q \in DOMAIN todo'[k] : q \in DOMAIN todo[k] /\ todo'[k][q] = todo[k][q]
<1> DEFINE left == DOMAIN todo[k] \ {Target(k)}
<1>1. CASE left = {}
  <2>1. Give(k)
    BY <1>1 DEF NextTarget
  <2> QED
    BY <2>1, GiveCorrects
<1>2. CASE left # {}
  <2> DEFINE new == [r \in left |-> todo[k][r]]
  <2>1. todo' = [todo EXCEPT ![k] = new] /\ Goto(k, "edge") /\ UNCHANGED mine
    BY <1>2 DEF NextTarget
  <2>2. CallType' /\ pc'[k] = "edge" /\ (\A l \in Learners : pc'[l] = pc[l])
        /\ \A j \in Correctors \ {k} : pc'[j] = pc[j]
    BY <2>1, GotoCalls DEF CorrectorStates
  <2>3. PICK R \in SUBSET Rows : todo[k] \in [R -> Levels]
    BY DEF CorrectorType
  <2>4. new \in [left -> Levels] /\ left \in SUBSET Rows
    BY <2>3
  <2>5. DOMAIN todo' = Correctors /\ todo'[k] = new
        /\ \A j \in Correctors \ {k} : todo'[j] = todo[j]
    BY <2>1 DEF CorrectorType
  <2>6. CorrectorType'
    <3>1. \A j \in Correctors : todo'[j] \in UNION {[S -> Levels] : S \in SUBSET Rows}
      BY <2>4, <2>5 DEF CorrectorType
    <3> QED
      BY <2>1, <2>5, <3>1 DEF CorrectorType, Rows, Memories
  <2> QED
    BY <1>2, <2>1, <2>2, <2>4, <2>5, <2>6 DEF Corrects
<1> QED
  BY <1>1, <1>2

LEMMA RowsStandToo ==
  ASSUME RowType, UNCHANGED rowvars PROVE CorrectorRows
  BY DEF RowType, rowvars, CorrectorRows

(* The rows of one correction memory can be counted.                       *)
LEMMA ToldIsFinite ==
  ASSUME GraphType, NEW k \in Correctors
  PROVE  Cardinality(Told(k)) \in Nat
<1>1. Told(k) \subseteq {Said[k]} \X (1..MaxMem)
  BY DEF Told, GraphType, Memories
<1>2. IsFiniteSet({Said[k]}) /\ IsFiniteSet(1..MaxMem)
  <2>1. IsFiniteSet({Said[k]})
    BY FS_Singleton
  <2>2. IsFiniteSet(1..MaxMem)
    BY FS_Interval, KnowledgeAssumption
  <2> QED
    BY <2>1, <2>2
<1>3. IsFiniteSet(Told(k))
  BY <1>1, <1>2, FS_Product, FS_Subset
<1> QED
  BY <1>3, FS_CardinalityType

LEMMA CorrectorSteps ==
  ASSUME KnowledgeInv, NEW k \in Correctors,
         \/ Correct(k) \/ FindMemory(k) \/ CreateMemory(k) \/ Resolve(k) \/ CheckEdge(k)
         \/ Relate(k) \/ Decay(k)
  PROVE  CorrectorGoes(k) /\ CorrectorRows
<1> USE KnowledgeAssumption
<1>1. /\ RowType /\ GraphType /\ CallType /\ LearnerType /\ CorrectorType /\ CountType
      /\ Holding
  BY DEF KnowledgeInv, Types
<1>2. UNCHANGED <<lapsed, signals>> /\ (Fail \/ Fine) => CountType'
  BY <1>1 DEF CountType, Fail, Fine
<1>3. UNCHANGED graph => GraphType'
  BY <1>1 DEF GraphType, graph
<1>4. UNCHANGED correcting => CorrectorType' /\ \A j \in Correctors : todo'[j] = todo[j] /\ mine'[j] = mine[j]
  BY <1>1 DEF CorrectorType, correcting
<1>5. CASE Correct(k)
  <2>1. UNCHANGED <<rowvars, graph, learning, correcting, lapsed, signals, faults>>
        /\ Goto(k, "memory")
    BY <1>5 DEF Correct
  <2>2. /\ CallType' /\ pc'[k] = "memory" /\ \A l \in Learners : pc'[l] = pc[l]
        /\ \A j \in Correctors \ {k} : pc'[j] = pc[j]
    BY <2>1, <1>1, GotoCalls DEF CorrectorStates
  <2>3. \A q \in DOMAIN todo'[k] : q \in Rows /\ There(q) /\ todo'[k][q] \in believed[q]
    BY <2>1, <1>1 DEF Holding, correcting
  <2> QED
    BY <2>1, <2>2, <2>3, <1>1, <1>2, <1>3, <1>4, RowsStandToo DEF CorrectorGoes, Fine
<1>6. CASE FindMemory(k)
  <2>1. UNCHANGED <<rowvars, graph, learning, lapsed, signals>> /\ (Fail \/ Fine)
    BY <1>6 DEF FindMemory
  <2>2. CASE Give(k)
    BY <2>1, <2>2, <1>1, <1>2, <1>3, GiveCorrects, RowsStandToo DEF CorrectorGoes, Corrects
  <2>3. CASE Goto(k, "create") /\ UNCHANGED correcting
    <3>1. /\ CallType' /\ pc'[k] = "create" /\ \A l \in Learners : pc'[l] = pc[l]
          /\ \A j \in Correctors \ {k} : pc'[j] = pc[j]
      BY <2>3, <1>1, GotoCalls DEF CorrectorStates
    <3>2. \A q \in DOMAIN todo'[k] : q \in Rows /\ There(q) /\ todo'[k][q] \in believed[q]
      BY <2>3, <1>1 DEF Holding, correcting
    <3> QED
      BY <2>1, <2>3, <3>1, <3>2, <1>1, <1>2, <1>3, <1>4, RowsStandToo DEF CorrectorGoes
  <2>4. CASE Goto(k, "resolve") /\ UNCHANGED todo /\ \E m \in Told(k) : mine' = [mine EXCEPT ![k] = m]
    <3>1. /\ CallType' /\ pc'[k] = "resolve" /\ \A l \in Learners : pc'[l] = pc[l]
          /\ \A j \in Correctors \ {k} : pc'[j] = pc[j]
      BY <2>4, <1>1, GotoCalls DEF CorrectorStates
    <3>2. PICK m \in Memories : mine' = [mine EXCEPT ![k] = m]
      BY <2>4, <1>1 DEF Told, GraphType
    <3>3. /\ CorrectorType' /\ mine'[k] \in Memories
          /\ \A j \in Correctors \ {k} : mine'[j] = mine[j] /\ todo'[j] = todo[j]
      BY <2>4, <3>2, <1>1 DEF CorrectorType, Memories, Rows
    <3>4. \A q \in DOMAIN todo'[k] : q \in Rows /\ There(q) /\ todo'[k][q] \in believed[q]
      BY <2>4, <1>1 DEF Holding
    <3> QED
      BY <2>1, <3>1, <3>3, <3>4, <1>1, <1>2, <1>3, RowsStandToo DEF CorrectorGoes
  <2> QED
    BY <2>2, <2>3, <2>4, <1>6 DEF FindMemory
<1>7. CASE CreateMemory(k)
  <2> DEFINE n == Cardinality(Told(k))
             M(i) == <<Said[k], n + i>>
  <2>1. UNCHANGED <<rowvars, edges, armed, learning, lapsed, signals>> /\ (Fail \/ Fine)
    BY <1>7 DEF CreateMemory
  <2>2. CASE Give(k) /\ UNCHANGED memory
    BY <2>1, <2>2, <1>1, <1>2, <1>3, GiveCorrects, RowsStandToo DEF CorrectorGoes, Corrects, graph
  <2>3. ASSUME NEW i \in {1, 2}, n + i <= MaxMem, Goto(k, "resolve"), UNCHANGED todo,
               mine' = [mine EXCEPT ![k] = M(i)],
               memory' \subseteq memory \cup {M(1), M(i)}
        PROVE  CorrectorGoes(k) /\ CorrectorRows
    <3>1. /\ CallType' /\ pc'[k] = "resolve" /\ \A l \in Learners : pc'[l] = pc[l]
          /\ \A j \in Correctors \ {k} : pc'[j] = pc[j]
      BY <2>3, <1>1, GotoCalls DEF CorrectorStates
    <3>2. n \in Nat
      BY <1>1, ToldIsFinite
    <3>3. M(1) \in Memories /\ M(i) \in Memories
      BY <2>3, <3>2 DEF Memories
    <3>4. GraphType'
      BY <2>1, <2>3, <3>3, <1>1 DEF GraphType, Memories, Rows
    <3>5. /\ CorrectorType' /\ mine'[k] \in Memories
          /\ \A j \in Correctors \ {k} : mine'[j] = mine[j] /\ todo'[j] = todo[j]
      BY <2>3, <3>3, <1>1 DEF CorrectorType, Memories, Rows
    <3>6. \A q \in DOMAIN todo'[k] : q \in Rows /\ There(q) /\ todo'[k][q] \in believed[q]
      BY <2>3, <1>1 DEF Holding
    <3> QED
      BY <2>1, <3>1, <3>4, <3>5, <3>6, <1>1, <1>2, RowsStandToo DEF CorrectorGoes
  <2>4. n \in Nat
    BY <1>1, ToldIsFinite
  <2> QED
    BY <2>2, <2>3, <2>4, <1>7 DEF CreateMemory
<1>8. CASE Resolve(k)
  <2>1. UNCHANGED <<rowvars, graph, learning, lapsed, signals>> /\ (Fail \/ Fine)
    BY <1>8 DEF Resolve
  <2>2. CASE Give(k)
    BY <2>1, <2>2, <1>1, <1>2, <1>3, GiveCorrects, RowsStandToo DEF CorrectorGoes, Corrects
  <2>3. ASSUME NEW hit \in SUBSET Active, hit # {}, Goto(k, "edge"), UNCHANGED mine,
               todo' = [todo EXCEPT ![k] = [r \in hit |-> concept[r].stability]]
        PROVE  CorrectorGoes(k) /\ CorrectorRows
    <3>1. /\ CallType' /\ pc'[k] = "edge" /\ \A l \in Learners : pc'[l] = pc[l]
          /\ \A j \in Correctors \ {k} : pc'[j] = pc[j]
      BY <2>3, <1>1, GotoCalls DEF CorrectorStates
    <3> DEFINE new == [r \in hit |-> concept[r].stability]
    <3>2. hit \subseteq Rows /\ \A r \in hit : concept[r] \in Concepts /\ concept[r].is = "active"
      BY <2>3, <1>1 DEF Active, RowType
    <3>3. new \in [hit -> Levels] /\ DOMAIN new = hit
      BY <3>2 DEF Concepts
    <3>4. DOMAIN todo' = Correctors /\ todo'[k] = new
          /\ \A j \in Correctors \ {k} : todo'[j] = todo[j]
      BY <2>3, <1>1 DEF CorrectorType
    <3>5. CorrectorType'
      <4>1. \A j \in Correctors : todo'[j] \in UNION {[S -> Levels] : S \in SUBSET Rows}
        BY <3>2, <3>3, <3>4, <1>1 DEF CorrectorType
      <4> QED
        BY <2>3, <3>4, <4>1, <1>1 DEF CorrectorType, Rows, Memories
    <3>6. \A q \in DOMAIN todo'[k] : q \in Rows /\ There(q) /\ todo'[k][q] \in believed[q]
      BY <3>2, <3>4, <1>1 DEF Holding, There
    <3>7. mine'[k] \in Memories
      BY <2>3, <1>1, <1>8 DEF Holding, Resolve
    <3> QED
      BY <2>1, <2>3, <3>1, <3>3, <3>4, <3>5, <3>6, <3>7, <1>1, <1>2, <1>3, RowsStandToo
      DEF CorrectorGoes
  <2> DEFINE meant == {r \in Candidates : concept[r].embedded /\ concept[r].stability > 15}
             same == {r \in meant : r[1] = Wrong[k]}
             alike == {r \in meant : {r[1], Wrong[k]} \in Alike}
             found == IF same # {} THEN same ELSE alike
  <2>4. Give(k) \/ (found # {} /\ Goto(k, "edge") /\ UNCHANGED mine
                     /\ todo' = [todo EXCEPT ![k] = [r \in found |-> concept[r].stability]])
    BY <1>8 DEF Resolve
  <2>5. found \in SUBSET Active
    BY DEF Candidates
  <2> HIDE DEF found
  <2> QED
    BY <2>2, <2>3, <2>4, <2>5
<1>9. ASSUME pc[k] \in {"edge", "relate", "decay"}, NextTarget(k), CountType', GraphType',
             UNCHANGED <<learning, lapsed>>
      PROVE  CorrectorGoes(k)
  BY <1>9, <1>1, NextCorrects DEF CorrectorGoes, Corrects, Holding
<1>10. ASSUME pc[k] \in {"edge", "relate", "decay"}, NEW s \in {"relate", "decay"}, Goto(k, s),
              UNCHANGED correcting, CountType', GraphType', UNCHANGED <<learning, lapsed>>
       PROVE  CorrectorGoes(k)
  <2>1. /\ CallType' /\ pc'[k] = s /\ \A l \in Learners : pc'[l] = pc[l]
        /\ \A j \in Correctors \ {k} : pc'[j] = pc[j]
    BY <1>10, <1>1, GotoCalls DEF CorrectorStates
  <2>2. DOMAIN todo'[k] # {} /\ mine'[k] \in Memories
        /\ \A q \in DOMAIN todo'[k] : q \in Rows /\ There(q) /\ todo'[k][q] \in believed[q]
    BY <1>10, <1>1 DEF Holding, correcting
  <2> QED
    BY <2>1, <2>2, <1>10, <1>4 DEF CorrectorGoes
<1>11. CASE CheckEdge(k)
  <2>1. UNCHANGED <<rowvars, graph, learning, lapsed, signals>> /\ (Fail \/ Fine) /\ pc[k] = "edge"
        /\ (NextTarget(k) \/ (Goto(k, "relate") /\ UNCHANGED correcting))
    BY <1>11 DEF CheckEdge
  <2> QED
    BY <2>1, <1>1, <1>2, <1>3, <1>9, <1>10, RowsStandToo
<1>12. CASE Relate(k)
  <2>1. UNCHANGED <<rowvars, memory, armed, learning, lapsed, signals>> /\ (Fail \/ Fine)
        /\ pc[k] = "relate" /\ edges' \subseteq edges \cup {<<mine[k], Target(k)>>}
        /\ (NextTarget(k) \/ (Goto(k, "decay") /\ UNCHANGED correcting))
    BY <1>12 DEF Relate
  <2>2. mine[k] \in Memories /\ Target(k) \in Rows
    BY <2>1, <1>1, TargetIsHeld DEF Holding
  <2>3. GraphType'
    BY <2>1, <2>2, <1>1 DEF GraphType, Memories, Rows
  <2> QED
    BY <2>1, <2>3, <1>1, <1>2, <1>9, <1>10, RowsStandToo
<1>13. CASE Decay(k)
  <2>1. UNCHANGED <<believed, graph, learning, lapsed, signals>> /\ (Fail \/ Fine)
        /\ pc[k] = "decay" /\ NextTarget(k)
    BY <1>13 DEF Decay
  <2>2. CorrectorGoes(k)
    BY <2>1, <1>1, <1>2, <1>3, <1>9
  <2>3. CorrectorRows
    <3>1. CASE UNCHANGED concept
      BY <2>1, <3>1, <1>1, RowsStandToo DEF rowvars
    <3>2. CASE ~UNCHANGED concept
      <4>1. PICK r \in Rows : r = Target(k) /\ There(r) /\ todo[k][r] \in believed[r]
        BY <2>1, <1>1, TargetIsHeld
      <4>2. PICK low : low = Lower(todo[k][r], 15)
        OBVIOUS
      <4>3. PICK new : new = [concept[r] EXCEPT !.is = "superseded", !.stability = low]
        OBVIOUS
      <4>4. concept[r] \in Concepts /\ todo[k][r] \in Levels
        BY <4>1, <1>1 DEF RowType
      <4>5. low \in Levels
        BY <4>2, <4>4 DEF Lower, Levels
      <4>6. new.is = "superseded" /\ new.stability = low /\ new.scans = concept[r].scans
            /\ new \in Concepts
        BY <4>3, <4>4, <4>5 DEF Concepts
      <4>7. concept' = [concept EXCEPT ![r].is = "superseded", ![r].stability = low]
        BY <1>13, <3>2, <4>1, <4>2 DEF Decay
      <4>8. concept' \in [Rows -> Concepts] /\ concept'[r] = new
            /\ \A q \in Rows \ {r} : concept'[q] = concept[q]
        BY <4>3, <4>6, <4>7, <1>1 DEF RowType
      <4> QED
        BY <2>1, <4>1, <4>2, <4>6, <4>8, <1>1 DEF CorrectorRows, RowType
    <3> QED
      BY <3>1, <3>2
  <2> QED
    BY <2>2, <2>3
<1> QED
  BY <1>5, <1>6, <1>7, <1>8, <1>11, <1>12, <1>13

-----------------------------------------------------------------------------
(* Feedback re-values a row and leaves it what it is.                      *)
LEMMA FeedbackKeeps ==
  ASSUME KnowledgeInv, NEW r \in Rows, Feedback(r)
  PROVE  /\ KnowledgeInv'
         /\ \A q \in Rows : concept'[q].is = concept[q].is
<1> USE KnowledgeAssumption
<1>1. RowType /\ CountType
  BY DEF KnowledgeInv, Types
<1>2. PICK s \in {Lower(concept[r].stability, 10), 1000} :
        /\ concept' = [concept EXCEPT ![r].stability = s]
        /\ believed' = [believed EXCEPT ![r] = IF r \in Active THEN @ \cup {s} ELSE @]
  BY DEF Feedback
<1>3. concept[r] \in Concepts
  BY <1>1 DEF RowType
<1>4. s \in Levels
  BY <1>3 DEF Concepts, Lower, Levels
<1>5. PICK new \in Concepts : new = [concept[r] EXCEPT !.stability = s]
  <2>1. [concept[r] EXCEPT !.stability = s] \in Concepts
    BY <1>3, <1>4 DEF Concepts
  <2> QED
    BY <2>1
<1>6. new.is = concept[r].is /\ new.stability = s /\ new.scans = concept[r].scans
      /\ new \in Concepts
  BY <1>3, <1>4, <1>5 DEF Concepts
<1>7. concept' \in [Rows -> Concepts] /\ concept'[r] = new
      /\ \A q \in Rows \ {r} : concept'[q] = concept[q]
  BY <1>1, <1>2, <1>5, <1>6 DEF RowType
<1>8. believed' \in [Rows -> SUBSET Levels]
      /\ (\A q \in Rows : believed[q] \subseteq believed'[q])
      /\ (concept[r].is = "active" => s \in believed'[r])
  BY <1>1, <1>2, <1>4 DEF RowType, Active
<1>9. \A q \in Rows : /\ concept'[q].is = concept[q].is /\ concept'[q].scans = concept[q].scans
                      /\ \/ concept'[q].stability = concept[q].stability
                         \/ q = r /\ concept'[q].stability = s
  BY <1>6, <1>7
<1>10. UNCHANGED <<graph, pc, learning, correcting, lapsed, faults>> /\ signals' \in 0..MaxSignals
  BY <1>1 DEF Feedback, CountType
<1>11. Types'
  <2>1. RowType'
    BY <1>7, <1>8 DEF RowType
  <2>2. GraphType' /\ CallType' /\ LearnerType' /\ CorrectorType'
    BY <1>10 DEF KnowledgeInv, Types, GraphType, CallType, LearnerType, CorrectorType, graph,
                 learning, correcting
  <2>3. CountType'
    BY <1>1, <1>10 DEF CountType
  <2> QED
    BY <2>1, <2>2, <2>3 DEF Types
<1>12. Folding'
  BY <1>9, <1>10, HashId, HashRow DEF KnowledgeInv, Folding, There
<1>13. Linking'
  BY <1>9, <1>10 DEF KnowledgeInv, Linking, There, learning
<1>14. Holding'
  <2>1. UNCHANGED <<pc, mine, todo>>
    BY <1>10 DEF correcting
  <2>2. \A q \in Rows : concept'[q].is = "active" => concept'[q].stability \in believed'[q]
    BY <1>8, <1>9 DEF KnowledgeInv, Holding
  <2> QED
    BY <2>1, <2>2, <1>8, <1>9 DEF KnowledgeInv, Holding, There, Memories
<1> QED
  BY <1>9, <1>11, <1>12, <1>13, <1>14 DEF KnowledgeInv

LEMMA CrashKeeps ==
  ASSUME KnowledgeInv, Crash
  PROVE  KnowledgeInv' /\ UNCHANGED rowvars
<1> USE KnowledgeAssumption
<1>1. RowType /\ GraphType /\ CallType /\ LearnerType /\ CorrectorType /\ CountType
  BY DEF KnowledgeInv, Types
<1>2. /\ UNCHANGED <<rowvars, graph, lapsed, signals>> /\ Fail
      /\ pc' = [c \in DOMAIN pc |-> "idle"] /\ row' = [l \in Learners |-> Nothing]
      /\ vec' = [l \in Learners |-> FALSE] /\ mine' = [k \in Correctors |-> Nothing]
      /\ todo' = [k \in Correctors |-> None]
  BY DEF Crash
<1>3. RowType' /\ GraphType' /\ CountType'
  BY <1>1, <1>2 DEF RowType, GraphType, CountType, rowvars, graph, Fail
<1>4. CallType' /\ \A c \in Learners \cup Correctors : pc'[c] = "idle"
  BY <1>1, <1>2 DEF CallType, LearnerStates, CorrectorStates
<1>5. LearnerType'
  BY <1>2 DEF LearnerType, Rows
<1>6. DOMAIN None = {} /\ None \in [{} -> Levels]
  BY DEF None
<1>7. CorrectorType' /\ \A k \in Correctors : DOMAIN todo'[k] = {}
  <2>1. DOMAIN todo' = Correctors /\ \A k \in Correctors : todo'[k] = None
    BY <1>2
  <2> QED
    BY <1>2, <1>6, <2>1 DEF CorrectorType, Memories, Rows
<1>8. Folding' /\ Linking'
  BY <1>2, <1>4 DEF KnowledgeInv, Folding, Linking, There, rowvars
<1>9. Holding'
  BY <1>2, <1>4, <1>7 DEF KnowledgeInv, Holding, rowvars
<1> QED
  BY <1>2, <1>3, <1>4, <1>5, <1>7, <1>8, <1>9 DEF KnowledgeInv, Types

LEMMA KnowledgeKeeps == KnowledgeInv /\ [Next]_vars => KnowledgeInv'
<1> SUFFICES ASSUME KnowledgeInv, [Next]_vars PROVE KnowledgeInv'
  OBVIOUS
<1>1. ASSUME NEW l \in Learners,
             \/ Learn(l) \/ Look(l) \/ Fold(l) \/ Create(l) \/ Rematch(l) \/ Near(l) \/ Rebirth(l)
             \/ Link(l)
      PROVE  KnowledgeInv'
  <2>1. PICK s \in LearnerStates, r \in Rows \cup {Nothing} :
          LearnerGoes(l, s, r) /\ LearnerRows(l, s)
    BY <1>1, LearnerSteps
  <2> QED
    BY <2>1, LearnerKeeps
<1>2. ASSUME NEW k \in Correctors,
             \/ Correct(k) \/ FindMemory(k) \/ CreateMemory(k) \/ Resolve(k) \/ CheckEdge(k)
             \/ Relate(k) \/ Decay(k)
      PROVE  KnowledgeInv'
  BY <1>2, CorrectorSteps, CorrectorKeeps
<1>3. ASSUME NEW r \in Rows, Feedback(r) PROVE KnowledgeInv'
  BY <1>3, FeedbackKeeps
<1>4. CASE Crash
  BY <1>4, CrashKeeps
<1>5. CASE UNCHANGED vars
  BY <1>5 DEF vars, rowvars, graph, learning, correcting, KnowledgeInv, Types, RowType, GraphType,
              CallType, LearnerType, CorrectorType, CountType, Folding, Linking, Holding, There
<1> QED
  BY <1>1, <1>2, <1>3, <1>4, <1>5 DEF Next

THEOREM KnowledgeInvariant == Spec => []KnowledgeInv
  BY KnowledgeStart, KnowledgeKeeps, PTL DEF Spec

LEMMA FoldedThen == KnowledgeInv => ConceptsFold
<1> SUFFICES ASSUME KnowledgeInv PROVE ConceptsFold
  OBVIOUS
<1>1. \A r \in Rows : concept[r].scans <= 1
  BY DEF KnowledgeInv, Linking
<1>2. ASSUME NEW c \in Contents, ~lapsed,
             \A r \in Rows : r[1] = c => concept[r].is # "superseded"
      PROVE  Cardinality(Same(c)) <= 1
  <2>1. ASSUME NEW r \in Same(c) PROVE r = <<c, 0>>
    <3>1. r \in Rows /\ There(r) /\ r[1] = c
      BY DEF Same, Active, There
    <3>2. <<r[1], 0>> \in Rows /\ r = <<r[1], r[2]>>
      BY <3>1, HashRow
    <3>3. concept[<<r[1], 0>>].is # "superseded"
      BY <3>1, <3>2, <1>2
    <3> QED
      BY <3>1, <3>2, <3>3, <1>2 DEF KnowledgeInv, Folding
  <2>2. Same(c) = {} \/ Same(c) = {<<c, 0>>}
    BY <2>1
  <2>3. Cardinality({}) = 0
    BY FS_EmptySet
  <2>4. Cardinality({<<c, 0>>}) = 1
    BY FS_Singleton
  <2> QED
    BY <2>2, <2>3, <2>4
<1> QED
  BY <1>1, <1>2 DEF ConceptsFold

(* Content that nobody has corrected has one active row, however calls     *)
(* race, and the link scans run once for a row (surreal.ts:1942,           *)
(* commit.ts:529).                                                         *)
THEOREM ConceptsAreFolded == Spec => []ConceptsFold
  BY KnowledgeInvariant, FoldedThen, PTL

DecayStep ==
  \A r \in Rows :
    /\ concept[r].is = "superseded" => concept'[r].is = "superseded"
    /\ concept'[r].is = "superseded" /\ concept'[r].stability # concept[r].stability
         /\ UNCHANGED signals
       => concept'[r].stability \in {Lower(s, 15) : s \in believed[r]}

LEMMA DecaySteps == KnowledgeInv /\ [Next]_vars => DecayStep \/ UNCHANGED vars
<1> SUFFICES ASSUME KnowledgeInv, Next PROVE DecayStep
  OBVIOUS
<1>1. ASSUME NEW l \in Learners,
             \/ Learn(l) \/ Look(l) \/ Fold(l) \/ Create(l) \/ Rematch(l) \/ Near(l) \/ Rebirth(l)
             \/ Link(l)
      PROVE  DecayStep
  <2>1. PICK s \in LearnerStates, r \in Rows \cup {Nothing} :
          LearnerGoes(l, s, r) /\ LearnerRows(l, s)
    BY <1>1, LearnerSteps
  <2> QED
    BY <2>1 DEF LearnerRows, Same1, There, DecayStep
<1>2. ASSUME NEW k \in Correctors,
             \/ Correct(k) \/ FindMemory(k) \/ CreateMemory(k) \/ Resolve(k) \/ CheckEdge(k)
             \/ Relate(k) \/ Decay(k)
      PROVE  DecayStep
  BY <1>2, CorrectorSteps DEF CorrectorRows, DecayStep
<1>3. ASSUME NEW r \in Rows, Feedback(r) PROVE DecayStep
  <2>1. \A q \in Rows : concept'[q].is = concept[q].is
    BY <1>3, FeedbackKeeps
  <2>2. signals' = signals + 1 /\ signals \in Int
    BY <1>3, KnowledgeAssumption DEF Feedback, KnowledgeInv, Types, CountType
  <2>3. signals' # signals
    BY <2>2
  <2> QED
    BY <2>1, <2>3 DEF DecayStep
<1>4. CASE Crash
  BY <1>4, CrashKeeps DEF rowvars, DecayStep
<1> QED
  BY <1>1, <1>2, <1>3, <1>4 DEF Next

(* A correction demotes a belief once, from what it was worth when it was  *)
(* still believed, and what was superseded is never believed again         *)
(* (commit.ts:1222).                                                       *)
THEOREM BeliefsDecayOnce == Spec => DecayedOnce
<1>1. KnowledgeInv /\ [Next]_vars => [DecayStep]_vars
  BY DecaySteps
<1>2. Spec => [][DecayStep]_vars
  BY <1>1, KnowledgeInvariant, PTL DEF Spec
<1> QED
  BY <1>2 DEF DecayedOnce, DecayStep

-----------------------------------------------------------------------------
(* The turns.  More than types: the index counts prompts, and an           *)
(* evaluation or a postflight at work is about something.                  *)
Busy == {"ingest", "after"}

TurnTypes ==
  /\ T!TypeOK /\ index <= turn
  /\ \A s \in T!Stops : eval[s].on => eval[s].of \in T!Turns /\ eval[s].row \in T!Stops
  /\ \A s \in T!Stops : post[s].on => post[s].turn \in T!Turns

(* The measures of a turn are in one place: still to come, pending, with a *)
(* postflight at work, or recorded.                                        *)
MeasuredOnce ==
  /\ \A n \in T!Turns : n > turn => assemble[n] = "off"
  /\ \A n \in T!Turns : assemble[n] \in {"off", "preflight"} =>
       /\ pre # n /\ \A i \in T!Turns : metrics[i] # n
       /\ \A s \in T!Stops : post[s].on => post[s].turn # n
  /\ pre # T!None =>
       /\ \A i \in T!Turns : metrics[i] # pre
       /\ \A s \in T!Stops : post[s].on => post[s].turn # pre
  /\ \A s \in T!Stops : post[s].on => \A i \in T!Turns : metrics[i] # post[s].turn
  /\ \A r, s \in T!Stops : post[r].on /\ post[s].on /\ post[r].turn = post[s].turn => r = s
  /\ T!MetricsOnce

(* While a daemon drains, what can still be at work was registered, or     *)
(* comes from a stop that was caught.                                      *)
CutWereCaught ==
  /\ life = "draining" => \A s \in T!Stops :
       /\ eval[s].on => s \in awaited \cup caught
       /\ stop[s] \in Busy => s \in caught
  /\ T!OutcomesSurvive

(* As long as no two stops overlap, the pointer is the own row of the one  *)
(* that runs.                                                              *)
PointerIsOwn ==
  /\ ~said => lastAsst = T!None /\ \A s \in T!Stops : stop[s] # "ingest"
  /\ ~overlap =>
       /\ \A s \in T!Stops : stop[s] \in Busy => lastAsst \in {T!None, s}
       /\ \A r, s \in T!Stops : stop[r] \in Busy /\ stop[s] \in Busy => r = s
       /\ \A s \in T!Stops : eval[s].on => eval[s].row = s
  /\ T!OwnAnswer

(* As long as nothing fails, hooks take turns: what is staged while a turn *)
(* ends is its own, if it has staged something.                            *)
ItemsAreOwn ==
  /\ slips = 0 =>
       /\ life = "up" /\ ~restarted /\ ~overlap /\ aborted = {}
       /\ fresh \subseteq 1..turn /\ (turn \in fresh => staged \in {T!None, turn})
       /\ \A n \in T!Turns :
            assemble[n] \in {"preflight", "retrieve"} => n = turn /\ phase = "asking"
       /\ \A n \in 1..turn : assemble[n] # "off"
       /\ \A s \in T!Stops : stop[s] \in Busy => of[s] = turn /\ phase = "stopping"
       /\ \A s \in T!Stops : of[s] # T!None =>
            of[s] <= turn /\ assemble[of[s]] = "done" /\ (of[s] = turn => phase # "asking")
       /\ \A s \in T!Stops : eval[s].on /\ of[s] \in fresh => eval[s].of = of[s]
  /\ phase # "idle" => turn # 0
  /\ \A s \in T!Stops : eval[s].on \/ stop[s] # "off" => of[s] # T!None
  /\ \A o \in outcomes : of[o[1]] # T!None
  /\ T!OwnItems

TurnsInv == TurnTypes /\ MeasuredOnce /\ CutWereCaught /\ PointerIsOwn /\ ItemsAreOwn

TurnStep ==
  \/ T!Prompt \/ T!HookReturns \/ T!HookTimesOut \/ T!Pushes
  \/ \E n \in T!Turns : T!Preflight(n) \/ T!Retrieve(n) \/ T!TransformTimesOut(n)
  \/ \E s \in T!Stops :
       \/ T!Stop(s) \/ T!Redeliver(s) \/ T!IngestAssistant(s) \/ T!StopReturns(s)
       \/ T!Evaluate(s) \/ T!Postflight(s)
  \/ T!Shutdown \/ T!Exit \/ T!Dies

EvalType ==
  /\ eval \in [T!Stops -> [on : BOOLEAN, of : T!Turns \cup {T!None}, row : T!Stops \cup {T!None}]]
  /\ \A s \in T!Stops : eval[s].on => eval[s].of \in T!Turns /\ eval[s].row \in T!Stops
PostType ==
  /\ post \in [T!Stops -> [on : BOOLEAN, turn : T!Turns \cup {T!None}, index : 0..MaxTurns]]
  /\ \A s \in T!Stops : post[s].on => post[s].turn \in T!Turns

LEMMA EvalOff ==
  ASSUME EvalType, NEW s \in T!Stops, eval' = [eval EXCEPT ![s].on = FALSE]
  PROVE  /\ EvalType' /\ ~eval'[s].on /\ eval'[s].of = eval[s].of /\ eval'[s].row = eval[s].row
         /\ \A r \in T!Stops \ {s} : eval'[r] = eval[r]
<1>1. PICK new : new = [eval[s] EXCEPT !.on = FALSE]
  OBVIOUS
<1>2. new \in [on : BOOLEAN, of : T!Turns \cup {T!None}, row : T!Stops \cup {T!None}]
      /\ ~new.on /\ new.of = eval[s].of /\ new.row = eval[s].row
  BY <1>1 DEF EvalType
<1>3. eval' = [eval EXCEPT ![s] = new]
  BY <1>1
<1>4. eval'[s] = new /\ \A r \in T!Stops \ {s} : eval'[r] = eval[r]
  BY <1>3 DEF EvalType
<1>5. EvalType'
  BY <1>2, <1>3, <1>4 DEF EvalType
<1> QED
  BY <1>2, <1>4, <1>5

LEMMA PostOff ==
  ASSUME PostType, NEW s \in T!Stops, post' = [post EXCEPT ![s].on = FALSE]
  PROVE  /\ PostType' /\ ~post'[s].on /\ post'[s].turn = post[s].turn
         /\ \A r \in T!Stops \ {s} : post'[r] = post[r]
<1>1. PICK new : new = [post[s] EXCEPT !.on = FALSE]
  OBVIOUS
<1>2. new \in [on : BOOLEAN, turn : T!Turns \cup {T!None}, index : 0..MaxTurns]
      /\ ~new.on /\ new.turn = post[s].turn
  BY <1>1 DEF PostType
<1>3. post' = [post EXCEPT ![s] = new]
  BY <1>1
<1> QED
  BY <1>2, <1>3 DEF PostType

(* What is started is about what is there.                                 *)
LEMMA EvalStarts ==
  ASSUME TurnTypes, NEW s \in T!Stops, T!StartEval(s)
  PROVE  /\ EvalType'
         /\ \A r \in T!Stops \ {s} : eval'[r] = eval[r]
         /\ \/ eval'[s] = eval[s]
            \/ /\ lastAsst # T!None /\ staged # T!None
               /\ eval'[s].on /\ eval'[s].of = staged /\ eval'[s].row = lastAsst
<1>1. EvalType /\ staged \in T!Turns \cup {T!None} /\ lastAsst \in T!Stops \cup {T!None}
  BY DEF TurnTypes, T!TypeOK, EvalType
<1>2. CASE UNCHANGED eval
  BY <1>1, <1>2 DEF EvalType
<1>3. CASE ~UNCHANGED eval
  <2> DEFINE new == [on |-> TRUE, of |-> staged, row |-> lastAsst]
  <2>1. lastAsst # T!None /\ staged # T!None /\ eval' = [eval EXCEPT ![s] = new]
    BY <1>3 DEF T!StartEval
  <2>2. new \in [on : BOOLEAN, of : T!Turns \cup {T!None}, row : T!Stops \cup {T!None}]
    BY <1>1
  <2>3. new.on /\ new.of = staged /\ new.row = lastAsst
    OBVIOUS
  <2> HIDE DEF new
  <2>4. eval'[s] = new /\ \A r \in T!Stops \ {s} : eval'[r] = eval[r]
    BY <1>1, <2>1 DEF EvalType
  <2>5. EvalType'
    BY <1>1, <2>1, <2>2, <2>3, <2>4 DEF EvalType
  <2> QED
    BY <2>1, <2>3, <2>4, <2>5
<1> QED
  BY <1>2, <1>3

LEMMA PostStarts ==
  ASSUME TurnTypes, NEW s \in T!Stops, T!StartPost(s)
  PROVE  /\ PostType' /\ pre' = T!None
         /\ \A r \in T!Stops \ {s} : post'[r] = post[r]
         /\ \/ post'[s] = post[s]
            \/ pre # T!None /\ post'[s].on /\ post'[s].turn = pre
<1>1. PostType /\ pre \in T!Turns \cup {T!None} /\ index \in 0..MaxTurns
  BY DEF TurnTypes, T!TypeOK, PostType
<1>2. pre' = T!None
  BY DEF T!StartPost
<1>3. CASE UNCHANGED post
  BY <1>1, <1>2, <1>3 DEF PostType
<1>4. CASE ~UNCHANGED post
  <2> DEFINE new == [on |-> TRUE, turn |-> pre, index |-> index]
  <2>1. pre # T!None /\ post' = [post EXCEPT ![s] = new]
    BY <1>4 DEF T!StartPost
  <2>2. new \in [on : BOOLEAN, turn : T!Turns \cup {T!None}, index : 0..MaxTurns]
    BY <1>1
  <2>3. new.on /\ new.turn = pre
    OBVIOUS
  <2> HIDE DEF new
  <2>4. post'[s] = new /\ \A r \in T!Stops \ {s} : post'[r] = post[r]
    BY <1>1, <2>1 DEF PostType
  <2>5. PostType'
    BY <1>1, <2>1, <2>2, <2>3, <2>4 DEF PostType
  <2> QED
    BY <1>2, <2>1, <2>3, <2>4, <2>5
<1> QED
  BY <1>3, <1>4

LEMMA AllOff ==
  ASSUME TurnTypes, T!Restart
  PROVE  EvalType' /\ PostType' /\ \A s \in T!Stops : ~eval'[s].on /\ ~post'[s].on
<1>1. EvalType /\ PostType
  BY DEF TurnTypes, T!TypeOK, EvalType, PostType
<1>2. eval' = [s \in T!Stops |-> [eval[s] EXCEPT !.on = FALSE]]
      /\ post' = [s \in T!Stops |-> [post[s] EXCEPT !.on = FALSE]]
  BY DEF T!Restart
<1>3. ASSUME NEW s \in T!Stops
      PROVE  /\ eval'[s] \in [on : BOOLEAN, of : T!Turns \cup {T!None}, row : T!Stops \cup {T!None}]
             /\ ~eval'[s].on
  BY <1>1, <1>2 DEF EvalType
<1>4. ASSUME NEW s \in T!Stops
      PROVE  /\ post'[s] \in [on : BOOLEAN, turn : T!Turns \cup {T!None}, index : 0..MaxTurns]
             /\ ~post'[s].on
  BY <1>1, <1>2 DEF PostType
<1>5. EvalType' /\ PostType'
  <2>1. eval' \in [T!Stops -> [on : BOOLEAN, of : T!Turns \cup {T!None}, row : T!Stops \cup {T!None}]]
    BY <1>2, <1>3
  <2>2. post' \in [T!Stops -> [on : BOOLEAN, turn : T!Turns \cup {T!None}, index : 0..MaxTurns]]
    BY <1>2, <1>4
  <2> QED
    BY <1>3, <1>4, <2>1, <2>2 DEF EvalType, PostType
<1> QED
  BY <1>3, <1>4, <1>5

LEMMA DeliverTypes ==
  ASSUME TurnTypes, NEW s \in T!Stops, NEW read \in BOOLEAN, T!Deliver(s, read)
  PROVE  /\ of' \in [T!Stops -> T!Turns \cup {T!None}]
         /\ stop' \in [T!Stops -> {"off", "ingest", "after", "done"}]
         /\ lastAsst' \in T!Stops \cup {T!None}
         /\ said' \in BOOLEAN /\ overlap' \in BOOLEAN
<1> USE DEF T!None
<1>1. of' \in [T!Stops -> T!Turns \cup {T!None}]
  BY ConversationAssumption DEF TurnTypes, T!TypeOK, T!Deliver, T!Turns
<1>2. stop' \in [T!Stops -> {"off", "ingest", "after", "done"}]
      /\ lastAsst' \in T!Stops \cup {T!None}
  BY DEF TurnTypes, T!TypeOK, T!Deliver, T!ClearPointer
<1>3. said \in BOOLEAN /\ overlap \in BOOLEAN
  BY DEF TurnTypes, T!TypeOK
<1>4. said' \in BOOLEAN
  BY <1>3 DEF T!Deliver
<1>5. overlap' \in BOOLEAN
  BY <1>3 DEF T!Deliver
<1> QED
  BY <1>1, <1>2, <1>4, <1>5

LEMMA TurnTypesKept == TurnsInv /\ TurnStep => TurnTypes'
<1> SUFFICES ASSUME TurnsInv, TurnStep PROVE TurnTypes'
  OBVIOUS
<1> USE ConversationAssumption DEF T!agent, T!prompts, T!stops, T!session, T!stash, T!behind, T!rows, T!daemon, T!past, T!None
<1>0. TurnTypes /\ T!TypeOK
  BY DEF TurnsInv, TurnTypes
<1>1. ASSUME T!Prompt PROVE TurnTypes'
  <2>1. turn' = turn + 1 /\ turn' \in 0..MaxTurns /\ turn' \in T!Turns
    BY <1>0, <1>1 DEF T!TypeOK, T!Turns, T!Prompt
  <2>2. assemble' \in [T!Turns -> {"off", "preflight", "retrieve", "done"}]
    BY <1>0, <1>1, <2>1 DEF T!TypeOK, T!Prompt
  <2>3. index' \in 0..MaxTurns /\ index' <= turn'
    BY <1>0, <1>1, <2>1 DEF T!TypeOK, TurnTypes, T!Prompt
  <2>4. slips' \in 0..MaxSlips
    BY <1>0, <1>1 DEF T!TypeOK, T!Prompt, T!Fault
  <2> QED
    BY <1>0, <1>1, <2>1, <2>2, <2>3, <2>4 DEF T!TypeOK, TurnTypes, T!Prompt
<1>00. slips \in 0..MaxSlips /\ (T!Fault => slips' \in 0..MaxSlips)
  BY <1>0 DEF T!TypeOK, T!Fault
<1>2. ASSUME T!HookReturns \/ T!HookTimesOut \/ T!Pushes PROVE TurnTypes'
  <2>1. CASE T!HookReturns
    BY <1>0, <2>1 DEF TurnTypes, T!TypeOK, T!HookReturns
  <2>2. CASE T!HookTimesOut
    BY <1>0, <2>2 DEF TurnTypes, T!TypeOK, T!HookTimesOut, T!Fault
  <2>3. CASE T!Pushes
    BY <1>0, <2>3 DEF TurnTypes, T!TypeOK, T!Pushes
  <2> QED
    BY <2>1, <2>2, <2>3, <1>2
<1>3. ASSUME NEW n \in T!Turns, T!Preflight(n) PROVE TurnTypes'
  BY <1>0, <1>3 DEF TurnTypes, T!TypeOK, T!Preflight
<1>4. ASSUME NEW n \in T!Turns, T!Retrieve(n) PROVE TurnTypes'
  BY <1>0, <1>4 DEF TurnTypes, T!TypeOK, T!Retrieve, T!StageRetrieval, T!StageSkills
<1>5. ASSUME NEW n \in T!Turns, T!TransformTimesOut(n) PROVE TurnTypes'
  BY <1>0, <1>5 DEF TurnTypes, T!TypeOK, T!TransformTimesOut, T!Fault
<1>6. ASSUME NEW s \in T!Stops, T!Stop(s) PROVE TurnTypes'
  <2>0. phase' \in {"idle", "stopping"} /\ slips' \in 0..MaxSlips
    BY <1>00, <1>6 DEF T!Stop
  <2>1. PICK read \in BOOLEAN : T!Deliver(s, read)
    BY <1>6 DEF T!Stop
  <2>2. UNCHANGED <<turn, kind, assemble, aborted, index, pre, push, staged, skills, eval, post, outcomes, metrics, life, restarted, awaited, caught, fresh, gone, cut, skipped>>
    BY <2>1 DEF T!Deliver
  <2> QED
    BY <1>0, <2>0, <2>1, <2>2, DeliverTypes DEF TurnTypes, T!TypeOK
<1>7. ASSUME NEW s \in T!Stops, T!Redeliver(s) PROVE TurnTypes'
  <2>1. T!Deliver(s, TRUE) /\ slips' \in 0..MaxSlips /\ UNCHANGED phase
    BY <1>00, <1>7 DEF T!Redeliver
  <2>2. UNCHANGED <<turn, kind, assemble, aborted, index, pre, push, staged, skills, eval, post, outcomes, metrics, life, restarted, awaited, caught, fresh, gone, cut, skipped>>
    BY <2>1 DEF T!Deliver
  <2> QED
    BY <1>0, <2>1, <2>2, DeliverTypes DEF TurnTypes, T!TypeOK
<1>8. ASSUME NEW s \in T!Stops, T!IngestAssistant(s) PROVE TurnTypes'
  BY <1>0, <1>8 DEF TurnTypes, T!TypeOK, T!IngestAssistant
<1>9. ASSUME NEW s \in T!Stops, T!StopReturns(s) PROVE TurnTypes'
  <2>1. EvalType /\ PostType
    BY <1>0 DEF TurnTypes, T!TypeOK, EvalType, PostType
  <2>2. EvalType' /\ PostType' /\ pre' \in T!Turns \cup {T!None}
    <3>1. CASE T!StartEval(s) /\ T!StartPost(s)
      BY <1>0, <3>1, EvalStarts, PostStarts
    <3>2. CASE UNCHANGED <<eval, post, pre>>
      BY <1>0, <2>1, <3>2 DEF EvalType, PostType, T!TypeOK
    <3> QED
      BY <3>1, <3>2, <1>9 DEF T!StopReturns
  <2>3. /\ stop' \in [T!Stops -> {"off", "ingest", "after", "done"}] /\ slips' \in 0..MaxSlips
        /\ phase' \in {"idle", "asking", "working", "stopping"}
    BY <1>0, <1>00, <1>9 DEF T!TypeOK, T!StopReturns
  <2>5. push' \in BOOLEAN
    BY <1>9 DEF T!StopReturns
  <2>4. UNCHANGED <<turn, kind, assemble, aborted, of, lastAsst, said, index, staged, skills, outcomes, metrics, life, restarted, awaited, caught, fresh, gone, cut, skipped, overlap>>
    BY <1>9 DEF T!StopReturns
  <2> QED
    BY <1>0, <2>2, <2>3, <2>4, <2>5 DEF TurnTypes, T!TypeOK, EvalType, PostType
<1>10. ASSUME NEW s \in T!Stops, T!Evaluate(s) PROVE TurnTypes'
  <2>1. EvalType /\ eval[s].of \in T!Turns /\ eval[s].row \in T!Stops
    BY <1>0, <1>10 DEF TurnTypes, T!TypeOK, EvalType, T!Evaluate
  <2>2. EvalType'
    BY <2>1, <1>10, EvalOff DEF T!Evaluate
  <2>3. outcomes' \subseteq T!Stops \X T!Stops \X T!Turns /\ gone' \subseteq T!Turns
        /\ staged' \in T!Turns \cup {T!None} /\ skills' \in T!Turns \cup {T!None}
    BY <1>0, <1>10, <2>1 DEF T!TypeOK, T!Evaluate, T!Release
  <2>4. UNCHANGED <<turn, kind, phase, assemble, aborted, of, stop, lastAsst, said, index, pre, push, post, metrics, life, restarted, awaited, caught, fresh, cut, skipped, overlap, slips>>
    BY <1>10 DEF T!Evaluate
  <2> QED
    BY <1>0, <2>2, <2>3, <2>4 DEF TurnTypes, T!TypeOK, EvalType
<1>11. ASSUME NEW s \in T!Stops, T!Postflight(s) PROVE TurnTypes'
  <2>1. PostType /\ post[s].turn \in T!Turns
    BY <1>0, <1>11 DEF TurnTypes, T!TypeOK, PostType, T!Postflight
  <2>2. PostType'
    BY <2>1, <1>11, PostOff DEF T!Postflight
  <2>3. metrics' \in [T!Turns -> T!Turns \cup {T!None}] /\ skipped' \subseteq T!Turns
    BY <1>0, <1>11, <2>1 DEF T!TypeOK, T!Postflight
  <2>4. UNCHANGED <<turn, kind, phase, assemble, aborted, of, stop, lastAsst, said, index, pre, push, staged, skills, eval, outcomes, life, restarted, awaited, caught, fresh, gone, cut, overlap, slips>>
    BY <1>11 DEF T!Postflight
  <2> QED
    BY <1>0, <2>2, <2>3, <2>4 DEF TurnTypes, T!TypeOK, PostType
<1>12. ASSUME T!Shutdown PROVE TurnTypes'
  BY <1>0, <1>12 DEF TurnTypes, T!TypeOK, T!Shutdown, T!Fault
<1>13. ASSUME T!Exit \/ T!Dies PROVE TurnTypes'
  <2>1. T!Restart /\ cut' \subseteq T!Stops /\ slips' \in 0..MaxSlips
    BY <1>0, <1>13 DEF T!TypeOK, T!Exit, T!Dies, T!Fault
  <2>2. EvalType' /\ PostType'
    BY <1>0, <2>1, AllOff
  <2>3. /\ assemble' \in [T!Turns -> {"off", "preflight", "retrieve", "done"}]
        /\ stop' \in [T!Stops -> {"off", "ingest", "after", "done"}]
        /\ phase' \in {"idle", "asking", "working", "stopping"}
        /\ gone' \subseteq T!Turns /\ lastAsst' = T!None /\ index' = 0 /\ pre' = T!None /\ staged' = T!None
        /\ skills' = T!None /\ aborted' = {} /\ life' = "up" /\ awaited' = {}
    BY <1>0, <2>1 DEF T!TypeOK, T!Restart
  <2>4. said' \in BOOLEAN /\ push' \in BOOLEAN /\ restarted' \in BOOLEAN
    BY <2>1 DEF T!Restart
  <2>5. UNCHANGED <<turn, kind, of, outcomes, metrics, caught, fresh, skipped, overlap>>
    BY <2>1 DEF T!Restart
  <2> QED
    BY <1>0, <2>1, <2>2, <2>3, <2>4, <2>5 DEF TurnTypes, T!TypeOK, EvalType, PostType
<1> QED
  BY <1>1, <1>2, <1>3, <1>4, <1>5, <1>6, <1>7, <1>8, <1>9, <1>10, <1>11, <1>12, <1>13 DEF TurnStep

LEMMA CutWereCaughtKept == TurnsInv /\ TurnStep => CutWereCaught'
<1> SUFFICES ASSUME TurnsInv, TurnStep PROVE CutWereCaught'
  OBVIOUS
<1> USE ConversationAssumption DEF T!agent, T!prompts, T!stops, T!session, T!stash, T!behind, T!rows, T!daemon, T!past, T!None
<1>1. ASSUME T!Prompt PROVE CutWereCaught'
  BY <1>1 DEF TurnsInv, TurnTypes, T!TypeOK, CutWereCaught, T!OutcomesSurvive, Busy, T!Prompt, T!Fault
<1>2. ASSUME T!HookReturns PROVE CutWereCaught'
  BY <1>2 DEF TurnsInv, TurnTypes, T!TypeOK, CutWereCaught, T!OutcomesSurvive, Busy, T!HookReturns
<1>3. ASSUME T!HookTimesOut PROVE CutWereCaught'
  BY <1>3 DEF TurnsInv, TurnTypes, T!TypeOK, CutWereCaught, T!OutcomesSurvive, Busy, T!HookTimesOut, T!Fault
<1>4. ASSUME T!Pushes PROVE CutWereCaught'
  BY <1>4 DEF TurnsInv, TurnTypes, T!TypeOK, CutWereCaught, T!OutcomesSurvive, Busy, T!Pushes
<1>5. ASSUME NEW n \in T!Turns, T!Preflight(n) PROVE CutWereCaught'
  BY <1>5 DEF TurnsInv, TurnTypes, T!TypeOK, CutWereCaught, T!OutcomesSurvive, Busy, T!Preflight
<1>6. ASSUME NEW n \in T!Turns, T!Retrieve(n) PROVE CutWereCaught'
  BY <1>6 DEF TurnsInv, TurnTypes, T!TypeOK, CutWereCaught, T!OutcomesSurvive, Busy, T!Retrieve, T!StageRetrieval, T!StageSkills
<1>7. ASSUME NEW n \in T!Turns, T!TransformTimesOut(n) PROVE CutWereCaught'
  BY <1>7 DEF TurnsInv, TurnTypes, T!TypeOK, CutWereCaught, T!OutcomesSurvive, Busy, T!TransformTimesOut, T!Fault
<1>8. ASSUME NEW s \in T!Stops, T!Stop(s) PROVE CutWereCaught'
  BY <1>8 DEF TurnsInv, TurnTypes, T!TypeOK, CutWereCaught, T!OutcomesSurvive, Busy, T!Stop, T!Deliver, T!ClearPointer, T!Fault
<1>9. ASSUME NEW s \in T!Stops, T!Redeliver(s) PROVE CutWereCaught'
  BY <1>9 DEF TurnsInv, TurnTypes, T!TypeOK, CutWereCaught, T!OutcomesSurvive, Busy, T!Redeliver, T!Deliver, T!ClearPointer, T!Fault
<1>10. ASSUME NEW s \in T!Stops, T!IngestAssistant(s) PROVE CutWereCaught'
  BY <1>10 DEF TurnsInv, TurnTypes, T!TypeOK, CutWereCaught, T!OutcomesSurvive, Busy, T!IngestAssistant
<1>11. ASSUME NEW s \in T!Stops, T!StopReturns(s) PROVE CutWereCaught'
  BY <1>11 DEF TurnsInv, TurnTypes, T!TypeOK, CutWereCaught, T!OutcomesSurvive, Busy, T!StopReturns, T!StartEval, T!StartPost, T!Fault
<1>12. ASSUME NEW s \in T!Stops, T!Evaluate(s) PROVE CutWereCaught'
  BY <1>12 DEF TurnsInv, TurnTypes, T!TypeOK, CutWereCaught, T!OutcomesSurvive, Busy, T!Evaluate, T!Release
<1>13. ASSUME NEW s \in T!Stops, T!Postflight(s) PROVE CutWereCaught'
  BY <1>13 DEF TurnsInv, TurnTypes, T!TypeOK, CutWereCaught, T!OutcomesSurvive, Busy, T!Postflight
<1>14. ASSUME T!Shutdown PROVE CutWereCaught'
  BY <1>14 DEF TurnsInv, TurnTypes, T!TypeOK, CutWereCaught, T!OutcomesSurvive, Busy, T!Shutdown, T!Fault
<1>15. ASSUME T!Exit PROVE CutWereCaught'
  BY <1>15 DEF TurnsInv, TurnTypes, T!TypeOK, CutWereCaught, T!OutcomesSurvive, Busy, T!Exit, T!Drained, T!Restart
<1>16. ASSUME T!Dies PROVE CutWereCaught'
  BY <1>16 DEF TurnsInv, TurnTypes, T!TypeOK, CutWereCaught, T!OutcomesSurvive, Busy, T!Dies, T!Restart, T!Fault
<1> QED
  BY <1>1, <1>2, <1>3, <1>4, <1>5, <1>6, <1>7, <1>8, <1>9, <1>10, <1>11, <1>12, <1>13, <1>14, <1>15, <1>16 DEF TurnStep

LEMMA DeliverKeepsPointer ==
  ASSUME TurnsInv, NEW s \in T!Stops, NEW read \in BOOLEAN, T!Deliver(s, read)
  PROVE  PointerIsOwn'
<1> USE DEF T!None, T!past
<1>1. /\ stop \in [T!Stops -> {"off", "ingest", "after", "done"}]
      /\ PointerIsOwn
  BY DEF TurnsInv, TurnTypes, T!TypeOK
<1>2. /\ overlap' <=> (overlap \/ \E o \in T!Stops : stop[o] \in Busy)
      /\ UNCHANGED <<eval, outcomes>>
  BY DEF T!Deliver, Busy, T!stash, T!behind, T!rows
<1>3. \A r \in T!Stops \ {s} : stop'[r] = stop[r]
  BY <1>1 DEF T!Deliver
<1>4. /\ ~overlap' => \A r \in T!Stops : eval'[r].on => eval'[r].row = r
      /\ (T!OwnAnswer)'
  BY <1>1, <1>2 DEF PointerIsOwn, T!OwnAnswer
<1>5. CASE said' /\ stop'[s] = "ingest" /\ lastAsst' = 0
  BY <1>1, <1>2, <1>3, <1>4, <1>5 DEF PointerIsOwn, Busy
<1>6. CASE ~said' /\ ~said /\ stop'[s] = "after" /\ lastAsst' = lastAsst
  BY <1>1, <1>2, <1>3, <1>4, <1>6 DEF PointerIsOwn, Busy
<1>7. CASE stop'[s] = "done" /\ UNCHANGED <<said, lastAsst>>
  BY <1>1, <1>2, <1>3, <1>4, <1>7 DEF PointerIsOwn, Busy
<1>8. \/ said' /\ stop'[s] = "ingest" /\ lastAsst' = 0
      \/ ~said' /\ ~said /\ stop'[s] = "after" /\ lastAsst' = lastAsst
      \/ stop'[s] = "done" /\ UNCHANGED <<said, lastAsst>>
  BY <1>1 DEF T!Deliver, T!ClearPointer
<1> QED
  BY <1>5, <1>6, <1>7, <1>8

LEMMA PointerIsOwnKept == TurnsInv /\ TurnStep => PointerIsOwn'
<1> SUFFICES ASSUME TurnsInv, TurnStep PROVE PointerIsOwn'
  OBVIOUS
<1> USE ConversationAssumption DEF T!agent, T!prompts, T!stops, T!session, T!stash, T!behind, T!rows, T!daemon, T!past, T!None
<1>1. ASSUME T!Prompt PROVE PointerIsOwn'
  BY <1>1 DEF TurnsInv, TurnTypes, T!TypeOK, PointerIsOwn, T!OwnAnswer, Busy, T!Stops, T!Prompt, T!Fault
<1>2. ASSUME T!HookReturns PROVE PointerIsOwn'
  BY <1>2 DEF TurnsInv, TurnTypes, T!TypeOK, PointerIsOwn, T!OwnAnswer, Busy, T!Stops, T!HookReturns
<1>3. ASSUME T!HookTimesOut PROVE PointerIsOwn'
  BY <1>3 DEF TurnsInv, TurnTypes, T!TypeOK, PointerIsOwn, T!OwnAnswer, Busy, T!Stops, T!HookTimesOut, T!Fault
<1>4. ASSUME T!Pushes PROVE PointerIsOwn'
  BY <1>4 DEF TurnsInv, TurnTypes, T!TypeOK, PointerIsOwn, T!OwnAnswer, Busy, T!Stops, T!Pushes
<1>5. ASSUME NEW n \in T!Turns, T!Preflight(n) PROVE PointerIsOwn'
  BY <1>5 DEF TurnsInv, TurnTypes, T!TypeOK, PointerIsOwn, T!OwnAnswer, Busy, T!Stops, T!Preflight
<1>6. ASSUME NEW n \in T!Turns, T!Retrieve(n) PROVE PointerIsOwn'
  BY <1>6 DEF TurnsInv, TurnTypes, T!TypeOK, PointerIsOwn, T!OwnAnswer, Busy, T!Stops, T!Retrieve, T!StageRetrieval, T!StageSkills
<1>7. ASSUME NEW n \in T!Turns, T!TransformTimesOut(n) PROVE PointerIsOwn'
  BY <1>7 DEF TurnsInv, TurnTypes, T!TypeOK, PointerIsOwn, T!OwnAnswer, Busy, T!Stops, T!TransformTimesOut, T!Fault
<1>8. ASSUME NEW s \in T!Stops, T!Stop(s) PROVE PointerIsOwn'
  <2>1. PICK read \in BOOLEAN : T!Deliver(s, read)
    BY <1>8 DEF T!Stop
  <2> QED
    BY <2>1, DeliverKeepsPointer
<1>9. ASSUME NEW s \in T!Stops, T!Redeliver(s) PROVE PointerIsOwn'
  BY <1>9, DeliverKeepsPointer DEF T!Redeliver
<1>10. ASSUME NEW s \in T!Stops, T!IngestAssistant(s) PROVE PointerIsOwn'
  BY <1>10 DEF TurnsInv, TurnTypes, T!TypeOK, PointerIsOwn, T!OwnAnswer, Busy, T!Stops, T!IngestAssistant
<1>11. ASSUME NEW s \in T!Stops, T!StopReturns(s) PROVE PointerIsOwn'
  BY <1>11 DEF TurnsInv, TurnTypes, T!TypeOK, PointerIsOwn, T!OwnAnswer, Busy, T!Stops, T!StopReturns, T!StartEval, T!StartPost, T!Fault
<1>12. ASSUME NEW s \in T!Stops, T!Evaluate(s) PROVE PointerIsOwn'
  <2>1. /\ eval[s].on /\ (\A r \in T!Stops : eval'[r] \in {eval[r], [eval[r] EXCEPT !.on = FALSE]})
        /\ UNCHANGED <<said, lastAsst, stop, overlap>>
    BY <1>12 DEF TurnsInv, TurnTypes, T!TypeOK, T!Evaluate
  <2>2. \A r \in T!Stops : eval'[r].on => eval[r].on /\ eval'[r] = eval[r]
    BY <2>1 DEF TurnsInv, TurnTypes, T!TypeOK
  <2>3. outcomes' \subseteq outcomes \cup {<<s, eval[s].row, eval[s].of>>}
    BY <1>12 DEF T!Evaluate
  <2>4. PointerIsOwn
    BY DEF TurnsInv
  <2>5. T!OwnAnswer'
    BY <2>1, <2>3, <2>4 DEF PointerIsOwn, T!OwnAnswer
  <2> QED
    BY <2>1, <2>2, <2>4, <2>5 DEF PointerIsOwn
<1>13. ASSUME NEW s \in T!Stops, T!Postflight(s) PROVE PointerIsOwn'
  BY <1>13 DEF TurnsInv, TurnTypes, T!TypeOK, PointerIsOwn, T!OwnAnswer, Busy, T!Stops, T!Postflight
<1>14. ASSUME T!Shutdown PROVE PointerIsOwn'
  BY <1>14 DEF TurnsInv, TurnTypes, T!TypeOK, PointerIsOwn, T!OwnAnswer, Busy, T!Stops, T!Shutdown, T!Fault
<1>15. ASSUME T!Exit PROVE PointerIsOwn'
  BY <1>15 DEF TurnsInv, TurnTypes, T!TypeOK, PointerIsOwn, T!OwnAnswer, Busy, T!Stops, T!Exit, T!Drained, T!Restart
<1>16. ASSUME T!Dies PROVE PointerIsOwn'
  BY <1>16 DEF TurnsInv, TurnTypes, T!TypeOK, PointerIsOwn, T!OwnAnswer, Busy, T!Stops, T!Dies, T!Restart, T!Fault
<1> QED
  BY <1>1, <1>2, <1>3, <1>4, <1>5, <1>6, <1>7, <1>8, <1>9, <1>10, <1>11, <1>12, <1>13, <1>14, <1>15, <1>16 DEF TurnStep

LEMMA MeasuredOnceKept == TurnsInv /\ TurnStep => MeasuredOnce'
<1> SUFFICES ASSUME TurnsInv, TurnStep PROVE MeasuredOnce'
  OBVIOUS
<1> USE ConversationAssumption DEF T!agent, T!prompts, T!stops, T!session, T!stash, T!behind, T!rows, T!daemon, T!past, T!None
<1>1. ASSUME T!Prompt PROVE MeasuredOnce'
  BY <1>1 DEF TurnsInv, TurnTypes, T!TypeOK, T!Turns, MeasuredOnce, T!MetricsOnce, T!Prompt, T!Fault
<1>2. ASSUME T!HookReturns PROVE MeasuredOnce'
  BY <1>2 DEF TurnsInv, TurnTypes, T!TypeOK, T!Turns, MeasuredOnce, T!MetricsOnce, T!HookReturns
<1>3. ASSUME T!HookTimesOut PROVE MeasuredOnce'
  BY <1>3 DEF TurnsInv, TurnTypes, T!TypeOK, T!Turns, MeasuredOnce, T!MetricsOnce, T!HookTimesOut, T!Fault
<1>4. ASSUME T!Pushes PROVE MeasuredOnce'
  BY <1>4 DEF TurnsInv, TurnTypes, T!TypeOK, T!Turns, MeasuredOnce, T!MetricsOnce, T!Pushes
<1>5. ASSUME NEW n \in T!Turns, T!Preflight(n) PROVE MeasuredOnce'
  BY <1>5 DEF TurnsInv, TurnTypes, T!TypeOK, T!Turns, MeasuredOnce, T!MetricsOnce, T!Preflight
<1>6. ASSUME NEW n \in T!Turns, T!Retrieve(n) PROVE MeasuredOnce'
  BY <1>6 DEF TurnsInv, TurnTypes, T!TypeOK, T!Turns, MeasuredOnce, T!MetricsOnce, T!Retrieve, T!StageRetrieval, T!StageSkills
<1>7. ASSUME NEW n \in T!Turns, T!TransformTimesOut(n) PROVE MeasuredOnce'
  BY <1>7 DEF TurnsInv, TurnTypes, T!TypeOK, T!Turns, MeasuredOnce, T!MetricsOnce, T!TransformTimesOut, T!Fault
<1>8. ASSUME NEW s \in T!Stops, T!Stop(s) PROVE MeasuredOnce'
  BY <1>8 DEF TurnsInv, TurnTypes, T!TypeOK, T!Turns, MeasuredOnce, T!MetricsOnce, T!Stop, T!Deliver, T!ClearPointer, T!Fault
<1>9. ASSUME NEW s \in T!Stops, T!Redeliver(s) PROVE MeasuredOnce'
  BY <1>9 DEF TurnsInv, TurnTypes, T!TypeOK, T!Turns, MeasuredOnce, T!MetricsOnce, T!Redeliver, T!Deliver, T!ClearPointer, T!Fault
<1>10. ASSUME NEW s \in T!Stops, T!IngestAssistant(s) PROVE MeasuredOnce'
  BY <1>10 DEF TurnsInv, TurnTypes, T!TypeOK, T!Turns, MeasuredOnce, T!MetricsOnce, T!IngestAssistant
<1>11. ASSUME NEW s \in T!Stops, T!StopReturns(s) PROVE MeasuredOnce'
  <2>1. TurnTypes /\ MeasuredOnce /\ pre \in T!Turns \cup {0}
    BY DEF TurnsInv, TurnTypes, T!TypeOK
  <2>2. UNCHANGED <<turn, assemble, metrics>>
    BY <1>11 DEF T!StopReturns
  <2>3. CASE T!StartPost(s)
    <3>1. /\ pre' = 0 /\ \A r \in T!Stops \ {s} : post'[r] = post[r]
          /\ post'[s] = post[s] \/ (pre # 0 /\ post'[s].on /\ post'[s].turn = pre)
      BY <2>1, <2>3, PostStarts
    <3> QED
      BY <2>1, <2>2, <3>1 DEF MeasuredOnce, T!MetricsOnce, T!Turns
  <2>4. CASE UNCHANGED <<post, pre>>
    BY <2>1, <2>2, <2>4 DEF MeasuredOnce, T!MetricsOnce
  <2> QED
    BY <2>3, <2>4, <1>11 DEF T!StopReturns
<1>12. ASSUME NEW s \in T!Stops, T!Evaluate(s) PROVE MeasuredOnce'
  BY <1>12 DEF TurnsInv, TurnTypes, T!TypeOK, T!Turns, MeasuredOnce, T!MetricsOnce, T!Evaluate, T!Release
<1>13. ASSUME NEW s \in T!Stops, T!Postflight(s) PROVE MeasuredOnce'
  <2>1. TurnTypes /\ MeasuredOnce /\ PostType /\ post[s].on /\ post[s].turn \in T!Turns
        /\ metrics \in [T!Turns -> T!Turns \cup {0}] /\ pre \in T!Turns \cup {0}
    BY <1>13 DEF TurnsInv, TurnTypes, T!TypeOK, PostType, T!Postflight
  <2>2. /\ ~post'[s].on /\ \A r \in T!Stops \ {s} : post'[r] = post[r]
    BY <2>1, <1>13, PostOff DEF T!Postflight
  <2>3. UNCHANGED <<turn, assemble, pre>>
    BY <1>13 DEF T!Postflight
  <2>4. \A i \in T!Turns : metrics'[i] \in {metrics[i], post[s].turn}
        /\ \A j \in T!Turns : metrics'[i] # metrics[i] /\ metrics'[j] # metrics[j] => i = j
    BY <2>1, <1>13 DEF T!Postflight
  <2> QED
    BY <2>1, <2>2, <2>3, <2>4 DEF MeasuredOnce, T!MetricsOnce
<1>14. ASSUME T!Shutdown PROVE MeasuredOnce'
  BY <1>14 DEF TurnsInv, TurnTypes, T!TypeOK, T!Turns, MeasuredOnce, T!MetricsOnce, T!Shutdown, T!Fault
<1>15. ASSUME T!Exit PROVE MeasuredOnce'
  <2>1. TurnTypes /\ MeasuredOnce /\ T!Restart /\ turn \in Nat
    BY <1>15 DEF TurnsInv, TurnTypes, T!TypeOK, T!Exit
  <2>2. \A r \in T!Stops : ~post'[r].on
    BY <2>1, AllOff
  <2>3. /\ UNCHANGED <<turn, metrics>> /\ pre' = 0
        /\ \A n \in T!Turns : assemble'[n] = IF n <= turn THEN "done" ELSE "off"
    BY <2>1 DEF T!Restart
  <2> QED
    BY <2>1, <2>2, <2>3 DEF MeasuredOnce, T!MetricsOnce, T!Turns
<1>16. ASSUME T!Dies PROVE MeasuredOnce'
  <2>1. TurnTypes /\ MeasuredOnce /\ T!Restart /\ turn \in Nat
    BY <1>16 DEF TurnsInv, TurnTypes, T!TypeOK, T!Dies
  <2>2. \A r \in T!Stops : ~post'[r].on
    BY <2>1, AllOff
  <2>3. /\ UNCHANGED <<turn, metrics>> /\ pre' = 0
        /\ \A n \in T!Turns : assemble'[n] = IF n <= turn THEN "done" ELSE "off"
    BY <2>1 DEF T!Restart
  <2> QED
    BY <2>1, <2>2, <2>3 DEF MeasuredOnce, T!MetricsOnce, T!Turns
<1> QED
  BY <1>1, <1>2, <1>3, <1>4, <1>5, <1>6, <1>7, <1>8, <1>9, <1>10, <1>11, <1>12, <1>13, <1>14, <1>15, <1>16 DEF TurnStep

LEMMA ItemsAreOwnKept == TurnsInv /\ TurnStep => ItemsAreOwn'
<1> SUFFICES ASSUME TurnsInv, TurnStep PROVE ItemsAreOwn'
  OBVIOUS
<1> USE ConversationAssumption DEF T!agent, T!prompts, T!stops, T!session, T!stash, T!behind, T!rows, T!daemon, T!past, T!None
<1>1. ASSUME T!Prompt PROVE ItemsAreOwn'
  <2>1. turn \in Nat /\ turn' = turn + 1 /\ turn' \in T!Turns /\ phase' = "asking"
        /\ assemble \in [T!Turns -> {"off", "preflight", "retrieve", "done"}]
    BY <1>1 DEF TurnsInv, TurnTypes, T!TypeOK, T!Turns, T!Prompt
  <2>2. /\ ~restarted'
        /\ UNCHANGED <<aborted, of, stop, staged, eval, outcomes, life, overlap, fresh>>
    BY <1>1 DEF T!Prompt
  <2>3. slips' = 0 => slips = 0
    BY <1>1 DEF TurnsInv, TurnTypes, T!TypeOK, T!Prompt, T!Fault
  <2>4. \A n \in T!Turns : n # turn' => assemble'[n] = assemble[n]
    BY <1>1, <2>1 DEF T!Prompt
  <2>5. assemble'[turn'] # "off"
    BY <1>1, <2>1 DEF T!Prompt
  <2>6. phase \in {"idle", "working"} /\ ItemsAreOwn
    BY <1>1 DEF T!Prompt, TurnsInv
  <2>7. of \in [T!Stops -> T!Turns \cup {0}] /\ T!Turns \subseteq Nat
    BY DEF TurnsInv, TurnTypes, T!TypeOK, T!Turns
  <2>8. T!OwnItems' /\ \A o \in outcomes' : of'[o[1]] # T!None
    BY <2>2, <2>3, <2>6 DEF ItemsAreOwn, T!OwnItems
  <2>9. ASSUME slips' = 0
        PROVE  /\ fresh' \subseteq 1..turn' /\ (turn' \in fresh' => staged' \in {T!None, turn'})
               /\ \A n \in 1..turn' : assemble'[n] # "off"
    BY <2>1, <2>2, <2>3, <2>4, <2>5, <2>6, <2>9 DEF ItemsAreOwn, T!Turns
  <2>10. ASSUME slips' = 0, NEW n \in T!Turns, assemble'[n] \in {"preflight", "retrieve"}
         PROVE  n = turn'
    BY <2>1, <2>3, <2>4, <2>6, <2>10 DEF ItemsAreOwn
  <2>11. ASSUME slips' = 0, NEW s \in T!Stops, of'[s] # T!None
         PROVE  of'[s] <= turn' /\ assemble'[of'[s]] = "done" /\ of'[s] # turn'
    <3>1. of[s] \in T!Turns /\ of[s] <= turn /\ assemble[of[s]] = "done"
      BY <2>2, <2>3, <2>6, <2>7, <2>11 DEF ItemsAreOwn
    <3>5. of[s] \in Nat
      BY <3>1, <2>7
    <3>6. of' = of
      BY <2>2
    <3>2. of' = of /\ of[s] \in Nat /\ of[s] # turn'
      BY <3>1, <3>5, <3>6, <2>1
    <3>3. assemble'[of[s]] = assemble[of[s]]
      BY <3>1, <3>2, <2>4
    <3>4. of[s] <= turn'
      BY <3>1, <3>2, <2>1
    <3> QED
      BY <3>1, <3>2, <3>3, <3>4
  <2>12. ASSUME slips' = 0, NEW s \in T!Stops PROVE stop'[s] \notin Busy
    BY <2>2, <2>3, <2>6, <2>12 DEF ItemsAreOwn
  <2> QED
    BY <2>1, <2>2, <2>3, <2>6, <2>8, <2>9, <2>10, <2>11, <2>12 DEF ItemsAreOwn
<1>2. ASSUME T!HookReturns PROVE ItemsAreOwn'
  BY <1>2 DEF TurnsInv, TurnTypes, T!TypeOK, ItemsAreOwn, T!OwnItems, Busy, T!Turns, T!HookReturns
<1>3. ASSUME T!HookTimesOut PROVE ItemsAreOwn'
  BY <1>3 DEF TurnsInv, TurnTypes, T!TypeOK, ItemsAreOwn, T!OwnItems, Busy, T!Turns, T!HookTimesOut, T!Fault
<1>4. ASSUME T!Pushes PROVE ItemsAreOwn'
  BY <1>4 DEF TurnsInv, TurnTypes, T!TypeOK, ItemsAreOwn, T!OwnItems, Busy, T!Turns, T!Pushes
<1>5. ASSUME NEW n \in T!Turns, T!Preflight(n) PROVE ItemsAreOwn'
  BY <1>5 DEF TurnsInv, TurnTypes, T!TypeOK, ItemsAreOwn, T!OwnItems, Busy, T!Turns, T!Preflight
<1>6. ASSUME NEW n \in T!Turns, T!Retrieve(n) PROVE ItemsAreOwn'
  BY <1>6 DEF TurnsInv, TurnTypes, T!TypeOK, ItemsAreOwn, T!OwnItems, Busy, T!Turns, T!Retrieve, T!StageRetrieval, T!StageSkills
<1>7. ASSUME NEW n \in T!Turns, T!TransformTimesOut(n) PROVE ItemsAreOwn'
  BY <1>7 DEF TurnsInv, TurnTypes, T!TypeOK, ItemsAreOwn, T!OwnItems, Busy, T!Turns, T!TransformTimesOut, T!Fault
<1>8. ASSUME NEW s \in T!Stops, T!Stop(s) PROVE ItemsAreOwn'
  <2>1. PICK read \in BOOLEAN : T!Deliver(s, read)
    BY <1>8 DEF T!Stop
  <2>2. ItemsAreOwn /\ turn \in 0..MaxTurns /\ of \in [T!Stops -> T!Turns \cup {0}]
        /\ stop \in [T!Stops -> {"off", "ingest", "after", "done"}]
        /\ outcomes \subseteq T!Stops \X T!Stops \X T!Turns
    BY DEF TurnsInv, TurnTypes, T!TypeOK
  <2>3. /\ of[s] = 0 /\ of' = [of EXCEPT ![s] = turn]
        /\ UNCHANGED <<turn, assemble, aborted, staged, eval, outcomes, life, restarted, fresh>>
        /\ \A r \in T!Stops \ {s} : stop'[r] = stop[r]
        /\ stop'[s] \in Busy \/ (restarted /\ stop'[s] = "done")
        /\ overlap' = (overlap \/ \E o \in T!Stops : stop[o] \in {"ingest", "after"})
    BY <2>1, <2>2 DEF T!Deliver, Busy
  <2>4. phase = "working" /\ phase' = IF stop'[s] = "done" THEN "idle" ELSE "stopping"
    BY <1>8 DEF T!Stop
  <2>5. of'[s] = turn /\ \A r \in T!Stops \ {s} : of'[r] = of[r]
    BY <2>2, <2>3
  <2>6. slips' = 0 => slips = 0
    <3>1. slips \in 0..MaxSlips
      BY DEF TurnsInv, TurnTypes, T!TypeOK
    <3>2. slips' = slips \/ slips' = slips + 1
      BY <1>8 DEF T!Stop, T!Fault
    <3> QED
      BY <3>1, <3>2
  <2>7. slips' = 0 => stop'[s] \in Busy /\ phase' = "stopping" /\ turn # 0
    BY <2>2, <2>3, <2>4, <2>6 DEF ItemsAreOwn, Busy
  <2>8. \A o \in outcomes : o[1] \in T!Stops /\ of[o[1]] # 0 /\ of'[o[1]] = of[o[1]]
    BY <2>2, <2>3, <2>5 DEF ItemsAreOwn
  <2>9. phase' # "idle" => turn' # 0
    BY <2>2, <2>3, <2>4 DEF ItemsAreOwn
  <2>10. turn # 0
    BY <2>2, <2>4 DEF ItemsAreOwn
  <2>11. \A r \in T!Stops : eval'[r].on \/ stop'[r] # "off" => of'[r] # 0
    BY <2>2, <2>3, <2>5, <2>10 DEF ItemsAreOwn
  <2>12. \A o \in outcomes' : of'[o[1]] # 0
    BY <2>3, <2>8
  <2>13. T!OwnItems'
    BY <2>2, <2>3, <2>6, <2>8 DEF ItemsAreOwn, T!OwnItems
  <2>14. ASSUME slips' = 0
         PROVE  \A r \in T!Stops : stop[r] \notin Busy
    BY <2>2, <2>4, <2>6, <2>14 DEF ItemsAreOwn
  <2>15. ASSUME slips' = 0
         PROVE  /\ \A r \in T!Stops : stop'[r] \in Busy => of'[r] = turn' /\ phase' = "stopping"
                /\ overlap' = FALSE
    BY <2>2, <2>3, <2>5, <2>6, <2>7, <2>14, <2>15 DEF ItemsAreOwn, Busy
  <2>16. ASSUME slips' = 0
         PROVE  /\ assemble[turn] = "done"
                /\ \A n \in T!Turns : assemble[n] \notin {"preflight", "retrieve"}
    BY <2>2, <2>4, <2>6, <2>10, <2>16 DEF ItemsAreOwn, T!Turns, TurnsInv, TurnTypes, T!TypeOK
  <2>17. ASSUME slips' = 0, NEW r \in T!Stops, of'[r] # 0
         PROVE  of'[r] <= turn' /\ assemble'[of'[r]] = "done" /\ (of'[r] = turn' => phase' # "asking")
    <3>1. CASE r = s
      BY <2>2, <2>3, <2>5, <2>7, <2>16, <2>17, <3>1
    <3>2. CASE r # s
      BY <2>2, <2>3, <2>5, <2>6, <2>7, <2>17, <3>2 DEF ItemsAreOwn
    <3> QED
      BY <3>1, <3>2
  <2>18. ASSUME slips' = 0, NEW r \in T!Stops, eval'[r].on, of'[r] \in fresh'
         PROVE  eval'[r].of = of'[r]
    BY <2>2, <2>3, <2>5, <2>6, <2>18 DEF ItemsAreOwn
  <2>19. ASSUME slips' = 0
         PROVE  /\ life' = "up" /\ ~restarted' /\ ~overlap' /\ aborted' = {}
                /\ fresh' \subseteq 1..turn' /\ (turn' \in fresh' => staged' \in {0, turn'})
                /\ \A n \in T!Turns :
                     assemble'[n] \in {"preflight", "retrieve"} => n = turn' /\ phase' = "asking"
                /\ \A n \in 1..turn' : assemble'[n] # "off"
    BY <2>2, <2>3, <2>6, <2>15, <2>16, <2>19 DEF ItemsAreOwn
  <2> QED
    BY <2>9, <2>11, <2>12, <2>13, <2>15, <2>17, <2>18, <2>19 DEF ItemsAreOwn
<1>9. ASSUME NEW s \in T!Stops, T!Redeliver(s) PROVE ItemsAreOwn'
  BY <1>9 DEF TurnsInv, TurnTypes, T!TypeOK, ItemsAreOwn, T!OwnItems, Busy, T!Turns, T!Redeliver, T!Deliver, T!ClearPointer, T!Fault
<1>10. ASSUME NEW s \in T!Stops, T!IngestAssistant(s) PROVE ItemsAreOwn'
  BY <1>10 DEF TurnsInv, TurnTypes, T!TypeOK, ItemsAreOwn, T!OwnItems, Busy, T!Turns, T!IngestAssistant
<1>11. ASSUME NEW s \in T!Stops, T!StopReturns(s) PROVE ItemsAreOwn'
  <2>1. ItemsAreOwn /\ turn \in 0..MaxTurns
        /\ outcomes \subseteq T!Stops \X T!Stops \X T!Turns
    BY DEF TurnsInv, TurnTypes, T!TypeOK
  <2>2. /\ UNCHANGED <<turn, assemble, aborted, of, staged, outcomes, life, restarted, fresh, overlap>>
        /\ stop[s] = "after" /\ stop'[s] = "done" /\ \A r \in T!Stops \ {s} : stop'[r] = stop[r]
        /\ slips' = 0 => slips = 0
    BY <1>11 DEF T!StopReturns, T!Fault, TurnsInv, TurnTypes, T!TypeOK
  <2>3. phase' = phase \/ (of[s] = turn /\ phase' \in {"working", "idle"})
    BY <1>11 DEF T!StopReturns
  <2>4. /\ \A r \in T!Stops \ {s} : eval'[r] = eval[r]
        /\ eval'[s] = eval[s] \/ (staged # 0 /\ eval'[s].on /\ eval'[s].of = staged)
    <3>1. CASE T!StartEval(s)
      BY <3>1, EvalStarts DEF TurnsInv
    <3>2. CASE UNCHANGED eval
      BY <3>2
    <3> QED
      BY <3>1, <3>2, <1>11 DEF T!StopReturns
  <2>5. slips = 0 => \A r \in T!Stops : stop[r] \in Busy => r = s
    BY <2>1, <2>2 DEF TurnsInv, ItemsAreOwn, PointerIsOwn, Busy
  <2> QED
    BY <2>1, <2>2, <2>3, <2>4, <2>5 DEF ItemsAreOwn, T!OwnItems, Busy, T!Turns
<1>12. ASSUME NEW s \in T!Stops, T!Evaluate(s) PROVE ItemsAreOwn'
  <2>1. /\ eval[s].on /\ (\A r \in T!Stops : eval'[r] \in {eval[r], [eval[r] EXCEPT !.on = FALSE]})
        /\ UNCHANGED <<turn, phase, assemble, aborted, of, stop, life, restarted, fresh, overlap, slips>>
    BY <1>12 DEF TurnsInv, TurnTypes, T!TypeOK, T!Evaluate
  <2>2. \A r \in T!Stops : eval'[r].on => eval[r].on /\ eval'[r] = eval[r]
    BY <2>1 DEF TurnsInv, TurnTypes, T!TypeOK
  <2>3. staged' \in {staged, T!None} /\ outcomes' \subseteq outcomes \cup {<<s, eval[s].row, eval[s].of>>}
    BY <1>12 DEF T!Evaluate, T!Release
  <2>4. ItemsAreOwn
    BY DEF TurnsInv
  <2>5. slips = 0 => (turn \in fresh => staged' \in {T!None, turn})
    BY <2>3, <2>4 DEF ItemsAreOwn
  <2>6. \A o \in outcomes' : of[o[1]] # T!None
    BY <2>1, <2>3, <2>4 DEF ItemsAreOwn
  <2>7. T!OwnItems'
    BY <2>1, <2>3, <2>4 DEF ItemsAreOwn, T!OwnItems
  <2> QED
    BY <2>1, <2>2, <2>4, <2>5, <2>6, <2>7 DEF ItemsAreOwn
<1>13. ASSUME NEW s \in T!Stops, T!Postflight(s) PROVE ItemsAreOwn'
  BY <1>13 DEF TurnsInv, TurnTypes, T!TypeOK, ItemsAreOwn, T!OwnItems, Busy, T!Turns, T!Postflight
<1>14. ASSUME T!Shutdown PROVE ItemsAreOwn'
  BY <1>14 DEF TurnsInv, TurnTypes, T!TypeOK, ItemsAreOwn, T!OwnItems, Busy, T!Turns, T!Shutdown, T!Fault
<1>15. ASSUME T!Exit PROVE ItemsAreOwn'
  BY <1>15 DEF TurnsInv, TurnTypes, T!TypeOK, ItemsAreOwn, T!OwnItems, Busy, T!Turns, T!Exit, T!Drained, T!Restart
<1>16. ASSUME T!Dies PROVE ItemsAreOwn'
  BY <1>16 DEF TurnsInv, TurnTypes, T!TypeOK, ItemsAreOwn, T!OwnItems, Busy, T!Turns, T!Dies, T!Restart, T!Fault
<1> QED
  BY <1>1, <1>2, <1>3, <1>4, <1>5, <1>6, <1>7, <1>8, <1>9, <1>10, <1>11, <1>12, <1>13, <1>14, <1>15, <1>16 DEF TurnStep

-----------------------------------------------------------------------------
(* A behaviour of the composition is one of a part, and stays so.          *)
LEMMA OnePart ==
  ASSUME [ConversationNext]_ConversationVars
  PROVE  /\ part' = part
         /\ part = "turns" => TurnStep \/ UNCHANGED <<turnVars, slips>>
         /\ part # "turns" => UNCHANGED turnVars
         /\ part = "gates" => GateStep \/ UNCHANGED <<gateVars, slips>>
         /\ part = "agents" => AgentStep \/ UNCHANGED <<agentVars, slips>>
  BY DEF ConversationNext, ConversationVars, Knowledge, Turn, Gate, Agent, TurnStep, GateStep, AgentStep

GatesPart  == part = "gates" => UsersOwn
AgentsPart == part = "agents" => AgentsInv

THEOREM GatesInvariant == ConversationSpec => []GatesPart
<1>1. ConversationInit => GatesPart
  BY GateStart DEF ConversationInit, GatesPart
<1>2. GatesPart /\ [ConversationNext]_ConversationVars => GatesPart'
  <2> SUFFICES ASSUME GatesPart, [ConversationNext]_ConversationVars PROVE GatesPart'
    OBVIOUS
  <2>1. UsersOwn /\ UNCHANGED gateVars => UsersOwn'
    BY DEF UsersOwn, gateVars
  <2> QED
    BY <2>1, OnePart, GateKeeps DEF GatesPart
<1> QED
  BY <1>1, <1>2, PTL DEF ConversationSpec

(* By the rules of the gate, nothing the agent writes authorises a         *)
(* destructive command: one passes by them only after the user has named   *)
(* its pattern or given a command of it (edit-gates.ts:135, 155).  The     *)
(* passes of a gate that fails open, or that knows no session, are not by  *)
(* its rules.                                                              *)
THEOREM AgentCannotAuthorise == ConversationSpec => []NoSelfAuthorisation
<1>1. GatesPart => NoSelfAuthorisation
  BY DEF GatesPart, UsersOwn, NoSelfAuthorisation, G!NoSelfAuthorisation
<1> QED
  BY <1>1, GatesInvariant, PTL

THEOREM AgentsInvariant == ConversationSpec => []AgentsPart
<1>1. ConversationInit => AgentsPart
  BY AgentStart DEF ConversationInit, AgentsPart
<1>2. AgentsPart /\ [ConversationNext]_ConversationVars => AgentsPart'
  <2> SUFFICES ASSUME AgentsPart, [ConversationNext]_ConversationVars PROVE AgentsPart'
    OBVIOUS
  <2>1. AgentsInv /\ UNCHANGED agentVars => AgentsInv'
    BY DEF AgentsInv, AgentTypes, Gone, Order, A!Remembered, Calm, agentVars
  <2> QED
    BY <2>1, OnePart, AgentKeeps DEF AgentsPart
<1> QED
  BY <1>1, <1>2, PTL DEF ConversationSpec

(* Unless a failure lost it, a row in progress is remembered by the        *)
(* session, and it is closed by the stop of its own agent                  *)
(* (subagent.ts:79, state.ts:424).                                         *)
THEOREM AgentsAreClosed == ConversationSpec => []AgentsClosed
<1>1. AgentsPart => AgentsClosed
  BY DEF AgentsPart, AgentsInv, Calm, AgentsClosed, A!AgentsClosed, A!OwnStop
<1> QED
  BY <1>1, AgentsInvariant, PTL


LEMMA TurnsStart == ConversationInit => TurnsInv
<1> SUFFICES ASSUME ConversationInit PROVE TurnsInv
  OBVIOUS
<1> USE ConversationAssumption DEF ConversationInit, T!Init, T!None, T!NoEval, T!NoPost
<1>1. TurnTypes
  <2>1. EvalType /\ PostType
    BY DEF EvalType, PostType
  <2>2. kind \in [T!Turns -> Kinds] /\ stop = [s \in T!Stops |-> "off"] /\ slips = 0
        /\ assemble = [n \in T!Turns |-> "off"]
        /\ 0 \in 0..MaxTurns /\ 0 \in 0..MaxSlips
    OBVIOUS
  <2>3. /\ turn = 0 /\ index = 0 /\ phase = "idle" /\ aborted = {} /\ of = [s \in T!Stops |-> 0]
        /\ lastAsst = 0 /\ ~said /\ pre = 0 /\ ~push /\ staged = 0 /\ outcomes = {}
        /\ metrics = [i \in T!Turns |-> 0] /\ life = "up" /\ ~restarted /\ awaited = {}
        /\ caught = {} /\ fresh = {} /\ gone = {} /\ cut = {} /\ skipped = {} /\ ~overlap
    OBVIOUS
  <2>4. {said, push, restarted, overlap} \subseteq BOOLEAN
    OBVIOUS
  <2> QED
    BY <2>1, <2>2, <2>3, <2>4 DEF TurnTypes, T!TypeOK, EvalType, PostType
<1>2. MeasuredOnce
  BY DEF MeasuredOnce, T!MetricsOnce, T!Turns
<1>3. CutWereCaught /\ PointerIsOwn
  BY DEF CutWereCaught, T!OutcomesSurvive, PointerIsOwn, T!OwnAnswer, Busy
<1>4. ItemsAreOwn
  BY DEF ItemsAreOwn, T!OwnItems, T!Turns, Busy
<1> QED
  BY <1>1, <1>2, <1>3, <1>4 DEF TurnsInv

LEMMA TurnsInvKept == TurnsInv /\ TurnStep => TurnsInv'
  BY TurnTypesKept, MeasuredOnceKept, CutWereCaughtKept, PointerIsOwnKept, ItemsAreOwnKept DEF TurnsInv

LEMMA TurnsStand == TurnsInv /\ UNCHANGED <<turnVars, slips>> => TurnsInv'
<1> SUFFICES ASSUME TurnsInv, UNCHANGED <<turnVars, slips>> PROVE TurnsInv'
  OBVIOUS
<1> USE DEF turnVars
<1>1. TurnTypes'
  BY DEF TurnsInv, TurnTypes, T!TypeOK
<1>2. MeasuredOnce'
  BY DEF TurnsInv, MeasuredOnce, T!MetricsOnce
<1>3. CutWereCaught' /\ PointerIsOwn'
  BY DEF TurnsInv, CutWereCaught, T!OutcomesSurvive, PointerIsOwn, T!OwnAnswer
<1>4. ItemsAreOwn'
  BY DEF TurnsInv, ItemsAreOwn, T!OwnItems
<1> QED
  BY <1>1, <1>2, <1>3, <1>4 DEF TurnsInv

TurnsPart == part = "turns" => TurnsInv

THEOREM TurnsInvariant == ConversationSpec => []TurnsPart
<1>1. ConversationInit => TurnsPart
  BY TurnsStart DEF TurnsPart
<1>2. TurnsPart /\ [ConversationNext]_ConversationVars => TurnsPart'
  BY OnePart, TurnsInvKept, TurnsStand DEF TurnsPart
<1> QED
  BY <1>1, <1>2, PTL DEF ConversationSpec

(* Whatever overlaps, fails or restarts: an outcome is about the answer    *)
(* and, if nothing failed, about the items of its own turn, the measures   *)
(* of a turn are recorded once, and an orderly shutdown cuts off no        *)
(* evaluation whose Stop had returned (retrieval-quality.ts:112,           *)
(* stop.ts:86).                                                            *)
THEOREM TurnsAreKept == ConversationSpec => []TurnsKept
<1>1. TurnsPart => TurnsKept
  BY DEF TurnsPart, TurnsInv, MeasuredOnce, CutWereCaught, PointerIsOwn, ItemsAreOwn, TurnsKept, T!TurnsKept
<1> QED
  BY <1>1, TurnsInvariant, PTL

(* What is staged leaves when its own evaluation ends or the next turn     *)
(* stages, items that were given up are not staged, and skills are the     *)
(* entry's own or were given up.                                           *)
StagedStep ==
  /\ staged # T!None /\ staged' = T!None => staged \in gone'
  /\ staged' # staged => staged' \notin aborted
  /\ T!stash' # T!stash => skills' \in {T!None, staged'} \cup aborted'

LEMMA StagedSteps ==
  TurnsInv /\ TurnStep => StagedStep \/ UNCHANGED <<turnVars, slips>>
<1> SUFFICES ASSUME TurnsInv, TurnStep PROVE StagedStep
  OBVIOUS
<1> USE DEF StagedStep, T!None, T!agent, T!prompts, T!stops, T!session, T!stash, T!behind, T!rows, T!daemon, T!past
<1>1. 0 \notin aborted
  BY ConversationAssumption DEF TurnsInv, TurnTypes, T!TypeOK, T!Turns
<1>2. CASE T!Prompt \/ T!HookReturns \/ T!HookTimesOut \/ T!Pushes \/ T!Shutdown
  BY <1>2 DEF T!Prompt, T!HookReturns, T!HookTimesOut, T!Pushes, T!Shutdown
<1>3. ASSUME NEW n \in T!Turns, T!Preflight(n) \/ T!Retrieve(n) \/ T!TransformTimesOut(n)
      PROVE  StagedStep
  BY <1>3 DEF T!Preflight, T!Retrieve, T!StageRetrieval, T!StageSkills, T!TransformTimesOut, T!Turns
<1>4. ASSUME NEW s \in T!Stops, T!Stop(s) \/ T!Redeliver(s) \/ T!IngestAssistant(s) \/ T!StopReturns(s)
      PROVE  StagedStep
  BY <1>4 DEF T!Stop, T!Redeliver, T!Deliver, T!IngestAssistant, T!StopReturns
<1>5. ASSUME NEW s \in T!Stops, T!Evaluate(s) \/ T!Postflight(s)
      PROVE  StagedStep
  BY <1>1, <1>5 DEF T!Evaluate, T!Release, T!Postflight
<1>6. CASE T!Exit \/ T!Dies
  BY <1>1, <1>6 DEF T!Exit, T!Dies, T!Restart
<1> QED
  BY <1>2, <1>3, <1>4, <1>5, <1>6 DEF TurnStep

(* A slow evaluation takes away only its own entry; the items of a         *)
(* transform that was given up are not staged, and only the skills of such *)
(* a one get into another turn's entry (retrieval-quality.ts:166,          *)
(* graph-context.ts:2274).                                                 *)
THEOREM StagedItemsAreKept == ConversationSpec => StagedKept
<1> DEFINE Step == [StagedStep]_(T!vars)
<1>1. ASSUME TurnsPart, [ConversationNext]_ConversationVars PROVE Step
  <2>1. CASE part = "turns"
    <3>1. StagedStep \/ UNCHANGED <<turnVars, slips>>
      BY <1>1, <2>1, OnePart, StagedSteps DEF TurnsPart
    <3>2. UNCHANGED <<turnVars, slips>> => UNCHANGED T!vars
      BY DEF turnVars, T!vars, T!agent, T!prompts, T!stops, T!session, T!stash, T!behind, T!rows, T!daemon, T!past
    <3> QED
      BY <3>1, <3>2
  <2>2. CASE part # "turns"
    BY <1>1, <2>2, OnePart DEF turnVars, T!stash, StagedStep
  <2> QED
    BY <2>1, <2>2
<1>2. ConversationSpec => [][StagedStep]_(T!vars)
  BY <1>1, TurnsInvariant, PTL DEF ConversationSpec
<1> QED
  BY <1>2 DEF StagedStep, StagedKept, T!StagedKept

-----------------------------------------------------------------------------
(* The whole conversation.  The knowledge of a conversation is KnowledgeCommit's. *)
LEMMA ConversationIsSpec == ConversationSpec => Spec
<1>1. ConversationInit => Init
  BY DEF ConversationInit
<1>2. [ConversationNext]_ConversationVars => [Next]_vars
  BY DEF ConversationNext, ConversationVars, Knowledge, Turn, Gate, Agent, Next
<1> QED
  BY <1>1, <1>2, PTL DEF ConversationSpec, Spec

LEMMA GateTypesKept == G!TypeOK /\ GateStep => G!TypeOK'
<1> SUFFICES ASSUME G!TypeOK, GateStep PROVE G!TypeOK'
  OBVIOUS
<1> USE ConversationAssumption DEF G!TypeOK, G!gate, G!texts, G!past, G!Subjects, G!Texts, G!Roles
<1>1. ASSUME NEW text \in G!Texts, G!UserPrompt(text) PROVE G!TypeOK'
  BY <1>1 DEF G!UserPrompt
<1>2. ASSUME NEW y \in G!Subjects, G!AgentSays(y) PROVE G!TypeOK'
  BY <1>2 DEF G!AgentSays
<1>3. ASSUME NEW w \in G!Roles \X G!Subjects, G!Ingest(w) PROVE G!TypeOK'
  BY <1>3 DEF G!Ingest
<1>4. ASSUME NEW f \in Files, G!Read(f) \/ G!Edit(f) PROVE G!TypeOK'
  BY <1>4 DEF G!Read, G!Edit, G!Recall, G!Remembered
<1>5. ASSUME NEW c \in Commands, G!Bash(c) PROVE G!TypeOK'
  BY <1>5 DEF G!Bash, G!Recall, G!Remembered
<1>6. CASE G!GoesIdle
  BY <1>6 DEF G!GoesIdle
<1>0. G!Fault => slips' \in 0..MaxSlips
  BY DEF G!Fault
<1>7. CASE G!StoreFails \/ G!StoreReturns
  BY <1>0, <1>7 DEF G!StoreFails, G!StoreReturns
<1>8. CASE G!Forget
  BY <1>0, <1>8 DEF G!Forget
<1> QED
  BY <1>1, <1>2, <1>3, <1>4, <1>5, <1>6, <1>7, <1>8 DEF GateStep

(* The rest of what the variables of the sub-agents can be.  The rows a    *)
(* stop is about are remembered, or are those of its own spawn.            *)
AgentsTyped ==
  /\ AgentsInv /\ exact \in BOOLEAN /\ ours \subseteq {"call", "stop"} \X Spawns
  /\ session \in BOOLEAN /\ attached \in BOOLEAN /\ quiet \in BOOLEAN /\ again \in BOOLEAN
  /\ strays \subseteq Spawns /\ lost \subseteq Spawns /\ args \subseteq Edits
  /\ use \in [Edits -> {"off", "open", "done"}] /\ slips \in 0..MaxSlips

LEMMA AgentsTypedOK == AgentsTyped => A!TypeOK
  BY DEF AgentsTyped, AgentsInv, AgentTypes, A!TypeOK

LEMMA AgentsTypedStart == A!Init => AgentsTyped
<1> SUFFICES ASSUME A!Init PROVE AgentsTyped
  OBVIOUS
<1>1. slips \in 0..MaxSlips /\ use \in [Edits -> {"off", "open", "done"}]
  BY ConversationAssumption DEF A!Init
<1>2. {exact, session, attached, quiet, again} \subseteq BOOLEAN
  BY DEF A!Init
<1>3. ours = {} /\ strays = {} /\ lost = {} /\ args = {}
  BY DEF A!Init
<1> QED
  BY <1>1, <1>2, <1>3, AgentStart DEF AgentsTyped

LEMMA AgentsTypedKept == AgentsTyped /\ AgentStep => AgentsTyped'
<1> SUFFICES ASSUME AgentsTyped, AgentStep PROVE AgentsTyped'
  OBVIOUS
<1> USE ConversationAssumption DEF AgentsTyped, A!spawning, A!stopping, A!rows, A!session, A!past
<1>1. AgentsInv'
  BY AgentKeeps
<1>2. A!Fault \/ UNCHANGED slips => slips' \in 0..MaxSlips
  BY DEF A!Fault
<1>3. ASSUME NEW k \in Spawns, A!Spawn(k) \/ A!Create(k) \/ A!Seal(k) \/ A!Start(k)
      PROVE  AgentsTyped'
  BY <1>1, <1>2, <1>3 DEF A!Spawn, A!Create, A!Seal, A!Start
<1>4. ASSUME NEW k \in Spawns, A!Stop(k) \/ A!Redeliver(k) PROVE AgentsTyped'
  <2>1. ours' \subseteq {"call", "stop"} \X Spawns /\ slips' \in 0..MaxSlips
    BY <1>2, <1>4 DEF A!Stop, A!Redeliver, A!Deliver
  <2>2. again' \in BOOLEAN
    BY <1>4 DEF A!Stop, A!Redeliver
  <2> QED
    BY <1>1, <1>4, <2>1, <2>2 DEF A!Stop, A!Redeliver
<1>5. ASSUME NEW k \in Spawns, A!Select(k) \/ A!Update(k) \/ A!Orphan(k) PROVE AgentsTyped'
  BY <1>1, <1>2, <1>5 DEF A!Select, A!Update, A!Close, A!Orphan
<1>6. ASSUME NEW u \in Edits, A!PreEdit(u) \/ A!PostEdit(u) PROVE AgentsTyped'
  BY <1>1, <1>6 DEF A!PreEdit, A!PostEdit
<1>7. CASE A!UserPrompt \/ A!TwoHours \/ A!Vanish
  BY <1>1, <1>7 DEF A!UserPrompt, A!TwoHours, A!Vanish
<1>8. CASE A!Reap \/ A!Evict
  <2>1. lost' \in {lost, lost \cup active} /\ slips' \in 0..MaxSlips
    BY <1>1, <1>2, <1>8 DEF A!Reap, A!Evict
  <2>2. active \subseteq Spawns
    BY DEF AgentsInv, AgentTypes
  <2> QED
    BY <1>1, <1>8, <2>1, <2>2 DEF A!Reap, A!Evict, A!Drop
<1> QED
  BY <1>3, <1>4, <1>5, <1>6, <1>7, <1>8 DEF AgentStep

TypesPart ==
  /\ part = "gates" => G!TypeOK
  /\ part = "agents" => AgentsTyped

(* In every part the variables of the conversation have their types.       *)
THEOREM ConversationIsTyped == ConversationSpec => []ConversationTypeOK
<1>1. ConversationInit => TypesPart
  <2> SUFFICES ASSUME ConversationInit PROVE TypesPart
    OBVIOUS
  <2>1. prompted \in 0..MaxPrompts /\ slips \in 0..MaxSlips
    BY ConversationAssumption DEF ConversationInit, G!Init
  <2>2. {known, idle, store} \subseteq BOOLEAN
    BY DEF ConversationInit, G!Init
  <2>3. G!TypeOK
    BY <2>1, <2>2 DEF ConversationInit, G!Init, G!TypeOK, G!Texts
  <2> QED
    BY <2>3, AgentsTypedStart DEF ConversationInit, TypesPart
<1>2. TypesPart /\ [ConversationNext]_ConversationVars => TypesPart'
  <2> SUFFICES ASSUME TypesPart, [ConversationNext]_ConversationVars PROVE TypesPart'
    OBVIOUS
  <2>1. G!TypeOK /\ UNCHANGED <<gateVars, slips>> => G!TypeOK'
    BY DEF G!TypeOK, gateVars
  <2>2. AgentsTyped /\ UNCHANGED <<agentVars, slips>> => AgentsTyped'
    BY DEF AgentsTyped, AgentsInv, AgentTypes, Gone, Order, A!Remembered, Calm, agentVars
  <2> QED
    BY <2>1, <2>2, OnePart, GateTypesKept, AgentsTypedKept DEF TypesPart
<1>3. KnowledgeInv /\ TurnsPart /\ TypesPart => ConversationTypeOK
  BY TypesAreTypeOK, AgentsTypedOK
  DEF KnowledgeInv, TurnsPart, TurnsInv, TurnTypes, TypesPart, ConversationTypeOK
<1> QED
  BY <1>1, <1>2, <1>3, ConversationIsSpec, KnowledgeInvariant, TurnsInvariant, PTL DEF ConversationSpec
=============================================================================
