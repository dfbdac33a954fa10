-------------------------- MODULE MCConversation --------------------------
(* Instances for TLC of four modules about one conversation: its turns     *)
(* (TurnFlow), the gates before its tool calls (ToolGates), its sub-agents *)
(* (Subagents) and what it teaches the graph (KnowledgeCommit, where       *)
(* everybody is about one content, and both corrections say the same).     *)
(* They share no state here, so a behaviour is one of one of them, and the *)
(* others stand still; part says which, and an invariant of one of them is *)
(* looked at in its part.                                                  *)
EXTENDS KnowledgeCommit, TLC

CONSTANTS
  l1, l2, k1, k2, x, t,           \* KnowledgeCommit
  MaxTurns, MaxStops, Kinds,      \* TurnFlow
  Files, destroy, Commands,       \* ToolGates
  MaxPrompts, MaxNamed,           \* and what one prompt names
  Spawns, Edits,                  \* Subagents
  MaxSlips                        \* MaxFaults of the three

ContentOf == l1 :> x @@ l2 :> x
WrongOf   == k1 :> x @@ k2 :> x
SaidOf    == k1 :> t @@ k2 :> t

Actors == Permutations({l1, l2}) \cup Permutations({k1, k2})

(* Files, the pattern and its commands are not the same, the sub-agents of *)
(* a conversation can be counted, and the bounds are numbers.              *)
ASSUME ConversationAssumption ==
  /\ destroy \notin Files \cup Commands /\ Files \cap Commands = {} /\ IsFiniteSet(Spawns)
  /\ MaxTurns \in Nat /\ MaxStops \in Nat /\ MaxPrompts \in Nat /\ MaxSlips \in Nat

VARIABLES part, slips,
  turn, kind, phase, assemble, aborted, of, stop, lastAsst, said, index, pre, push, staged,
  skills, eval, post, outcomes, metrics, life, restarted, awaited, caught, fresh, gone, cut,
  skipped, overlap,
  prompted, known, observed, checked, idle, lastText, writing, texts, store, seen, named, allowed,
  exact, agent, call, stopping, target, ours, sub, by, strays, session, active, args,
  attached, quiet, use, lost, again

T == INSTANCE TurnFlow WITH MaxFaults <- MaxSlips, faults <- slips
G == INSTANCE ToolGates WITH Pattern <- destroy, MaxFaults <- MaxSlips,
       prompts <- prompted, rows <- texts, faults <- slips
A == INSTANCE Subagents WITH None <- Nothing,
       MaxFaults <- MaxSlips, stop <- stopping, row <- sub, known <- session, faults <- slips

turnVars == <<turn, kind, phase, assemble, aborted, of, stop, lastAsst, said, index, pre, push,
              staged, skills, eval, post, outcomes, metrics, life, restarted, awaited, caught,
              fresh, gone, cut, skipped, overlap>>
gateVars == <<prompted, known, observed, checked, idle, lastText, writing, texts, store, seen,
              named, allowed>>
agentVars == <<exact, agent, call, stopping, target, ours, sub, by, strays, session, active, args,
               attached, quiet, use, lost, again>>
ConversationVars == <<part, slips, vars, turnVars, gateVars, agentVars>>

ConversationInit ==
  /\ part \in {"knowledge", "turns", "gates", "agents"} /\ Init /\ T!Init /\ G!Init /\ A!Init
  /\ LET there == \E r \in Rows : concept[r] # Absent IN
       IF part = "knowledge" THEN armed <=> there ELSE armed /\ ~there
  /\ IF part = "turns" THEN kind[1] = "plain"
                       ELSE \A n \in T!Turns : kind[n] = "plain"
  /\ part # "agents" => exact

Knowledge(B) == part = "knowledge" /\ B /\ UNCHANGED <<part, slips, turnVars, gateVars, agentVars>>
Turn(B)      == part = "turns" /\ B /\ UNCHANGED <<part, vars, gateVars, agentVars>>
Gate(B)      == part = "gates" /\ B /\ UNCHANGED <<part, vars, turnVars, agentVars>>
Agent(B)     == part = "agents" /\ B /\ UNCHANGED <<part, vars, turnVars, gateVars>>

ConversationNext ==
  \/ \E l \in Learners :
       \/ Knowledge(Learn(l)) \/ Knowledge(Look(l)) \/ Knowledge(Fold(l)) \/ Knowledge(Create(l))
       \/ Knowledge(Rematch(l)) \/ Knowledge(Near(l)) \/ Knowledge(Rebirth(l)) \/ Knowledge(Link(l))
  \/ \E k \in Correctors :
       \/ Knowledge(Correct(k)) \/ Knowledge(FindMemory(k)) \/ Knowledge(CreateMemory(k))
       \/ Knowledge(Resolve(k)) \/ Knowledge(CheckEdge(k)) \/ Knowledge(Relate(k))
       \/ Knowledge(Decay(k))
  \/ \E r \in Rows : Knowledge(Feedback(r))
  \/ Knowledge(Crash)
  \/ Turn(T!Prompt) \/ Turn(T!HookReturns) \/ Turn(T!HookTimesOut) \/ Turn(T!Pushes)
  \/ \E n \in T!Turns : Turn(T!Preflight(n)) \/ Turn(T!Retrieve(n)) \/ Turn(T!TransformTimesOut(n))
  \/ \E s \in T!Stops :
       \/ Turn(T!Stop(s)) \/ Turn(T!Redeliver(s)) \/ Turn(T!IngestAssistant(s))
       \/ Turn(T!StopReturns(s)) \/ Turn(T!Evaluate(s)) \/ Turn(T!Postflight(s))
  \/ Turn(T!Shutdown) \/ Turn(T!Exit) \/ Turn(T!Dies)
  \/ \E text \in G!Texts : Cardinality(text) <= MaxNamed /\ Gate(G!UserPrompt(text))
  \/ \E y \in G!Subjects : Gate(G!AgentSays(y))
  \/ \E w \in G!Roles \X G!Subjects : Gate(G!Ingest(w))
  \/ \E f \in Files : Gate(G!Read(f)) \/ Gate(G!Edit(f))
  \/ \E c \in Commands : Gate(G!Bash(c))
  \/ Gate(G!GoesIdle)
  \/ Gate(G!StoreFails) \/ Gate(G!StoreReturns) \/ Gate(G!Forget)
  \/ \E k \in Spawns :
       \/ Agent(A!Spawn(k)) \/ Agent(A!Create(k)) \/ Agent(A!Seal(k)) \/ Agent(A!Start(k))
       \/ Agent(A!Stop(k)) \/ Agent(A!Redeliver(k)) \/ Agent(A!Select(k)) \/ Agent(A!Update(k))
       \/ Agent(A!Orphan(k))
  \/ \E u \in Edits : Agent(A!PreEdit(u)) \/ Agent(A!PostEdit(u))
  \/ Agent(A!UserPrompt) \/ Agent(A!TwoHours)
  \/ Agent(A!Vanish) \/ Agent(A!Reap) \/ Agent(A!Evict)

ConversationSpec == ConversationInit /\ [][ConversationNext]_ConversationVars

(* The variables of the four modules have their types (those of the three  *)
(* that stand still had them at the start).                                *)
ConversationTypeOK ==
  /\ part = "knowledge" => TypeOK
  /\ part = "turns" => T!TypeOK
  /\ part = "gates" => G!TypeOK
  /\ part = "agents" => A!TypeOK

(* TurnsKept of TurnFlow: outcomes are about the right answer and items,   *)
(* metrics are recorded once, and no orderly shutdown cuts off an          *)
(* evaluation (retrieval-quality.ts:112, stop.ts:86).                      *)
TurnsKept == part = "turns" => T!TurnsKept

(* StagedKept of TurnFlow: a slow evaluation takes away only its own       *)
(* entry, items that were given up are not staged, and only their skills   *)
(* get into another's entry (retrieval-quality.ts:166,                     *)
(* graph-context.ts:2274).                                                 *)
StagedKept == T!StagedKept

(* NoSelfAuthorisation of ToolGates: nothing the agent writes authorises a *)
(* destructive command (edit-gates.ts:135, 155).                           *)
NoSelfAuthorisation == part = "gates" => G!NoSelfAuthorisation

(* AgentsClosed of Subagents: a row in progress is remembered and closed   *)
(* by the stop of its own agent (subagent.ts:79, state.ts:424).            *)
AgentsClosed == part = "agents" => A!AgentsClosed
=============================================================================
