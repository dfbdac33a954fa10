------------------------------ MODULE TurnFlow ------------------------------
(***************************************************************************)
(* The turns of one conversation as its hooks see them: what               *)
(* UserPromptSubmit and Stop stash on the session for each other, what     *)
(* they leave running when they return, and which outcomes and metrics     *)
(* come of it (src/hook-handlers/user-prompt-submit.ts and stop.ts,        *)
(* src/context-assembler.ts, src/engine/retrieval-quality.ts, and          *)
(* orchestrator.ts).                                                       *)
(*                                                                         *)
(* A step is what runs without an await.  Staged items and skills are      *)
(* named by the turn they were found for, an assistant's row by the Stop   *)
(* that wrote it.  The user's rows, token counts and the daily roll-up are *)
(* left out.                                                               *)
(***************************************************************************)
EXTENDS Naturals, FiniteSets

CONSTANTS
  MaxTurns,  \* prompts of the conversation
  MaxStops,  \* deliveries of the Stop hook
  MaxFaults, \* bound on failures, time-outs, redeliveries and restarts
  Kinds      \* what prompts there are: "plain", "filler" (a bare "yes"), "bypass"

Turns == 1..MaxTurns
Stops == 1..MaxStops
None == 0

VARIABLES
  turn,      \* the last prompt
  kind,      \* turn -> what its prompt is
  phase,     \* the agent: "idle", "asking" (awaits the hook), "working", "stopping"
  assemble,  \* turn -> "off", "preflight", "retrieve" or "done"
  aborted,   \* turns whose transform was given up
  of,        \* stop -> the turn at its delivery, or None
  stop,      \* stop -> "off", "ingest", "after" or "done"
  \* the session, its orchestrator state, and the map of staged items
  lastAsst,  \* the stop of lastAssistantTurnId, or None
  said,      \* lastAssistantText is not empty
  index,     \* turnIndex
  pre,       \* the turn _pendingPreflight is of, or None
  push,      \* _pushDetected
  staged,    \* the turn of the entry of _pendingRetrievalBySession, or None
  skills,    \* the turn its skillDocs were found for, or None
  \* what a Stop leaves running: an evaluation and a postflight
  eval,      \* stop -> is it at work, the entry and the row it is about
  post,      \* stop -> is it at work, the turn and the index it is about
  \* the database
  outcomes,  \* retrieval_outcome, as <<evaluator, row, turn of the items>>
  metrics,   \* orchestrator_metrics: index -> turn whose measures it has
  \* the daemon, and history
  life,      \* "up" or "draining"
  restarted, \* it was restarted after the last prompt: there may be no session object
  awaited,   \* evaluations that the shutdown waits for
  caught,    \* stops that were still running when a shutdown began
  fresh,     \* turns that have staged items
  gone,      \* entries whose evaluation has ended
  cut,       \* evaluations that an orderly shutdown has cut off
  skipped,   \* turns whose postflight took them for recorded
  overlap,   \* two Stops have run at a time
  faults

agent   == <<turn, kind, phase>>
prompts == <<assemble, aborted>>
stops   == <<of, stop>>
session == <<lastAsst, said, index, pre, push>>
stash   == <<staged, skills>>
behind  == <<eval, post>>
rows    == <<outcomes, metrics>>
daemon  == <<life, restarted, awaited, caught>>
past    == <<fresh, gone, cut, skipped, overlap>>
vars    == <<agent, prompts, stops, session, stash, behind, rows, daemon, past, faults>>

NoEval == [on |-> FALSE, of |-> None, row |-> None]
NoPost == [on |-> FALSE, turn |-> None, index |-> 0]

TypeOK ==
  /\ turn \in 0..MaxTurns /\ kind \in [Turns -> Kinds]
  /\ phase \in {"idle", "asking", "working", "stopping"}
  /\ assemble \in [Turns -> {"off", "preflight", "retrieve", "done"}]
  /\ aborted \subseteq Turns /\ of \in [Stops -> Turns \cup {None}]
  /\ stop \in [Stops -> {"off", "ingest", "after", "done"}]
  /\ lastAsst \in Stops \cup {None} /\ said \in BOOLEAN /\ index \in 0..MaxTurns
  /\ {pre, staged, skills} \subseteq Turns \cup {None} /\ push \in BOOLEAN
  /\ eval \in [Stops -> [on : BOOLEAN, of : Turns \cup {None}, row : Stops \cup {None}]]
  /\ post \in [Stops -> [on : BOOLEAN, turn : Turns \cup {None}, index : 0..MaxTurns]]
  /\ outcomes \subseteq Stops \X Stops \X Turns /\ metrics \in [Turns -> Turns \cup {None}]
  /\ life \in {"up", "draining"} /\ restarted \in BOOLEAN /\ awaited \cup caught \subseteq Stops
  /\ fresh \cup gone \cup skipped \subseteq Turns /\ cut \subseteq Stops
  /\ overlap \in BOOLEAN /\ faults \in 0..MaxFaults

Init ==
  /\ turn = 0 /\ kind \in [Turns -> Kinds] /\ phase = "idle"
  /\ assemble = [n \in Turns |-> "off"] /\ aborted = {}
  /\ of = [s \in Stops |-> None] /\ stop = [s \in Stops |-> "off"]
  /\ lastAsst = None /\ said = FALSE /\ index = 0 /\ pre = None /\ push = FALSE
  /\ staged = None /\ skills = None
  /\ eval = [s \in Stops |-> NoEval] /\ post = [s \in Stops |-> NoPost]
  /\ outcomes = {} /\ metrics = [i \in Turns |-> None]
  /\ life = "up" /\ restarted = FALSE /\ awaited = {} /\ caught = {}
  /\ fresh = {} /\ gone = {} /\ cut = {} /\ skipped = {} /\ overlap = FALSE /\ faults = 0

-----------------------------------------------------------------------------
(* A definition named Bad... is a faulty variant of the one it precedes;   *)
(* no action uses it.                                                      *)

Fault == faults < MaxFaults /\ faults' = faults + 1

(* UserPromptSubmit, up to the preflight, which counts the turn at once.   *)
(* A bypass assembles nothing, nor does a daemon without a store or a      *)
(* model.  A user may prompt into the work of an earlier prompt; then that *)
(* turn has no Stop.                                                       *)
Prompt ==
  LET n == turn + 1 IN
  /\ life = "up" /\ phase \in {"idle", "working"} /\ turn < MaxTurns
  /\ turn' = n /\ phase' = "asking" /\ restarted' = FALSE
  /\ \/ kind[n] # "bypass" /\ assemble' = [assemble EXCEPT ![n] = "preflight"]
        /\ index' = index + 1 /\ UNCHANGED faults
     \/ kind[n] = "bypass" /\ assemble' = [assemble EXCEPT ![n] = "done"]
        /\ UNCHANGED <<index, faults>>
     \/ kind[n] # "bypass" /\ Fault /\ assemble' = [assemble EXCEPT ![n] = "done"]
        /\ UNCHANGED index
  /\ UNCHANGED <<kind, aborted, stops, lastAsst, said, pre, push, stash, behind, rows, life,
                 awaited, caught, past>>

(* What assembleContextString stashes for Stop.  A short prompt skips      *)
(* retrieval.                                                              *)
Preflight(n) ==
  /\ assemble[n] = "preflight" /\ pre' = n
  /\ assemble' = [assemble EXCEPT ![n] = IF kind[n] = "filler" THEN "done" ELSE "retrieve"]
  /\ UNCHANGED <<agent, aborted, stops, lastAsst, said, index, push, stash, behind, rows, daemon,
                 past, faults>>

(* graphTransformInner: items that were found make a new entry, unless the *)
(* caller has given up; the skills that were found go into the entry that  *)
(* is there, also if the caller has.                                       *)
BadStageRetrieval(n) == staged' = n /\ skills' \in {None, n} /\ fresh' = fresh \cup {n}
BadReplace(n) ==
  /\ n \notin aborted /\ fresh' = fresh \cup {n}
  /\ staged' = (IF staged = None THEN n ELSE staged) /\ skills' \in {skills, n}
BadFresh(n) ==
  n \notin aborted /\ staged' = n /\ skills' \in {skills, n} /\ fresh' = fresh \cup {n}
StageRetrieval(n) ==
  n \notin aborted /\ staged' = n /\ skills' \in {None, n} /\ fresh' = fresh \cup {n}
StageSkills(n) ==
  n \in aborted /\ staged # None /\ skills' = n /\ UNCHANGED <<staged, fresh>>

Retrieve(n) ==
  /\ assemble[n] = "retrieve" /\ assemble' = [assemble EXCEPT ![n] = "done"]
  /\ StageRetrieval(n) \/ StageSkills(n) \/ UNCHANGED <<stash, fresh>>
  /\ UNCHANGED <<agent, aborted, stops, session, behind, rows, daemon, gone, cut, skipped, overlap,
                 faults>>

(* The deadline of graphTransformContext, which aborts the transform, and  *)
(* that of a hook, which aborts nothing.                                   *)
TransformTimesOut(n) ==
  /\ assemble[n] = "retrieve" /\ n \notin aborted /\ Fault /\ aborted' = aborted \cup {n}
  /\ UNCHANGED <<agent, assemble, stops, session, stash, behind, rows, daemon, past>>

HookTimesOut ==
  /\ phase \in {"asking", "stopping"} /\ Fault
  /\ phase' = IF phase = "asking" THEN "working" ELSE "idle"
  /\ UNCHANGED <<turn, kind, prompts, stops, session, stash, behind, rows, daemon, past>>

HookReturns ==
  /\ phase = "asking" /\ (assemble[turn] = "done" \/ turn \in aborted) /\ phase' = "working"
  /\ UNCHANGED <<turn, kind, prompts, stops, session, stash, behind, rows, daemon, past, faults>>

(* PreToolUse sees a git push.                                             *)
Pushes ==
  /\ life = "up" /\ phase = "working" /\ push' = TRUE
  /\ UNCHANGED <<agent, prompts, stops, lastAsst, said, index, pre, stash, behind, rows, daemon,
                 past, faults>>

-----------------------------------------------------------------------------
(* Stop, up to its first wait.  The text is read from the transcript, and  *)
(* if that fails the text of an earlier turn is taken.  The pointer is     *)
(* cleared before the row is written.  In a session the daemon does not    *)
(* know, the hook does nothing; a tool call may have made it again.        *)
BadClearPointer == UNCHANGED lastAsst
ClearPointer == lastAsst' = None

Deliver(s, read) ==
  /\ life = "up" /\ of[s] = None /\ \A o \in 1..(s - 1) : of[o] # None
  /\ of' = [of EXCEPT ![s] = turn]
  /\ overlap' = (overlap \/ \E o \in Stops : stop[o] \in {"ingest", "after"})
  /\ \/ /\ said' = (said \/ read)
        /\ IF said' THEN stop' = [stop EXCEPT ![s] = "ingest"] /\ ClearPointer
           ELSE stop' = [stop EXCEPT ![s] = "after"] /\ UNCHANGED lastAsst
     \/ restarted /\ stop' = [stop EXCEPT ![s] = "done"] /\ UNCHANGED <<said, lastAsst>>
  /\ UNCHANGED <<turn, kind, prompts, index, pre, push, stash, behind, rows, daemon, fresh, gone,
                 cut, skipped>>

Stop(s) ==
  /\ phase = "working"
  /\ \/ Deliver(s, TRUE) /\ UNCHANGED faults
     \/ Deliver(s, FALSE) /\ Fault
  /\ phase' = IF stop'[s] = "done" THEN "idle" ELSE "stopping"

Redeliver(s) ==
  /\ phase \in {"idle", "stopping"} /\ turn # 0 /\ Fault /\ Deliver(s, TRUE) /\ UNCHANGED phase

(* ingestTurn for the assistant, which may write nothing: a filler, a      *)
(* store that fails.                                                       *)
IngestAssistant(s) ==
  /\ stop[s] = "ingest" /\ stop' = [stop EXCEPT ![s] = "after"] /\ lastAsst' \in {s, lastAsst}
  /\ UNCHANGED <<agent, prompts, of, said, index, pre, push, stash, behind, rows, daemon, past,
                 faults>>

(* The rest of Stop runs at once: it starts the evaluation and the         *)
(* postflight, if there is a store, and blocks the end after a push.       *)
StartEval(s) ==
  eval' = IF lastAsst = None \/ staged = None THEN eval
          ELSE [eval EXCEPT ![s] = [on |-> TRUE, of |-> staged, row |-> lastAsst]]

BadStartPost(s) ==
  /\ post' = IF pre = None THEN post
             ELSE [post EXCEPT ![s] = [on |-> TRUE, turn |-> pre, index |-> index]]
  /\ UNCHANGED pre
StartPost(s) ==
  /\ post' = IF pre = None THEN post
             ELSE [post EXCEPT ![s] = [on |-> TRUE, turn |-> pre, index |-> index]]
  /\ pre' = None

StopReturns(s) ==
  /\ stop[s] = "after" /\ stop' = [stop EXCEPT ![s] = "done"] /\ push' = FALSE
  /\ \/ StartEval(s) /\ StartPost(s) /\ UNCHANGED faults
     \/ Fault /\ UNCHANGED <<eval, post, pre>>
  /\ phase' = IF phase # "stopping" \/ of[s] # turn THEN phase
              ELSE IF push THEN "working" ELSE "idle"
  /\ UNCHANGED <<turn, kind, prompts, of, lastAsst, said, index, stash, rows, daemon, past>>

-----------------------------------------------------------------------------
(* evaluateRetrieval.  Its finally clause removes the entry it still owns. *)
BadRelease(entry) == staged' = None /\ skills' = None
Release(entry) ==
  IF staged = entry THEN staged' = None /\ skills' = None ELSE UNCHANGED stash

(* It may write nothing: a short answer, weak items, a statement that      *)
(* fails.                                                                  *)
Evaluate(s) ==
  /\ eval[s].on /\ eval' = [eval EXCEPT ![s].on = FALSE]
  /\ Release(eval[s].of) /\ gone' = gone \cup {eval[s].of}
  /\ outcomes' \in {outcomes, outcomes \cup {<<s, eval[s].row, eval[s].of>>}}
  /\ UNCHANGED <<agent, prompts, stops, session, post, metrics, daemon, fresh, cut, skipped, overlap,
                 faults>>

(* postflight: the SELECT is about the index at the call, the CREATE about *)
(* the index when the answer has come; the UNIQUE index may reject it.     *)
Postflight(s) ==
  /\ post[s].on /\ post' = [post EXCEPT ![s].on = FALSE]
  /\ IF metrics[post[s].index] # None
     THEN skipped' = skipped \cup {post[s].turn} /\ UNCHANGED metrics
     ELSE /\ metrics' = IF metrics[index] # None THEN metrics
                        ELSE [metrics EXCEPT ![index] = post[s].turn]
          /\ UNCHANGED skipped
  /\ UNCHANGED <<agent, prompts, stops, session, stash, eval, outcomes, daemon, fresh, gone, cut,
                 overlap, faults>>

-----------------------------------------------------------------------------
(* gracefulCleanup when its listeners are closed: no more hooks are        *)
(* admitted, and awaitPendingTasks waits for the evaluations that are      *)
(* registered by now.                                                      *)
Shutdown ==
  /\ life = "up" /\ Fault /\ life' = "draining"
  /\ awaited' = {s \in Stops : eval[s].on}
  /\ caught' = caught \cup {s \in Stops : stop[s] \in {"ingest", "after"}}
  /\ UNCHANGED <<agent, prompts, stops, session, stash, behind, rows, restarted, past>>

BadDrained == TRUE
Drained == \A s \in awaited : ~eval[s].on

(* The process ends; the next one finds the conversation in the middle.    *)
Restart ==
  /\ lastAsst' = None /\ said' = FALSE /\ index' = 0 /\ pre' = None /\ push' = FALSE
  /\ staged' = None /\ skills' = None /\ aborted' = {}
  /\ life' = "up" /\ restarted' = TRUE /\ awaited' = {}
  /\ assemble' = [n \in Turns |-> IF n <= turn THEN "done" ELSE "off"]
  /\ stop' = [s \in Stops |-> IF of[s] = None THEN "off" ELSE "done"]
  /\ eval' = [s \in Stops |-> [eval[s] EXCEPT !.on = FALSE]]
  /\ post' = [s \in Stops |-> [post[s] EXCEPT !.on = FALSE]]
  /\ phase' = IF phase \in {"asking", "working"} THEN "working" ELSE "idle"
  /\ gone' = gone \cup ({staged} \ {None})
  /\ UNCHANGED <<turn, kind, of, rows, caught, fresh, skipped, overlap>>

Exit ==
  /\ life = "draining" /\ Drained /\ Restart /\ UNCHANGED faults
  /\ cut' = cut \cup {s \in Stops : eval[s].on}

(* It dies; so it does when the evaluations or the rest of the clean-up    *)
(* exceed their deadlines.                                                 *)
Dies == Fault /\ Restart /\ UNCHANGED cut

Next ==
  \/ Prompt \/ HookReturns \/ HookTimesOut \/ Pushes
  \/ \E n \in Turns : Preflight(n) \/ Retrieve(n) \/ TransformTimesOut(n)
  \/ \E s \in Stops : Stop(s) \/ Redeliver(s) \/ IngestAssistant(s) \/ StopReturns(s)
  \/ \E s \in Stops : Evaluate(s) \/ Postflight(s)
  \/ Shutdown \/ Exit \/ Dies

Spec == Init /\ [][Next]_vars

-----------------------------------------------------------------------------
(* What has been staged stays until an evaluation of that very entry is    *)
(* over or another turn stages its own: a slow evaluation does not take    *)
(* away what the next turn has staged (retrieval-quality.ts:166).  The     *)
(* items a transform finds after its caller has given up are not staged:   *)
(* they were never seen (graph-context.ts:2274).  The skills of an entry   *)
(* are those of its own turn, or of a transform that was given up          *)
(* (graph-context.ts:2297).                                                *)
StagedKept ==
  [][/\ staged # None /\ staged' = None => staged \in gone'
     /\ staged' # staged => staged' \notin aborted
     /\ stash' # stash => skills' \in {None, staged'} \cup aborted']_vars

(* An evaluation judges no skills of a transform that was given up, which  *)
(* the agent was never shown (graph-context.ts:2272).  It fails: see       *)
(* "Other divergences".                                                    *)
SkillsShown == [][\A s \in Stops : eval'[s].on /\ ~eval[s].on => skills \notin aborted]_vars

(* An outcome is about the answer of the Stop that evaluates it, unless    *)
(* two Stops ran at a time (context-assembler.ts:260).                     *)
OwnAnswer == overlap \/ \A o \in outcomes : o[1] = o[2]

(* A turn that has staged items is not judged by those of another turn     *)
(* (retrieval-quality.ts:112).                                             *)
OwnItems == faults = 0 => \A o \in outcomes : of[o[1]] \in fresh => of[o[1]] = o[3]

(* The measures of a turn are recorded once, however often its Stop is     *)
(* delivered (stop.ts:118, orchestrator.ts:337).                           *)
MetricsOnce == \A i, j \in Turns : metrics[i] # None /\ metrics[i] = metrics[j] => i = j

(* An orderly shutdown cuts off no evaluation whose Stop had returned      *)
(* (stop.ts:86, daemon/index.ts:899).                                      *)
OutcomesSurvive == cut \subseteq caught

(* All of these: what the turns of a conversation leave behind.            *)
TurnsKept == OwnAnswer /\ OwnItems /\ MetricsOnce /\ OutcomesSurvive

(* A turn that is passed over as "already recorded" is recorded            *)
(* (orchestrator.ts:352).  It fails: see "Other divergences".              *)
MetricsRecorded == skipped \subseteq {metrics[i] : i \in Turns}
=============================================================================
