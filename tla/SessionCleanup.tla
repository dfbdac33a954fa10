--------------------------- MODULE SessionCleanup ---------------------------
(***************************************************************************)
(* How a session ends.  SessionEnd (src/hook-handlers/session-end.ts) and  *)
(* the deferred pass that every SessionStart runs over the rows of dead    *)
(* sessions (src/engine/deferred-cleanup.ts) both claim a session row in   *)
(* the database and queue its background work; src/engine/state.ts keeps   *)
(* the sessions the daemon has in memory.                                  *)
(*                                                                         *)
(* A conversation is a Claude Code session id: it may have several rows,   *)
(* as every SessionStart creates one.  A worker is one call of either      *)
(* handler; its awaits are the steps.                                      *)
(***************************************************************************)
EXTENDS Naturals, Sequences, SequencesExt

CONSTANTS
  Conversations,
  Workers,      \* bound on the handlers that run at a time
  Rows,         \* bound on the session rows that matter at a time
  GradTypes,    \* the graduation work types (causal_graduate, soul_*)
  OrphanLimit,  \* ORPHAN_LIMIT
  MaxFaults,    \* bound on failed statements, lost replies and restarts of
                \* the daemon
  None

VARIABLES
  conv,     \* row -> its conversation (kc_session_id), None for a free row
  closed,   \* rows with cleanup_completed = true
  token,    \* row -> the worker whose claim token it carries, None for none
            \* and for one that nobody will send again
  bound,    \* conversation -> the row of its session in memory, None if none
  heard,    \* conversations with userTurnCount >= 2 in memory
  pending,  \* conversations with a pending extraction
  grads,    \* graduation type -> the conversations with a pending row
  raced,    \* types for which two handlers passed the gate together, or one
            \* whose check failed (history)
  pc,       \* worker -> where it is
  client,   \* worker -> the conversation it ends, None for a deferred pass
  said,     \* workers that end a session whose userTurnCount is 2 or more
  rest,     \* worker -> the rows its pass has yet to do
  todo,     \* worker -> graduation types it has yet to check
  ops,      \* worker -> CREATEs without an answer
  oks,      \* workers with a CREATE that succeeded
  fails,    \* workers with a CREATE that failed
  queued,   \* row -> extractions its handlers know they have queued
            \* (history, up to 2)
  faults

store   == <<conv, closed, token>>
memory  == <<bound, heard>>
queue   == <<pending, grads, raced>>
worker  == <<pc, client, said, rest, todo, ops, oks, fails>>
vars == <<store, memory, queue, worker, queued, faults>>

CREATEs == {"extract"} \cup GradTypes

TypeOK ==
  /\ conv \in [Rows -> Conversations \cup {None}]
  /\ closed \subseteq {r \in Rows : conv[r] # None}
  /\ token \in [Rows -> Workers \cup {None}]
  /\ bound \in [Conversations -> Rows \cup {None}]
  /\ heard \subseteq {c \in Conversations : bound[c] # None}
  /\ pending \subseteq Conversations /\ grads \in [GradTypes -> SUBSET Conversations]
  /\ raced \subseteq GradTypes
  /\ pc \in [Workers -> {"idle", "claim", "count", "gate", "settle"}]
  /\ client \in [Workers -> Conversations \cup {None}]
  /\ rest \in [Workers -> Seq(Rows)]
  /\ todo \in [Workers -> SUBSET GradTypes]
  /\ ops \in [Workers -> SUBSET CREATEs]
  /\ said \subseteq Workers /\ oks \subseteq Workers /\ fails \subseteq Workers
  /\ queued \in [Rows -> 0..2]
  /\ faults \in 0..MaxFaults

Init ==
  /\ conv = [r \in Rows |-> None] /\ closed = {}
  /\ token = [r \in Rows |-> None]
  /\ bound = [c \in Conversations |-> None]
  /\ heard = {} /\ pending = {} /\ grads = [t \in GradTypes |-> {}] /\ raced = {}
  /\ pc = [w \in Workers |-> "idle"] /\ client = [w \in Workers |-> None]
  /\ said = {} /\ rest = [w \in Workers |-> <<>>] /\ todo = [w \in Workers |-> {}]
  /\ ops = [w \in Workers |-> {}] /\ oks = {} /\ fails = {}
  /\ queued = [r \in Rows |-> 0] /\ faults = 0

-----------------------------------------------------------------------------
(* A definition named Bad... is a faulty variant of the one it precedes;   *)
(* no action uses it.                                                      *)

Fault == faults < MaxFaults /\ faults' = faults + 1

(* The row a worker is at: its pass's next one, or the one SessionEnd took.*)
Row(w) == Head(rest[w])
Owns(w) == pc[w] \in {"count", "gate", "settle"}

(* A row nothing refers to is used again for a new session.                *)
Unused(r) ==
  /\ conv[r] # None => r \in closed
  /\ \A c \in Conversations : bound[c] # r
  /\ \A w \in Workers : r \notin Range(rest[w])

(* createSession and markSessionActive, for conversation c.                *)
Created(c, r) ==
  /\ conv' = [conv EXCEPT ![r] = c]
  /\ closed' = closed \ {r}
  /\ token' = [token EXCEPT ![r] = None]
  /\ queued' = [queued EXCEPT ![r] = 0]

(* getOrphanedSessions: open rows.  Which of them are two minutes old, and *)
(* which started first, is left open.                                      *)
Orphans ==
  LET open == {r \in Rows : conv[r] # None} \ closed
  IN  UNION {{s \in [1..n -> open] : IsInjective(s)} : n \in 1..OrphanLimit}

(* What a worker has in hand when it takes up the rows of s.               *)
TakeUp(w, s) ==
  /\ rest' = [rest EXCEPT ![w] = s]
  /\ pc' = [pc EXCEPT ![w] = IF s = <<>> THEN "idle" ELSE "claim"]
  /\ client' = [client EXCEPT ![w] = IF s = <<>> THEN None ELSE @]
  /\ todo' = [todo EXCEPT ![w] = {}] /\ ops' = [ops EXCEPT ![w] = {}]
  /\ said' = said \ {w} /\ oks' = oks \ {w} /\ fails' = fails \ {w}

(* removeSession, at every exit of SessionEnd but a claim that threw.      *)
BadRemoved(w) ==
  /\ bound' = [c \in Conversations |-> IF c = client[w] THEN None ELSE bound[c]]
  /\ UNCHANGED heard
Removed(w) ==
  /\ bound' = [c \in Conversations |-> IF c = client[w] THEN None ELSE bound[c]]
  /\ heard' = heard \ {client[w]}

Onward(w) == TakeUp(w, Tail(rest[w]))

-----------------------------------------------------------------------------
(* handleSessionStart: a new row whatever rows c has.  Its pass is Pass.   *)
SessionStart(c, r) ==
  /\ Unused(r) /\ Created(c, r)
  /\ bound' = [bound EXCEPT ![c] = r]
  /\ UNCHANGED <<heard, queue, worker, faults>>

(* handleUserPromptSubmit: a session the daemon does not know any more is  *)
(* given one of the rows of c, open or closed, or else a new one.          *)
Prompt(c) ==
  /\ bound[c] = None
  /\ \E r \in Rows :
       /\ bound' = [bound EXCEPT ![c] = r]
       /\ \/ conv[r] = c /\ UNCHANGED <<store, queued>>
          \/ (\A x \in Rows : conv[x] # c) /\ Unused(r) /\ Created(c, r)
  /\ UNCHANGED <<heard, queue, worker, faults>>

(* The second prompt or answer, also of a session that is being ended.     *)
SecondTurn(c) ==
  /\ bound[c] # None /\ c \notin heard
  /\ heard' = heard \cup {c}
  /\ said' = said \cup {w \in Workers : client[w] = c /\ pc[w] = "claim"}
  /\ UNCHANGED <<store, bound, queue, pc, client, rest, todo, ops, oks, fails, queued, faults>>

(* The LRU cap of getOrCreateSession, or reapStaleSessions.                *)
Evict(c) ==
  /\ bound[c] # None
  /\ bound' = [bound EXCEPT ![c] = None] /\ heard' = heard \ {c}
  /\ UNCHANGED <<store, queue, worker, queued, faults>>

(* handleSessionEnd, up to the claim; a duplicate may run beside it.       *)
SessionEnd(c, w) ==
  /\ bound[c] # None /\ pc[w] = "idle"
  /\ pc' = [pc EXCEPT ![w] = "claim"]
  /\ client' = [client EXCEPT ![w] = c] /\ said' = IF c \in heard THEN said \cup {w} ELSE said
  /\ rest' = [rest EXCEPT ![w] = <<bound[c]>>]
  /\ UNCHANGED <<store, memory, queue, todo, ops, oks, fails, queued, faults>>

(* runDeferredCleanup, some time after the row of a SessionStart was made, *)
(* be it of a conversation that is not modelled.                           *)
Pass(w) ==
  /\ pc[w] = "idle"
  /\ \E s \in Orphans : TakeUp(w, s)
  /\ UNCHANGED <<store, memory, queue, queued, faults>>

-----------------------------------------------------------------------------
(* The WHERE of claimSessionForCleanup.                                    *)
BadClaimable(w) == TRUE
Claimable(w) == Row(w) \notin closed \/ token[Row(w)] = w

Closes(w) == closed' = closed \cup {Row(w)} /\ UNCHANGED conv

(* The winner: SessionEnd starts the extraction in the same turn of the    *)
(* event loop, the deferred pass counts the turns first.                   *)
Claim(w) ==
  /\ pc[w] = "claim" /\ Claimable(w)
  /\ Closes(w) /\ token' = [token EXCEPT ![Row(w)] = w]
  /\ todo' = [todo EXCEPT ![w] = GradTypes]
  /\ IF client[w] = None
     THEN pc' = [pc EXCEPT ![w] = "count"] /\ UNCHANGED ops
     ELSE /\ pc' = [pc EXCEPT ![w] = "gate"]
          /\ ops' = [ops EXCEPT ![w] = IF w \in said THEN {"extract"} ELSE {}]
  /\ said' = said \ {w}
  /\ UNCHANGED <<memory, queue, client, rest, oks, fails, queued, faults>>

(* The claim lands and its reply is lost: withRetry sends it again.        *)
ClaimReplyLost(w) ==
  /\ pc[w] = "claim" /\ Claimable(w) /\ Fault
  /\ Closes(w) /\ token' = [token EXCEPT ![Row(w)] = w]
  /\ UNCHANGED <<memory, queue, worker, queued>>

(* A sibling has the row.                                                  *)
ClaimLost(w) ==
  /\ pc[w] = "claim" /\ ~Claimable(w)
  /\ Onward(w) /\ Removed(w)
  /\ UNCHANGED <<store, queue, queued, faults>>

(* The claim throws, landed or not: SessionEnd keeps the session in        *)
(* memory, a pass goes on with its next row.                              *)
ClaimThrows(w) ==
  /\ pc[w] = "claim" /\ Fault
  /\ \/ UNCHANGED <<conv, closed>>
     \/ Claimable(w) /\ Closes(w)
  /\ token' = [r \in Rows |-> IF token[r] = w THEN None ELSE token[r]]
  /\ Onward(w)
  /\ UNCHANGED <<memory, queue, queued>>

(* countTurnsForSession: two or more, or fewer; an error is taken for none.*)
Count(w) ==
  /\ pc[w] = "count"
  /\ pc' = [pc EXCEPT ![w] = "gate"]
  /\ ops' \in {ops, [ops EXCEPT ![w] = {"extract"}]}
  /\ UNCHANGED <<store, memory, queue, client, said, rest, todo, oks, fails, queued, faults>>

-----------------------------------------------------------------------------
(* hasPendingWorkOfType: an error is taken for none.                       *)
BadQueueIt(w, t) == TRUE
QueueIt(w, t) == grads[t] = {}

Gate(w, t) ==
  /\ pc[w] = "gate" /\ t \in todo[w]
  /\ \/ /\ ops' = [ops EXCEPT ![w] = IF QueueIt(w, t) THEN @ \cup {t} ELSE @]
        /\ raced' = IF QueueIt(w, t) /\ \E v \in Workers : t \in ops[v] THEN raced \cup {t} ELSE raced
        /\ UNCHANGED faults
     \/ ops' = [ops EXCEPT ![w] = @ \cup {t}] /\ raced' = raced \cup {t} /\ Fault
  /\ todo' = [todo EXCEPT ![w] = @ \ {t}]
  /\ pc' = [pc EXCEPT ![w] = IF todo[w] = {t} THEN "settle" ELSE "gate"]
  /\ UNCHANGED <<store, memory, pending, grads, client, said, rest, oks, fails, queued>>

(* The UNIQUE index on (session_id, work_type, status).                    *)
Taken(w, o) == conv[Row(w)] \in IF o = "extract" THEN pending ELSE grads[o]

(* The row of CREATE o of worker w.                                        *)
Lands(w, o) ==
  IF o = "extract"
  THEN pending' = pending \cup {conv[Row(w)]} /\ UNCHANGED <<grads, raced>>
  ELSE grads' = [grads EXCEPT ![o] = @ \cup {conv[Row(w)]}] /\ UNCHANGED <<pending, raced>>

Answered(w, o) ==
  /\ o \in ops[w] /\ ops' = [ops EXCEPT ![w] = @ \ {o}]
  /\ UNCHANGED <<store, memory, pc, client, said, rest, todo>>

Create(w, o) ==
  /\ Answered(w, o) /\ ~Taken(w, o) /\ Lands(w, o)
  /\ oks' = oks \cup {w}
  /\ queued' = [queued EXCEPT ![Row(w)] = IF o = "extract" /\ @ < 2 THEN @ + 1 ELSE @]
  /\ UNCHANGED <<fails, faults>>

(* Rejected by the index; or an error, and the row may be there.  A CREATE *)
(* that withRetry sends again is rejected if its first attempt landed.     *)
CreateFails(w, o) ==
  /\ Answered(w, o)
  /\ fails' = fails \cup {w}
  /\ \/ Taken(w, o) /\ UNCHANGED <<queue, faults>>
     \/ Fault /\ UNCHANGED queue
     \/ Fault /\ ~Taken(w, o) /\ Lands(w, o)
  /\ UNCHANGED <<oks, queued>>

(* Promise.allSettled: every CREATE is answered.                           *)
Settled(w) == pc[w] = "settle" /\ ops[w] = {}
BadHonoured(w) == w \notin fails
Honoured(w) == w \in oks \/ w \notin fails

(* clearSessionClaim; a token that stays is nobody's.                      *)
Honour(w) ==
  /\ Settled(w) /\ Honoured(w)
  /\ Onward(w) /\ Removed(w)
  /\ token' = [token EXCEPT ![Row(w)] = None]
  /\ UNCHANGED <<conv, closed, queue, queued, faults>>

(* releaseSessionClaim, after no CREATE succeeded; its error is swallowed. *)
Release(w) ==
  /\ Settled(w) /\ ~Honoured(w)
  /\ Onward(w) /\ Removed(w)
  /\ token' = [token EXCEPT ![Row(w)] = None]
  /\ \/ closed' = closed \ {Row(w)} /\ UNCHANGED faults
     \/ UNCHANGED closed /\ Fault
  /\ UNCHANGED <<conv, queue, queued>>

-----------------------------------------------------------------------------
(* The daemon restarts; an extraction on its way may land.                 *)
Restart ==
  /\ \E w \in Workers : pc[w] # "idle"
  /\ Fault
  /\ \E L \in SUBSET {w \in Workers : "extract" \in ops[w] /\ ~Taken(w, "extract")} :
       pending' = pending \cup {conv[Row(w)] : w \in L}
  /\ bound' = [c \in Conversations |-> None] /\ heard' = {}
  /\ pc' = [w \in Workers |-> "idle"] /\ client' = [w \in Workers |-> None]
  /\ said' = {} /\ rest' = [w \in Workers |-> <<>>] /\ todo' = [w \in Workers |-> {}]
  /\ ops' = [w \in Workers |-> {}] /\ oks' = {} /\ fails' = {}
  /\ token' = [r \in Rows |-> None]
  /\ UNCHANGED <<conv, closed, grads, raced, queued>>

(* A drain does the pending extraction of c, or the graduations of t.      *)
Extracted(c) ==
  /\ c \in pending /\ pending' = pending \ {c}
  /\ UNCHANGED <<store, memory, grads, raced, worker, queued, faults>>
Graduated(t) ==
  /\ grads[t] # {} /\ grads' = [grads EXCEPT ![t] = {}] 
  /\ raced' = IF \E w \in Workers : t \in ops[w] THEN raced ELSE raced \ {t}
  /\ UNCHANGED <<store, memory, pending, worker, queued, faults>>

Work(w) ==
  \/ Claim(w) \/ ClaimReplyLost(w) \/ ClaimLost(w) \/ ClaimThrows(w)
  \/ Count(w) \/ (\E t \in GradTypes : Gate(w, t))
  \/ (\E o \in CREATEs : Create(w, o) \/ CreateFails(w, o))
  \/ Honour(w) \/ Release(w)

Next ==
  \/ \E c \in Conversations :
       \/ \E r \in Rows : SessionStart(c, r)
       \/ \E w \in Workers : SessionEnd(c, w)
       \/ Prompt(c) \/ SecondTurn(c) \/ Evict(c) \/ Extracted(c)
  \/ \E w \in Workers : Pass(w) \/ Work(w)
  \/ \E t \in GradTypes : Graduated(t)
  \/ Restart

Spec == Init /\ [][Next]_vars

-----------------------------------------------------------------------------
(* A row has one winner at a time, whoever claims it, and however often a  *)
(* claim is sent (surreal.ts, claimSessionForCleanup).                     *)
OneWinner == \A v, w \in Workers :
  v # w /\ Owns(v) /\ Owns(w) => Row(v) # Row(w)

(* The two handlers, their duplicates and the releases queue at most one   *)
(* extraction for a row, not counting a CREATE that landed and was         *)
(* reported failed (session-end.ts, deferred-cleanup.ts, the branches of a *)
(* total failure).                                                         *)
ExtractedOnce == \A r \in Rows : queued[r] <= 1

(* hasPendingWorkOfType is read before the CREATE: sessions that end       *)
(* together may each queue a graduation, and a check that fails queues one;*)
(* but sessions that end one after the other do not pile them up           *)
(* (session-end.ts 108-126).                                               *)
GraduationsBounded == \A t \in GradTypes \ raced : \A c, d \in grads[t] : c = d

(* The end of a session has one winner and queues its work once.           *)
EndedOnce == OneWinner /\ ExtractedOnce /\ GraduationsBounded

(* "A sibling (deferredCleanup, or a duplicate SessionEnd event) already   *)
(* claimed this session. They will queue the work" (session-end.ts).       *)
LoserIsCovered == [][\A w \in Workers :
  ClaimLost(w) /\ w \in said =>
    queued[Row(w)] > 0 \/ \E v \in Workers : Owns(v) /\ Row(v) = Row(w)]_vars
=============================================================================
