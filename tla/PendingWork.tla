---------------------------- MODULE PendingWork ----------------------------
(***************************************************************************)
(* The durable work queue of the daemon: the table pending_work and the    *)
(* two handlers that drain it, handleFetchPendingWork and                  *)
(* handleCommitWorkResults (src/tools/pending-work.ts).                    *)
(*                                                                         *)
(* Every call of a handler is a process of the daemon's event loop: it     *)
(* runs to its next query and then any other call may run.  One action is  *)
(* one query (one round trip to SurrealDB).  The drainer, a headless       *)
(* agent, is only present through what it was handed: a work item that was *)
(* delivered to it and that it may commit, commit twice, or forget.        *)
(*                                                                         *)
(* The clock is abstracted to one bit per row: stale[r] says that the      *)
(* row's processing_started_at is more than ten minutes old.               *)
(***************************************************************************)
EXTENDS Naturals, FiniteSets

CONSTANTS
  Rows,       \* the record ids of pending_work
  KeyOf,      \* KeyOf[r] is the pair (session_id, work_type) of row r
  Rank,       \* Rank[r] is the position of r in ORDER BY priority, created_at
  Fetchers,   \* the concurrent calls of fetch_pending_work
  Commits,    \* the concurrent calls of commit_work_results
  NoRow,      \* a call that holds no row
  NoToken,    \* committing_token IS NONE
  MaxFaults   \* bound on the adverse events of a behaviour (see Fault)

ASSUME RowsAssumption ==
  /\ IsFiniteSet(Rows) /\ NoRow \notin Rows
  /\ DOMAIN KeyOf = Rows
  /\ Rank \in [Rows -> Nat]
  /\ \A q, r \in Rows : Rank[q] = Rank[r] => q = r
ASSUME CallsAssumption ==
  /\ IsFiniteSet(Commits) /\ NoToken \notin Commits
  /\ MaxFaults \in Nat

VARIABLES
  status,     \* row -> "absent" (not yet created) or its status column
  active,     \* row -> the soft-archive flag: FALSE once archived
  token,      \* row -> its committing_token
  stale,      \* row -> processing_started_at lies more than 10 minutes back
  fpc,        \* fetch call -> its next query
  snap,       \* fetch call -> stuck rows it selected and has not handled yet
  cand,       \* fetch call -> candidate rows it selected and has not tried
  item,       \* fetch call -> the row it claimed and the number of that claim
  cpc,        \* commit call -> its next query
  arg,        \* commit call -> the work_id it commits, and of which claim
  goal,       \* commit call -> the terminal status it is going to stamp
  handed,     \* the work items in the hands of drainers
  claims,     \* row -> number of times it was claimed          (history)
  reverts,    \* row -> number of times recovery re-opened it   (history)
  writes,     \* row -> number of times its results were written (history)
  settled,    \* row -> "no"; "failed" once it was recorded as such; or "done":
              \* its results were written, or there were none  (history)
  purged,     \* row -> archived by the 7 day purge             (history)
  faults      \* number of adverse events so far

table   == <<status, active, token, stale>>
fetch   == <<fpc, snap, cand, item>>
commit  == <<cpc, arg, goal>>
history == <<claims, reverts, writes, settled, purged>>
vars    == <<table, fetch, commit, handed, history, faults>>

Statuses == {"absent", "pending", "processing", "committing", "completed", "failed"}
Terminal == {"completed", "failed"}
Work     == [row : Rows, claim : Nat]
NoWork   == [row |-> NoRow, claim |-> 0]

(* Definitions named Bad... are faulty variants of the definition they     *)
(* precede.  No action uses them: they show that a property can fail.      *)

(* The active rows that share r's session and work type.                   *)
Siblings(r) == {q \in Rows \ {r} : active[q] /\ KeyOf[q] = KeyOf[r]}

(* The UNIQUE index over dedup_key: an active row is keyed on (session,    *)
(* work type, status), an archived one on its own id.                      *)
Taken(r, s)   == \E q \in Siblings(r) : status[q] = s
Rejects(r, s) == active[r] /\ Taken(r, s)

BadStuck == {r \in Rows : status[r] = "processing" /\ stale[r] /\ active[r]}

Stuck == {r \in Rows : status[r] \in {"processing", "committing"} /\ stale[r] /\ active[r]}

(* SELECT ... WHERE status = "pending" ORDER BY ... LIMIT 3                *)
Pending    == {r \in Rows : status[r] = "pending" /\ active[r]}
Candidates == {r \in Pending : Cardinality({q \in Pending : Rank[q] < Rank[r]}) < 3}

(* ORDER BY, as a choice: the row of S that comes first.                   *)
First(S, r) == r \in S /\ \A q \in S : Rank[r] <= Rank[q]

(* A fault is an adverse event the code must survive.  MaxFaults bounds    *)
(* their number in a behaviour.                                            *)
Fault == faults < MaxFaults /\ faults' = faults + 1

Init ==
  /\ status = [r \in Rows |-> "absent"]
  /\ active = [r \in Rows |-> FALSE]
  /\ token  = [r \in Rows |-> NoToken]
  /\ stale  = [r \in Rows |-> FALSE]
  /\ fpc  = [f \in Fetchers |-> "idle"]
  /\ snap = [f \in Fetchers |-> {}]
  /\ cand = [f \in Fetchers |-> {}]
  /\ item = [f \in Fetchers |-> NoWork]
  /\ cpc  = [c \in Commits |-> "idle"]
  /\ arg  = [c \in Commits |-> NoWork]
  /\ goal = [c \in Commits |-> "completed"]
  /\ handed = {}
  /\ claims  = [r \in Rows |-> 0]
  /\ reverts = [r \in Rows |-> 0]
  /\ writes  = [r \in Rows |-> 0]
  /\ settled = [r \in Rows |-> "no"]
  /\ purged  = [r \in Rows |-> FALSE]
  /\ faults = 0

-----------------------------------------------------------------------------
(* The environment of the two handlers: rows appear, age and are purged.   *)

(* CREATE pending_work, by session-end or by the deferred cleanup; the     *)
(* index refuses a second pending row of the same session and type.        *)
Enqueue(r) ==
  /\ status[r] = "absent" /\ ~Taken(r, "pending")
  /\ status' = [status EXCEPT ![r] = "pending"]
  /\ active' = [active EXCEPT ![r] = TRUE]
  /\ UNCHANGED <<token, stale, fetch, commit, handed, history, faults>>

(* Somebody still works on row r, or holds it and may commit it.           *)
InUse(r) ==
  \/ \E f \in Fetchers : item[f].row = r
  \/ \E c \in Commits : arg[c].row = r
  \/ \E h \in handed : h.row = r

(* Ten minutes have passed since the row was claimed, or since its commit  *)
(* began.  When the work is merely slow this is a fault.                   *)
Expire(r) ==
  /\ status[r] \in {"processing", "committing"} /\ ~stale[r]
  /\ stale' = [stale EXCEPT ![r] = TRUE]
  /\ IF InUse(r) THEN Fault ELSE UNCHANGED faults
  /\ UNCHANGED <<status, active, token, fetch, commit, handed, history>>

(* purgeStalePendingWork: rows older than seven days are archived.         *)
Purge(r) ==
  /\ status[r] # "absent" /\ active[r] /\ Fault
  /\ active' = [active EXCEPT ![r] = FALSE]
  /\ purged' = [purged EXCEPT ![r] = TRUE]
  /\ UNCHANGED <<status, token, stale, fetch, commit, handed,
                 claims, reverts, writes, settled>>

-----------------------------------------------------------------------------
(* handleFetchPendingWork.  Its first loop recovers the stuck rows that    *)
(* its SELECT returned; it does not look again whether they are stuck.     *)

FetchStart(f) ==
  /\ fpc[f] = "idle"
  /\ snap' = [snap EXCEPT ![f] = Stuck]
  /\ fpc' = [fpc EXCEPT ![f] = "recover"]
  /\ UNCHANGED <<table, cand, item, commit, handed, history, faults>>

BadRivalsWithSelf(r) == {q \in Rows : active[q] /\ KeyOf[q] = KeyOf[r]}
BadRivalsTerminal(r) == {q \in Siblings(r) : status[q] \in Terminal}

(* The siblings that forbid to re-open row r: those in any status.         *)
Rivals(r) == Siblings(r)

(* One transaction: archive the row if it has an active sibling, put it    *)
(* back to pending otherwise.                                              *)
Recover(f, r) ==
  /\ fpc[f] = "recover" /\ First(snap[f], r)
  /\ snap' = [snap EXCEPT ![f] = @ \ {r}]
  /\ IF Rivals(r) # {}
       THEN /\ active' = [active EXCEPT ![r] = FALSE]
            /\ UNCHANGED <<status, reverts>>
       ELSE /\ status' = [status EXCEPT ![r] = "pending"]
            /\ reverts' = [reverts EXCEPT ![r] = @ + 1]
            /\ UNCHANGED active
  /\ UNCHANGED <<token, stale, fpc, cand, item, commit, handed,
                 claims, writes, settled, purged, faults>>

(* The transaction of one row fails: the error is swallowed.               *)
RecoverFails(f, r) ==
  /\ fpc[f] = "recover" /\ First(snap[f], r) /\ Fault
  /\ snap' = [snap EXCEPT ![f] = @ \ {r}]
  /\ UNCHANGED <<table, fpc, cand, item, commit, handed, history>>

(* SELECT the candidates, or report that the queue is empty.               *)
Select(f) ==
  /\ fpc[f] = "recover" /\ snap[f] = {}
  /\ cand' = [cand EXCEPT ![f] = Candidates]
  /\ fpc' = [fpc EXCEPT ![f] = IF Candidates = {} THEN "idle" ELSE "claim"]
  /\ UNCHANGED <<table, snap, item, commit, handed, history, faults>>

(* The conditional UPDATE to "processing": it compares the status only.    *)
Claimable(r) == status[r] = "pending" /\ ~Rejects(r, "processing")
Collides(r)  == status[r] = "pending" /\ Rejects(r, "processing")

BadTakeRow(r) ==
  /\ status' = [status EXCEPT ![r] = "claimed"]
  /\ stale' = [stale EXCEPT ![r] = FALSE]
  /\ claims' = [claims EXCEPT ![r] = @ + 1]

TakeRow(r) ==
  /\ status' = [status EXCEPT ![r] = "processing"]
  /\ stale' = [stale EXCEPT ![r] = FALSE]
  /\ claims' = [claims EXCEPT ![r] = @ + 1]

Claim(f, r) ==
  /\ fpc[f] = "claim" /\ First(cand[f], r) /\ Claimable(r)
  /\ TakeRow(r)
  /\ item' = [item EXCEPT ![f] = [row |-> r, claim |-> claims[r] + 1]]
  /\ cand' = [cand EXCEPT ![f] = {}]
  /\ fpc' = [fpc EXCEPT ![f] = "build"]
  /\ UNCHANGED <<active, token, snap, commit, handed,
                 reverts, writes, settled, purged, faults>>

(* Drop candidate r; with no candidate left the call reports "done".       *)
NextCandidate(f, r) ==
  /\ cand' = [cand EXCEPT ![f] = @ \ {r}]
  /\ fpc' = [fpc EXCEPT ![f] = IF cand[f] = {r} THEN "idle" ELSE "claim"]

(* Somebody else claimed the candidate first.                              *)
ClaimLoses(f, r) ==
  /\ fpc[f] = "claim" /\ First(cand[f], r) /\ status[r] # "pending"
  /\ NextCandidate(f, r)
  /\ UNCHANGED <<table, snap, item, commit, handed, history, faults>>

(* The UPDATE lands but its reply is lost: withRetry sends it again, finds *)
(* the row "processing" and takes it for somebody else's.                  *)
ClaimReplyLost(f, r) ==
  /\ fpc[f] = "claim" /\ First(cand[f], r) /\ Claimable(r) /\ Fault
  /\ TakeRow(r)
  /\ NextCandidate(f, r)
  /\ UNCHANGED <<active, token, snap, item, commit, handed,
                 reverts, writes, settled, purged>>

(* The index rejects the UPDATE: the call ends in its catch clause.        *)
ClaimRejected(f, r) ==
  /\ fpc[f] = "claim" /\ First(cand[f], r) /\ Collides(r)
  /\ cand' = [cand EXCEPT ![f] = {}]
  /\ fpc' = [fpc EXCEPT ![f] = "idle"]
  /\ UNCHANGED <<table, snap, item, commit, handed, history, faults>>

(* buildWorkPayload found nothing to do: markTerminal without a token,     *)
(* one transaction that does not look who owns the row now; then the loop  *)
(* selects again, or has skipped ten items already and returns.            *)
SelfComplete(f) ==
  LET r == item[f].row IN
  /\ fpc[f] = "build"
  /\ IF Taken(r, "completed")
       THEN active' = [active EXCEPT ![r] = FALSE] /\ UNCHANGED status
       ELSE status' = [status EXCEPT ![r] = "completed"] /\ UNCHANGED active
  /\ settled' = [settled EXCEPT ![r] = "done"]
  /\ item' = [item EXCEPT ![f] = NoWork]
  /\ \E pc \in {"recover", "idle"} : fpc' = [fpc EXCEPT ![f] = pc]
  /\ UNCHANGED <<token, stale, snap, cand, commit, handed,
                 claims, reverts, writes, purged, faults>>

FetchEnds(f) ==
  /\ item' = [item EXCEPT ![f] = NoWork]
  /\ fpc' = [fpc EXCEPT ![f] = "idle"]

(* The payload goes out to the drainer.                                    *)
Deliver(f) ==
  /\ fpc[f] = "build"
  /\ handed' = handed \cup {item[f]}
  /\ FetchEnds(f)
  /\ UNCHANGED <<table, snap, cand, commit, history, faults>>

(* A query throws for good, or the client has stopped waiting for the      *)
(* payload: the call ends, and nobody knows that the row is claimed.       *)
FetchThrows(f) ==
  /\ \/ fpc[f] \in {"claim", "build"}
     \/ fpc[f] = "recover" /\ snap[f] = {}
  /\ Fault
  /\ cand' = [cand EXCEPT ![f] = {}]
  /\ FetchEnds(f)
  /\ UNCHANGED <<table, snap, commit, handed, history>>

-----------------------------------------------------------------------------
(* The drainer.                                                            *)

(* The agent dies or gives the item up.                                    *)
Forget(h) ==
  /\ h \in handed /\ Fault
  /\ handed' = handed \ {h}
  /\ UNCHANGED <<table, fetch, commit, history>>

(* The agent commits an item.  Its client may send the call again after a  *)
(* broken connection: then the item stays in hand.  The call's token is a  *)
(* fresh UUID: no row carries it.                                          *)
CommitStart(c, h) ==
  /\ cpc[c] = "idle" /\ h \in handed
  /\ \A r \in Rows : token[r] # c
  /\ \/ handed' = handed \ {h} /\ UNCHANGED faults
     \/ handed' = handed /\ Fault
  /\ arg' = [arg EXCEPT ![c] = h]
  /\ goal' = [goal EXCEPT ![c] = "completed"]
  /\ cpc' = [cpc EXCEPT ![c] = "cas"]
  /\ UNCHANGED <<table, fetch, history>>

-----------------------------------------------------------------------------
(* handleCommitWorkResults.                                                *)

Row(c) == arg[c].row
Goto(c, pc) == cpc' = [cpc EXCEPT ![c] = pc]

CommitEnds(c) ==
  /\ Goto(c, "idle")
  /\ arg' = [arg EXCEPT ![c] = NoWork]
  /\ goal' = [goal EXCEPT ![c] = "completed"]

(* The compare-and-swap to "committing" under the call's own token.        *)
Owns(c)     == status[Row(c)] = "committing" /\ token[Row(c)] = c
BadCasMatches(c) == status[Row(c)] \in {"processing", "committing"}
CasMatches(c)  == status[Row(c)] = "processing" \/ Owns(c)
CasRejected(c) == status[Row(c)] = "processing" /\ Rejects(Row(c), "committing")

SwapToCommitting(c) ==
  /\ status' = [status EXCEPT ![Row(c)] = "committing"]
  /\ token' = [token EXCEPT ![Row(c)] = c]
  /\ stale' = [stale EXCEPT ![Row(c)] = FALSE]

Cas(c) ==
  /\ cpc[c] \in {"cas", "recas"} /\ CasMatches(c) /\ ~CasRejected(c)
  /\ SwapToCommitting(c)
  /\ Goto(c, "check")
  /\ UNCHANGED <<active, fetch, arg, goal, handed, history, faults>>

(* The swap lands, its reply is lost and withRetry sends it once more.     *)
CasReplyLost(c) ==
  /\ cpc[c] = "cas" /\ CasMatches(c) /\ ~CasRejected(c) /\ Fault
  /\ SwapToCommitting(c)
  /\ Goto(c, "recas")
  /\ UNCHANGED <<active, fetch, arg, goal, handed, history>>

(* No row matches, and the extraction is discarded; or the index rejects   *)
(* the swap and the call throws.                                           *)
CasFails(c) ==
  /\ cpc[c] \in {"cas", "recas"} /\ (~CasMatches(c) \/ CasRejected(c))
  /\ CommitEnds(c)
  /\ UNCHANGED <<table, fetch, handed, history, faults>>

BadStillOwned(c) ==
  /\ cpc[c] = "check"
  /\ Goto(c, "mark")
  /\ UNCHANGED <<table, fetch, arg, goal, handed, history, faults>>

(* The last look before the results are written.                           *)
StillOwned(c) ==
  /\ cpc[c] = "check"
  /\ IF Owns(c) THEN Goto(c, "write") /\ UNCHANGED <<arg, goal>>
                ELSE CommitEnds(c)
  /\ UNCHANGED <<table, fetch, handed, history, faults>>

(* commitResults, as one step: it writes the knowledge or finds nothing to *)
(* write, and returns; or it throws, before it wrote anything or later.    *)
Write(c) ==
  /\ cpc[c] = "write"
  /\ writes' \in {writes, [writes EXCEPT ![Row(c)] = @ + 1]}
  /\ \/ settled' = [settled EXCEPT ![Row(c)] = "done"] /\ UNCHANGED goal
     \/ goal' = [goal EXCEPT ![c] = "failed"] /\ UNCHANGED settled
  /\ Goto(c, "mark")
  /\ UNCHANGED <<table, fetch, arg, handed, claims, reverts, purged, faults>>

(* markTerminal with the call's token: the first statement looks for an    *)
(* active sibling in the target status, the next ones act on what it saw.  *)
MarkRead(c) ==
  /\ cpc[c] = "mark"
  /\ Goto(c, IF Taken(Row(c), goal[c]) THEN "archive" ELSE "stamp")
  /\ UNCHANGED <<table, fetch, arg, goal, handed, history, faults>>

(* The row has the status the commit wants, or archived_status holds it.   *)
Recorded(c) ==
  settled' = [settled EXCEPT ![Row(c)] = IF goal[c] = "failed" /\ @ = "no" THEN "failed" ELSE @]

(* The row archives itself behind its sibling, whoever owns it.            *)
MarkArchive(c) ==
  /\ cpc[c] \in {"archive", "raced"}
  /\ active' = [active EXCEPT ![Row(c)] = FALSE]
  /\ Recorded(c)
  /\ CommitEnds(c)
  /\ UNCHANGED <<status, token, stale, fetch, handed, claims, reverts, writes, purged, faults>>

StampRow(c) == status' = [status EXCEPT ![Row(c)] = goal[c]] /\ Recorded(c)

(* The stamp, only on a row still owned.                                   *)
MarkStamp(c) ==
  /\ cpc[c] = "stamp" /\ Owns(c) /\ ~Rejects(Row(c), goal[c])
  /\ StampRow(c)
  /\ CommitEnds(c)
  /\ UNCHANGED <<active, token, stale, fetch, handed, claims, reverts, writes, purged, faults>>

(* The reply is lost: withRetry sends all statements again.                *)
MarkReplyLost(c) ==
  /\ cpc[c] = "stamp" /\ Owns(c) /\ ~Rejects(Row(c), goal[c]) /\ Fault
  /\ StampRow(c)
  /\ Goto(c, "mark")
  /\ UNCHANGED <<active, token, stale, fetch, arg, goal, handed, claims, reverts, writes, purged>>

(* The index rejects the stamp: a sibling came first.  The catch clause    *)
(* archives the row in a query of its own.                                 *)
MarkCollides(c) ==
  /\ cpc[c] = "stamp" /\ Owns(c) /\ Rejects(Row(c), goal[c])
  /\ Goto(c, "raced")
  /\ UNCHANGED <<table, fetch, arg, goal, handed, history, faults>>

(* Nothing matched: the row was reclaimed, or an earlier attempt of this   *)
(* very call has stamped it.  Either way the call ends.                    *)
MarkUnmatched(c) ==
  /\ cpc[c] = "stamp" /\ ~Owns(c)
  /\ CommitEnds(c)
  /\ UNCHANGED <<table, fetch, handed, history, faults>>

(* A query throws for good.  Up to the swap the call ends there; later it  *)
(* goes on to mark the row "failed", and if that throws too it gives up.   *)
(* An error of the catch clause's archiving is swallowed.                  *)
CommitThrows(c) ==
  /\ cpc[c] \notin {"idle", "write"} /\ Fault
  /\ IF cpc[c] \in {"cas", "recas", "raced"} \/ goal[c] = "failed"
       THEN CommitEnds(c)
       ELSE /\ goal' = [goal EXCEPT ![c] = "failed"]
            /\ Goto(c, "mark")
            /\ UNCHANGED arg
  /\ UNCHANGED <<table, fetch, handed, history>>

-----------------------------------------------------------------------------
(* The daemon dies with all calls in flight; the table survives, and so do *)
(* the drainers, which hold their items and reconnect.                     *)
DaemonCrash ==
  /\ Fault
  /\ fpc' = [f \in Fetchers |-> "idle"]
  /\ snap' = [f \in Fetchers |-> {}]
  /\ cand' = [f \in Fetchers |-> {}]
  /\ item' = [f \in Fetchers |-> NoWork]
  /\ cpc' = [c \in Commits |-> "idle"]
  /\ arg' = [c \in Commits |-> NoWork]
  /\ goal' = [c \in Commits |-> "completed"]
  /\ UNCHANGED <<table, handed, history>>

FetchStep(f) ==
  \/ \E r \in Rows : Recover(f, r) \/ Claim(f, r) \/ ClaimLoses(f, r) \/ ClaimRejected(f, r)
  \/ Select(f) \/ SelfComplete(f) \/ Deliver(f)

FetchFault(f) ==
  \/ \E r \in Rows : RecoverFails(f, r) \/ ClaimReplyLost(f, r)
  \/ FetchThrows(f)

CommitStep(c) ==
  \/ Cas(c) \/ CasFails(c) \/ StillOwned(c) \/ Write(c)
  \/ MarkRead(c) \/ MarkArchive(c)
  \/ MarkStamp(c) \/ MarkCollides(c) \/ MarkUnmatched(c)

CommitFault(c) == CasReplyLost(c) \/ MarkReplyLost(c) \/ CommitThrows(c)

Next ==
  \/ \E r \in Rows : Enqueue(r) \/ Expire(r) \/ Purge(r)
  \/ \E f \in Fetchers : FetchStart(f) \/ FetchStep(f) \/ FetchFault(f)
  \/ \E h \in handed : Forget(h) \/ \E c \in Commits : CommitStart(c, h)
  \/ \E c \in Commits : CommitStep(c) \/ CommitFault(c)
  \/ DaemonCrash

Spec == Init /\ [][Next]_vars

(* The polling of the scheduler starts a fetch again and again; every call *)
(* goes on to its next query; a drainer commits what it holds; time        *)
(* passes.  No fault has to happen.                                        *)
Fairness ==
  /\ \A f \in Fetchers : WF_vars(FetchStart(f)) /\ WF_vars(FetchStep(f))
  /\ \A c \in Commits : WF_vars(CommitStep(c))
  /\ \A r \in Rows :
       /\ WF_vars(Expire(r) /\ ~InUse(r))
       /\ SF_vars(\E h \in handed, c \in Commits : h.row = r /\ CommitStart(c, h))

FairSpec == Spec /\ Fairness

-----------------------------------------------------------------------------
(* Properties.                                                             *)

FetchPC  == {"idle", "recover", "claim", "build"}
CommitPC == {"idle", "cas", "recas", "check", "write", "mark", "archive", "stamp", "raced"}

(* Every variable has its type.                                            *)
TypeOK ==
  /\ status \in [Rows -> Statuses]
  /\ active \in [Rows -> BOOLEAN]
  /\ token \in [Rows -> Commits \cup {NoToken}]
  /\ stale \in [Rows -> BOOLEAN]
  /\ fpc \in [Fetchers -> FetchPC]
  /\ snap \in [Fetchers -> SUBSET Rows]
  /\ cand \in [Fetchers -> SUBSET Rows]
  /\ item \in [Fetchers -> Work \cup {NoWork}]
  /\ cpc \in [Commits -> CommitPC]
  /\ arg \in [Commits -> Work \cup {NoWork}]
  /\ goal \in [Commits -> Terminal]
  /\ handed \subseteq Work
  /\ claims \in [Rows -> Nat]
  /\ reverts \in [Rows -> Nat]
  /\ writes \in [Rows -> Nat]
  /\ settled \in [Rows -> {"no", "failed", "done"}]
  /\ purged \in [Rows -> BOOLEAN]
  /\ faults \in Nat

(* The results of a work item are written at most once, and once more for  *)
(* every time the stale recovery re-opened the row: whatever the drainers, *)
(* their retries, lost replies and daemon crashes do, nothing but the      *)
(* recovery can make handleCommitWorkResults write knowledge twice.        *)
WriteBudget == \A r \in Rows : writes[r] <= 1 + reverts[r]

(* The two transactions that set a status without asking the index (stale  *)
(* recovery and markTerminal without a token) never break it: no two       *)
(* active rows of a session and work type have the same status.            *)
DedupKeyUnique == \A r \in Rows : active[r] => ~Taken(r, status[r])

(* A row reads "completed" only if its results were written or its payload *)
(* was found empty: no interleaving of a stale drainer, a recovery and a   *)
(* lost reply closes an item nobody worked on.                             *)
CompletedIsSettled == \A r \in Rows : status[r] = "completed" => settled[r] = "done"

(* Archiving never loses work: for every row, an active row of its session *)
(* and type remains, or one of them was worked on, recorded as failed, or  *)
(* purged for its age.                                                     *)
NoWorkDropped ==
  \A r \in Rows : status[r] # "absent" =>
    \E q \in Rows : /\ KeyOf[q] = KeyOf[r] /\ status[q] # "absent"
                    /\ active[q] \/ settled[q] # "no" \/ purged[q]

(* Recovery, claims and stamps, in whatever order they land, leave a table *)
(* the index accepts and work that is either queued or done                *)
(* (handleFetchPendingWork, markTerminal).                                 *)
RowsConsistent == DedupKeyUnique /\ CompletedIsSettled /\ NoWorkDropped

(* The queue implements the ledger of tickets: open is a row that waits or *)
(* is processed, inflight the commits past their swap.                     *)
InFlight(r) == {c \in Commits : arg[c].row = r /\ cpc[c] \in {"recas", "check", "write"}}
Created(r)  == IF status[r] = "absent" THEN 0 ELSE 1
Ticket(r)   == IF status[r] \in {"pending", "processing"} THEN 1 ELSE 0

Ledger == INSTANCE WorkLedger WITH
  Items    <- Rows,
  issued   <- [r \in Rows |-> Created(r) + reverts[r]],
  open     <- [r \in Rows |-> Ticket(r)],
  inflight <- [r \in Rows |-> Cardinality(InFlight(r))],
  written  <- writes
ImplementsLedger == Ledger!LedgerSpec

(* Once the adverse events are over, the queue drains: a row that waits or *)
(* is being worked on does not do so for ever.                             *)
Open(r) == active[r] /\ status[r] \in {"pending", "processing", "committing"}
QueueDrains == \A r \in Rows : []<>~Open(r)

(* What the comment at the commit's compare-and-swap says: a row reverted  *)
(* by the recovery and claimed again by another drainer does not match, so *)
(* the extraction of the first drainer is discarded.                       *)
StaleClaimDiscarded ==
  \A c \in Commits : cpc[c] \in {"check", "write"} /\ Owns(c) => arg[c].claim = claims[Row(c)]

(* What the comment at the UNIQUE index says: status transitions are       *)
(* UPDATEs and do not violate the index.                                   *)
ClaimNeverRejected ==
  \A f \in Fetchers, r \in Rows : fpc[f] = "claim" /\ First(cand[f], r) => ~Collides(r)
=============================================================================
