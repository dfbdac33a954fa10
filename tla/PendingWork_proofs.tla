------------------------- MODULE PendingWork_proofs -------------------------
(***************************************************************************)
(* Theorems about the work queue, for any number of rows, calls, drainers  *)
(* and faults: every variable keeps its type, the results of a row are     *)
(* written at most once per ticket, the table stays consistent, and the    *)
(* queue implements WorkLedger.  At the end: the ends of sessions, where   *)
(* the rows of the queue come from.                                        *)
(*                                                                         *)
(* The argument counts tickets.  A row that waits or is processed carries  *)
(* one; the compare-and-swap of a commit takes it, so that a commit past   *)
(* its swap has the only claim on it; the write spends it.  Tickets come   *)
(* from the creation of the row and from the stale recovery, nowhere else. *)
(***************************************************************************)
EXTENDS PendingWork, MCSessionCleanup, SequenceTheorems, FiniteSetTheorems, TLAPS

(* A fetch that builds a payload and a commit under way hold a real row.   *)
Held ==
  /\ \A f \in Fetchers : fpc[f] = "build" => item[f] \in Work
  /\ \A c \in Commits : cpc[c] # "idle" => arg[c] \in Work

(* A commit that has not tried its swap is named by no row: its token is   *)
(* fresh, so the Owns branch of the swap is for a retry only.              *)
FreshToken == \A c \in Commits : cpc[c] = "cas" => \A r \in Rows : token[r] # c

(* Tickets written, in flight and open never exceed the tickets issued.    *)
RowBudget(r) ==
  writes[r] + Cardinality(InFlight(r)) + Ticket(r) <= Created(r) + reverts[r]
Budget == \A r \in Rows : RowBudget(r)

IInv == TypeOK /\ Held /\ FreshToken /\ Budget

-----------------------------------------------------------------------------
(* The initial state is well typed: no row exists and every call is idle.  *)
LEMMA InitTypeOK == Init => TypeOK
BY CallsAssumption DEF Init, TypeOK, Statuses, Terminal, Work, NoWork, FetchPC, CommitPC

(* The environment steps: enqueue, expiry and the seven day purge.         *)
LEMMA TableTypeOK ==
  ASSUME TypeOK, NEW r \in Rows, Enqueue(r) \/ Expire(r) \/ Purge(r)
  PROVE  TypeOK'
<1>1. CASE Enqueue(r)
  BY <1>1 DEF TypeOK, Enqueue, Statuses, table, fetch, commit, history
<1>2. CASE Expire(r)
  BY <1>2 DEF TypeOK, Expire, Fault, table, fetch, commit, history
<1>3. CASE Purge(r)
  BY <1>3 DEF TypeOK, Purge, Fault, table, fetch, commit, history
<1> QED BY <1>1, <1>2, <1>3

(* The steps of a fetch.  Only Deliver needs more than types: what it      *)
(* hands out is a row, because the call holds one while it builds.         *)
LEMMA FetchTypeOK ==
  ASSUME TypeOK, Held, NEW f \in Fetchers,
         FetchStart(f) \/ FetchStep(f) \/ FetchFault(f)
  PROVE  TypeOK'
<1> USE DEF TypeOK, table, commit, history
<1>1. CASE FetchStart(f)
  BY <1>1 DEF FetchStart, FetchPC, Stuck
<1>2. CASE Select(f)
  BY <1>2 DEF Select, FetchPC, Candidates, Pending
<1>3. CASE SelfComplete(f)
  <2>1. settled' \in [Rows -> {"no", "failed", "done"}]
    BY <1>3 DEF SelfComplete
  <2>2. status' \in [Rows -> Statuses] /\ active' \in [Rows -> BOOLEAN]
    BY <1>3 DEF SelfComplete, Statuses
  <2>3. fpc' \in [Fetchers -> FetchPC] /\ item' \in [Fetchers -> Work \cup {NoWork}]
    BY <1>3 DEF SelfComplete, FetchPC
  <2> QED BY <1>3, <2>1, <2>2, <2>3 DEF SelfComplete
<1>4. CASE Deliver(f)
  BY <1>4 DEF Deliver, FetchEnds, FetchPC, Held
<1>5. CASE FetchThrows(f)
  BY <1>5 DEF FetchThrows, FetchEnds, Fault, FetchPC, NoWork
<1>6. ASSUME NEW r \in Rows, Recover(f, r) PROVE TypeOK'
  <2>1. status' \in [Rows -> Statuses] /\ active' \in [Rows -> BOOLEAN]
    BY <1>6 DEF Recover, Statuses
  <2>2. reverts' \in [Rows -> Nat] /\ snap' \in [Fetchers -> SUBSET Rows]
    BY <1>6 DEF Recover
  <2> QED BY <1>6, <2>1, <2>2 DEF Recover
<1>7. ASSUME NEW r \in Rows, RecoverFails(f, r) PROVE TypeOK'
  BY <1>7 DEF RecoverFails, Fault
<1>8. ASSUME NEW r \in Rows, Claim(f, r) PROVE TypeOK'
  <2>1. item' \in [Fetchers -> Work \cup {NoWork}]
    BY <1>8 DEF Claim, Work
  <2> QED BY <1>8, <2>1 DEF Claim, TakeRow, Statuses, FetchPC
<1>9. ASSUME NEW r \in Rows, ClaimReplyLost(f, r) PROVE TypeOK'
  BY <1>9 DEF ClaimReplyLost, TakeRow, NextCandidate, Fault, Statuses, FetchPC
<1>10. ASSUME NEW r \in Rows, ClaimLoses(f, r) \/ ClaimRejected(f, r)
       PROVE  TypeOK'
  BY <1>10 DEF ClaimLoses, ClaimRejected, NextCandidate, FetchPC
<1> QED BY <1>1, <1>2, <1>3, <1>4, <1>5, <1>6, <1>7, <1>8, <1>9, <1>10 DEF FetchStep, FetchFault

(* The steps of a commit, and the drainer that starts it.                  *)
LEMMA CommitTypeOK ==
  ASSUME TypeOK, NEW c \in Commits,
         CommitStep(c) \/ CommitFault(c) \/ (\E h \in handed : CommitStart(c, h))
  PROVE  TypeOK'
<1> USE DEF TypeOK, table, fetch, history, Goto, CommitPC
<1>1. CASE \E h \in handed : CommitStart(c, h)
  BY <1>1 DEF CommitStart, Fault, Terminal
<1>2. CASE Cas(c)
  <2>1. status' \in [Rows -> Statuses] /\ token' \in [Rows -> Commits \cup {NoToken}]
    BY <1>2 DEF Cas, SwapToCommitting, Statuses
  <2> QED BY <1>2, <2>1 DEF Cas, SwapToCommitting
<1>3. CASE CasReplyLost(c)
  <2>1. status' \in [Rows -> Statuses] /\ token' \in [Rows -> Commits \cup {NoToken}]
    BY <1>3 DEF CasReplyLost, SwapToCommitting, Statuses
  <2> QED BY <1>3, <2>1 DEF CasReplyLost, SwapToCommitting, Fault
<1>4. CASE CasFails(c) \/ StillOwned(c)
  BY <1>4 DEF CasFails, StillOwned, CommitEnds, Terminal, NoWork
<1>5. CASE Write(c)
  <2>1. goal' \in [Commits -> Terminal]
    BY <1>5 DEF Write, Terminal
  <2>2. writes' \in [Rows -> Nat]
    BY <1>5 DEF Write
  <2> QED BY <1>5, <2>1, <2>2 DEF Write
<1>6. CASE MarkRead(c) \/ MarkCollides(c) \/ MarkUnmatched(c)
  BY <1>6 DEF MarkRead, MarkCollides, MarkUnmatched, CommitEnds, Terminal, NoWork
<1>7. ASSUME Recorded(c) PROVE settled' \in [Rows -> {"no", "failed", "done"}]
  BY <1>7 DEF Recorded
<1>8. CASE MarkArchive(c)
  <2>1. settled' \in [Rows -> {"no", "failed", "done"}]
    BY <1>7, <1>8 DEF MarkArchive
  <2> QED BY <1>8, <2>1 DEF MarkArchive, CommitEnds, Terminal, NoWork
<1>9. ASSUME StampRow(c) PROVE status' \in [Rows -> Statuses]
  <2>1. goal[c] \in Statuses
    BY DEF Terminal, Statuses
  <2> QED BY <1>9, <2>1 DEF StampRow
<1>10. CASE MarkStamp(c)
  <2>1. status' \in [Rows -> Statuses]
    BY <1>9, <1>10 DEF MarkStamp
  <2>2. arg' \in [Commits -> Work \cup {NoWork}] /\ goal' \in [Commits -> Terminal]
    BY <1>10 DEF MarkStamp, CommitEnds, Terminal, NoWork
  <2>3. settled' \in [Rows -> {"no", "failed", "done"}]
    BY <1>10, <1>7 DEF MarkStamp, StampRow
  <2> QED BY <1>10, <2>1, <2>2, <2>3 DEF MarkStamp, CommitEnds
<1>11. CASE MarkReplyLost(c)
  <2>1. status' \in [Rows -> Statuses]
    BY <1>9, <1>11 DEF MarkReplyLost
  <2>2. settled' \in [Rows -> {"no", "failed", "done"}]
    BY <1>11, <1>7 DEF MarkReplyLost, StampRow
  <2> QED BY <1>11, <2>1, <2>2 DEF MarkReplyLost, Fault
<1>12. CASE CommitThrows(c)
  BY <1>12 DEF CommitThrows, CommitEnds, Fault, Terminal, NoWork
<1> QED BY <1>1, <1>2, <1>3, <1>4, <1>5, <1>6, <1>8, <1>10, <1>11, <1>12 DEF CommitStep, CommitFault

LEMMA NextTypeOK == TypeOK /\ Held /\ [Next]_vars => TypeOK'
<1> SUFFICES ASSUME TypeOK, Held, [Next]_vars PROVE TypeOK'
  OBVIOUS
<1>1. CASE \E r \in Rows : Enqueue(r) \/ Expire(r) \/ Purge(r)
  BY <1>1, TableTypeOK
<1>2. CASE \E f \in Fetchers : FetchStart(f) \/ FetchStep(f) \/ FetchFault(f)
  BY <1>2, FetchTypeOK
<1>3. CASE \E h \in handed : Forget(h)
  BY <1>3 DEF Forget, Fault, TypeOK, table, fetch, commit, history
<1>4. CASE \E h \in handed : \E c \in Commits : CommitStart(c, h)
  BY <1>4, CommitTypeOK
<1>5. CASE \E c \in Commits : CommitStep(c) \/ CommitFault(c)
  BY <1>5, CommitTypeOK
<1>6. CASE DaemonCrash
  BY <1>6 DEF DaemonCrash, Fault, TypeOK, table, history, FetchPC, CommitPC, Terminal, NoWork
<1>7. CASE UNCHANGED vars
  BY <1>7 DEF vars, TypeOK, table, fetch, commit, history
<1> QED BY <1>1, <1>2, <1>3, <1>4, <1>5, <1>6, <1>7 DEF Next

-----------------------------------------------------------------------------
(* Held and FreshToken.                                                    *)

LEMMA InitHeld == Init => Held /\ FreshToken
BY CallsAssumption DEF Init, Held, FreshToken

LEMMA NextHeld == TypeOK /\ Held /\ [Next]_vars => Held'
<1> SUFFICES ASSUME TypeOK, Held, [Next]_vars PROVE Held'
  OBVIOUS
<1> USE DEF TypeOK, Held, table, fetch, commit, history
<1>1. CASE \E r \in Rows : Enqueue(r) \/ Expire(r) \/ Purge(r)
  BY <1>1 DEF Enqueue, Expire, Purge
<1>2. ASSUME NEW f \in Fetchers, FetchStart(f) \/ FetchFault(f) PROVE Held'
  BY <1>2 DEF FetchStart, FetchFault, RecoverFails, ClaimReplyLost, NextCandidate,
              FetchThrows, FetchEnds
<1>3. ASSUME NEW f \in Fetchers, FetchStep(f) PROVE Held'
  <2>1. ASSUME NEW r \in Rows, Claim(f, r) PROVE Held'
    BY <2>1 DEF Claim, Work
  <2>2. ASSUME NEW r \in Rows, Recover(f, r) \/ ClaimLoses(f, r) \/ ClaimRejected(f, r)
        PROVE  Held'
    BY <2>2 DEF Recover, ClaimLoses, ClaimRejected, NextCandidate
  <2>3. CASE Select(f) \/ SelfComplete(f) \/ Deliver(f)
    BY <2>3 DEF Select, SelfComplete, Deliver, FetchEnds
  <2> QED BY <1>3, <2>1, <2>2, <2>3 DEF FetchStep
<1>4. ASSUME NEW h \in handed, Forget(h) PROVE Held'
  BY <1>4 DEF Forget
<1>5. ASSUME NEW h \in handed, NEW c \in Commits, CommitStart(c, h) PROVE Held'
  BY <1>5 DEF CommitStart
<1>6. ASSUME NEW c \in Commits, CommitStep(c) \/ CommitFault(c) PROVE Held'
  <2>1. CASE Cas(c) \/ CasReplyLost(c)
    BY <2>1 DEF Cas, CasReplyLost, Goto
  <2>2. CASE CasFails(c) \/ StillOwned(c) \/ Write(c)
    BY <2>2 DEF CasFails, StillOwned, Write, CommitEnds, Goto
  <2>3. CASE MarkRead(c) \/ MarkArchive(c) \/ MarkStamp(c) \/ MarkCollides(c) \/ MarkUnmatched(c) \/ MarkReplyLost(c)
    BY <2>3 DEF MarkRead, MarkArchive, MarkStamp, MarkCollides, MarkUnmatched, MarkReplyLost, CommitEnds, Goto
  <2>4. CASE CommitThrows(c)
    BY <2>4 DEF CommitThrows, CommitEnds, Goto
  <2> QED BY <1>6, <2>1, <2>2, <2>3, <2>4 DEF CommitStep, CommitFault
<1>7. CASE DaemonCrash
  BY <1>7 DEF DaemonCrash
<1>8. CASE UNCHANGED vars
  BY <1>8 DEF vars
<1> QED BY <1>1, <1>2, <1>3, <1>4, <1>5, <1>6, <1>7, <1>8 DEF Next

(* Only a swap writes a token, and its commit leaves "cas" with it.        *)
LEMMA NextFreshToken == TypeOK /\ FreshToken /\ [Next]_vars => FreshToken'
<1> SUFFICES ASSUME TypeOK, FreshToken, [Next]_vars PROVE FreshToken'
  OBVIOUS
<1> USE DEF TypeOK, FreshToken, table, fetch, commit, history
<1>1. CASE \E r \in Rows : Enqueue(r) \/ Expire(r) \/ Purge(r)
  BY <1>1 DEF Enqueue, Expire, Purge
<1>2. ASSUME NEW f \in Fetchers, FetchStart(f) \/ FetchStep(f) \/ FetchFault(f)
      PROVE  UNCHANGED <<cpc, token>>
  BY <1>2 DEF FetchStart, FetchStep, FetchFault, Recover, RecoverFails, Claim, ClaimLoses,
              ClaimRejected, ClaimReplyLost, Select, SelfComplete, Deliver, FetchThrows
<1>3. ASSUME NEW h \in handed, Forget(h) PROVE FreshToken'
  BY <1>3 DEF Forget
<1>4. ASSUME NEW h \in handed, NEW c \in Commits, CommitStart(c, h) PROVE FreshToken'
  BY <1>4 DEF CommitStart
<1>5. ASSUME NEW c \in Commits, CommitStep(c) \/ CommitFault(c) PROVE FreshToken'
  <2>1. CASE Cas(c) \/ CasReplyLost(c)
    BY <2>1 DEF Cas, CasReplyLost, SwapToCommitting, Goto
  <2>2. CASE CasFails(c) \/ StillOwned(c) \/ Write(c)
    BY <2>2 DEF CasFails, StillOwned, Write, CommitEnds, Goto
  <2>3. CASE MarkRead(c) \/ MarkArchive(c) \/ MarkStamp(c) \/ MarkCollides(c) \/ MarkUnmatched(c) \/ MarkReplyLost(c)
    BY <2>3 DEF MarkRead, MarkArchive, MarkStamp, MarkCollides, MarkUnmatched, MarkReplyLost, CommitEnds, Goto
  <2>4. CASE CommitThrows(c)
    BY <2>4 DEF CommitThrows, CommitEnds, Goto
  <2> QED BY <1>5, <2>1, <2>2, <2>3, <2>4 DEF CommitStep, CommitFault
<1>6. CASE DaemonCrash
  BY <1>6 DEF DaemonCrash
<1>7. CASE UNCHANGED vars
  BY <1>7 DEF vars
<1> QED BY <1>1, <1>2, <1>3, <1>4, <1>5, <1>6, <1>7 DEF Next

-----------------------------------------------------------------------------
(* The budget.                                                             *)

(* Counting commits: a set of them is finite, and gains or loses one.      *)
LEMMA CommitSets ==
  ASSUME NEW S \in SUBSET Commits
  PROVE  /\ IsFiniteSet(S) /\ Cardinality(S) \in Nat
         /\ \A c : Cardinality(S \cup {c}) <= Cardinality(S) + 1
         /\ \A c : Cardinality(S \ {c}) <= Cardinality(S)
         /\ \A c \in S : Cardinality(S \ {c}) = Cardinality(S) - 1
<1>1. IsFiniteSet(S)
  BY CallsAssumption, FS_Subset
<1>2. Cardinality(S) \in Nat
  BY <1>1, FS_CardinalityType
<1>3. \A c : Cardinality(S \cup {c}) = IF c \in S THEN Cardinality(S) ELSE Cardinality(S) + 1
  BY <1>1, FS_AddElement
<1>4. \A c : Cardinality(S \ {c}) = IF c \in S THEN Cardinality(S) - 1 ELSE Cardinality(S)
  BY <1>1, FS_RemoveElement
<1> QED BY <1>1, <1>2, <1>3, <1>4

LEMMA Counts ==
  ASSUME TypeOK, NEW r \in Rows
  PROVE  /\ InFlight(r) \in SUBSET Commits /\ Cardinality(InFlight(r)) \in Nat
         /\ Ticket(r) \in {0, 1} /\ Created(r) \in {0, 1}
         /\ writes[r] \in Nat /\ reverts[r] \in Nat
<1>1. InFlight(r) \in SUBSET Commits
  BY DEF InFlight
<1> QED BY <1>1, CommitSets DEF TypeOK, Ticket, Created

(* A step that adds no commit in flight for row r and writes nothing keeps *)
(* its budget if it opens no ticket it does not also issue.                *)
LEMMA QuietStep ==
  ASSUME TypeOK, TypeOK', NEW r \in Rows, RowBudget(r),
         Cardinality(InFlight(r))' <= Cardinality(InFlight(r)), writes'[r] = writes[r],
         Ticket(r)' + Created(r) + reverts[r] <= Ticket(r) + Created(r)' + reverts'[r]
  PROVE  RowBudget(r)'
<1>1. /\ Ticket(r)' \in {0, 1} /\ Created(r)' \in {0, 1}
      /\ writes'[r] \in Nat /\ reverts'[r] \in Nat
  BY DEF TypeOK, Ticket, Created
<1>2. InFlight(r)' \in SUBSET Commits
  BY DEF InFlight
<1>3. Cardinality(InFlight(r))' \in Nat
  BY <1>2, CommitSets
<1> QED BY <1>1, <1>3, Counts DEF RowBudget

(* Creating a row issues its first ticket and opens it.                    *)
LEMMA TableBudget ==
  ASSUME TypeOK, TypeOK', Budget, NEW q \in Rows, Enqueue(q) \/ Expire(q) \/ Purge(q)
  PROVE  Budget'
<1> SUFFICES ASSUME NEW r \in Rows PROVE RowBudget(r)'
  BY DEF Budget
<1>1. UNCHANGED <<cpc, arg, writes, reverts>>
  BY DEF Enqueue, Expire, Purge, commit, history
<1>2. Cardinality(InFlight(r))' <= Cardinality(InFlight(r))
  <2>1. InFlight(r)' = InFlight(r)
    BY <1>1 DEF InFlight
  <2> QED BY <2>1, Counts
<1>3. Ticket(r)' + Created(r) + reverts[r] <= Ticket(r) + Created(r)' + reverts'[r]
  BY <1>1 DEF TypeOK, Enqueue, Expire, Purge, Ticket, Created
<1> QED BY <1>1, <1>2, <1>3, QuietStep DEF Budget

(* A fetch opens a ticket in Recover only, which counts as a new issue.    *)
LEMMA FetchBudget ==
  ASSUME TypeOK, TypeOK', Budget, NEW f \in Fetchers,
         FetchStart(f) \/ FetchStep(f) \/ FetchFault(f)
  PROVE  Budget'
<1> SUFFICES ASSUME NEW r \in Rows PROVE RowBudget(r)'
  BY DEF Budget
<1>1. UNCHANGED <<cpc, arg, writes>>
  BY DEF FetchStart, FetchStep, FetchFault, Recover, RecoverFails, Claim, ClaimLoses,
         ClaimRejected, ClaimReplyLost, Select, SelfComplete, Deliver, FetchThrows,
         commit, history
<1>2. Cardinality(InFlight(r))' <= Cardinality(InFlight(r))
  <2>1. InFlight(r)' = InFlight(r)
    BY <1>1 DEF InFlight
  <2> QED BY <2>1, Counts
<1> DEFINE Even == Ticket(r)' + Created(r) + reverts[r] <= Ticket(r) + Created(r)' + reverts'[r]
<1>3. Even
  <2> USE DEF TypeOK, Ticket, Created, table, history
  <2>1. ASSUME NEW q \in Rows, Recover(f, q) PROVE Even
    BY <2>1 DEF Recover
  <2>2. ASSUME NEW q \in Rows, Claim(f, q) \/ ClaimReplyLost(f, q) PROVE Even
    BY <2>2 DEF Claim, ClaimReplyLost, TakeRow, Claimable
  <2>3. CASE SelfComplete(f)
    BY <2>3 DEF SelfComplete
  <2>4. ASSUME UNCHANGED <<status, reverts>> PROVE Even
    BY <2>4
  <2> QED BY <2>1, <2>2, <2>3, <2>4 DEF FetchStart, FetchStep, FetchFault, RecoverFails,
             ClaimLoses, ClaimRejected, Select, Deliver, FetchThrows
<1> QED BY <1>1, <1>2, <1>3, QuietStep DEF Budget

(* A commit that ends, is rejected or only looks: at most it leaves the    *)
(* set in flight.  It opens no ticket.                                     *)
LEMMA LeaveBudget ==
  ASSUME TypeOK, TypeOK', Held, Budget, NEW c \in Commits,
         \/ CasFails(c) \/ StillOwned(c) \/ MarkRead(c) \/ MarkArchive(c)
         \/ MarkStamp(c) \/ MarkCollides(c) \/ MarkReplyLost(c) \/ MarkUnmatched(c) \/ CommitThrows(c)
  PROVE  Budget'
<1> SUFFICES ASSUME NEW r \in Rows PROVE RowBudget(r)'
  BY DEF Budget
<1> USE DEF TypeOK, fetch, history, table
<1>1. UNCHANGED <<writes, reverts>>
  BY DEF CasFails, StillOwned, MarkRead, MarkArchive, MarkStamp, MarkCollides, MarkReplyLost, MarkUnmatched,
         CommitThrows
<1>2. InFlight(r)' \in {InFlight(r), InFlight(r) \ {c}}
  BY DEF InFlight, CasFails, StillOwned, MarkRead, MarkArchive, MarkStamp, MarkCollides, MarkReplyLost,
         MarkUnmatched, CommitThrows, CommitEnds, Goto
<1>3. Cardinality(InFlight(r))' <= Cardinality(InFlight(r))
  <2>1. InFlight(r) \in SUBSET Commits /\ Cardinality(InFlight(r)) \in Nat
    BY Counts
  <2>2. Cardinality(InFlight(r) \ {c}) <= Cardinality(InFlight(r))
    BY <2>1, CommitSets
  <2>3. CASE InFlight(r)' = InFlight(r)
    BY <2>1, <2>3
  <2>4. CASE InFlight(r)' = InFlight(r) \ {c}
    BY <2>2, <2>4
  <2> QED BY <1>2, <2>3, <2>4
<1>4. Ticket(r)' + Created(r) <= Ticket(r) + Created(r)'
  BY DEF CasFails, StillOwned, MarkRead, MarkArchive, MarkStamp, MarkCollides, MarkReplyLost, MarkUnmatched,
         CommitThrows, StampRow, Owns, Ticket, Created, Terminal
<1> QED BY <1>1, <1>3, <1>4, QuietStep DEF Budget, Ticket, Created

(* The swap takes the ticket.  A first attempt cannot match through Owns,  *)
(* because its token is fresh: it found the row "processing".              *)
LEMMA SwapBudget ==
  ASSUME TypeOK, TypeOK', Held, FreshToken, Budget, NEW c \in Commits,
         Cas(c) \/ CasReplyLost(c)
  PROVE  Budget'
<1> SUFFICES ASSUME NEW r \in Rows PROVE RowBudget(r)'
  BY DEF Budget
<1> USE DEF TypeOK, fetch, history
<1>1. /\ UNCHANGED <<arg, writes, reverts>> /\ Row(c) \in Rows
      /\ cpc[c] \in {"cas", "recas"} /\ CasMatches(c)
      /\ cpc' \in {[cpc EXCEPT ![c] = "check"], [cpc EXCEPT ![c] = "recas"]}
      /\ status' = [status EXCEPT ![Row(c)] = "committing"]
  BY DEF Cas, CasReplyLost, SwapToCommitting, Goto, Held, Row, Work
<1>2. CASE Row(c) # r \/ cpc[c] = "recas"
  <2>1. InFlight(r)' = InFlight(r)
    BY <1>1, <1>2 DEF InFlight, Row
  <2>2. Cardinality(InFlight(r))' <= Cardinality(InFlight(r))
    BY <2>1, Counts
  <2>3. Ticket(r)' + Created(r) + reverts[r] <= Ticket(r) + Created(r)' + reverts'[r]
    BY <1>1 DEF Ticket, Created, CasMatches, Owns
  <2> QED BY <1>1, <2>2, <2>3, QuietStep DEF Budget
<1>3. CASE Row(c) = r /\ cpc[c] = "cas"
  <2>1. status[r] = "processing"
    BY <1>1, <1>3 DEF CasMatches, Owns, FreshToken
  <2>2. Ticket(r) = 1 /\ Ticket(r)' = 0 /\ Created(r) = 1 /\ Created(r)' = 1
    BY <1>1, <1>3, <2>1 DEF Ticket, Created
  <2>3. InFlight(r)' = InFlight(r) \cup {c}
    BY <1>1, <1>3 DEF InFlight, Row
  <2>4. Cardinality(InFlight(r))' <= Cardinality(InFlight(r)) + 1
    BY <2>3, Counts, CommitSets
  <2>5. Cardinality(InFlight(r))' \in Nat
    BY <2>3, Counts, CommitSets
  <2> QED BY <1>1, <2>2, <2>4, <2>5, Counts DEF RowBudget, Budget
<1> QED BY <1>1, <1>2, <1>3

(* The write spends what the swap took.                                    *)
LEMMA WriteKeepsBudget ==
  ASSUME TypeOK, TypeOK', Held, Budget, NEW c \in Commits, Write(c)
  PROVE  Budget'
<1> SUFFICES ASSUME NEW r \in Rows PROVE RowBudget(r)'
  BY DEF Budget
<1>0. /\ Cardinality(InFlight(r)) \in Nat /\ InFlight(r) \in SUBSET Commits
      /\ writes[r] \in Nat /\ reverts[r] \in Nat
      /\ Ticket(r) \in {0, 1} /\ Created(r) \in {0, 1}
  BY Counts
<1>1. /\ UNCHANGED <<arg, status, reverts>> /\ Row(c) \in Rows
      /\ cpc[c] = "write" /\ cpc' = [cpc EXCEPT ![c] = "mark"]
      /\ writes' \in {writes, [writes EXCEPT ![Row(c)] = @ + 1]}
  BY DEF Write, Goto, Held, Row, Work, TypeOK, fetch, table
<1>2. Ticket(r)' = Ticket(r) /\ Created(r)' = Created(r)
  BY <1>1 DEF Ticket, Created
<1>3. CASE Row(c) # r
  <2>1. InFlight(r)' = InFlight(r) /\ writes'[r] = writes[r]
    BY <1>1, <1>3 DEF InFlight, Row, TypeOK
  <2>2. Cardinality(InFlight(r))' <= Cardinality(InFlight(r))
    BY <1>0, <2>1
  <2>3. Ticket(r)' + Created(r) + reverts[r] <= Ticket(r) + Created(r)' + reverts'[r]
    BY <1>0, <1>1, <1>2
  <2> QED BY <2>1, <2>2, <2>3, QuietStep DEF Budget
<1>4. CASE Row(c) = r
  <2>1. c \in InFlight(r) /\ InFlight(r)' = InFlight(r) \ {c}
    BY <1>1, <1>4 DEF InFlight, Row, TypeOK
  <2>2. Cardinality(InFlight(r))' = Cardinality(InFlight(r)) - 1
    BY <1>0, <2>1, CommitSets
  <2>3. writes'[r] \in Nat /\ writes'[r] <= writes[r] + 1
    BY <1>1, <1>4 DEF TypeOK
  <2>4. reverts'[r] = reverts[r] /\ RowBudget(r)
    BY <1>1 DEF Budget
  <2> QED BY <1>0, <1>2, <2>2, <2>3, <2>4 DEF RowBudget
<1> QED BY <1>3, <1>4

LEMMA InitBudget == Init => Budget
<1> SUFFICES ASSUME Init, NEW r \in Rows PROVE RowBudget(r)
  BY DEF Budget
<1>1. InFlight(r) = {}
  BY DEF Init, InFlight
<1>2. writes[r] = 0 /\ reverts[r] = 0 /\ Ticket(r) = 0 /\ Created(r) = 0
  BY DEF Init, Ticket, Created
<1> QED BY <1>1, <1>2, FS_EmptySet DEF RowBudget

LEMMA NextBudget == IInv /\ TypeOK' /\ [Next]_vars => Budget'
<1> SUFFICES ASSUME IInv, TypeOK', [Next]_vars PROVE Budget'
  OBVIOUS
<1> USE DEF IInv
<1>1. CASE \E r \in Rows : Enqueue(r) \/ Expire(r) \/ Purge(r)
  BY <1>1, TableBudget
<1>2. CASE \E f \in Fetchers : FetchStart(f) \/ FetchStep(f) \/ FetchFault(f)
  BY <1>2, FetchBudget
<1>3. ASSUME UNCHANGED <<status, writes, reverts>>,
             \A r \in Rows : InFlight(r)' = InFlight(r) \/ InFlight(r)' = {}
      PROVE  Budget'
  <2> SUFFICES ASSUME NEW r \in Rows PROVE RowBudget(r)'
    BY DEF Budget
  <2>1. Cardinality(InFlight(r))' <= Cardinality(InFlight(r))
    <3>1. Cardinality(InFlight(r)) \in Nat
      BY Counts
    <3>2. CASE InFlight(r)' = InFlight(r)
      BY <3>1, <3>2
    <3>3. CASE InFlight(r)' = {}
      BY <3>1, <3>3, FS_EmptySet
    <3> QED BY <1>3, <3>2, <3>3
  <2>2. Ticket(r)' + Created(r) + reverts[r] <= Ticket(r) + Created(r)' + reverts'[r]
    BY <1>3 DEF Ticket, Created, TypeOK
  <2> QED BY <1>3, <2>1, <2>2, QuietStep DEF Budget
<1>4. CASE \E h \in handed : Forget(h)
  <2>1. UNCHANGED <<status, writes, reverts, cpc, arg>>
    BY <1>4 DEF Forget, table, commit, history
  <2> QED BY <1>3, <2>1 DEF InFlight
<1>5. CASE \E h \in handed : \E c \in Commits : CommitStart(c, h)
  <2>1. UNCHANGED <<status, writes, reverts>>
    BY <1>5 DEF CommitStart, table, history
  <2>2. \A r \in Rows : InFlight(r)' = InFlight(r)
    BY <1>5 DEF CommitStart, InFlight, TypeOK
  <2> QED BY <1>3, <2>1, <2>2
<1>6. CASE \E c \in Commits : CommitStep(c) \/ CommitFault(c)
  BY <1>6, LeaveBudget, SwapBudget, WriteKeepsBudget DEF CommitStep, CommitFault
<1>7. CASE DaemonCrash
  <2>1. UNCHANGED <<status, writes, reverts>>
    BY <1>7 DEF DaemonCrash, table, history
  <2>2. \A r \in Rows : InFlight(r)' = {}
    BY <1>7 DEF DaemonCrash, InFlight
  <2> QED BY <1>3, <2>1, <2>2
<1>8. CASE UNCHANGED vars
  <2>1. UNCHANGED <<status, writes, reverts, cpc, arg>>
    BY <1>8 DEF vars, table, commit, history
  <2> QED BY <1>3, <2>1 DEF InFlight
<1> QED BY <1>1, <1>2, <1>4, <1>5, <1>6, <1>7, <1>8 DEF Next

-----------------------------------------------------------------------------
(* The table: what the index accepts, and what an archived row leaves.     *)

(* Rows that are active, or in the hands of a fetch, have been created.    *)
Existing ==
  /\ \A r \in Rows : active[r] => status[r] # "absent"
  /\ \A f \in Fetchers : \A r \in snap[f] : status[r] # "absent"
  /\ \A f \in Fetchers : fpc[f] = "build" => status[item[f].row] # "absent"

(* A commit that is about to record "completed" has been through commitResults. *)
Honest ==
  \A c \in Commits : cpc[c] \in {"mark", "archive", "stamp", "raced"} /\ goal[c] = "completed"
                       => settled[arg[c].row] = "done"

TableInv == Existing /\ Honest /\ RowsConsistent

(* A step that changes one row keeps the index if that row, when it is     *)
(* still active, takes a status no active sibling has.                     *)
LEMMA DedupStep ==
  ASSUME DedupKeyUnique, NEW r \in Rows,
         \A q \in Rows \ {r} : active'[q] => active[q] /\ status'[q] = status[q],
         active'[r] => ~Taken(r, status'[r])
  PROVE  DedupKeyUnique'
<1> SUFFICES ASSUME NEW p \in Rows, NEW q \in Rows \ {p}, active'[p], active'[q],
                    KeyOf[q] = KeyOf[p], status'[q] = status'[p]
             PROVE  FALSE
  BY DEF DedupKeyUnique, Taken, Siblings
<1>1. CASE p = r
  BY <1>1 DEF Taken, Siblings
<1>2. CASE q = r
  BY <1>2 DEF Taken, Siblings
<1>3. CASE p # r /\ q # r
  BY <1>3 DEF DedupKeyUnique, Taken, Siblings
<1> QED BY <1>1, <1>2, <1>3

(* Work stands for row r: an active row of its key remains, or one of them *)
(* was worked on, recorded as failed or purged.                            *)
Stands(r) ==
  \E q \in Rows : /\ KeyOf[q] = KeyOf[r] /\ status[q] # "absent"
                  /\ active[q] \/ settled[q] # "no" \/ purged[q]

(* No step forgets that a row exists or what became of it.                 *)
Monotone ==
  \A q \in Rows : /\ status[q] # "absent" => status'[q] # "absent"
                  /\ settled[q] # "no" => settled'[q] # "no"
                  /\ purged[q] => purged'[q]

(* Such a step keeps work if every row it creates is active, and every row *)
(* it archives leaves something behind.                                    *)
LEMMA WorkStep ==
  ASSUME NoWorkDropped, Monotone,
         \A q \in Rows : status[q] = "absent" /\ status'[q] # "absent" => active'[q],
         \A q \in Rows : active[q] /\ status[q] # "absent" => active'[q] \/ Stands(q)'
  PROVE  NoWorkDropped'
<1> SUFFICES ASSUME NEW r \in Rows, status'[r] # "absent" PROVE Stands(r)'
  BY DEF NoWorkDropped, Stands
<1>1. CASE status[r] = "absent"
  BY <1>1 DEF Stands
<1>2. CASE status[r] # "absent"
  <2>1. PICK q \in Rows : /\ KeyOf[q] = KeyOf[r] /\ status[q] # "absent"
                          /\ active[q] \/ settled[q] # "no" \/ purged[q]
    BY <1>2 DEF NoWorkDropped
  <2>2. CASE active[q]
    <3>1. active'[q] \/ Stands(q)'
      BY <2>1, <2>2
    <3> QED BY <2>1, <3>1 DEF Stands, Monotone
  <2>3. CASE settled[q] # "no" \/ purged[q]
    BY <2>1, <2>3 DEF Stands, Monotone
  <2> QED BY <2>1, <2>2, <2>3
<1> QED BY <1>1, <1>2

(* A step that leaves status and active alone.                             *)
LEMMA SameTable ==
  ASSUME RowsConsistent, Monotone, UNCHANGED <<status, active>>,
         \A q \in Rows : settled[q] = "done" => settled'[q] = "done"
  PROVE  RowsConsistent'
<1>1. DedupKeyUnique'
  BY DEF RowsConsistent, DedupKeyUnique, Taken, Siblings
<1>2. CompletedIsSettled'
  BY DEF RowsConsistent, CompletedIsSettled
<1>3. NoWorkDropped'
  BY WorkStep DEF RowsConsistent
<1> QED BY <1>1, <1>2, <1>3 DEF RowsConsistent

(* Rows appear, age and are purged.                                        *)
LEMMA EnvKeepsTable ==
  ASSUME TypeOK, Held, TableInv, NEW r \in Rows, Enqueue(r) \/ Expire(r) \/ Purge(r)
  PROVE  TableInv'
<1> USE DEF TypeOK, TableInv
<1>1. Monotone
  BY DEF Enqueue, Expire, Purge, Monotone, history
<1>2. Existing' /\ Honest'
  <2>1. UNCHANGED <<fpc, snap, item, cpc, arg, goal, settled>>
    BY DEF Enqueue, Expire, Purge, fetch, commit, history
  <2>2. \A q \in Rows : active'[q] => status'[q] # "absent"
    BY DEF Enqueue, Expire, Purge, Existing
  <2> QED BY <1>1, <2>1, <2>2 DEF Existing, Honest, Monotone, Held, Work
<1>3. CASE Expire(r)
  <2>1. UNCHANGED <<status, active, settled>>
    BY <1>3 DEF Expire, history
  <2> QED BY <1>1, <1>2, <2>1, SameTable
<1>4. CASE Enqueue(r) \/ Purge(r)
  <2> USE DEF RowsConsistent
  <2>1. /\ \A q \in Rows \ {r} : active'[q] => active[q] /\ status'[q] = status[q]
        /\ active'[r] => ~Taken(r, status'[r])
    BY <1>4 DEF Enqueue, Purge
  <2>2. DedupKeyUnique'
    BY <2>1, DedupStep
  <2>3. CompletedIsSettled'
    BY <1>4 DEF Enqueue, Purge, CompletedIsSettled, history
  <2>4. \A q \in Rows : status[q] = "absent" /\ status'[q] # "absent" => active'[q]
    BY <1>4 DEF Enqueue, Purge
  <2>5. \A q \in Rows : active[q] /\ status[q] # "absent" => active'[q] \/ Stands(q)'
    BY <1>4 DEF Enqueue, Purge, Stands
  <2>6. NoWorkDropped'
    BY <1>1, <2>4, <2>5, WorkStep
  <2> QED BY <1>2, <2>2, <2>3, <2>6
<1> QED BY <1>3, <1>4

(* A fetch.  Recovery archives a row only behind an active sibling, and    *)
(* re-opens one only if there is none.                                     *)
LEMMA FetchKeepsTable ==
  ASSUME TypeOK, Held, TableInv, NEW f \in Fetchers,
         FetchStart(f) \/ FetchStep(f) \/ FetchFault(f)
  PROVE  TableInv'
<1> USE DEF TypeOK, TableInv
<1>1. ASSUME NEW r \in Rows, Recover(f, r) PROVE TableInv'
  <2>1. status[r] # "absent"
    BY <1>1 DEF Recover, First, Existing
  <2>2. /\ UNCHANGED <<fpc, item, cpc, arg, goal, settled, purged>>
        /\ snap'[f] \subseteq snap[f] /\ \A g \in Fetchers : snap'[g] \subseteq snap[g]
    BY <1>1 DEF Recover, commit
  <2>3. Monotone
    BY <1>1, <2>2 DEF Recover, Monotone
  <2>4. /\ \A q \in Rows \ {r} : active'[q] = active[q] /\ status'[q] = status[q]
        /\ active'[r] => active[r] /\ Siblings(r) = {}
    BY <1>1 DEF Recover, Rivals
  <2>5. Existing' /\ Honest'
    BY <2>2, <2>3, <2>4 DEF Existing, Honest, Monotone, Held, Work
  <2>6. DedupKeyUnique'
    BY <2>4, DedupStep DEF RowsConsistent, Taken
  <2>7. CompletedIsSettled'
    BY <1>1, <2>2 DEF Recover, RowsConsistent, CompletedIsSettled
  <2>8. ASSUME active[r], ~active'[r] PROVE Stands(r)'
    <3>1. PICK q \in Rows \ {r} : active[q] /\ KeyOf[q] = KeyOf[r]
      BY <1>1, <2>8 DEF Recover, Rivals, Siblings
    <3> QED BY <2>3, <2>4, <3>1 DEF Existing, Stands, Monotone
  <2>9. NoWorkDropped'
    BY <2>1, <2>3, <2>4, <2>8, WorkStep DEF RowsConsistent
  <2> QED BY <2>5, <2>6, <2>7, <2>9 DEF RowsConsistent
<1>2. ASSUME NEW r \in Rows, Claim(f, r) \/ ClaimReplyLost(f, r) PROVE TableInv'
  <2>1. /\ UNCHANGED <<active, snap, cpc, arg, goal, settled, purged>>
        /\ status[r] = "pending" /\ status' = [status EXCEPT ![r] = "processing"]
        /\ active[r] => ~Taken(r, "processing")
    BY <1>2 DEF Claim, ClaimReplyLost, Claimable, Rejects, TakeRow, commit
  <2>2. Monotone
    BY <2>1 DEF Monotone
  <2>3. \A g \in Fetchers : fpc'[g] = "build" => status'[item'[g].row] # "absent"
    BY <1>2, <2>1 DEF Claim, ClaimReplyLost, NextCandidate, Existing, Held, Work
  <2>4. Existing' /\ Honest'
    BY <2>1, <2>2, <2>3 DEF Existing, Honest, Monotone
  <2>5. DedupKeyUnique'
    BY <2>1, DedupStep DEF RowsConsistent
  <2>6. CompletedIsSettled'
    BY <2>1 DEF RowsConsistent, CompletedIsSettled
  <2>7. NoWorkDropped'
    BY <2>1, <2>2, WorkStep DEF RowsConsistent
  <2> QED BY <2>4, <2>5, <2>6, <2>7 DEF RowsConsistent
<1>3. CASE SelfComplete(f)
  <2>1. PICK r \in Rows : r = item[f].row /\ status[r] # "absent"
    BY <1>3 DEF SelfComplete, Held, Work, Existing
  <2>2. /\ UNCHANGED <<snap, cpc, arg, goal, purged>>
        /\ settled' = [settled EXCEPT ![r] = "done"]
        /\ \A g \in Fetchers : fpc'[g] = "build" => fpc[g] = "build" /\ item'[g] = item[g]
    BY <1>3, <2>1 DEF SelfComplete, commit
  <2>3. /\ \A q \in Rows \ {r} : active'[q] = active[q] /\ status'[q] = status[q]
        /\ active'[r] => active[r] /\ status'[r] = "completed" /\ ~Taken(r, "completed")
        /\ status'[r] \in {status[r], "completed"}
    BY <1>3, <2>1 DEF SelfComplete
  <2>4. Monotone
    BY <2>1, <2>2, <2>3 DEF Monotone
  <2>5. Existing' /\ Honest'
    <3>1. \A g \in Fetchers : fpc'[g] = "build" => status'[item'[g].row] # "absent"
      BY <2>2, <2>4 DEF Existing, Monotone, Held, Work
    <3>2. Honest'
      BY <2>1, <2>2 DEF Honest
    <3> QED BY <2>2, <2>3, <2>4, <3>1, <3>2 DEF Existing, Monotone
  <2>6. DedupKeyUnique'
    BY <2>1, <2>3, DedupStep DEF RowsConsistent
  <2>7. CompletedIsSettled'
    BY <2>1, <2>2, <2>3 DEF RowsConsistent, CompletedIsSettled
  <2>8. NoWorkDropped'
    <3>1. Stands(r)'
      BY <2>1, <2>2, <2>3 DEF Stands
    <3> QED BY <2>1, <2>3, <2>4, <3>1, WorkStep DEF RowsConsistent
  <2> QED BY <2>5, <2>6, <2>7, <2>8 DEF RowsConsistent
<1>4. ASSUME UNCHANGED <<table, commit, history>>,
             \A g \in Fetchers : /\ snap'[g] \subseteq snap[g] \cup Stuck
                                 /\ fpc'[g] = "build" => fpc[g] = "build" /\ item'[g] = item[g]
      PROVE  TableInv'
  <2>1. UNCHANGED <<status, active, settled, purged, cpc, arg, goal>>
    BY <1>4 DEF table, commit, history
  <2>2. Monotone
    BY <2>1 DEF Monotone
  <2>3. Existing' /\ Honest'
    BY <1>4, <2>1 DEF Existing, Honest, Stuck
  <2> QED BY <2>1, <2>2, <2>3, SameTable
<1>5. ASSUME NEW r \in Rows, RecoverFails(f, r) \/ ClaimLoses(f, r) \/ ClaimRejected(f, r)
      PROVE  TableInv'
  BY <1>4, <1>5 DEF RecoverFails, ClaimLoses, ClaimRejected, NextCandidate
<1>6. CASE FetchStart(f) \/ Select(f) \/ Deliver(f) \/ FetchThrows(f)
  BY <1>4, <1>6 DEF FetchStart, Select, Deliver, FetchThrows, FetchEnds
<1> QED BY <1>1, <1>2, <1>3, <1>5, <1>6 DEF FetchStep, FetchFault

(* A commit.  It archives a row only when its outcome is recorded, and     *)
(* what it records as completed has been through commitResults.            *)
LEMMA CommitKeepsTable ==
  ASSUME TypeOK, Held, TableInv, NEW c \in Commits,
         CommitStep(c) \/ CommitFault(c) \/ (\E h \in handed : CommitStart(c, h))
  PROVE  TableInv'
<1> USE DEF TypeOK, TableInv
<1>1. UNCHANGED <<fpc, snap, item, purged>>
  BY DEF CommitStep, CommitFault, CommitStart, Cas, CasReplyLost, CasFails, StillOwned, Write, MarkRead,
         MarkArchive, MarkStamp, MarkReplyLost, MarkCollides, MarkUnmatched, CommitThrows, fetch, history
<1>2. ASSUME Monotone, \A q \in Rows : active'[q] => active[q]
      PROVE  Existing'
  BY <1>1, <1>2 DEF Existing, Monotone, Held, Work
<1>3. CASE Cas(c) \/ CasReplyLost(c)
  <2>1. PICK r \in Rows : r = Row(c)
    BY <1>3 DEF Cas, CasReplyLost, Held, Row, Work
  <2>2. /\ UNCHANGED <<active, arg, goal, settled>>
        /\ status' = [status EXCEPT ![r] = "committing"] /\ status[r] \in {"processing", "committing"}
        /\ status[r] = "processing" => (active[r] => ~Taken(r, "committing"))
        /\ \A d \in Commits : cpc'[d] \in {"mark", "archive", "stamp", "raced"} => cpc'[d] = cpc[d]
    BY <1>3, <2>1 DEF Cas, CasReplyLost, CasMatches, CasRejected, Owns, Rejects, SwapToCommitting, Goto, history
  <2>3. Monotone
    BY <1>1, <2>2 DEF Monotone
  <2>4. Existing' /\ Honest'
    BY <1>2, <2>2, <2>3 DEF Honest
  <2>5. DedupKeyUnique'
    BY <2>2, DedupStep DEF RowsConsistent, DedupKeyUnique
  <2>6. CompletedIsSettled'
    BY <2>2 DEF RowsConsistent, CompletedIsSettled
  <2>7. NoWorkDropped'
    BY <2>2, <2>3, WorkStep DEF RowsConsistent
  <2> QED BY <2>4, <2>5, <2>6, <2>7 DEF RowsConsistent
<1>4. CASE MarkArchive(c)
  <2>1. PICK r \in Rows : r = Row(c)
    BY <1>4 DEF MarkArchive, Held, Row, Work
  <2>2. /\ UNCHANGED <<status>> /\ active' = [active EXCEPT ![r] = FALSE]
        /\ settled' = [settled EXCEPT ![r] = IF goal[c] = "failed" /\ @ = "no" THEN "failed" ELSE @]
        /\ \A d \in Commits \ {c} : cpc'[d] = cpc[d] /\ goal'[d] = goal[d] /\ arg'[d] = arg[d]
        /\ cpc'[c] = "idle"
    BY <1>4, <2>1 DEF MarkArchive, Recorded, CommitEnds, Goto
  <2>3. settled'[r] # "no"
    <3>1. goal[c] = "completed" => settled[r] = "done"
      BY <1>4, <2>1 DEF MarkArchive, Honest, Row
    <3>2. goal[c] \in {"completed", "failed"}
      BY DEF Terminal
    <3> QED BY <2>2, <3>1, <3>2
  <2>4. Monotone /\ \A q \in Rows : settled[q] = "done" => settled'[q] = "done"
    BY <1>1, <2>2 DEF Monotone
  <2>5. Existing' /\ Honest'
    BY <1>2, <2>2, <2>4 DEF Honest, Held, Work
  <2>6. DedupKeyUnique'
    BY <2>2, DedupStep DEF RowsConsistent
  <2>7. CompletedIsSettled'
    BY <2>2, <2>4 DEF RowsConsistent, CompletedIsSettled
  <2>8. NoWorkDropped'
    BY <2>2, <2>3, <2>4, WorkStep DEF RowsConsistent, Stands
  <2> QED BY <2>5, <2>6, <2>7, <2>8 DEF RowsConsistent
<1>5. CASE MarkStamp(c) \/ MarkReplyLost(c)
  <2>1. PICK r \in Rows : r = Row(c)
    BY <1>5 DEF MarkStamp, MarkReplyLost, Held, Row, Work
  <2>2. /\ UNCHANGED <<active>> /\ status' = [status EXCEPT ![r] = goal[c]]
        /\ settled' = [settled EXCEPT ![r] = IF goal[c] = "failed" /\ @ = "no" THEN "failed" ELSE @]
        /\ \A d \in Commits \ {c} : cpc'[d] = cpc[d] /\ goal'[d] = goal[d] /\ arg'[d] = arg[d]
        /\ cpc'[c] = "idle" \/ UNCHANGED <<arg, goal>>
        /\ cpc[c] = "stamp" /\ active[r] => ~Taken(r, goal[c])
    BY <1>5, <2>1 DEF MarkStamp, MarkReplyLost, StampRow, Recorded, CommitEnds, Goto, Rejects
  <2>3. goal[c] \in {"completed", "failed"}
    BY DEF Terminal
  <2>4. goal[c] = "completed" => settled[r] = "done"
    BY <1>5, <2>1 DEF MarkStamp, MarkReplyLost, Honest, Row
  <2>5. Monotone /\ \A q \in Rows : settled[q] = "done" => settled'[q] = "done"
    BY <1>1, <2>2, <2>3 DEF Monotone
  <2>6. Existing' /\ Honest'
    <3>1. Honest'
      BY <2>1, <2>2, <2>4, <2>5 DEF Honest, Row, Held, Work
    <3> QED BY <1>2, <2>2, <2>5, <3>1
  <2>7. DedupKeyUnique'
    BY <1>5, <2>1, <2>2, DedupStep DEF RowsConsistent, MarkStamp, MarkReplyLost
  <2>8. CompletedIsSettled'
    BY <2>2, <2>4, <2>5 DEF RowsConsistent, CompletedIsSettled
  <2>9. NoWorkDropped'
    <3>1. \A q \in Rows : status[q] = "absent" => status'[q] = "absent" \/ active'[q] \/ q = r
      BY <2>2
    <3>2. status[r] # "absent"
      BY <1>5, <2>1 DEF MarkStamp, MarkReplyLost, Owns
    <3> QED BY <2>2, <2>5, <3>1, <3>2, WorkStep DEF RowsConsistent
  <2> QED BY <2>6, <2>7, <2>8, <2>9 DEF RowsConsistent
<1>6. CASE Write(c)
  <2>1. PICK r \in Rows : r = Row(c)
    BY <1>6 DEF Write, Held, Row, Work
  <2>2. /\ UNCHANGED <<status, active, arg>>
        /\ \/ settled' = [settled EXCEPT ![r] = "done"]
           \/ goal'[c] = "failed" /\ UNCHANGED settled
        /\ \A d \in Commits \ {c} : cpc'[d] = cpc[d] /\ goal'[d] = goal[d]
    BY <1>6, <2>1 DEF Write, Goto, table, TypeOK
  <2>3. Monotone /\ \A q \in Rows : settled[q] = "done" => settled'[q] = "done"
    BY <1>1, <2>2 DEF Monotone
  <2>4. ASSUME NEW d \in Commits, cpc'[d] \in {"mark", "archive", "stamp", "raced"},
               goal'[d] = "completed"
        PROVE  settled'[arg'[d].row] = "done"
    <3>1. CASE d = c
      BY <2>1, <2>2, <2>4, <3>1 DEF Row, Held, Work, TypeOK
    <3>2. CASE d # c
      BY <1>2, <2>2, <2>3, <2>4, <3>2 DEF Honest, Held, Work
    <3> QED BY <3>1, <3>2
  <2>5. Existing' /\ Honest'
    <3>1. Honest'
      BY <2>4 DEF Honest
    <3> QED BY <1>2, <2>1, <2>2, <2>3, <3>1
  <2> QED BY <2>2, <2>3, <2>5, SameTable
<1>7. ASSUME UNCHANGED <<status, active, settled>>,
             \A d \in Commits : /\ cpc'[d] \in {"mark", "archive", "stamp", "raced"}
                                /\ goal'[d] = "completed"
               => cpc[d] \in {"mark", "archive", "stamp", "raced"} /\ goal[d] = "completed" /\ arg'[d] = arg[d]
      PROVE  TableInv'
  <2>1. Monotone
    BY <1>1, <1>7 DEF Monotone
  <2>2. Existing' /\ Honest'
    BY <1>2, <1>7, <2>1 DEF Honest
  <2> QED BY <1>7, <2>1, <2>2, SameTable
<1>8. CASE CasFails(c) \/ StillOwned(c) \/ MarkRead(c) \/ MarkCollides(c) \/ MarkUnmatched(c)
  <2>1. UNCHANGED <<status, active, settled>>
    BY <1>8 DEF CasFails, StillOwned, MarkRead, MarkCollides, MarkUnmatched, table, history
  <2> QED BY <1>7, <1>8, <2>1 DEF CasFails, StillOwned, MarkRead, MarkCollides, MarkUnmatched, CommitEnds, Goto
<1>9. CASE CommitThrows(c)
  <2>1. UNCHANGED <<status, active, settled>>
    BY <1>9 DEF CommitThrows, table, history
  <2> QED BY <1>7, <1>9, <2>1 DEF CommitThrows, CommitEnds, Goto
<1>10. CASE \E h \in handed : CommitStart(c, h)
  <2>1. UNCHANGED <<status, active, settled>>
    BY <1>10 DEF CommitStart, table, history
  <2> QED BY <1>7, <1>10, <2>1 DEF CommitStart
<1> QED BY <1>3, <1>4, <1>5, <1>6, <1>8, <1>9, <1>10 DEF CommitStep, CommitFault

LEMMA NextTable == TypeOK /\ Held /\ TableInv /\ [Next]_vars => TableInv'
<1> SUFFICES ASSUME TypeOK, Held, TableInv, [Next]_vars PROVE TableInv'
  OBVIOUS
<1>1. CASE \E r \in Rows : Enqueue(r) \/ Expire(r) \/ Purge(r)
  BY <1>1, EnvKeepsTable
<1>2. CASE \E f \in Fetchers : FetchStart(f) \/ FetchStep(f) \/ FetchFault(f)
  BY <1>2, FetchKeepsTable
<1>3. CASE \E h \in handed : \E c \in Commits : CommitStart(c, h)
  BY <1>3, CommitKeepsTable
<1>4. CASE \E c \in Commits : CommitStep(c) \/ CommitFault(c)
  BY <1>4, CommitKeepsTable
<1>5. CASE DaemonCrash \/ (\E h \in handed : Forget(h)) \/ UNCHANGED vars
  <2>1. UNCHANGED <<status, active, settled, purged>>
    BY <1>5 DEF DaemonCrash, Forget, vars, table, history
  <2>2. Monotone
    BY <2>1 DEF Monotone
  <2>3. Existing' /\ Honest'
    BY <1>5, <2>1 DEF DaemonCrash, Forget, vars, fetch, commit, Existing, Honest, TableInv, TypeOK
  <2> QED BY <2>1, <2>2, <2>3, SameTable DEF TableInv
<1> QED BY <1>1, <1>2, <1>3, <1>4, <1>5 DEF Next

LEMMA InitTable == Init => TableInv
BY DEF Init, TableInv, Existing, Honest, RowsConsistent, DedupKeyUnique, Taken, Siblings,
       CompletedIsSettled, NoWorkDropped

-----------------------------------------------------------------------------
(* The refinement: every step of the queue is a step of the ledger, or     *)
(* changes nothing of it.                                                  *)

(* What the ledger sees of row r.                                          *)
Count(r) == Cardinality(InFlight(r))
Same(r) == UNCHANGED <<Created(r), Ticket(r), Count(r), reverts[r], writes[r]>>
Only(r) == \A q \in Rows \ {r} : Same(q)

Issued  == [r \in Rows |-> Created(r) + reverts[r]]
Tickets == [r \in Rows |-> Ticket(r)]
Flying  == [r \in Rows |-> Count(r)]

LEMMA LedgerStutters ==
  ASSUME TypeOK, TypeOK', \A r \in Rows : Same(r)
  PROVE  UNCHANGED Ledger!ledger
BY DEF Ledger!ledger, Same, Count, TypeOK

(* A step that changes row r only, as the ledger has it.                   *)
LEMMA LedgerChanges ==
  ASSUME TypeOK, TypeOK', NEW r \in Rows, Only(r)
  PROVE  /\ Issued[r] = Created(r) + reverts[r] /\ Tickets[r] = Ticket(r) /\ Flying[r] = Count(r)
         /\ Issued' = [Issued EXCEPT ![r] = Created(r)' + reverts'[r]]
         /\ Tickets' = [Tickets EXCEPT ![r] = Ticket(r)']
         /\ Flying' = [Flying EXCEPT ![r] = Count(r)']
         /\ writes' = [writes EXCEPT ![r] = writes'[r]]
         /\ UNCHANGED <<Created(r), reverts[r]>> => UNCHANGED Issued
         /\ UNCHANGED Ticket(r) => UNCHANGED Tickets
         /\ UNCHANGED Count(r) => UNCHANGED Flying
         /\ UNCHANGED writes[r] => UNCHANGED writes
<1>1. /\ Issued' = [Issued EXCEPT ![r] = Created(r)' + reverts'[r]]
      /\ UNCHANGED <<Created(r), reverts[r]>> => UNCHANGED Issued
  BY DEF Issued, Only, Same
<1>2. /\ Tickets' = [Tickets EXCEPT ![r] = Ticket(r)'] /\ Flying' = [Flying EXCEPT ![r] = Count(r)']
      /\ UNCHANGED Ticket(r) => UNCHANGED Tickets
      /\ UNCHANGED Count(r) => UNCHANGED Flying
  BY DEF Tickets, Flying, Only, Same
<1>3. /\ writes' = [writes EXCEPT ![r] = writes'[r]]
      /\ UNCHANGED writes[r] => UNCHANGED writes
  BY DEF TypeOK, Only, Same
<1>4. Issued[r] = Created(r) + reverts[r] /\ Tickets[r] = Ticket(r) /\ Flying[r] = Count(r)
  BY DEF Issued, Tickets, Flying
<1> QED BY <1>1, <1>2, <1>3, <1>4

LEMMA LedgerIssues ==
  ASSUME TypeOK, TypeOK', NEW r \in Rows, Only(r), UNCHANGED <<Count(r), writes[r]>>,
         Ticket(r)' = 1, Created(r)' + reverts'[r] = Created(r) + reverts[r] + 1
  PROVE  Ledger!Next
<1>1. /\ Issued' = [Issued EXCEPT ![r] = Issued[r] + 1] /\ Tickets' = [Tickets EXCEPT ![r] = 1]
      /\ Flying' = Flying /\ writes' = writes
  BY LedgerChanges
<1>2. Ledger!Issue(r)
  BY <1>1 DEF Ledger!Issue, Issued, Tickets, Flying, Count
<1> QED BY <1>2 DEF Ledger!Next

LEMMA LedgerCancels ==
  ASSUME TypeOK, TypeOK', NEW r \in Rows, Only(r),
         UNCHANGED <<Created(r), Count(r), reverts[r], writes[r]>>, Ticket(r) = 1, Ticket(r)' = 0
  PROVE  Ledger!Next
<1>1. /\ Issued' = Issued /\ Tickets[r] = 1 /\ Tickets' = [Tickets EXCEPT ![r] = 0]
      /\ Flying' = Flying /\ writes' = writes
  BY LedgerChanges
<1>2. Ledger!Cancel(r)
  BY <1>1 DEF Ledger!Cancel, Issued, Tickets, Flying, Count
<1> QED BY <1>2 DEF Ledger!Next

LEMMA LedgerExchanges ==
  ASSUME TypeOK, TypeOK', NEW r \in Rows, Only(r), UNCHANGED <<Created(r), reverts[r], writes[r]>>,
         Ticket(r) = 1, Ticket(r)' = 0, Count(r)' = Count(r) + 1
  PROVE  Ledger!Next
<1>1. /\ Issued' = Issued /\ Tickets[r] = 1 /\ Tickets' = [Tickets EXCEPT ![r] = 0]
      /\ Flying' = [Flying EXCEPT ![r] = Flying[r] + 1] /\ writes' = writes
  BY LedgerChanges
<1>2. Ledger!Exchange(r)
  BY <1>1 DEF Ledger!Exchange, Issued, Tickets, Flying, Count
<1> QED BY <1>2 DEF Ledger!Next

LEMMA LedgerWritesOrGivesUp ==
  ASSUME TypeOK, TypeOK', NEW r \in Rows, Only(r), UNCHANGED <<Created(r), Ticket(r), reverts[r]>>,
         Count(r) > 0, Count(r)' = Count(r) - 1, writes'[r] \in {writes[r], writes[r] + 1}
  PROVE  Ledger!Next
<1>1. /\ Issued' = Issued /\ Tickets' = Tickets
      /\ Flying[r] > 0 /\ Flying' = [Flying EXCEPT ![r] = Flying[r] - 1]
      /\ writes' = writes \/ writes' = [writes EXCEPT ![r] = writes[r] + 1]
  BY LedgerChanges
<1>2. Ledger!WriteResults(r) \/ Ledger!GiveUp(r)
  BY <1>1 DEF Ledger!WriteResults, Ledger!GiveUp, Issued, Tickets, Flying, Count
<1> QED BY <1>2 DEF Ledger!Next

LEMMA LedgerCollapses ==
  ASSUME TypeOK, TypeOK', \A r \in Rows : Count(r)' = 0,
         \A r \in Rows : UNCHANGED <<Created(r), Ticket(r), reverts[r], writes[r]>>
  PROVE  Ledger!Next
<1>1. Ledger!Collapse
  BY DEF Ledger!Collapse, Ledger!Zero, Count, TypeOK
<1> QED BY <1>1 DEF Ledger!Next

(* The environment and the fetches: creation and recovery issue a ticket,  *)
(* an empty payload cancels one, and a claim is no change.                 *)
LEMMA EnvRefines ==
  ASSUME TypeOK, TypeOK', NEW r \in Rows, Enqueue(r) \/ Expire(r) \/ Purge(r)
  PROVE  [Ledger!Next]_(Ledger!ledger)
<1>1. UNCHANGED <<cpc, arg, writes, reverts>> /\ \A q \in Rows : UNCHANGED Count(q)
  BY DEF Enqueue, Expire, Purge, commit, history, Count, InFlight
<1>2. CASE Enqueue(r)
  <2>1. Only(r)
    BY <1>1, <1>2 DEF Only, Same, Enqueue, Created, Ticket
  <2>2. Ticket(r)' = 1 /\ Created(r)' = 1 /\ Created(r) = 0
    BY <1>2 DEF Enqueue, Created, Ticket, TypeOK
  <2> QED BY <1>1, <2>1, <2>2, LedgerIssues DEF TypeOK
<1>3. CASE Expire(r) \/ Purge(r)
  <2>1. \A q \in Rows : Same(q)
    BY <1>1, <1>3 DEF Expire, Purge, Same, Created, Ticket
  <2> QED BY <2>1, LedgerStutters
<1> QED BY <1>2, <1>3

LEMMA FetchRefines ==
  ASSUME TypeOK, TypeOK', Held, Existing, NEW f \in Fetchers,
         FetchStart(f) \/ FetchStep(f) \/ FetchFault(f)
  PROVE  [Ledger!Next]_(Ledger!ledger)
<1>1. UNCHANGED <<cpc, arg, writes>> /\ \A q \in Rows : UNCHANGED Count(q)
  BY DEF FetchStart, FetchStep, FetchFault, Recover, RecoverFails, Claim, ClaimLoses,
         ClaimRejected, ClaimReplyLost, Select, SelfComplete, Deliver, FetchThrows,
         commit, history, Count, InFlight
<1>2. ASSUME UNCHANGED <<status, reverts>> PROVE [Ledger!Next]_(Ledger!ledger)
  <2>1. \A q \in Rows : Same(q)
    BY <1>1, <1>2 DEF Same, Created, Ticket
  <2> QED BY <2>1, LedgerStutters
<1>3. ASSUME NEW r \in Rows, Recover(f, r) PROVE [Ledger!Next]_(Ledger!ledger)
  <2>1. CASE Rivals(r) # {}
    BY <1>2, <1>3, <2>1 DEF Recover
  <2>2. CASE Rivals(r) = {}
    <3>1. status[r] # "absent"
      BY <1>3 DEF Recover, First, Existing
    <3>2. /\ status' = [status EXCEPT ![r] = "pending"]
          /\ reverts' = [reverts EXCEPT ![r] = @ + 1]
      BY <1>3, <2>2 DEF Recover
    <3>3. Only(r)
      BY <1>1, <3>2 DEF Only, Same, Created, Ticket, TypeOK
    <3>4. Ticket(r)' = 1 /\ Created(r)' = 1 /\ Created(r) = 1 /\ reverts'[r] = reverts[r] + 1
      BY <3>1, <3>2 DEF Created, Ticket, TypeOK
    <3> QED BY <1>1, <3>3, <3>4, LedgerIssues DEF TypeOK
  <2> QED BY <2>1, <2>2
<1>4. ASSUME NEW r \in Rows, Claim(f, r) \/ ClaimReplyLost(f, r)
      PROVE  [Ledger!Next]_(Ledger!ledger)
  <2>1. \A q \in Rows : Same(q)
    BY <1>1, <1>4 DEF Claim, ClaimReplyLost, Claimable, TakeRow, Same, Created, Ticket, TypeOK
  <2> QED BY <2>1, LedgerStutters
<1>5. CASE SelfComplete(f)
  <2>1. PICK r \in Rows : r = item[f].row /\ status[r] # "absent"
    BY <1>5 DEF SelfComplete, Held, Work, Existing
  <2>2. UNCHANGED reverts /\ (status' = [status EXCEPT ![r] = "completed"] \/ UNCHANGED status)
    BY <1>5, <2>1 DEF SelfComplete
  <2>3. CASE status' = [status EXCEPT ![r] = "completed"]
    <3>1. Only(r) /\ UNCHANGED Created(r) /\ Ticket(r)' = 0 /\ Ticket(r) \in {0, 1}
      BY <1>1, <2>1, <2>2, <2>3 DEF Only, Same, Created, Ticket, TypeOK
    <3>2. CASE Ticket(r) = 1
      BY <1>1, <2>2, <3>1, <3>2, LedgerCancels
    <3>3. CASE Ticket(r) = 0
      <4>1. \A q \in Rows : Same(q)
        BY <1>1, <2>2, <3>1, <3>3 DEF Only, Same
      <4> QED BY <4>1, LedgerStutters
    <3> QED BY <3>1, <3>2, <3>3
  <2> QED BY <1>2, <2>2, <2>3
<1>6. ASSUME NEW r \in Rows, RecoverFails(f, r) \/ ClaimLoses(f, r) \/ ClaimRejected(f, r)
      PROVE  [Ledger!Next]_(Ledger!ledger)
  BY <1>2, <1>6 DEF RecoverFails, ClaimLoses, ClaimRejected, table, history
<1>7. CASE FetchStart(f) \/ Select(f) \/ Deliver(f) \/ FetchThrows(f)
  BY <1>2, <1>7 DEF FetchStart, Select, Deliver, FetchThrows, table, history
<1> QED BY <1>3, <1>4, <1>5, <1>6, <1>7 DEF FetchStep, FetchFault

(* A commit: the first swap exchanges the ticket, a second one, after the  *)
(* row was claimed again, cancels it; the write and every other way out    *)
(* end the flight.                                                         *)
LEMMA CommitRefines ==
  ASSUME TypeOK, TypeOK', Held, FreshToken, NEW c \in Commits,
         CommitStep(c) \/ CommitFault(c) \/ (\E h \in handed : CommitStart(c, h))
  PROVE  [Ledger!Next]_(Ledger!ledger)
<1> DEFINE Flies == {"recas", "check", "write"}
<1>1. UNCHANGED reverts
  BY DEF CommitStep, CommitFault, CommitStart, Cas, CasReplyLost, CasFails, StillOwned, Write, MarkRead,
         MarkArchive, MarkStamp, MarkReplyLost, MarkCollides, MarkUnmatched, CommitThrows, history
<1>2. ASSUME UNCHANGED writes, \A q \in Rows : UNCHANGED <<Created(q), Ticket(q)>>,
             \A q \in Rows : InFlight(q)' = InFlight(q)
      PROVE  [Ledger!Next]_(Ledger!ledger)
  <2>1. \A q \in Rows : Same(q)
    BY <1>1, <1>2 DEF Same, Count
  <2> QED BY <2>1, LedgerStutters
<1>3. ASSUME cpc[c] \in Flies, cpc'[c] \notin Flies, \A q \in Rows : UNCHANGED <<Created(q), Ticket(q)>>,
             \A d \in Commits \ {c} : cpc'[d] = cpc[d] /\ arg'[d] = arg[d],
             writes' \in {writes, [writes EXCEPT ![Row(c)] = @ + 1]}
      PROVE  [Ledger!Next]_(Ledger!ledger)
  <2>1. PICK r \in Rows : r = Row(c)
    BY <1>3 DEF Held, Row, Work
  <2>2. c \in InFlight(r) /\ InFlight(r)' = InFlight(r) \ {c}
    BY <1>3, <2>1 DEF InFlight, Row
  <2>3. \A q \in Rows \ {r} : InFlight(q)' = InFlight(q)
    BY <1>3, <2>1 DEF InFlight, Row
  <2>4. Only(r) /\ writes'[r] \in {writes[r], writes[r] + 1}
    BY <1>1, <1>3, <2>1, <2>3 DEF Only, Same, Count, TypeOK
  <2>5. Count(r)' = Count(r) - 1 /\ Count(r) \in Nat
    BY <2>2, Counts, CommitSets DEF Count
  <2>6. Count(r)' \in Nat
    BY <2>2, Counts, CommitSets DEF Count
  <2>7. Count(r) > 0
    BY <2>5, <2>6
  <2> QED BY <1>1, <1>3, <2>4, <2>5, <2>7, LedgerWritesOrGivesUp
<1>4. CASE Cas(c) \/ CasReplyLost(c)
  <2>1. PICK r \in Rows : r = Row(c)
    BY <1>4 DEF Cas, CasReplyLost, Held, Row, Work
  <2>2. /\ UNCHANGED <<arg, writes>> /\ status' = [status EXCEPT ![r] = "committing"]
        /\ status[r] = "processing" \/ (status[r] = "committing" /\ token[r] = c)
        /\ cpc[c] \in {"cas", "recas"} /\ cpc'[c] \in Flies /\ \A d \in Commits \ {c} : cpc'[d] = cpc[d]
    BY <1>4, <2>1 DEF Cas, CasReplyLost, CasMatches, Owns, SwapToCommitting, Goto, TypeOK, history
  <2>3. /\ \A q \in Rows \ {r} : UNCHANGED <<Created(q), Ticket(q)>> /\ InFlight(q)' = InFlight(q)
        /\ UNCHANGED Created(r) /\ Ticket(r)' = 0
    BY <2>1, <2>2 DEF InFlight, Row, Created, Ticket, TypeOK
  <2>4. Only(r)
    BY <1>1, <2>2, <2>3 DEF Only, Same, Count
  <2>5. CASE cpc[c] = "cas"
    <3>1. Ticket(r) = 1
      BY <2>2, <2>5 DEF Ticket, FreshToken
    <3>2. InFlight(r)' = InFlight(r) \cup {c} /\ c \notin InFlight(r)
      BY <2>1, <2>2, <2>5 DEF InFlight, Row
    <3>3. Count(r)' = Count(r) + 1
      BY <3>2, Counts, CallsAssumption, FS_Subset, FS_AddElement DEF Count
    <3> QED BY <1>1, <2>2, <2>3, <2>4, <3>1, <3>3, LedgerExchanges
  <2>6. CASE cpc[c] = "recas"
    <3>1. InFlight(r)' = InFlight(r)
      BY <2>1, <2>2, <2>6 DEF InFlight, Row
    <3>2. CASE status[r] = "processing"
      <4>1. Ticket(r) = 1
        BY <3>2 DEF Ticket
      <4> QED BY <1>1, <2>2, <2>3, <2>4, <3>1, <4>1, LedgerCancels DEF Count
    <3>3. CASE status[r] = "committing"
      <4>1. \A q \in Rows : UNCHANGED <<Created(q), Ticket(q)>> /\ InFlight(q)' = InFlight(q)
        BY <2>2, <2>3, <3>1, <3>3 DEF Created, Ticket, TypeOK
      <4> QED BY <1>2, <2>2, <4>1
    <3> QED BY <2>2, <3>2, <3>3
  <2> QED BY <2>2, <2>5, <2>6
<1>5. CASE Write(c)
  <2>1. /\ UNCHANGED <<status, arg>> /\ cpc[c] = "write" /\ cpc' = [cpc EXCEPT ![c] = "mark"]
        /\ writes' \in {writes, [writes EXCEPT ![Row(c)] = @ + 1]}
    BY <1>5 DEF Write, Goto, table
  <2> QED BY <1>3, <2>1 DEF Created, Ticket, TypeOK
<1>6. CASE CasFails(c) \/ StillOwned(c) \/ CommitThrows(c)
  <2>1. UNCHANGED <<status, writes>>
    BY <1>6 DEF CasFails, StillOwned, CommitThrows, table, history
  <2>2. /\ \A d \in Commits \ {c} : cpc'[d] = cpc[d] /\ arg'[d] = arg[d]
        /\ cpc'[c] \in {"idle", "mark", "write"}
        /\ cpc'[c] = "write" => cpc[c] = "check" /\ arg'[c] = arg[c]
    BY <1>6 DEF CasFails, StillOwned, CommitThrows, CommitEnds, Goto, TypeOK
  <2>3. CASE cpc[c] \in Flies /\ cpc'[c] # "write"
    BY <1>3, <2>1, <2>2, <2>3 DEF Created, Ticket
  <2>4. CASE cpc[c] \notin Flies \/ cpc'[c] = "write"
    BY <1>2, <2>1, <2>2, <2>4 DEF Created, Ticket, InFlight
  <2> QED BY <2>3, <2>4
<1>7. CASE MarkRead(c) \/ MarkArchive(c) \/ MarkStamp(c) \/ MarkReplyLost(c) \/ MarkCollides(c)
           \/ MarkUnmatched(c)
  <2>1. /\ UNCHANGED writes /\ cpc[c] \notin Flies /\ cpc'[c] \notin Flies
        /\ \A d \in Commits \ {c} : cpc'[d] = cpc[d] /\ arg'[d] = arg[d]
    BY <1>7 DEF MarkRead, MarkArchive, MarkStamp, MarkReplyLost, MarkCollides, MarkUnmatched,
                CommitEnds, Goto, TypeOK, history
  <2>2. \A q \in Rows : UNCHANGED <<Created(q), Ticket(q)>>
    BY <1>7 DEF MarkRead, MarkArchive, MarkStamp, MarkReplyLost, MarkCollides, MarkUnmatched,
                StampRow, Owns, Created, Ticket, Terminal, TypeOK, table
  <2> QED BY <1>2, <2>1, <2>2 DEF InFlight
<1>8. CASE \E h \in handed : CommitStart(c, h)
  <2>1. /\ UNCHANGED <<status, writes>> /\ cpc[c] \notin Flies /\ cpc'[c] \notin Flies
        /\ \A d \in Commits \ {c} : cpc'[d] = cpc[d] /\ arg'[d] = arg[d]
    BY <1>8 DEF CommitStart, TypeOK, table, history
  <2> QED BY <1>2, <2>1 DEF InFlight, Created, Ticket
<1> QED BY <1>4, <1>5, <1>6, <1>7, <1>8 DEF CommitStep, CommitFault

LEMMA NextRefines ==
  TypeOK /\ TypeOK' /\ Held /\ FreshToken /\ Existing /\ [Next]_vars => [Ledger!Next]_(Ledger!ledger)
<1> SUFFICES ASSUME TypeOK, TypeOK', Held, FreshToken, Existing, [Next]_vars
             PROVE  [Ledger!Next]_(Ledger!ledger)
  OBVIOUS
<1>1. CASE \E r \in Rows : Enqueue(r) \/ Expire(r) \/ Purge(r)
  BY <1>1, EnvRefines
<1>2. CASE \E f \in Fetchers : FetchStart(f) \/ FetchStep(f) \/ FetchFault(f)
  BY <1>2, FetchRefines
<1>3. CASE \E h \in handed : \E c \in Commits : CommitStart(c, h)
  BY <1>3, CommitRefines
<1>4. CASE \E c \in Commits : CommitStep(c) \/ CommitFault(c)
  BY <1>4, CommitRefines
<1>5. CASE DaemonCrash
  <2>1. UNCHANGED <<status, writes, reverts>> /\ \A r \in Rows : InFlight(r)' = {}
    BY <1>5 DEF DaemonCrash, table, history, InFlight
  <2>2. \A r \in Rows : Count(r)' = 0 /\ UNCHANGED <<Created(r), Ticket(r), reverts[r], writes[r]>>
    BY <2>1, FS_EmptySet DEF Count, Created, Ticket
  <2> QED BY <2>2, LedgerCollapses
<1>6. CASE (\E h \in handed : Forget(h)) \/ UNCHANGED vars
  <2>1. UNCHANGED <<status, writes, reverts, cpc, arg>>
    BY <1>6 DEF Forget, vars, table, commit, history
  <2>2. \A r \in Rows : Same(r)
    BY <2>1 DEF Same, Count, InFlight, Created, Ticket
  <2> QED BY <2>2, LedgerStutters
<1> QED BY <1>1, <1>2, <1>3, <1>4, <1>5, <1>6 DEF Next

LEMMA InitRefines == Init => Ledger!Init
<1> SUFFICES ASSUME Init PROVE Ledger!Init
  OBVIOUS
<1>1. \A r \in Rows : Created(r) = 0 /\ Ticket(r) = 0 /\ reverts[r] = 0 /\ InFlight(r) = {}
  BY DEF Init, Created, Ticket, InFlight
<1>2. writes = [r \in Rows |-> 0]
  BY DEF Init
<1> QED BY <1>1, <1>2, FS_EmptySet DEF Ledger!Init, Ledger!Zero

-----------------------------------------------------------------------------
(* The theorems.                                                           *)

(* The inductive invariant: types, rows held, fresh tokens, the budget.    *)
THEOREM InvariantHolds == Spec => []IInv
<1>1. Init => IInv
  BY InitTypeOK, InitHeld, InitBudget DEF IInv
<1>2. IInv /\ [Next]_vars => IInv'
  BY NextTypeOK, NextHeld, NextFreshToken, NextBudget DEF IInv
<1> QED BY <1>1, <1>2, PTL DEF Spec

(* Every variable of the queue keeps its type: no query of the handlers    *)
(* puts a row in a status the schema does not know.                        *)
THEOREM QueueTypeCorrect == Spec => []TypeOK
<1>1. IInv => TypeOK
  BY DEF IInv
<1> QED BY <1>1, InvariantHolds, PTL

(* The results of a work item are written at most once, and once more per  *)
(* time the stale recovery re-opened its row: for any number of drainers,  *)
(* duplicate commits, lost replies and crashes of the daemon.              *)
THEOREM WritesAreBudgeted == Spec => []WriteBudget
<1>1. IInv => WriteBudget
  <2> SUFFICES ASSUME IInv, NEW r \in Rows PROVE writes[r] <= 1 + reverts[r]
    BY DEF WriteBudget
  <2> QED BY Counts DEF IInv, Budget, RowBudget
<1> QED BY <1>1, InvariantHolds, PTL

(* Whatever order recovery, claims, commits and purges land in, no two     *)
(* active rows of a session and work type share a status, no row reads     *)
(* completed that nobody worked on, and archiving loses no work.           *)
THEOREM TableStaysConsistent == Spec => []RowsConsistent
<1>1. Init => TableInv
  BY InitTable
<1>2. TypeOK /\ Held /\ TableInv /\ [Next]_vars => TableInv'
  BY NextTable
<1>3. IInv => TypeOK /\ Held
  BY DEF IInv
<1>4. TableInv => RowsConsistent
  BY DEF TableInv
<1> QED BY <1>1, <1>2, <1>3, <1>4, InvariantHolds, PTL DEF Spec

(* The queue implements the ledger of tickets, step by step: whatever the  *)
(* drainers, their retries, lost replies and crashes do, the right to      *)
(* write is issued, exchanged once and spent.                              *)
THEOREM QueueImplementsLedger == Spec => ImplementsLedger
<1>1. Init => TableInv
  BY InitTable
<1>2. TypeOK /\ Held /\ TableInv /\ [Next]_vars => TableInv'
  BY NextTable
<1>3. TypeOK /\ TypeOK' /\ Held /\ FreshToken /\ Existing /\ [Next]_vars => [Ledger!Next]_(Ledger!ledger)
  BY NextRefines
<1>4. IInv => TypeOK /\ Held /\ FreshToken
  BY DEF IInv
<1>5. TableInv => Existing
  BY DEF TableInv
<1> QED BY <1>1, <1>2, <1>3, <1>4, <1>5, InitRefines, InvariantHolds, PTL
        DEF Spec, ImplementsLedger, Ledger!LedgerSpec

-----------------------------------------------------------------------------
(* The ends of sessions, where rows of the queue come from: SessionCleanup *)
(* as MCSessionCleanup has it.  First the types, one part of the state at  *)
(* a time.                                                                 *)
StoreTypes ==
  /\ conv \in [SessionRows -> Conversations \cup {None}]
  /\ closed \subseteq {r \in SessionRows : conv[r] # None}
  /\ claim \in [SessionRows -> Workers \cup {None}]
  /\ bound \in [Conversations -> SessionRows \cup {None}]
  /\ heard \subseteq {c \in Conversations : bound[c] # None}
  /\ queued \in [SessionRows -> 0..2] /\ slips \in 0..MaxSlips
GradsTypes ==
  /\ pending \subseteq Conversations /\ grads \in [GradTypes -> SUBSET Conversations]
  /\ raced \subseteq GradTypes
WorkerTypes ==
  /\ at \in [Workers -> {"idle", "claim", "count", "gate", "settle"}]
  /\ client \in [Workers -> Conversations \cup {None}]
  /\ rest \in [Workers -> Seq(SessionRows)]
  /\ todo \in [Workers -> SUBSET GradTypes]
  /\ ops \in [Workers -> SUBSET ({"extract"} \cup GradTypes)]
  /\ said \subseteq Workers /\ oks \subseteq Workers /\ fails \subseteq Workers

(* What a worker, or a session in memory, refers to is a session row.      *)
Referred ==
  /\ \A c \in Conversations : bound[c] # None => conv[bound[c]] # None
  /\ \A w \in Workers : \A i \in DOMAIN rest[w] : conv[rest[w][i]] # None
  /\ \A w \in Workers : at[w] # "idle" => rest[w] # <<>>

(* The token of a claim is that of the worker at the row, who owns it if   *)
(* it knows; an owner alone has CREATEs without an answer.                 *)
Claimed(r) ==
  claim[r] # None => at[claim[r]] # "idle" /\ E!Row(claim[r]) = r /\ r \in closed
Owning(w) ==
  /\ E!Owns(w) => claim[E!Row(w)] = w
  /\ ops[w] # {} => at[w] \in {"gate", "settle"}

(* A row with an extraction is closed, and who owns it knows that one of   *)
(* its CREATEs succeeded, and has no extraction left to send.              *)
OnceQueued(r) ==
  queued[r] > 0 =>
    /\ queued[r] = 1 /\ r \in closed
    /\ claim[r] # None => /\ at[claim[r]] \in {"gate", "settle"} /\ claim[r] \in oks
                          /\ "extract" \notin ops[claim[r]]

(* Unless two have passed the gate, one CREATE of a type is under way, or  *)
(* its row is there.                                                       *)
Single(t) ==
  t \notin raced =>
    /\ \A c, d \in grads[t] : c = d
    /\ \A v, w \in Workers : t \in ops[v] /\ t \in ops[w] => v = w
    /\ grads[t] # {} => \A w \in Workers : t \notin ops[w]

Typed == StoreTypes /\ GradsTypes /\ WorkerTypes /\ Referred
EndsInv ==
  /\ Typed
  /\ \A r \in SessionRows : Claimed(r) /\ OnceQueued(r)
  /\ \A w \in Workers : Owning(w)
  /\ \A t \in GradTypes : Single(t)

LEMMA EndsInit == E!Init => EndsInv
<1> SUFFICES ASSUME E!Init PROVE EndsInv
  OBVIOUS
<1> USE SessionAssumption DEF E!Init
<1>1. <<>> \in Seq(SessionRows)
  OBVIOUS
<1>2. StoreTypes /\ GradsTypes /\ WorkerTypes
  BY <1>1 DEF StoreTypes, GradsTypes, WorkerTypes
<1>3. Referred
  BY DEF Referred
<1>4. \A r \in SessionRows : Claimed(r) /\ OnceQueued(r)
  BY DEF Claimed, OnceQueued
<1>5. \A w \in Workers : Owning(w)
  BY DEF Owning, E!Owns
<1>6. \A t \in GradTypes : Single(t)
  BY DEF Single
<1> QED
  BY <1>2, <1>3, <1>4, <1>5, <1>6 DEF EndsInv, Typed

-----------------------------------------------------------------------------
(* The row a worker is at, and those that come after it.                   *)
LEMMA RowOf ==
  ASSUME Typed, NEW w \in Workers, rest[w] # <<>>
  PROVE  /\ E!Row(w) \in SessionRows /\ conv[E!Row(w)] \in Conversations
         /\ Tail(rest[w]) \in Seq(SessionRows)
         /\ \A i \in DOMAIN Tail(rest[w]) : conv[Tail(rest[w])[i]] # None
<1> USE DEF Typed
<1>1. rest[w] \in Seq(SessionRows) /\ Len(rest[w]) \in Nat /\ Len(rest[w]) > 0
  BY DEF WorkerTypes
<1>2. 1 \in DOMAIN rest[w] /\ E!Row(w) = rest[w][1] /\ rest[w][1] \in SessionRows
  BY <1>1 DEF E!Row
<1>3. conv[E!Row(w)] # None
  BY <1>2 DEF Referred
<1>4. \A i \in DOMAIN Tail(rest[w]) : i + 1 \in DOMAIN rest[w] /\ Tail(rest[w])[i] = rest[w][i + 1]
  BY <1>1
<1> QED
  BY <1>1, <1>2, <1>3, <1>4 DEF Referred, StoreTypes

(* A worker takes up rows; what the others do stays.                       *)
Others(w) == \A v \in Workers \ {w} :
  /\ at'[v] = at[v] /\ rest'[v] = rest[v] /\ ops'[v] = ops[v]
  /\ v \in oks' <=> v \in oks

LEMMA TakesUp ==
  ASSUME SessionAssumption, WorkerTypes, NEW w \in Workers, NEW s \in Seq(SessionRows),
         E!TakeUp(w, s)
  PROVE  /\ WorkerTypes' /\ Others(w)
         /\ rest'[w] = s /\ ops'[w] = {} /\ at'[w] = IF s = <<>> THEN "idle" ELSE "claim"
<1> USE DEF E!TakeUp
<1>1. at' \in [Workers -> {"idle", "claim", "count", "gate", "settle"}]
  BY DEF WorkerTypes
<1>2. client' \in [Workers -> Conversations \cup {None}]
  BY DEF WorkerTypes
<1>3. rest' \in [Workers -> Seq(SessionRows)]
  BY DEF WorkerTypes
<1>4. todo' \in [Workers -> SUBSET GradTypes] /\ ops' \in [Workers -> SUBSET ({"extract"} \cup GradTypes)]
  BY DEF WorkerTypes
<1>5. said' \subseteq Workers /\ oks' \subseteq Workers /\ fails' \subseteq Workers
  BY DEF WorkerTypes
<1>6. WorkerTypes'
  BY <1>1, <1>2, <1>3, <1>4, <1>5 DEF WorkerTypes
<1>7. rest'[w] = s /\ ops'[w] = {} /\ at'[w] = IF s = <<>> THEN "idle" ELSE "claim"
  BY DEF WorkerTypes
<1>8. Others(w)
  BY DEF WorkerTypes, Others
<1> QED
  BY <1>6, <1>7, <1>8

(* removeSession.                                                          *)
LEMMA Removes ==
  ASSUME StoreTypes, NEW w \in Workers, E!Removed(w)
  PROVE  /\ bound' \in [Conversations -> SessionRows \cup {None}]
         /\ heard' \subseteq {c \in Conversations : bound'[c] # None}
         /\ \A c \in Conversations : bound'[c] # None => bound'[c] = bound[c]
  BY DEF StoreTypes, E!Removed

(* A row that nothing refers to is given to a new session.                 *)
LEMMA Creates ==
  ASSUME Typed, NEW c \in Conversations, NEW r \in SessionRows,
         E!Unused(r), E!Created(c, r), c # None
  PROVE  /\ conv' \in [SessionRows -> Conversations \cup {None}]
         /\ conv'[r] = c /\ \A x \in SessionRows \ {r} : conv'[x] = conv[x]
         /\ closed' \subseteq {x \in SessionRows : conv'[x] # None}
         /\ claim' \in [SessionRows -> Workers \cup {None}]
         /\ queued' \in [SessionRows -> 0..2]
         /\ \A w \in Workers : rest[w] # <<>> => E!Row(w) # r
         /\ \A x \in SessionRows : conv[x] # None => conv'[x] # None
<1> USE DEF Typed
<1>1. /\ conv' \in [SessionRows -> Conversations \cup {None}]
      /\ conv'[r] = c /\ \A x \in SessionRows \ {r} : conv'[x] = conv[x]
      /\ closed' = closed \ {r}
      /\ claim' \in [SessionRows -> Workers \cup {None}] /\ queued' \in [SessionRows -> 0..2]
  BY DEF E!Created, StoreTypes
<1>2. ASSUME NEW w \in Workers, rest[w] # <<>> PROVE E!Row(w) # r
  <2>1. rest[w] \in Seq(SessionRows) /\ 1 \in DOMAIN rest[w] /\ E!Row(w) = rest[w][1]
    BY <1>2 DEF WorkerTypes, E!Row
  <2> QED
    BY <2>1 DEF E!Unused, E!Range
<1> QED
  BY <1>1, <1>2 DEF StoreTypes

(* A step that leaves the workers and the queue alone.                     *)
LEMMA MemoryTyped ==
  ASSUME Typed, NEW c \in Conversations,
         (\E r \in SessionRows : E!SessionStart(c, r)) \/ E!Prompt(c) \/ E!SecondTurn(c) \/ E!Evict(c)
  PROVE  Typed'
<1> USE SessionAssumption DEF Typed
<1>1. ASSUME NEW r \in SessionRows, E!Unused(r), E!Created(c, r), bound' = [bound EXCEPT ![c] = r],
             UNCHANGED <<heard, E!queue, E!worker, slips>>
      PROVE  Typed'
  <2>1. /\ conv' \in [SessionRows -> Conversations \cup {None}]
        /\ conv'[r] = c /\ closed' \subseteq {x \in SessionRows : conv'[x] # None}
        /\ claim' \in [SessionRows -> Workers \cup {None}]
        /\ queued' \in [SessionRows -> 0..2]
        /\ \A x \in SessionRows : conv[x] # None => conv'[x] # None
    BY <1>1, Creates
  <2>2. /\ bound' \in [Conversations -> SessionRows \cup {None}] /\ bound'[c] = r
        /\ \A d \in Conversations \ {c} : bound'[d] = bound[d]
    BY <1>1 DEF StoreTypes
  <2>3. StoreTypes'
    BY <1>1, <2>1, <2>2 DEF StoreTypes
  <2>4. GradsTypes' /\ WorkerTypes'
    BY <1>1 DEF GradsTypes, WorkerTypes, E!queue, E!worker
  <2>5. \A d \in Conversations : bound'[d] # None => conv'[bound'[d]] # None
    BY <2>1, <2>2 DEF Referred, StoreTypes
  <2>6. \A w \in Workers : \A i \in DOMAIN rest[w] : rest[w][i] \in SessionRows
    BY DEF WorkerTypes
  <2>7. Referred'
    BY <1>1, <2>1, <2>5, <2>6 DEF Referred, E!worker
  <2> QED
    BY <2>3, <2>4, <2>7
<1>2. ASSUME NEW r \in SessionRows, E!SessionStart(c, r) PROVE Typed'
  BY <1>1, <1>2 DEF E!SessionStart
<1>3. CASE E!Prompt(c)
  <2>1. PICK r \in SessionRows :
          /\ bound' = [bound EXCEPT ![c] = r]
          /\ \/ conv[r] = c /\ UNCHANGED <<E!store, queued>>
             \/ E!Unused(r) /\ E!Created(c, r)
    BY <1>3 DEF E!Prompt
  <2>2. UNCHANGED <<heard, E!queue, E!worker, slips>> /\ bound[c] = None
    BY <1>3 DEF E!Prompt
  <2>3. CASE conv[r] = c /\ UNCHANGED <<E!store, queued>>
    <3>1. StoreTypes'
      BY <2>1, <2>2, <2>3 DEF StoreTypes, E!store
    <3>2. GradsTypes' /\ WorkerTypes'
      BY <2>2 DEF GradsTypes, WorkerTypes, E!queue, E!worker
    <3>3. Referred'
      BY <2>1, <2>2, <2>3 DEF Referred, StoreTypes, E!store, E!worker
    <3> QED
      BY <3>1, <3>2, <3>3
  <2>4. CASE E!Unused(r) /\ E!Created(c, r)
    BY <1>1, <2>1, <2>2, <2>4
  <2> QED
    BY <2>1, <2>3, <2>4
<1>4. CASE E!SecondTurn(c)
  <2>1. StoreTypes' /\ GradsTypes' /\ Referred'
    BY <1>4 DEF E!SecondTurn, StoreTypes, GradsTypes, Referred, E!store, E!queue
  <2>2. WorkerTypes'
    BY <1>4 DEF E!SecondTurn, WorkerTypes
  <2> QED
    BY <2>1, <2>2
<1>5. CASE E!Evict(c)
  BY <1>5 DEF E!Evict, StoreTypes, GradsTypes, WorkerTypes, Referred, E!store, E!queue, E!worker
<1> QED
  BY <1>2, <1>3, <1>4, <1>5

(* The tail of what a worker has in hand.                                  *)
LEMMA OnwardTyped ==
  ASSUME Typed, NEW w \in Workers, at[w] # "idle", E!Onward(w)
  PROVE  /\ WorkerTypes' /\ Others(w) /\ ops'[w] = {} /\ at'[w] \in {"idle", "claim"}
         /\ \A v \in Workers : at'[v] # "idle" => rest'[v] # <<>>
         /\ \A v \in Workers : \A i \in DOMAIN rest'[v] : conv[rest'[v][i]] # None
<1>1. rest[w] # <<>>
  BY DEF Typed, Referred
<1>2. /\ Tail(rest[w]) \in Seq(SessionRows)
      /\ \A i \in DOMAIN Tail(rest[w]) : conv[Tail(rest[w])[i]] # None
  BY <1>1, RowOf
<1>3. /\ WorkerTypes' /\ Others(w)
      /\ rest'[w] = Tail(rest[w]) /\ ops'[w] = {}
      /\ at'[w] = IF Tail(rest[w]) = <<>> THEN "idle" ELSE "claim"
  BY <1>2, SessionAssumption, TakesUp DEF E!Onward, Typed
<1>4. \A v \in Workers : at'[v] # "idle" => rest'[v] # <<>>
  BY <1>3 DEF Others, Typed, Referred
<1>5. ASSUME NEW v \in Workers, NEW i \in DOMAIN rest'[v] PROVE conv[rest'[v][i]] # None
  <2>1. CASE v = w
    BY <1>2, <1>3, <2>1
  <2>2. CASE v # w
    <3>1. rest'[v] = rest[v]
      BY <1>3, <2>2 DEF Others
    <3> QED
      BY <3>1 DEF Typed, Referred
  <2> QED
    BY <2>1, <2>2
<1> QED
  BY <1>3, <1>4, <1>5

(* A claim, of which the worker may not know.                              *)
LEMMA ClosesTyped ==
  ASSUME Typed, NEW w \in Workers, at[w] # "idle", E!Closes(w),
         claim' = [claim EXCEPT ![E!Row(w)] = w],
         UNCHANGED <<E!memory, queued>>, slips' \in 0..MaxSlips
  PROVE  StoreTypes' /\ \A r \in SessionRows : conv[r] # None => conv'[r] # None
<1>1. E!Row(w) \in SessionRows /\ conv[E!Row(w)] # None
  BY RowOf, SessionAssumption DEF Typed, Referred
<1> QED
  BY <1>1 DEF Typed, StoreTypes, E!Closes, E!memory

LEMMA Mishaps == ASSUME slips \in 0..MaxSlips, E!Fault PROVE slips' \in 0..MaxSlips
  BY SessionAssumption DEF E!Fault

(* The steps of a worker up to its CREATEs.                                *)
LEMMA ClaimTyped ==
  ASSUME Typed, NEW w \in Workers,
         E!Claim(w) \/ E!ClaimReplyLost(w) \/ E!ClaimLost(w) \/ E!ClaimThrows(w) \/ E!Count(w)
  PROVE  Typed'
<1> USE SessionAssumption
<1>1. CASE E!Claim(w)
  <2>1. at[w] = "claim" /\ UNCHANGED <<E!memory, E!queue, client, rest, oks, fails, queued, slips>>
    BY <1>1 DEF E!Claim
  <2>2. StoreTypes' /\ \A r \in SessionRows : conv[r] # None => conv'[r] # None
    BY <1>1, <2>1, ClosesTyped DEF E!Claim, Typed, StoreTypes
  <2>3. at' \in [Workers -> {"idle", "claim", "count", "gate", "settle"}]
        /\ ops' \in [Workers -> SUBSET ({"extract"} \cup GradTypes)]
    <3>1. \/ at' = [at EXCEPT ![w] = "count"] /\ UNCHANGED ops
          \/ /\ at' = [at EXCEPT ![w] = "gate"]
             /\ ops' \in {[ops EXCEPT ![w] = {"extract"}], [ops EXCEPT ![w] = {}]}
      BY <1>1 DEF E!Claim
    <3>2. at \in [Workers -> {"idle", "claim", "count", "gate", "settle"}]
          /\ ops \in [Workers -> SUBSET ({"extract"} \cup GradTypes)]
      BY DEF Typed, WorkerTypes
    <3> QED
      BY <3>1, <3>2
  <2>4. todo' \in [Workers -> SUBSET GradTypes] /\ said' \subseteq Workers
    <3>1. todo' = [todo EXCEPT ![w] = GradTypes] /\ said' = said \ {w}
      BY <1>1 DEF E!Claim
    <3> QED
      BY <3>1 DEF Typed, WorkerTypes
  <2>5. WorkerTypes' /\ GradsTypes'
    BY <2>1, <2>3, <2>4 DEF Typed, WorkerTypes, GradsTypes, E!queue
  <2>6. \A v \in Workers : at'[v] # "idle" => at[v] # "idle"
    BY <1>1, <2>1 DEF E!Claim, Typed, WorkerTypes
  <2>7. Referred'
    BY <1>1, <2>1, <2>6 DEF Typed, Referred, E!memory, E!Claim, E!Closes
  <2> QED
    BY <2>2, <2>5, <2>7 DEF Typed
<1>2. CASE E!ClaimReplyLost(w)
  <2>1. at[w] = "claim" /\ UNCHANGED <<E!memory, E!queue, E!worker, queued>> /\ E!Fault
        /\ UNCHANGED conv
    BY <1>2 DEF E!ClaimReplyLost, E!Closes
  <2>2. StoreTypes'
    BY <1>2, <2>1, ClosesTyped, Mishaps DEF E!ClaimReplyLost, Typed, StoreTypes
  <2>3. WorkerTypes' /\ GradsTypes' /\ Referred'
    BY <2>1 DEF Typed, WorkerTypes, GradsTypes, Referred, E!queue, E!worker, E!memory
  <2> QED
    BY <2>2, <2>3 DEF Typed
<1>3. CASE E!ClaimLost(w)
  <2>1. at[w] = "claim" /\ E!Onward(w) /\ E!Removed(w)
        /\ UNCHANGED <<conv, closed, claim, E!queue, queued, slips>>
    BY <1>3 DEF E!ClaimLost, E!store
  <2>2. StoreTypes'
    BY <2>1, Removes DEF Typed, StoreTypes
  <2>3. GradsTypes'
    BY <2>1 DEF Typed, GradsTypes, E!queue
  <2>4. WorkerTypes' /\ Referred'
    BY <2>1, OnwardTyped, Removes DEF Typed, Referred
  <2> QED
    BY <2>2, <2>3, <2>4 DEF Typed
<1>4. CASE E!ClaimThrows(w)
  <2>1. at[w] = "claim" /\ E!Onward(w) /\ E!Fault /\ UNCHANGED <<conv, E!memory, E!queue, queued>>
    BY <1>4 DEF E!ClaimThrows, E!Closes
  <2>2. E!Row(w) \in SessionRows /\ conv[E!Row(w)] # None
    BY <2>1, RowOf DEF Typed, Referred
  <2>3. closed' \subseteq {r \in SessionRows : conv[r] # None}
    BY <1>4, <2>2 DEF E!ClaimThrows, E!Closes, Typed, StoreTypes
  <2>4. claim' \in [SessionRows -> Workers \cup {None}]
    BY <1>4 DEF E!ClaimThrows, Typed, StoreTypes
  <2>5. StoreTypes'
    BY <2>1, <2>3, <2>4, Mishaps DEF Typed, StoreTypes, E!memory
  <2>6. GradsTypes'
    BY <2>1 DEF Typed, GradsTypes, E!queue
  <2>7. WorkerTypes' /\ Referred'
    BY <2>1, OnwardTyped DEF Typed, Referred, E!memory
  <2> QED
    BY <2>5, <2>6, <2>7 DEF Typed
<1>5. CASE E!Count(w)
  <2>1. /\ at' = [at EXCEPT ![w] = "gate"] /\ at[w] = "count"
        /\ ops' \in {ops, [ops EXCEPT ![w] = {"extract"}]}
        /\ UNCHANGED <<conv, closed, claim, E!memory, E!queue, client, said, rest, todo, oks, fails,
                       queued, slips>>
    BY <1>5 DEF E!Count, E!store
  <2>2. ops' \in [Workers -> SUBSET ({"extract"} \cup GradTypes)]
    BY <2>1 DEF Typed, WorkerTypes
  <2>3. WorkerTypes'
    BY <2>1, <2>2 DEF Typed, WorkerTypes
  <2>4. StoreTypes' /\ GradsTypes'
    BY <2>1 DEF Typed, StoreTypes, GradsTypes, E!memory, E!queue
  <2>5. Referred'
    BY <2>1 DEF Typed, WorkerTypes, Referred, E!memory
  <2> QED
    BY <2>3, <2>4, <2>5 DEF Typed
<1> QED
  BY <1>1, <1>2, <1>3, <1>4, <1>5

(* The CREATE of a worker may land.                                        *)
LEMMA LandsTyped ==
  ASSUME Typed, NEW w \in Workers, NEW o \in E!CREATEs, at[w] # "idle",
         E!Lands(w, o) \/ UNCHANGED E!queue
  PROVE  GradsTypes'
<1>1. conv[E!Row(w)] \in Conversations
  BY RowOf DEF Typed, Referred
<1>2. o # "extract" => o \in GradTypes
  BY DEF E!CREATEs
<1> QED
  BY <1>1, <1>2 DEF Typed, GradsTypes, E!Lands, E!queue

LEMMA SettleTyped ==
  ASSUME Typed, NEW w \in Workers, Owning(w),
         \/ \E t \in GradTypes : E!Gate(w, t)
         \/ \E o \in E!CREATEs : E!Create(w, o) \/ E!CreateFails(w, o)
         \/ E!Honour(w) \/ E!Release(w)
  PROVE  Typed'
<1> USE SessionAssumption
<1>1. ASSUME NEW t \in GradTypes, E!Gate(w, t) PROVE Typed'
  <2>1. /\ UNCHANGED <<conv, closed, claim, E!memory, pending, grads, client, said, rest, oks, fails,
                       queued>>
        /\ at[w] = "gate" /\ raced' \subseteq GradTypes
    BY <1>1 DEF E!Gate, E!store, Typed, GradsTypes
  <2>2. slips' \in 0..MaxSlips
    BY <1>1, Mishaps DEF E!Gate, Typed, StoreTypes
  <2>3. ops' \in [Workers -> SUBSET ({"extract"} \cup GradTypes)]
    BY <1>1 DEF E!Gate, Typed, WorkerTypes
  <2>4. /\ todo' \in [Workers -> SUBSET GradTypes]
        /\ at' = [at EXCEPT ![w] = IF todo[w] = {t} THEN "settle" ELSE "gate"]
    BY <1>1 DEF E!Gate, Typed, WorkerTypes
  <2>5. at' \in [Workers -> {"idle", "claim", "count", "gate", "settle"}]
    BY <2>4 DEF Typed, WorkerTypes
  <2>6. WorkerTypes'
    BY <2>1, <2>3, <2>4, <2>5 DEF Typed, WorkerTypes
  <2>7. StoreTypes' /\ GradsTypes'
    BY <2>1, <2>2 DEF Typed, StoreTypes, GradsTypes, E!memory
  <2>8. Referred'
    BY <2>1, <2>4 DEF Typed, WorkerTypes, Referred, E!memory
  <2> QED
    BY <2>6, <2>7, <2>8 DEF Typed
<1>2. ASSUME NEW o \in E!CREATEs, E!Answered(w, o), oks' \subseteq Workers, fails' \subseteq Workers,
             slips' \in 0..MaxSlips, queued' \in [SessionRows -> 0..2],
             E!Lands(w, o) \/ UNCHANGED E!queue
      PROVE  Typed'
  <2>1. /\ o \in ops[w] /\ ops' = [ops EXCEPT ![w] = @ \ {o}]
        /\ UNCHANGED <<conv, closed, claim, E!memory, at, client, said, rest, todo>>
    BY <1>2 DEF E!Answered, E!store
  <2>2. at[w] # "idle"
    BY <2>1 DEF Owning
  <2>3. GradsTypes'
    BY <1>2, <2>2, LandsTyped
  <2>4. WorkerTypes'
    BY <1>2, <2>1 DEF Typed, WorkerTypes
  <2>5. StoreTypes' /\ Referred'
    BY <1>2, <2>1 DEF Typed, StoreTypes, Referred, E!memory
  <2> QED
    BY <2>3, <2>4, <2>5 DEF Typed
<1>3. ASSUME NEW o \in E!CREATEs, E!Create(w, o) PROVE Typed'
  <2>1. queued' \in [SessionRows -> 0..2]
    <3>1. queued' = [queued EXCEPT ![E!Row(w)] = IF o = "extract" /\ @ < 2 THEN @ + 1 ELSE @]
      BY <1>3 DEF E!Create
    <3>2. \A n \in 0..2 : n < 2 => n + 1 \in 0..2
      OBVIOUS
    <3>3. queued \in [SessionRows -> 0..2]
      BY DEF Typed, StoreTypes
    <3> QED
      BY <3>1, <3>2, <3>3
  <2>2. oks' \subseteq Workers /\ fails' \subseteq Workers /\ slips' \in 0..MaxSlips
    BY <1>3 DEF E!Create, Typed, WorkerTypes, StoreTypes
  <2> QED
    BY <1>2, <1>3, <2>1, <2>2 DEF E!Create
<1>4. ASSUME NEW o \in E!CREATEs, E!CreateFails(w, o) PROVE Typed'
  <2>1. slips' \in 0..MaxSlips /\ queued' \in [SessionRows -> 0..2]
    BY <1>4, Mishaps DEF E!CreateFails, Typed, StoreTypes
  <2>2. oks' \subseteq Workers /\ fails' \subseteq Workers
    BY <1>4 DEF E!CreateFails, Typed, WorkerTypes
  <2> QED
    BY <1>2, <1>4, <2>1, <2>2 DEF E!CreateFails
<1>5. CASE E!Honour(w) \/ E!Release(w)
  <2>1. /\ at[w] = "settle" /\ E!Onward(w) /\ E!Removed(w) /\ closed' \subseteq closed
        /\ claim' = [claim EXCEPT ![E!Row(w)] = None]
        /\ UNCHANGED <<conv, E!queue, queued>>
    BY <1>5 DEF E!Honour, E!Release, E!Settled
  <2>2. slips' \in 0..MaxSlips
    BY <1>5, Mishaps DEF E!Honour, E!Release, Typed, StoreTypes
  <2>3. StoreTypes'
    BY <2>1, <2>2, Removes DEF Typed, StoreTypes
  <2>4. GradsTypes'
    BY <2>1 DEF Typed, GradsTypes, E!queue
  <2>5. WorkerTypes' /\ Referred'
    BY <2>1, OnwardTyped, Removes DEF Typed, Referred
  <2> QED
    BY <2>3, <2>4, <2>5 DEF Typed
<1> QED
  BY <1>1, <1>3, <1>4, <1>5

LEMMA RestTyped ==
  ASSUME Typed, \A w \in Workers : Owning(w),
         \/ \E c \in Conversations, w \in Workers : E!SessionEnd(c, w)
         \/ \E w \in Workers : E!Pass(w)
         \/ \E c \in Conversations : E!Extracted(c)
         \/ \E t \in GradTypes : E!Graduated(t)
         \/ E!Restart
  PROVE  Typed'
<1> USE SessionAssumption
<1>1. ASSUME NEW c \in Conversations, NEW w \in Workers, E!SessionEnd(c, w) PROVE Typed'
  <2>1. /\ at' = [at EXCEPT ![w] = "claim"] /\ client' = [client EXCEPT ![w] = c]
        /\ said' \in {said, said \cup {w}} /\ rest' = [rest EXCEPT ![w] = <<bound[c]>>]
        /\ bound[c] # None
        /\ UNCHANGED <<E!store, E!memory, E!queue, todo, ops, oks, fails, queued, slips>>
    BY <1>1 DEF E!SessionEnd
  <2>2. bound[c] \in SessionRows /\ conv[bound[c]] # None
    BY <2>1 DEF Typed, StoreTypes, Referred
  <2>3. <<bound[c]>> \in Seq(SessionRows) /\ <<bound[c]>> # <<>>
        /\ \A i \in DOMAIN <<bound[c]>> : <<bound[c]>>[i] = bound[c]
    BY <2>2
  <2>4. rest' \in [Workers -> Seq(SessionRows)]
    BY <2>1, <2>3 DEF Typed, WorkerTypes
  <2>5. WorkerTypes'
    BY <2>1, <2>4 DEF Typed, WorkerTypes
  <2>6. StoreTypes' /\ GradsTypes'
    BY <2>1 DEF Typed, StoreTypes, GradsTypes, E!store, E!memory, E!queue
  <2>7. /\ rest'[w] = <<bound[c]>>
        /\ \A v \in Workers \ {w} : rest'[v] = rest[v] /\ at'[v] = at[v]
    BY <2>1 DEF Typed, WorkerTypes
  <2>8. \A v \in Workers : at'[v] # "idle" => rest'[v] # <<>>
    BY <2>3, <2>7 DEF Typed, Referred
  <2>9. ASSUME NEW v \in Workers, NEW i \in DOMAIN rest'[v] PROVE conv[rest'[v][i]] # None
    <3>1. CASE v = w
      BY <2>2, <2>3, <2>7, <3>1
    <3>2. CASE v # w
      BY <2>7, <3>2 DEF Typed, Referred
    <3> QED
      BY <3>1, <3>2
  <2>10. Referred'
    BY <2>1, <2>8, <2>9 DEF Typed, Referred, E!store, E!memory
  <2> QED
    BY <2>5, <2>6, <2>10 DEF Typed
<1>2. ASSUME NEW w \in Workers, E!Pass(w) PROVE Typed'
  <2>1. PICK s \in E!Orphans : E!TakeUp(w, s)
    BY <1>2 DEF E!Pass
  <2>2. UNCHANGED <<E!store, E!memory, E!queue, queued, slips>>
    BY <1>2 DEF E!Pass
  <2>3. PICK n \in 1..OrphanLimit : s \in [1..n -> {r \in SessionRows : conv[r] # None} \ closed]
    BY DEF E!Orphans
  <2>4. n \in Nat
    BY <2>3
  <2>5. s \in Seq(SessionRows) /\ \A i \in DOMAIN s : conv[s[i]] # None
    BY <2>3, <2>4
  <2>6. /\ WorkerTypes' /\ Others(w)
        /\ rest'[w] = s /\ at'[w] = IF s = <<>> THEN "idle" ELSE "claim"
    BY <2>1, <2>5, TakesUp DEF Typed
  <2>7. StoreTypes' /\ GradsTypes'
    BY <2>2 DEF Typed, StoreTypes, GradsTypes, E!store, E!memory, E!queue
  <2>8. \A v \in Workers : at'[v] # "idle" => rest'[v] # <<>>
    BY <2>6 DEF Others, Typed, Referred
  <2>9. ASSUME NEW v \in Workers, NEW i \in DOMAIN rest'[v] PROVE conv[rest'[v][i]] # None
    <3>1. CASE v = w
      BY <2>5, <2>6, <3>1
    <3>2. CASE v # w
      <4>1. rest'[v] = rest[v]
        BY <2>6, <3>2 DEF Others
      <4> QED
        BY <4>1 DEF Typed, Referred
    <3> QED
      BY <3>1, <3>2
  <2>10. Referred'
    BY <2>2, <2>8, <2>9 DEF Typed, Referred, E!store, E!memory
  <2> QED
    BY <2>6, <2>7, <2>10 DEF Typed
<1>3. ASSUME NEW c \in Conversations, E!Extracted(c) PROVE Typed'
  BY <1>3 DEF E!Extracted, Typed, StoreTypes, GradsTypes, WorkerTypes, Referred, E!store, E!memory,
              E!worker
<1>4. ASSUME NEW t \in GradTypes, E!Graduated(t) PROVE Typed'
  <2>1. GradsTypes'
    BY <1>4 DEF E!Graduated, Typed, GradsTypes
  <2>2. UNCHANGED <<E!store, E!memory, E!worker, queued, slips>>
    BY <1>4 DEF E!Graduated
  <2> QED
    BY <2>1, <2>2 DEF Typed, StoreTypes, WorkerTypes, Referred, E!store, E!memory, E!worker
<1>5. CASE E!Restart
  <2>1. \A w \in Workers : ops[w] # {} => conv[E!Row(w)] \in Conversations
    BY RowOf DEF Owning, Typed, Referred
  <2>2. GradsTypes'
    BY <1>5, <2>1 DEF E!Restart, Typed, GradsTypes
  <2>3. slips' \in 0..MaxSlips
    BY <1>5, Mishaps DEF E!Restart, Typed, StoreTypes
  <2>4. StoreTypes'
    BY <1>5, <2>3 DEF E!Restart, Typed, StoreTypes
  <2>5. WorkerTypes'
    <3>1. <<>> \in Seq(SessionRows)
      OBVIOUS
    <3> QED
      BY <1>5, <3>1 DEF E!Restart, WorkerTypes
  <2>6. Referred'
    BY <1>5 DEF E!Restart, Referred
  <2> QED
    BY <2>2, <2>4, <2>5, <2>6 DEF Typed
<1> QED
  BY <1>1, <1>2, <1>3, <1>4, <1>5

LEMMA TypedStep == ASSUME EndsInv, E!Next PROVE Typed'
<1>1. Typed /\ \A w \in Workers : Owning(w)
  BY DEF EndsInv
<1> QED
  BY <1>1, MemoryTyped, ClaimTyped, SettleTyped, RestTyped DEF E!Next, E!Work

-----------------------------------------------------------------------------
(* Who holds which row.                                                    *)
Locks == /\ \A r \in SessionRows : Claimed(r) /\ OnceQueued(r)
         /\ \A w \in Workers : Owning(w)

(* A step of a worker disturbs the locks at its row only, which has its    *)
(* token or none if the step changes it.                                   *)
LEMMA LocksKeep ==
  ASSUME Typed, Typed', Locks, NEW w \in Workers, Others(w),
         NEW x, x = E!Row(w),
         \A r \in SessionRows \ {x} :
           claim'[r] = claim[r] /\ (r \in closed' <=> r \in closed) /\ queued'[r] = queued[r],
         x \in SessionRows => claim'[x] = claim[x] \/ claim[x] \in {w, None},
         x \in SessionRows => Claimed(x)' /\ OnceQueued(x)',
         Owning(w)'
  PROVE  Locks'
<1>1. ASSUME NEW r \in SessionRows \ {x} PROVE Claimed(r)' /\ OnceQueued(r)'
  <2>1. Claimed(r) /\ OnceQueued(r)
    BY DEF Locks
  <2>2. CASE claim[r] = None
    BY <2>1, <2>2 DEF Claimed, OnceQueued
  <2>3. CASE claim[r] # None
    <3>1. claim[r] \in Workers \ {w}
      BY <2>1, <2>3 DEF Claimed, Typed, StoreTypes
    <3>2. /\ at'[claim[r]] = at[claim[r]] /\ rest'[claim[r]] = rest[claim[r]]
          /\ ops'[claim[r]] = ops[claim[r]] /\ claim[r] \in oks' <=> claim[r] \in oks
      BY <3>1 DEF Others
    <3> QED
      BY <2>1, <3>2 DEF Claimed, OnceQueued, E!Row
  <2> QED
    BY <2>2, <2>3
<1>2. ASSUME NEW v \in Workers \ {w} PROVE Owning(v)'
  <2>1. at'[v] = at[v] /\ rest'[v] = rest[v] /\ ops'[v] = ops[v] /\ Owning(v)
    BY DEF Others, Locks
  <2>2. CASE E!Owns(v)
    <3>1. claim[E!Row(v)] = v /\ E!Row(v) \in SessionRows
      BY <2>1, <2>2, RowOf DEF Owning, E!Owns, Typed, Referred
    <3>2. v # None
      BY SessionAssumption
    <3> QED
      BY <2>1, <3>1, <3>2 DEF Owning, E!Owns, E!Row
  <2>3. CASE ~E!Owns(v)
    BY <2>1, <2>3 DEF Owning, E!Owns
  <2> QED
    BY <2>2, <2>3
<1> QED
  BY <1>1, <1>2 DEF Locks

(* A step in which a worker leaves its row without a token of its own, or  *)
(* has none.                                                               *)
LEMMA LocksLeft ==
  ASSUME Typed, Typed', Locks, NEW w \in Workers, Others(w),
         UNCHANGED <<claim, closed, queued>>, at'[w] \in {"idle", "claim"}, ops'[w] = {},
         \A r \in SessionRows : claim[r] # w
  PROVE  Locks'
<1>0. PICK x : x = E!Row(w)
  OBVIOUS
<1>1. ASSUME x \in SessionRows PROVE Claimed(x)' /\ OnceQueued(x)'
  <2>1. Claimed(x) /\ OnceQueued(x) /\ claim[x] # w
    BY <1>1 DEF Locks
  <2>2. CASE claim[x] = None
    BY <2>1, <2>2 DEF Claimed, OnceQueued
  <2>3. CASE claim[x] # None
    <3>1. claim[x] \in Workers \ {w}
      BY <1>1, <2>1, <2>3 DEF Typed, StoreTypes
    <3>2. /\ at'[claim[x]] = at[claim[x]] /\ rest'[claim[x]] = rest[claim[x]]
          /\ ops'[claim[x]] = ops[claim[x]] /\ claim[x] \in oks' <=> claim[x] \in oks
      BY <3>1 DEF Others
    <3> QED
      BY <2>1, <3>2 DEF Claimed, OnceQueued, E!Row
  <2> QED
    BY <2>2, <2>3
<1>2. Owning(w)'
  BY DEF Owning, E!Owns
<1> QED
  BY <1>0, <1>1, <1>2, LocksKeep

(* The claim of a row: it has no extraction, and no owner.                 *)
LEMMA Free ==
  ASSUME Typed, Locks, NEW w \in Workers, at[w] = "claim"
  PROVE  /\ E!Row(w) \in SessionRows
         /\ E!Claimable(w) => claim[E!Row(w)] \in {w, None} /\ ~(queued[E!Row(w)] > 0)
<1>1. E!Row(w) \in SessionRows
  BY RowOf DEF Typed, Referred
<1>2. Claimed(E!Row(w)) /\ OnceQueued(E!Row(w))
  BY <1>1 DEF Locks
<1>3. ASSUME E!Claimable(w), queued[E!Row(w)] > 0 PROVE FALSE
  <2>1. claim[E!Row(w)] = w /\ w # None
    BY <1>2, <1>3, SessionAssumption DEF OnceQueued, E!Claimable
  <2> QED
    BY <1>2, <1>3, <2>1 DEF OnceQueued
<1> QED
  BY <1>1, <1>2, <1>3 DEF Claimed, E!Claimable

LEMMA ClaimLocks ==
  ASSUME Typed, Typed', Locks, NEW w \in Workers,
         E!Claim(w) \/ E!ClaimReplyLost(w) \/ E!ClaimLost(w) \/ E!ClaimThrows(w)
  PROVE  Locks'
<1>0. PICK x : x = E!Row(w)
  OBVIOUS
<1>1. at[w] = "claim" /\ x \in SessionRows /\ claim \in [SessionRows -> Workers \cup {None}]
  BY <1>0, Free DEF E!Claim, E!ClaimReplyLost, E!ClaimLost, E!ClaimThrows, Typed, StoreTypes
<1>2. \A r \in SessionRows \ {x} : claim[r] # w
  BY <1>0, SessionAssumption DEF Locks, Claimed
<1>3. CASE E!Claim(w) \/ E!ClaimReplyLost(w)
  <2>1. /\ claim[x] \in {w, None} /\ ~(queued[x] > 0)
        /\ claim' = [claim EXCEPT ![x] = w] /\ closed' = closed \cup {x}
        /\ UNCHANGED <<rest, oks, queued>>
    BY <1>0, <1>1, <1>3, Free DEF E!Claim, E!ClaimReplyLost, E!Closes, E!worker
  <2>2. /\ Others(w) /\ at'[w] # "idle"
        /\ ops'[w] # {} => at'[w] = "gate"
    <3>1. CASE E!Claim(w)
      <4>1. \/ at' = [at EXCEPT ![w] = "count"] /\ UNCHANGED ops
            \/ at' = [at EXCEPT ![w] = "gate"] /\ ops' \in {[ops EXCEPT ![w] = {"extract"}], [ops EXCEPT ![w] = {}]}
        BY <3>1 DEF E!Claim
      <4>2. ops[w] = {}
        BY <1>1 DEF Locks, Owning
      <4> QED
        BY <2>1, <4>1, <4>2 DEF Others, Typed, WorkerTypes
    <3>2. CASE E!ClaimReplyLost(w)
      BY <1>1, <3>2 DEF E!ClaimReplyLost, E!worker, Others, Locks, Owning
    <3> QED
      BY <1>3, <3>1, <3>2
  <2>3. claim'[x] = w /\ x \in closed' /\ E!Row(w)' = x
    BY <1>0, <1>1, <2>1 DEF E!Row
  <2>4. Claimed(x)' /\ OnceQueued(x)'
    BY <2>1, <2>2, <2>3 DEF Claimed, OnceQueued
  <2>5. Owning(w)'
    BY <2>2, <2>3 DEF Owning
  <2>6. \A r \in SessionRows \ {x} :
           claim'[r] = claim[r] /\ (r \in closed' <=> r \in closed) /\ queued'[r] = queued[r]
    BY <1>1, <2>1
  <2> QED
    BY <2>1, <2>2, <2>4, <2>5, <2>6, <1>0, LocksKeep
<1>4. CASE E!ClaimLost(w)
  <2>1. E!Onward(w) /\ UNCHANGED <<closed, claim, queued>> /\ claim[x] # w
    BY <1>0, <1>4 DEF E!ClaimLost, E!store, E!Claimable
  <2>2. Others(w) /\ at'[w] \in {"idle", "claim"} /\ ops'[w] = {}
    BY <1>1, <2>1, OnwardTyped
  <2> QED
    BY <1>1, <1>2, <2>1, <2>2, LocksLeft
<1>5. CASE E!ClaimThrows(w)
  <2>1. E!Onward(w) /\ UNCHANGED queued
    BY <1>5 DEF E!ClaimThrows
  <2>2. Others(w) /\ at'[w] \in {"idle", "claim"} /\ ops'[w] = {}
    BY <1>1, <2>1, OnwardTyped
  <2>3. closed' \in {closed, closed \cup {x}}
        /\ \A r \in SessionRows : claim'[r] = IF claim[r] = w THEN None ELSE claim[r]
    BY <1>0, <1>5 DEF E!ClaimThrows, E!Closes
  <2>4. Owning(w)'
    BY <2>2 DEF Owning, E!Owns
  <2>5. Claimed(x)' /\ OnceQueued(x)'
    <3>1. Claimed(x) /\ OnceQueued(x)
      BY <1>1 DEF Locks
    <3>2. CASE claim[x] \in {w, None}
      BY <1>1, <2>1, <2>3, <3>1, <3>2 DEF Claimed, OnceQueued
    <3>3. CASE claim[x] \notin {w, None}
      <4>1. claim'[x] = claim[x] /\ claim[x] \in Workers \ {w}
        BY <1>1, <2>3, <3>3
      <4>2. /\ at'[claim[x]] = at[claim[x]] /\ rest'[claim[x]] = rest[claim[x]]
            /\ ops'[claim[x]] = ops[claim[x]] /\ claim[x] \in oks' <=> claim[x] \in oks
        BY <4>1, <2>2 DEF Others
      <4> QED
        BY <2>1, <2>3, <3>1, <4>1, <4>2 DEF Claimed, OnceQueued, E!Row
    <3> QED
      BY <3>2, <3>3
  <2>6. \A r \in SessionRows \ {x} :
           claim'[r] = claim[r] /\ (r \in closed' <=> r \in closed) /\ queued'[r] = queued[r]
    BY <1>2, <2>1, <2>3
  <2>7. claim'[x] = claim[x] \/ claim[x] \in {w, None}
    BY <1>1, <2>3
  <2> QED
    BY <2>2, <2>4, <2>5, <2>6, <2>7, <1>0, LocksKeep
<1> QED
  BY <1>3, <1>4, <1>5

(* An owner goes on with its row, whose extraction it may send or get an   *)
(* answer for.                                                             *)
LEMMA OwnerKeeps ==
  ASSUME Typed, Typed', Locks, NEW w \in Workers, E!Owns(w), Others(w),
         UNCHANGED <<claim, closed, rest>>,
         at'[w] \in {"gate", "settle"}, w \in oks => w \in oks',
         NEW x, x = E!Row(w),
         \A r \in SessionRows \ {x} : queued'[r] = queued[r],
         queued'[x] > 0 => queued'[x] = 1 /\ w \in oks' /\ "extract" \notin ops'[w]
  PROVE  Locks'
<1>1. x \in SessionRows /\ claim[x] = w /\ w # None
  BY RowOf, SessionAssumption DEF Locks, Owning, E!Owns, Typed, Referred
<1>2. Claimed(x) /\ x \in closed
  BY <1>1 DEF Locks, Claimed
<1>3. claim'[x] = w /\ x \in closed' /\ E!Row(w)' = x
  BY <1>1, <1>2 DEF E!Row
<1>4. Claimed(x)' /\ OnceQueued(x)'
  BY <1>3 DEF Claimed, OnceQueued
<1>5. Owning(w)'
  BY <1>3 DEF Owning
<1> QED
  BY <1>1, <1>4, <1>5, LocksKeep

LEMMA SettleLocks ==
  ASSUME Typed, Typed', Locks, NEW w \in Workers,
         \/ E!Count(w) \/ \E t \in GradTypes : E!Gate(w, t)
         \/ \E o \in E!CREATEs : E!Create(w, o) \/ E!CreateFails(w, o)
         \/ E!Honour(w) \/ E!Release(w)
  PROVE  Locks'
<1>0. PICK x : x = E!Row(w)
  OBVIOUS
<1>1. ASSUME E!Owns(w)
      PROVE  /\ x \in SessionRows /\ claim[x] = w /\ x \in closed /\ queued[x] \in 0..2
             /\ queued[x] > 0 =>
                  /\ queued[x] = 1 /\ at[w] \in {"gate", "settle"} /\ w \in oks
                  /\ "extract" \notin ops[w]
  <2>1. x \in SessionRows /\ claim[x] = w /\ w # None
    BY <1>0, <1>1, RowOf, SessionAssumption DEF Locks, Owning, E!Owns, Typed, Referred
  <2>2. Claimed(x) /\ OnceQueued(x) /\ queued[x] \in 0..2
    BY <2>1 DEF Locks, Typed, StoreTypes
  <2> QED
    BY <2>1, <2>2 DEF Claimed, OnceQueued
<1>2. CASE E!Count(w)
  <2>1. /\ at[w] = "count" /\ at' = [at EXCEPT ![w] = "gate"] /\ ops' \in {ops, [ops EXCEPT ![w] = {"extract"}]}
        /\ UNCHANGED <<claim, closed, rest, oks, queued>>
    BY <1>2 DEF E!Count, E!store
  <2>2. E!Owns(w) /\ Others(w) /\ at'[w] = "gate"
    BY <2>1 DEF E!Owns, Others, Typed, WorkerTypes
  <2>3. ~(queued[x] > 0)
    BY <1>1, <2>1, <2>2
  <2> QED
    BY <1>0, <2>1, <2>2, <2>3, OwnerKeeps
<1>3. ASSUME NEW t \in GradTypes, E!Gate(w, t) PROVE Locks'
  <2>1. /\ at[w] = "gate" /\ at' = [at EXCEPT ![w] = IF todo[w] = {t} THEN "settle" ELSE "gate"]
        /\ ops' \in {ops, [ops EXCEPT ![w] = @ \cup {t}]}
        /\ UNCHANGED <<claim, closed, rest, oks, queued>>
    <3>1. ops' \in {[ops EXCEPT ![w] = @ \cup {t}], [ops EXCEPT ![w] = @]}
      BY <1>3 DEF E!Gate
    <3>2. [ops EXCEPT ![w] = @] = ops
      BY DEF Typed, WorkerTypes
    <3> QED
      BY <1>3, <3>1, <3>2 DEF E!Gate, E!store
  <2>2. E!Owns(w) /\ Others(w) /\ at'[w] \in {"gate", "settle"}
    BY <2>1 DEF E!Owns, Others, Typed, WorkerTypes
  <2>3. "extract" \notin ops[w] => "extract" \notin ops'[w]
    BY <2>1, SessionAssumption DEF Typed, WorkerTypes
  <2> QED
    BY <1>0, <1>1, <2>1, <2>2, <2>3, OwnerKeeps
<1>4. ASSUME NEW o \in E!CREATEs, E!Answered(w, o)
      PROVE  /\ E!Owns(w)
             /\ at'[w] \in {"gate", "settle"} /\ UNCHANGED <<claim, closed, rest>>
             /\ o \in ops[w] /\ ops'[w] = ops[w] \ {o}
             /\ \A v \in Workers \ {w} : at'[v] = at[v] /\ rest'[v] = rest[v] /\ ops'[v] = ops[v]
  BY <1>4 DEF E!Answered, E!Owns, E!store, Locks, Owning, Typed, WorkerTypes
<1>5. ASSUME NEW o \in E!CREATEs, E!Create(w, o) PROVE Locks'
  <2>1. /\ E!Answered(w, o) /\ oks' = oks \cup {w}
        /\ queued' = [queued EXCEPT ![x] = IF o = "extract" /\ @ < 2 THEN @ + 1 ELSE @]
    BY <1>0, <1>5 DEF E!Create
  <2>2. Others(w) /\ w \in oks'
    BY <1>4, <2>1 DEF Others
  <2>3. /\ x \in SessionRows /\ queued[x] \in 0..2 /\ queued \in [SessionRows -> 0..2]
        /\ queued[x] > 0 => queued[x] = 1 /\ "extract" \notin ops[w]
    BY <1>1, <1>4, <2>1 DEF Typed, StoreTypes
  <2>4. \A r \in SessionRows \ {x} : queued'[r] = queued[r]
    BY <2>1, <2>3
  <2>5. CASE o = "extract"
    <3>1. queued[x] = 0
      BY <1>4, <2>1, <2>3, <2>5
    <3>2. queued'[x] = 1
      BY <2>1, <2>3, <2>5, <3>1
    <3> QED
      BY <1>0, <1>4, <2>1, <2>2, <2>4, <2>5, <3>2, OwnerKeeps
  <2>6. CASE o # "extract"
    <3>1. queued'[x] = queued[x]
      BY <2>1, <2>3, <2>6
    <3> QED
      BY <1>0, <1>4, <2>1, <2>2, <2>3, <2>4, <3>1, OwnerKeeps
  <2> QED
    BY <2>5, <2>6
<1>6. ASSUME NEW o \in E!CREATEs, E!CreateFails(w, o) PROVE Locks'
  <2>1. E!Answered(w, o) /\ UNCHANGED <<oks, queued>>
    BY <1>6 DEF E!CreateFails
  <2>2. Others(w)
    BY <1>4, <2>1 DEF Others
  <2> QED
    BY <1>0, <1>1, <1>4, <2>1, <2>2, OwnerKeeps
<1>7. CASE E!Honour(w) \/ E!Release(w)
  <2>1. /\ at[w] = "settle" /\ E!Onward(w) /\ claim' = [claim EXCEPT ![x] = None]
        /\ UNCHANGED queued
        /\ closed' = closed \/ (closed' = closed \ {x} /\ w \notin oks)
    BY <1>0, <1>7 DEF E!Honour, E!Release, E!Settled, E!Honoured
  <2>2. Others(w) /\ at'[w] \in {"idle", "claim"} /\ ops'[w] = {}
    BY <2>1, OnwardTyped
  <2>3. /\ x \in SessionRows /\ claim[x] = w /\ x \in closed
        /\ queued[x] > 0 => queued[x] = 1 /\ w \in oks
    BY <1>1, <2>1 DEF E!Owns
  <2>4. claim'[x] = None /\ \A r \in SessionRows \ {x} : claim'[r] = claim[r]
    BY <2>1, <2>3 DEF Typed, StoreTypes
  <2>5. Claimed(x)' /\ OnceQueued(x)'
    BY <2>1, <2>3, <2>4 DEF Claimed, OnceQueued
  <2>6. Owning(w)'
    BY <2>2 DEF Owning, E!Owns
  <2>7. \A r \in SessionRows \ {x} :
           claim'[r] = claim[r] /\ (r \in closed' <=> r \in closed) /\ queued'[r] = queued[r]
    BY <2>1, <2>4
  <2>8. claim[x] \in {w, None}
    BY <2>3
  <2> QED
    BY <1>0, <2>2, <2>5, <2>6, <2>7, <2>8, LocksKeep
<1> QED
  BY <1>2, <1>3, <1>5, <1>6, <1>7

LEMMA LocksStep == ASSUME EndsInv, E!Next PROVE Locks'
<1>0. Typed /\ Typed' /\ Locks
  BY TypedStep DEF EndsInv, Locks
<1>1. CASE UNCHANGED <<claim, closed, queued, at, rest, ops, oks>>
  BY <1>0, <1>1 DEF Locks, Claimed, OnceQueued, Owning, E!Owns, E!Row
<1>2. ASSUME NEW c \in Conversations, NEW r \in SessionRows, E!Unused(r), E!Created(c, r),
             UNCHANGED E!worker
      PROVE  Locks'
  <2>1. \A w \in Workers : rest[w] # <<>> => E!Row(w) # r
    BY <1>0, <1>2, Creates, SessionAssumption
  <2>2. /\ closed' = closed \ {r} /\ claim' = [claim EXCEPT ![r] = None]
        /\ queued' = [queued EXCEPT ![r] = 0] /\ UNCHANGED <<at, rest, ops, oks>>
    BY <1>2 DEF E!Created, E!worker
  <2>3. claim'[r] = None /\ queued'[r] = 0
        /\ \A x \in SessionRows \ {r} : claim'[x] = claim[x] /\ queued'[x] = queued[x]
    BY <1>0, <2>2 DEF Typed, StoreTypes
  <2>4. \A x \in SessionRows : Claimed(x)' /\ OnceQueued(x)'
    BY <1>0, <2>2, <2>3 DEF Locks, Claimed, OnceQueued, E!Row
  <2>5. ASSUME NEW w \in Workers PROVE Owning(w)'
    <3>1. E!Owns(w) => E!Row(w) \in SessionRows /\ E!Row(w) # r
      BY <1>0, <2>1, RowOf DEF E!Owns, Typed, Referred
    <3> QED
      BY <1>0, <2>2, <2>3, <3>1 DEF Locks, Owning, E!Owns, E!Row
  <2> QED
    BY <2>4, <2>5 DEF Locks
<1>3. ASSUME NEW c \in Conversations, E!Prompt(c) PROVE Locks'
  BY <1>1, <1>2, <1>3 DEF E!Prompt, E!worker, E!store
<1>4. ASSUME NEW c \in Conversations, NEW r \in SessionRows, E!SessionStart(c, r) PROVE Locks'
  BY <1>2, <1>4 DEF E!SessionStart
<1>5. ASSUME NEW w \in Workers, at[w] = "idle" PROVE ops[w] = {} /\ \A r \in SessionRows : claim[r] # w
  BY <1>0, <1>5, SessionAssumption DEF Locks, Owning, Claimed
<1>6. ASSUME NEW c \in Conversations, NEW w \in Workers, E!SessionEnd(c, w) PROVE Locks'
  <2>1. /\ at[w] = "idle" /\ at' = [at EXCEPT ![w] = "claim"] /\ rest' = [rest EXCEPT ![w] = <<bound[c]>>]
        /\ UNCHANGED <<claim, closed, queued, ops, oks>>
    BY <1>6 DEF E!SessionEnd, E!store
  <2>2. Others(w) /\ at'[w] = "claim" /\ ops'[w] = {}
    BY <1>0, <1>5, <2>1 DEF Others, Typed, WorkerTypes
  <2> QED
    BY <1>0, <1>5, <2>1, <2>2, LocksLeft
<1>7. ASSUME NEW w \in Workers, E!Pass(w) PROVE Locks'
  <2>1. PICK s \in E!Orphans : E!TakeUp(w, s)
    BY <1>7 DEF E!Pass
  <2>2. at[w] = "idle" /\ UNCHANGED <<claim, closed, queued>>
    BY <1>7 DEF E!Pass, E!store
  <2>3. PICK n \in 1..OrphanLimit : s \in [1..n -> {r \in SessionRows : conv[r] # None} \ closed]
    BY DEF E!Orphans
  <2>4. s \in Seq(SessionRows)
    BY <2>3, SessionAssumption
  <2>5. Others(w) /\ at'[w] \in {"idle", "claim"} /\ ops'[w] = {}
    BY <1>0, <2>1, <2>4, TakesUp, SessionAssumption DEF Typed
  <2> QED
    BY <1>0, <1>5, <2>2, <2>5, LocksLeft
<1>8. CASE E!Restart
  <2>1. /\ \A r \in SessionRows : claim'[r] = None
        /\ \A w \in Workers : at'[w] = "idle" /\ ops'[w] = {}
        /\ UNCHANGED <<closed, queued>>
    BY <1>8 DEF E!Restart
  <2> QED
    BY <1>0, <2>1 DEF Locks, Claimed, OnceQueued, Owning, E!Owns
<1>9. ASSUME NEW c \in Conversations, E!SecondTurn(c) \/ E!Evict(c) \/ E!Extracted(c) PROVE Locks'
  BY <1>1, <1>9 DEF E!SecondTurn, E!Evict, E!Extracted, E!store, E!worker
<1>10. ASSUME NEW t \in GradTypes, E!Graduated(t) PROVE Locks'
  BY <1>1, <1>10 DEF E!Graduated, E!store, E!worker
<1>11. ASSUME NEW w \in Workers, E!Work(w) PROVE Locks'
  BY <1>0, <1>11, ClaimLocks, SettleLocks DEF E!Work
<1> QED
  BY <1>3, <1>4, <1>6, <1>7, <1>8, <1>9, <1>10, <1>11 DEF E!Next

-----------------------------------------------------------------------------
(* The CREATEs of a type under way, and the rows they have made.           *)
LEMMA SingleKeeps ==
  ASSUME NEW t \in GradTypes, Single(t),
         t \in raced => t \in raced', grads'[t] = grads[t],
         \A w \in Workers : t \in ops'[w] => t \in ops[w]
  PROVE  Single(t)'
  BY DEF Single

LEMMA GateSingle ==
  ASSUME Typed, NEW w \in Workers, NEW t \in GradTypes, NEW u \in GradTypes, E!Gate(w, u), Single(t)
  PROVE  Single(t)'
<1> USE DEF Typed, WorkerTypes
<1>1. UNCHANGED grads
  BY DEF E!Gate
<1>2. \/ /\ ops' = [ops EXCEPT ![w] = IF E!QueueIt(w, u) THEN @ \cup {u} ELSE @]
         /\ raced' = IF E!QueueIt(w, u) /\ \E v \in Workers : u \in ops[v] THEN raced \cup {u} ELSE raced
      \/ ops' = [ops EXCEPT ![w] = @ \cup {u}] /\ raced' = raced \cup {u}
  BY DEF E!Gate
<1>3. raced \subseteq raced' /\ \A v \in Workers : t \in ops'[v] => t \in ops[v] \/ (v = w /\ t = u)
  BY <1>2
<1>4. CASE t # u
  BY <1>1, <1>3, <1>4, SingleKeeps
<1>5. CASE t = u /\ t \notin raced'
  <2>1. ops' = [ops EXCEPT ![w] = IF E!QueueIt(w, u) THEN @ \cup {u} ELSE @]
        /\ (E!QueueIt(w, u) => \A v \in Workers : u \notin ops[v])
    BY <1>2, <1>5
  <2>2. CASE E!QueueIt(w, u)
    <3>1. grads[t] = {} /\ \A v \in Workers : t \notin ops[v]
      BY <1>5, <2>1, <2>2 DEF E!QueueIt
    <3> QED
      BY <1>1, <1>3, <3>1 DEF Single
  <2>3. CASE ~E!QueueIt(w, u)
    <3>1. \A v \in Workers : ops'[v] = ops[v]
      BY <2>1, <2>3
    <3> QED
      BY <1>1, <1>3, <3>1, SingleKeeps
  <2> QED
    BY <2>2, <2>3
<1>6. CASE t \in raced'
  BY <1>6 DEF Single
<1> QED
  BY <1>4, <1>5, <1>6

LEMMA LandsSingle ==
  ASSUME Typed, NEW w \in Workers, NEW t \in GradTypes, NEW o \in E!CREATEs, E!Answered(w, o), Single(t),
         E!Lands(w, o) \/ UNCHANGED E!queue
  PROVE  Single(t)'
<1> USE SessionAssumption DEF Typed, WorkerTypes
<1>1. /\ o \in ops[w] /\ ops'[w] = ops[w] \ {o}
      /\ \A v \in Workers \ {w} : ops'[v] = ops[v]
  BY DEF E!Answered
<1>2. CASE o # t \/ UNCHANGED E!queue
  <2>1. grads'[t] = grads[t] /\ raced' = raced
    BY <1>2 DEF E!Lands, E!queue, GradsTypes
  <2> QED
    BY <1>1, <2>1, SingleKeeps
<1>3. CASE o = t /\ E!Lands(w, o)
  <2>1. grads'[t] = grads[t] \cup {conv[E!Row(w)]} /\ raced' = raced
    BY <1>3 DEF E!Lands, GradsTypes
  <2>2. ASSUME t \notin raced PROVE grads[t] = {} /\ \A v \in Workers : t \notin ops'[v]
    BY <1>1, <1>3, <2>2 DEF Single
  <2> QED
    BY <2>1, <2>2 DEF Single
<1> QED
  BY <1>2, <1>3

LEMMA SingleStep == ASSUME EndsInv, E!Next, NEW t \in GradTypes PROVE Single(t)'
<1>0. Typed /\ Single(t) /\ \A w \in Workers : Owning(w)
  BY DEF EndsInv
<1> USE SessionAssumption
<1>1. CASE UNCHANGED <<grads, raced, ops>>
  BY <1>0, <1>1 DEF Single
<1>2. ASSUME NEW w \in Workers, UNCHANGED E!queue, Others(w), t \in ops'[w] => t \in ops[w] PROVE Single(t)'
  BY <1>0, <1>2, SingleKeeps DEF Others, E!queue
<1>3. ASSUME NEW w \in Workers, E!Claim(w) PROVE Single(t)'
  <2>1. \/ UNCHANGED ops
        \/ ops' \in {[ops EXCEPT ![w] = {"extract"}], [ops EXCEPT ![w] = {}]}
    BY <1>3 DEF E!Claim
  <2>2. t # "extract" /\ DOMAIN ops = Workers
    BY <1>0 DEF Typed, WorkerTypes
  <2>3. \A v \in Workers : ops'[v] \in {ops[v], {"extract"}, {}}
    BY <2>1, <2>2
  <2>4. \A v \in Workers : t \in ops'[v] => t \in ops[v]
    BY <2>2, <2>3
  <2>5. UNCHANGED E!queue
    BY <1>3 DEF E!Claim
  <2> QED
    BY <1>0, <2>4, <2>5, SingleKeeps DEF E!queue
<1>4. ASSUME NEW w \in Workers, E!Count(w) PROVE Single(t)'
  <2>1. ops' \in {ops, [ops EXCEPT ![w] = {"extract"}]} /\ UNCHANGED E!queue
    BY <1>4 DEF E!Count
  <2>2. t # "extract" /\ DOMAIN ops = Workers
    BY <1>0 DEF Typed, WorkerTypes
  <2>3. \A v \in Workers : ops'[v] = ops[v] \/ ops'[v] = {"extract"}
    BY <2>1, <2>2
  <2>4. \A v \in Workers : t \in ops'[v] => t \in ops[v]
    BY <2>2, <2>3
  <2> QED
    BY <1>0, <2>1, <2>4, SingleKeeps DEF E!queue
<1>5. ASSUME NEW w \in Workers,
             E!ClaimLost(w) \/ E!ClaimThrows(w) \/ E!Honour(w) \/ E!Release(w)
      PROVE  Single(t)'
  <2>1. at[w] # "idle" /\ E!Onward(w) /\ UNCHANGED E!queue
    BY <1>5 DEF E!ClaimLost, E!ClaimThrows, E!Honour, E!Release, E!Settled
  <2> QED
    BY <1>0, <1>2, <2>1, OnwardTyped
<1>6. ASSUME NEW w \in Workers, E!Pass(w) PROVE Single(t)'
  <2>1. PICK s \in E!Orphans : E!TakeUp(w, s)
    BY <1>6 DEF E!Pass
  <2>2. UNCHANGED E!queue /\ \A v \in Workers : ops'[v] \subseteq ops[v]
    BY <1>0, <1>6, <2>1 DEF E!Pass, E!TakeUp, Typed, WorkerTypes
  <2> QED
    BY <1>0, <2>2, SingleKeeps DEF E!queue
<1>7. ASSUME NEW w \in Workers, NEW u \in GradTypes, E!Gate(w, u) PROVE Single(t)'
  BY <1>0, <1>7, GateSingle
<1>8. ASSUME NEW w \in Workers, NEW o \in E!CREATEs, E!Create(w, o) \/ E!CreateFails(w, o) PROVE Single(t)'
  BY <1>0, <1>8, LandsSingle DEF E!Create, E!CreateFails
<1>9. ASSUME NEW u \in GradTypes, E!Graduated(u) PROVE Single(t)'
  <2>1. /\ grads' = [grads EXCEPT ![u] = {}] /\ UNCHANGED ops
        /\ raced' = IF \E w \in Workers : u \in ops[w] THEN raced ELSE raced \ {u}
    BY <1>9 DEF E!Graduated, E!worker
  <2> QED
    BY <1>0, <2>1 DEF Single, Typed, GradsTypes
<1>10. CASE E!Restart
  BY <1>0, <1>10 DEF E!Restart, Single
<1>11. ASSUME NEW c \in Conversations,
              \/ (\E r \in SessionRows : E!SessionStart(c, r)) \/ (\E w \in Workers : E!SessionEnd(c, w))
              \/ E!Prompt(c) \/ E!SecondTurn(c) \/ E!Evict(c) \/ E!Extracted(c)
       PROVE  Single(t)'
  BY <1>1, <1>11 DEF E!SessionStart, E!SessionEnd, E!Prompt, E!SecondTurn, E!Evict, E!Extracted, E!queue,
                     E!worker
<1>12. ASSUME NEW w \in Workers, E!ClaimReplyLost(w) PROVE Single(t)'
  BY <1>1, <1>12 DEF E!ClaimReplyLost, E!queue, E!worker
<1> QED
  BY <1>3, <1>4, <1>5, <1>6, <1>7, <1>8, <1>9, <1>10, <1>11, <1>12 DEF E!Next, E!Work

-----------------------------------------------------------------------------
(* The inductive invariant of the ends of sessions.                        *)
THEOREM EndsInvariant == E!Spec => []EndsInv
<1>1. EndsInv /\ [E!Next]_E!vars => EndsInv'
  <2> SUFFICES ASSUME EndsInv, [E!Next]_E!vars PROVE EndsInv'
    OBVIOUS
  <2>1. CASE E!Next
    BY <2>1, TypedStep, LocksStep, SingleStep DEF EndsInv, Locks
  <2>2. CASE UNCHANGED E!vars
    <3>1. UNCHANGED <<conv, closed, claim, bound, heard, pending, grads, raced, at, client, said,
                      rest, todo, ops, oks, fails, queued, slips>>
      BY <2>2 DEF E!vars, E!store, E!memory, E!queue, E!worker
    <3>2. Typed'
      BY <3>1 DEF EndsInv, Typed, StoreTypes, GradsTypes, WorkerTypes, Referred
    <3> QED
      BY <3>1, <3>2 DEF EndsInv, Claimed, OnceQueued, Owning, Single, E!Owns, E!Row
  <2> QED
    BY <2>1, <2>2
<1> QED
  BY <1>1, EndsInit, PTL DEF E!Spec

(* Every variable of the ends of sessions keeps its type.                  *)
THEOREM EndsAreTyped == E!Spec => []EndsTypeOK
<1>1. EndsInv => EndsTypeOK
  BY DEF EndsInv, Typed, StoreTypes, GradsTypes, WorkerTypes, EndsTypeOK, E!TypeOK, E!CREATEs
<1> QED
  BY <1>1, EndsInvariant, PTL

(* claimSessionForCleanup (surreal.ts) has one winner at a time, the row   *)
(* of a session gets one extraction, and graduations pile up only if two   *)
(* handlers passed the gate together or a check failed (session-end.ts,    *)
(* deferred-cleanup.ts).                                                   *)
THEOREM SessionsEndOnce == E!Spec => []EndedOnce
<1>1. EndsInv => E!OneWinner
  <2> SUFFICES ASSUME EndsInv, NEW v \in Workers, NEW w \in Workers, v # w, E!Owns(v), E!Owns(w)
               PROVE  E!Row(v) # E!Row(w)
    BY DEF E!OneWinner
  <2>1. claim[E!Row(v)] = v /\ claim[E!Row(w)] = w
    BY DEF EndsInv, Owning
  <2> QED
    BY <2>1
<1>2. EndsInv => E!ExtractedOnce
  <2> SUFFICES ASSUME EndsInv, NEW r \in SessionRows PROVE queued[r] <= 1
    BY DEF E!ExtractedOnce
  <2>1. queued[r] \in 0..2 /\ OnceQueued(r)
    BY DEF EndsInv, Typed, StoreTypes
  <2> QED
    BY <2>1 DEF OnceQueued
<1>3. EndsInv => E!GraduationsBounded
  BY DEF EndsInv, Single, E!GraduationsBounded
<1>4. EndsInv => EndedOnce
  BY <1>1, <1>2, <1>3 DEF EndedOnce, E!EndedOnce
<1> QED
  BY <1>4, EndsInvariant, PTL
=============================================================================
