----------------------------- MODULE WorkLedger -----------------------------
(***************************************************************************)
(* What the work queue promises, without tables, tokens or clocks: the     *)
(* right to write the results of a work item is a ticket.  A ticket is     *)
(* issued when the item is created and whenever it is re-opened; it is     *)
(* exchanged once, by one committer, for at most one write.                *)
(***************************************************************************)
EXTENDS Naturals

CONSTANT Items

VARIABLES
  issued,     \* item -> number of tickets issued so far
  open,       \* item -> number of tickets nobody has exchanged (0 or 1)
  inflight,   \* item -> number of committers that may still write
  written     \* item -> number of times its results were written

ledger == <<issued, open, inflight, written>>

Zero == [i \in Items |-> 0]

Init == issued = Zero /\ open = Zero /\ inflight = Zero /\ written = Zero

(* The item is created or re-opened: at most one ticket is open.           *)
Issue(i) ==
  /\ issued' = [issued EXCEPT ![i] = @ + 1]
  /\ open' = [open EXCEPT ![i] = 1]
  /\ UNCHANGED <<inflight, written>>

(* A committer takes the open ticket.                                      *)
Exchange(i) ==
  /\ open[i] = 1
  /\ open' = [open EXCEPT ![i] = 0]
  /\ inflight' = [inflight EXCEPT ![i] = @ + 1]
  /\ UNCHANGED <<issued, written>>

(* The open ticket is cancelled: the item was found empty.                 *)
Cancel(i) ==
  /\ open[i] = 1
  /\ open' = [open EXCEPT ![i] = 0]
  /\ UNCHANGED <<issued, inflight, written>>

(* A committer writes, or gives up.                                        *)
WriteResults(i) ==
  /\ inflight[i] > 0
  /\ inflight' = [inflight EXCEPT ![i] = @ - 1]
  /\ written' = [written EXCEPT ![i] = @ + 1]
  /\ UNCHANGED <<issued, open>>

GiveUp(i) ==
  /\ inflight[i] > 0
  /\ inflight' = [inflight EXCEPT ![i] = @ - 1]
  /\ UNCHANGED <<issued, open, written>>

(* All committers die at once.                                             *)
Collapse ==
  /\ inflight' = Zero
  /\ UNCHANGED <<issued, open, written>>

Next ==
  \/ \E i \in Items : Issue(i) \/ Exchange(i) \/ Cancel(i) \/ WriteResults(i) \/ GiveUp(i)
  \/ Collapse

LedgerSpec == Init /\ [][Next]_ledger
=============================================================================
