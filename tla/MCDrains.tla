------------------------------ MODULE MCDrains ------------------------------
(* Instances for TLC of the two modules about what is drained in the end:  *)
(* the scheduler of AutoDrain, and the queue of PendingWork under a        *)
(* scheduler that polls it, with two rows of one session and work type.    *)
(* They share no state here, so a behaviour is one of the first or one of  *)
(* the second, and the other stands still; part says which.                *)
EXTENDS AutoDrain, TLC

CONSTANTS
  d1, d2, t1, t2, k1, k2,                    \* AutoDrain
  r1, r2, f1, c1, c2, c3, NoRow, NoToken,    \* PendingWork
  MaxSlips

Rows     == {r1, r2}
Fetchers == {f1}
Commits  == {c1, c2, c3}
SameKey  == r1 :> 1 @@ r2 :> 1
Order    == r1 :> 1 @@ r2 :> 2

VARIABLES part, status, open, token, stale, fpc, snap, cand, item, cpc, arg, goal, handed,
          claims, reverts, writes, settled, purged, mishaps

P == INSTANCE PendingWork
       WITH KeyOf <- SameKey, Rank <- Order, MaxFaults <- MaxSlips,
            active <- open, faults <- mishaps

rowVars == <<status, open, token, stale, fpc, snap, cand, item, cpc, arg, goal, handed,
             claims, reverts, writes, settled, purged, mishaps>>
DrainsVars == <<part, vars, rowVars>>

DrainsInit == part \in {"scheduler", "queue"} /\ Init /\ P!Init

Scheduler(A) == part = "scheduler" /\ A /\ UNCHANGED <<part, rowVars>>
Queue(A)     == part = "queue" /\ A /\ UNCHANGED <<part, vars>>

DrainsNext ==
  \/ \E t \in Triggers :
       \/ \E d \in Daemons : Scheduler(Begin(t, d))
       \/ Scheduler(Gate(t)) \/ Scheduler(Unlink(t)) \/ Scheduler(Create(t))
       \/ Scheduler(Stamp(t)) \/ Scheduler(Spawn(t)) \/ Scheduler(SpawnFails(t))
  \/ \E k \in Kids : \/ Scheduler(KidEnds(k)) \/ Scheduler(OnExit(k)) \/ Scheduler(Tally(k))
                      \/ Scheduler(HeartBeat(k))
  \/ \E d \in Daemons : \/ Scheduler(Start(d)) \/ Scheduler(Stop(d)) \/ Scheduler(Ends(d))
                         \/ Scheduler(CoolDownEnds(d))
  \/ Scheduler(Ages) \/ Scheduler(Sleeps) \/ Scheduler(Enqueue) \/ Scheduler(StoreTurns)
  \/ Scheduler(Midnight)
  \/ \E r \in Rows : Queue(P!Enqueue(r)) \/ Queue(P!Expire(r)) \/ Queue(P!Purge(r))
  \/ \E f \in Fetchers : \/ Queue(P!FetchStart(f)) \/ Queue(P!FetchStep(f))
                          \/ Queue(P!FetchFault(f))
  \/ \E h \in handed : Queue(P!Forget(h)) \/ \E c \in Commits : Queue(P!CommitStart(c, h))
  \/ \E c \in Commits : Queue(P!CommitStep(c)) \/ Queue(P!CommitFault(c))
  \/ Queue(P!DaemonCrash)

(* The fairness of the two modules, each for its own behaviours.           *)
DrainsFairness ==
  /\ \A t \in Triggers :
       /\ WF_DrainsVars(Scheduler(\E d \in Daemons : dstate[d] = "up" /\ Begin(t, d)))
       /\ WF_DrainsVars(Scheduler(TriggerStep(t)))
  /\ \A k \in Kids : WF_DrainsVars(Scheduler(OnExit(k))) /\ WF_DrainsVars(Scheduler(Tally(k)))
  /\ WF_DrainsVars(Scheduler(Ages))
  /\ \A f \in Fetchers :
       WF_DrainsVars(Queue(P!FetchStart(f))) /\ WF_DrainsVars(Queue(P!FetchStep(f)))
  /\ \A c \in Commits : WF_DrainsVars(Queue(P!CommitStep(c)))
  /\ \A r \in Rows :
       /\ WF_DrainsVars(Queue(P!Expire(r) /\ ~P!InUse(r)))
       /\ SF_DrainsVars(Queue(\E h \in handed, c \in Commits :
                                h.row = r /\ P!CommitStart(c, h)))

DrainsSpec == DrainsInit /\ [][DrainsNext]_DrainsVars /\ DrainsFairness

(* Work is done in the end: a lock nobody uses does not stop the drains    *)
(* (DrainResumes, auto-drain.ts 449-487), and under drains that go on      *)
(* every row that is open is settled or archived (QueueDrains of           *)
(* PendingWork, pending-work.ts 280-400).                                  *)
WorkDrains == DrainResumes /\ P!QueueDrains
=============================================================================
