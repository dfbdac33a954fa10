------------------------------ MODULE MCUpkeep ------------------------------
(* Instances for TLC of two modules about the upkeep of the graph: the     *)
(* weekly consolidation of Maintenance, with three rows whose record ids   *)
(* are not in the order they were created in, and one of which ranks above *)
(* the others; and the import of WorkspaceMigration.  They share no state, *)
(* so a behaviour is one of the first or one of the second, and the other  *)
(* stands still; part says which.                                          *)
EXTENDS Maintenance, Sequences

CONSTANTS
  d1, d2,                        \* Maintenance
  s1, n1, m1, m2,                \* WorkspaceMigration
  Skills, Order, Twins, Calls, MaxSlips

IdOrder == [r \in Rows |-> IF r = 3 THEN 1 ELSE r + 1]
Families == [memory |-> {1, 2}, reflection |-> Rows]
SomeRanks == {[r \in Rows |-> IF r = 1 THEN 1 ELSE 0]}
FileOrder == <<n1, s1>>

ASSUME MigrationAssumption ==
  /\ Order \in Seq({Order[i] : i \in DOMAIN Order})
  /\ Skills \subseteq {Order[i] : i \in DOMAIN Order} /\ MaxSlips \in Nat

VARIABLES part, disk, archive, rows, memories, skills, marker, at, files, left, stubs,
          overlapped, slips

M == INSTANCE WorkspaceMigration WITH pc <- at, faults <- slips, MaxFaults <- MaxSlips

migrationVars == <<disk, archive, rows, memories, skills, marker, at, files, left, stubs,
                   overlapped, slips>>
UpkeepVars == <<part, vars, migrationVars>>

UpkeepInit ==
  /\ part \in {"weekly", "import"}
  /\ Init /\ (part = "import" => ~big /\ table = "memory" /\ \A r \in Late : status[r] = "absent")
  /\ M!Init /\ (part = "weekly" => \A f \in M!Files : rows[f] = "none")

Weekly(A) == part = "weekly" /\ A /\ UNCHANGED <<part, migrationVars>>
Import(A) == part = "import" /\ A /\ UNCHANGED <<part, vars>>

LifeOf(d, A) == Weekly(Life(d) /\ A)
UpkeepNext ==
  \/ \E d \in Daemons :
       \/ LifeOf(d, Boot(d)) \/ LifeOf(d, SessionStart(d)) \/ LifeOf(d, RetryTimer(d))
       \/ LifeOf(d, HeavyTimer(d)) \/ LifeOf(d, Restart(d))
       \/ Weekly(Gate(d)) \/ Weekly(List(d)) \/ Weekly(Search(d)) \/ Weekly(Merge(d))
       \/ Weekly(Finish(d)) \/ Weekly(Record(d)) \/ Weekly(Throws(d)) \/ Weekly(Dies(d))
  \/ Weekly(Availability /\ Outage) \/ Weekly(Availability /\ StoreReturns) \/ Weekly(Day)
  \/ \E r \in Rows : Weekly(Create(r)) \/ Weekly(Resolve(r))
  \/ \E m \in Calls :
       \/ Import(M!Call(m)) \/ Import(M!Check(m)) \/ Import(M!Collect(m))
       \/ Import(M!IngestDoc(m)) \/ Import(M!IngestMemories(m)) \/ Import(M!LeaveStub(m))
       \/ Import(M!CommitSkill(m)) \/ Import(M!CreateArtifact(m))
       \/ Import(M!WriteStub(m)) \/ Import(M!StubWritten(m))
       \/ Import(M!CopyFile(m)) \/ Import(M!CopyEnds(m)) \/ Import(M!Unlink(m))
       \/ Import(M!Mark(m))
  \/ Import(M!Crash)

(* The fairness of Maintenance; an import needs none.                      *)
UpkeepFairness ==
  /\ \A d \in Daemons :
       /\ WF_UpkeepVars(LifeOf(d, Boot(d) \/ HeavyTimer(d)))
       /\ WF_UpkeepVars(LifeOf(d, RetryTimer(d)))
       /\ WF_UpkeepVars(LifeOf(d, Restart(d))) /\ SF_UpkeepVars(LifeOf(d, SessionStart(d)))
       /\ WF_UpkeepVars(Weekly(Job(d)))
  /\ WF_UpkeepVars(Weekly(Availability /\ StoreReturns)) /\ WF_UpkeepVars(Weekly(Day))

UpkeepSpec == UpkeepInit /\ UpkeepFairness /\ [][UpkeepNext]_UpkeepVars

(* The variables of both modules have their types.                         *)
UpkeepTypeOK == TypeOK /\ M!TypeOK

(* NothingLost of WorkspaceMigration: no content of a workspace file is    *)
(* lost (workspace-migrate.ts:554, 767).                                   *)
NothingLost == M!NothingLost

(* MigratesOnce of WorkspaceMigration: a SKILL.md becomes a skill once     *)
(* (workspace-migrate.ts:122).                                             *)
MigratesOnce == M!MigratesOnce
=============================================================================
