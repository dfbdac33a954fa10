------------------------- MODULE WorkspaceMigration -------------------------
(***************************************************************************)
(* The migration of a workspace into the database                          *)
(* (src/engine/workspace-migrate.ts): each file of the allowlist becomes   *)
(* an artifact, a SKILL.md a skill as well; a migrated SKILL.md is         *)
(* replaced by a stub, the other files are moved to an archive directory,  *)
(* and a marker row ends it.  Nothing of this is a transaction: statements *)
(* and file operations fail one by one, replies are lost, the daemon dies  *)
(* in between, and two sessions may call the tool at once.                 *)
(*                                                                         *)
(* The path of an artifact is UNIQUE: a CREATE for a path that has a row,  *)
(* be it the hook's or that of a first try, is rejected, and the file is   *)
(* skipped from there on.                                                  *)
(***************************************************************************)
EXTENDS Naturals, Sequences, SequencesExt

CONSTANTS
  Skills,    \* the SKILL.md files
  Order,     \* all files of the allowlist, in the order they are collected
  Calls,     \* calls of migrateWorkspace
  Twins,     \* those of them with a close skill in the database already
  MaxFaults  \* bound on deaths of the daemon, and on statements and file
             \* operations that fail or whose reply is lost

VARIABLES
  disk,      \* file -> "full", "stub", "empty" (being rewritten) or "gone"
  archive,   \* file -> what the archive holds: "none", "torn" or "whole"
  rows,      \* file -> the artifact row of its path: "none", "hook" (without
             \* its content) or "ours"
  memories,  \* the files whose memory rows have been written
  skills,    \* SKILL.md -> its skill rows
  marker,    \* the marker row is there
  pc,        \* call -> where it is
  files,     \* call -> the files it has read
  left,      \* call -> those it has not dealt with in this pass
  stubs,     \* call -> those of them it has read as stubs
  overlapped,\* two calls were past the check at once (history)
  faults

stores == <<disk, archive, rows, memories, skills, marker>>
call   == <<pc, files, left, stubs>>
vars == <<stores, call, overlapped, faults>>

Files == ToSet(Order)
Docs  == Files \ Skills
Past  == {"collect", "ingest", "memories", "artifact", "stub", "stubbing", "archive", "copying", "copied", "mark"}

TypeOK ==
  /\ disk \in [Files -> {"full", "stub", "empty", "gone"}]
  /\ archive \in [Files -> {"none", "torn", "whole"}]
  /\ rows \in [Files -> {"none", "hook", "ours"}]
  /\ memories \subseteq Docs /\ skills \in [Skills -> Nat]
  /\ marker \in BOOLEAN
  /\ pc \in [Calls -> {"idle", "check"} \cup Past]
  /\ files \in [Calls -> SUBSET Files] /\ left \in [Calls -> SUBSET Files]
  /\ stubs \in [Calls -> SUBSET Skills]
  /\ overlapped \in BOOLEAN /\ faults \in 0..MaxFaults

Init ==
  /\ disk = [f \in Files |-> "full"]
  /\ archive = [f \in Files |-> "none"]
  /\ rows \in [Files -> {"none", "hook"}]
  /\ memories = {} /\ skills = [f \in Skills |-> 0] /\ marker = FALSE
  /\ pc = [m \in Calls |-> "idle"] /\ files = [m \in Calls |-> {}]
  /\ left = [m \in Calls |-> {}] /\ stubs = [m \in Calls |-> {}]
  /\ overlapped = FALSE /\ faults = 0

-----------------------------------------------------------------------------
(* A definition named Bad... is a faulty variant of the one it precedes;   *)
(* no action uses it.                                                      *)

(* The file a call is at: those it has left are in the order of Order.     *)
Place(f) == CHOOSE i \in DOMAIN Order : Order[i] = f
Earliest(S) == CHOOSE f \in S : \A g \in S : Place(f) <= Place(g)
At(m) == Earliest(left[m])

Fail == faults < MaxFaults /\ faults' = faults + 1
Fine == UNCHANGED faults

Goto(m, s) == pc' = [pc EXCEPT ![m] = s] /\ UNCHANGED <<files, left, stubs>>
TakeUp(m, s, L) ==
  pc' = [pc EXCEPT ![m] = s] /\ left' = [left EXCEPT ![m] = L] /\ UNCHANGED <<files, stubs>>

(* The pass over the files that are left, or what follows it.  The archive *)
(* pass skips SKILL.md.                                                    *)
Archiving(m, L) == TakeUp(m, IF L = {} THEN "mark" ELSE "archive", L)
Others(m) == left[m] \ {At(m)}
NextFile(m) == IF Others(m) # {} THEN TakeUp(m, "ingest", Others(m))
                                 ELSE Archiving(m, files[m] \ Skills)

(* CREATE of the artifact of f: it lands and the file goes on, or it fails *)
(* or is rejected -- by the first try of the same statement if only the    *)
(* reply was lost -- and the file is skipped.                              *)
BadSkipFile(m) == Goto(m, "stub")
SkipFile(m) == NextFile(m)
CreateRow(m, f, s) ==
  \/ rows[f] = "none" /\ rows' = [rows EXCEPT ![f] = "ours"] /\ Goto(m, s) /\ Fine
  \/ rows[f] = "none" /\ rows' = [rows EXCEPT ![f] = "ours"] /\ SkipFile(m) /\ Fail
  \/ rows[f] # "none" /\ SkipFile(m) /\ Fine /\ UNCHANGED rows
  \/ SkipFile(m) /\ Fail /\ UNCHANGED rows

-----------------------------------------------------------------------------
(* migrateWorkspace, up to the look-up of the marker.                      *)
Call(m) ==
  /\ pc[m] = "idle"
  /\ Goto(m, "check")
  /\ UNCHANGED <<stores, overlapped, faults>>

BadMigrated == FALSE
Migrated == marker
Check(m) ==
  /\ pc[m] = "check"
  /\ \/ Migrated /\ Goto(m, "idle") /\ Fine /\ UNCHANGED overlapped
     \/ /\ \/ ~Migrated /\ Fine
           \/ marker /\ Fail                      \* the query throws
        /\ Goto(m, "collect")
        /\ overlapped' = (overlapped \/ \E n \in Calls \ {m} : pc[n] \in Past)
  /\ UNCHANGED stores

(* collectOpenClawFiles: contents are in memory from here on.  Empty files *)
(* and files that cannot be read are passed over.                          *)
Collect(m) ==
  /\ pc[m] = "collect"
  /\ \E unread \in SUBSET Files :
       LET found == {f \in Files : disk[f] \notin {"gone", "empty"}} \ unread
       IN  /\ IF unread = {} THEN UNCHANGED faults ELSE Fail
           /\ files' = [files EXCEPT ![m] = found] /\ left' = [left EXCEPT ![m] = found]
           /\ pc' = [pc EXCEPT ![m] = IF found = {} THEN "idle" ELSE "ingest"]
  /\ stubs' = [stubs EXCEPT ![m] = {f \in Skills : disk[f] = "stub"}]
  /\ UNCHANGED <<stores, overlapped>>

(* One file: a document becomes an artifact, then memories ...             *)
IngestDoc(m) ==
  /\ pc[m] = "ingest" /\ At(m) \in Docs
  /\ CreateRow(m, At(m), "memories")
  /\ UNCHANGED <<disk, archive, memories, skills, marker, overlapped>>

IngestMemories(m) ==
  /\ pc[m] = "memories"
  /\ memories' = memories \cup {At(m)}
  /\ NextFile(m)
  /\ UNCHANGED <<disk, archive, rows, skills, marker, overlapped, faults>>

(* ... a stub is left alone, a SKILL.md becomes a skill unless the graph   *)
(* has a close one, then an artifact, then a stub.                         *)
BadIsSkillStub(m) == FALSE
IsSkillStub(m) == At(m) \in stubs[m]
LeaveStub(m) ==
  /\ pc[m] = "ingest" /\ At(m) \in Skills /\ IsSkillStub(m)
  /\ NextFile(m)
  /\ UNCHANGED <<stores, overlapped, faults>>

Minted(m, n) == skills' = [skills EXCEPT ![At(m)] = @ + n]
CommitSkill(m) ==
  /\ pc[m] = "ingest" /\ At(m) \in Skills /\ ~IsSkillStub(m)
  /\ \/ Minted(m, 1) /\ Fine /\ Goto(m, "artifact")
     \/ Minted(m, 2) /\ Fail /\ Goto(m, "artifact")
     \/ /\ At(m) \in Twins \/ skills[At(m)] > 0
        /\ Goto(m, "artifact") /\ Fine /\ UNCHANGED skills
     \/ Fail /\ NextFile(m) /\ UNCHANGED skills
  /\ UNCHANGED <<disk, archive, rows, memories, marker, overlapped>>

CreateArtifact(m) ==
  /\ pc[m] = "artifact"
  /\ CreateRow(m, At(m), "stub")
  /\ UNCHANGED <<disk, archive, memories, skills, marker, overlapped>>

(* writeSkillStub truncates the file and writes it again.                  *)
WriteStub(m) ==
  /\ pc[m] = "stub"
  /\ \/ disk' = [disk EXCEPT ![At(m)] = "empty"] /\ Goto(m, "stubbing") /\ Fine
     \/ Fail /\ NextFile(m) /\ UNCHANGED disk
  /\ UNCHANGED <<archive, rows, memories, skills, marker, overlapped>>

StubWritten(m) ==
  /\ pc[m] = "stubbing"
  /\ \/ disk' = [disk EXCEPT ![At(m)] = "stub"] /\ Fine
     \/ Fail /\ UNCHANGED disk
  /\ NextFile(m)
  /\ UNCHANGED <<archive, rows, memories, skills, marker, overlapped>>

(* archiveFiles: copyFile, which removes what it has written if it fails,  *)
(* then unlink.  A file that resists is left where it is.  (If the         *)
(* directory of the archive cannot be made, all of them are.)              *)
CopyFile(m) ==
  /\ pc[m] = "archive"
  /\ \/ /\ disk[At(m)] # "gone"
        /\ archive' = [archive EXCEPT ![At(m)] = "torn"]
        /\ Goto(m, "copying") /\ Fine
     \/ /\ disk[At(m)] = "gone"
        /\ Archiving(m, Others(m)) /\ Fine /\ UNCHANGED archive
     \/ Fail /\ Archiving(m, Others(m)) /\ UNCHANGED archive
  /\ UNCHANGED <<disk, rows, memories, skills, marker, overlapped>>

CopyEnds(m) ==
  /\ pc[m] = "copying"
  /\ \/ archive' = [archive EXCEPT ![At(m)] = "whole"] /\ Goto(m, "copied") /\ Fine
     \/ /\ archive' = [archive EXCEPT ![At(m)] = "none"]
        /\ Fail /\ Archiving(m, Others(m))
  /\ UNCHANGED <<disk, rows, memories, skills, marker, overlapped>>

BadCopied(m) == pc[m] \in {"copying", "copied"}
Copied(m) == pc[m] = "copied"
Unlink(m) ==
  /\ Copied(m)
  /\ \/ disk' = [disk EXCEPT ![At(m)] = "gone"] /\ Fine
     \/ Fail /\ UNCHANGED disk
  /\ Archiving(m, Others(m))
  /\ UNCHANGED <<archive, rows, memories, skills, marker, overlapped>>

(* The marker, whether or not everything could be read and archived.       *)
Mark(m) ==
  /\ pc[m] = "mark"
  /\ \/ marker' = TRUE /\ Fine
     \/ Fail /\ UNCHANGED marker
  /\ Goto(m, "idle")
  /\ UNCHANGED <<disk, archive, rows, memories, skills, overlapped>>

(* The daemon dies.                                                        *)
Crash ==
  /\ \E m \in Calls : pc[m] # "idle"
  /\ Fail
  /\ pc' = [m \in Calls |-> "idle"] /\ files' = [m \in Calls |-> {}]
  /\ left' = [m \in Calls |-> {}] /\ stubs' = [m \in Calls |-> {}]
  /\ UNCHANGED <<stores, overlapped>>

Next ==
  \/ Crash
  \/ \E m \in Calls :
       \/ Call(m) \/ Check(m) \/ Collect(m)
       \/ IngestDoc(m) \/ IngestMemories(m) \/ LeaveStub(m) \/ CommitSkill(m) \/ CreateArtifact(m)
       \/ WriteStub(m) \/ StubWritten(m)
       \/ CopyFile(m) \/ CopyEnds(m) \/ Unlink(m) \/ Mark(m)

Spec == Init /\ [][Next]_vars

-----------------------------------------------------------------------------
(* What a file held is never lost, whatever fails and whenever the daemon  *)
(* dies.  A SKILL.md is truncated for its stub only after its content is   *)
(* in the database, be there one call or two (workspace-migrate.ts:534,    *)
(* 554), and the hook's row for its path does not count.  Another file is  *)
(* unlinked only when the archive holds all of it (workspace-migrate.ts:   *)
(* 767), unless two calls archive at once.                                 *)
NothingLost ==
  /\ \A f \in Skills : disk[f] # "full" => rows[f] = "ours"
  /\ \A f \in Docs : disk[f] = "gone" => archive[f] = "whole" \/ overlapped

(* "Idempotent" (workspace-migrate.ts:122): calls that do not overlap make *)
(* one skill of a SKILL.md, but for one more per fault; and a stub is      *)
(* never taken for a skill (workspace-migrate.ts:174).                     *)
MigratesOnce ==
  [][~overlapped' => \A f \in Skills :
       /\ skills'[f] <= 1 + faults'
       /\ disk[f] = "stub" => skills'[f] = skills[f]]_vars

(* What the comment at workspace-migrate.ts:742 says of the archive: what  *)
(* is in it has been ingested.                                             *)
ArchivedIsIngested == \A f \in Docs : disk[f] = "gone" => rows[f] = "ours" /\ f \in memories

(* What the comment at workspace-migrate.ts:758 says of a stub: its body   *)
(* is in the skill table.                                                  *)
StubHasSkill == \A f \in Skills : disk[f] = "stub" => skills[f] > 0
=============================================================================
