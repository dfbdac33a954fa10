------------------------- MODULE DaemonSpawn_proofs -------------------------
(***************************************************************************)
(* Proofs about which processes there may be.  DaemonSpawn, for any number *)
(* of clients and daemons: unless a creation overlaps a steal there is one *)
(* lock holder, and the endpoint leads to it.  ManagedStore, for any       *)
(* number of queries and handlers: a daemon has one database process.      *)
(***************************************************************************)
EXTENDS DaemonSpawn, MCManagedStore, TLAPS

(* Every daemon that holds the lock is the one the pid file is of.         *)
HolderOwns == \A d \in Daemons : dpc[d] \in Holding => pidOwner = d

(* While a sibling is about to unlink a file it judged stale, nobody holds *)
(* the lock.                                                               *)
NoHolderDuringSteal ==
  \A d, e \in Daemons : dpc[d] = "unlink" => dpc[e] \notin Holding

(* An empty file grows old only without its creator.                       *)
OldMeansDead == pidStage = "old" => pidOwner # None /\ dpc[pidOwner] = "off"

ServerAtEndpoint == \A d \in Daemons : dpc[d] = "serving" => endpoint = d

IInv ==
  /\ TypeOK
  /\ OldMeansDead
  /\ ~overlapped => HolderOwns /\ NoHolderDuringSteal /\ ServerAtEndpoint

ClientVars == <<cpc, again, peer, lockOwner, lockStamped>>

-----------------------------------------------------------------------------
(* TypeOK in three parts, for the provers: what is not Boolean, what is,   *)
(* and the one conjunct that has both.                                     *)
DataType ==
  /\ transport \in {"uds", "tcp"}
  /\ pidOwner \in Daemons \cup {None} /\ pidStage \in {"fresh", "old", "marked"}
  /\ lockOwner \in Clients \cup {None}
  /\ endpoint \in Daemons \cup {None} /\ token \in Daemons \cup {None}
  /\ cpc \in [Clients -> ClientStates] /\ again \subseteq Clients
  /\ peer \in [Clients -> Daemons \cup {None}]
  /\ dpc \in [Daemons -> DaemonStates]
  /\ faults \in 0..MaxFaults
  /\ pidOwner = None => pidStage = "fresh"
  /\ \A c \in Clients : peer[c] # None => cpc[c] = "served"

BoolType == prompt \in BOOLEAN /\ lockStamped \in BOOLEAN /\ overlapped \in BOOLEAN

LockType == lockOwner = None => ~lockStamped

LEMMA TypeParts == TypeOK <=> DataType /\ BoolType /\ LockType
  BY DEF TypeOK, DataType, BoolType, LockType

LEMMA InitType == Init => TypeOK
<1> SUFFICES ASSUME Init PROVE TypeOK
  OBVIOUS
<1> USE SpawnAssumption
<1>1. DataType
  BY DEF Init, DataType, ClientStates, Asking, Waiting, DaemonStates
<1>2. BoolType
  <2>1. prompt \in BOOLEAN
    BY DEF Init
  <2> QED
    BY <2>1, Zenon DEF Init, BoolType
<1>3. LockType
  BY DEF Init, LockType
<1> QED
  BY <1>1, <1>2, <1>3, TypeParts

-----------------------------------------------------------------------------
(* Types.                                                                  *)
LEMMA DataStep == DataType /\ [Next]_vars => DataType'
<1> SUFFICES ASSUME DataType, [Next]_vars PROVE DataType'
  OBVIOUS
<1> USE SpawnAssumption DEF DataType, ClientStates, Asking, Waiting, DaemonStates, Booting,
        Leaving, vars, setting, pidFile, spawnLock, client, ToC, ToD, RemoveLock,
        RemovePidFile, Gone, Stay
<1>1. ASSUME NEW c \in Clients, Call(c) \/ Ping(c) \/ ProbeMarker(c) PROVE DataType'
BY <1>1 DEF Call, Ping, ProbeMarker
<1>2. ASSUME NEW c \in Clients, TryLock(c) PROVE DataType'
BY <1>2 DEF TryLock, OpenLock, Lost
<1>3. ASSUME NEW c \in Clients, Stamp(c) \/ Look(c) \/ Steal(c) PROVE DataType'
BY <1>3 DEF Stamp, Look, Steal, Lost
<1>4. ASSUME NEW c \in Clients, PollHit(c) \/ PollDeadline(c) PROVE DataType'
BY <1>4 DEF PollHit, PollDeadline
<1>5. ASSUME NEW c \in Clients, BreakLock(c) \/ Spawn(c) \/ ReleaseSpawnLock(c) PROVE
       DataType'
BY <1>5 DEF BreakLock, Spawn, ReleaseSpawnLock
<1>6. ASSUME NEW c \in Clients, Handshake(c) \/ Leave(c) PROVE DataType'
BY <1>6 DEF Handshake, Leave, Reachable
<1>7. ASSUME NEW c \in Clients, CrashClient(c) \/ RestartClient(c) PROVE DataType'
BY <1>7 DEF CrashClient, RestartClient
<1>8. ASSUME NEW d \in Daemons, Create(d) PROVE DataType'
BY <1>8 DEF Create
<1>9. ASSUME NEW d \in Daemons, Mark(d) \/ Judge(d) \/ Unlink(d) PROVE DataType'
BY <1>9 DEF Mark, Judge, Unlink
<1>10. ASSUME NEW d \in Daemons, Mint(d) \/ ClearSocket(d) \/ Bind(d) \/
       ProbeOccupant(d) PROVE DataType'
BY <1>10 DEF Mint, ClearSocket, Bind, ProbeOccupant
<1>11. ASSUME NEW d \in Daemons, Terminate(d) \/ IdleReap(d) \/ EndClose(d) PROVE
       DataType'
BY <1>11 DEF Terminate, IdleReap, EndClose, BeginClose
<1>12. ASSUME NEW d \in Daemons, CheckPidFile(d) \/ RemoveOwnPidFile(d) PROVE DataType'
BY <1>12 DEF CheckPidFile, RemoveOwnPidFile
<1>13. ASSUME NEW d \in Daemons, CheckTokenFile(d) \/ RemoveOwnTokenFile(d) \/
       CrashDaemon(d) PROVE DataType'
BY <1>13 DEF CheckTokenFile, RemoveOwnTokenFile, CrashDaemon
<1>14. CASE Age
  BY <1>14 DEF Age
<1>15. CASE UNCHANGED vars
  BY <1>15
<1> QED
BY <1>1, <1>2, <1>3, <1>4, <1>5, <1>6, <1>7, <1>8, <1>9, <1>10, <1>11, <1>12, <1>13,
     <1>14, <1>15 DEF Next, ClientStep, DaemonStep

(* Only the actions that touch the spawn lock, or create the pid file,     *)
(* change a Boolean.                                                       *)
LEMMA LockSteps == [Next]_vars =>
  \/ UNCHANGED spawnLock
  \/ RemoveLock
  \/ \E c \in Clients : lockOwner' = c /\ lockStamped' = FALSE
  \/ lockOwner' = lockOwner /\ \E c \in Clients : lockStamped' = (lockStamped \/ lockOwner = c)
<1> SUFFICES ASSUME [Next]_vars
             PROVE  \/ UNCHANGED spawnLock
                    \/ RemoveLock
                    \/ \E c \in Clients : lockOwner' = c /\ lockStamped' = FALSE
                    \/ /\ lockOwner' = lockOwner
                       /\ \E c \in Clients : lockStamped' = (lockStamped \/ lockOwner = c)
  OBVIOUS
<1>1. ASSUME NEW c \in Clients, TryLock(c)
      PROVE  UNCHANGED spawnLock \/ (lockOwner' = c /\ lockStamped' = FALSE)
  BY <1>1, Zenon DEF TryLock, OpenLock
<1>2. ASSUME NEW c \in Clients, Stamp(c)
      PROVE  lockOwner' = lockOwner /\ lockStamped' = (lockStamped \/ lockOwner = c)
  BY <1>2, Zenon DEF Stamp
<1>3. ASSUME NEW c \in Clients, Steal(c) \/ BreakLock(c) \/ ReleaseSpawnLock(c)
      PROVE  RemoveLock
  BY <1>3, Zenon DEF Steal, BreakLock, ReleaseSpawnLock
<1>4. ASSUME NEW c \in Clients,
             \/ Call(c) \/ Ping(c) \/ ProbeMarker(c) \/ Look(c) \/ PollHit(c)
             \/ PollDeadline(c) \/ Spawn(c) \/ Handshake(c)
             \/ Leave(c) \/ CrashClient(c) \/ RestartClient(c)
      PROVE  UNCHANGED spawnLock
  BY <1>4, Zenon DEF Call, Ping, ProbeMarker, Look, PollHit, PollDeadline, Spawn,
     Handshake, Leave, CrashClient, RestartClient
<1>5. ASSUME NEW d \in Daemons,
             DaemonStep(d) \/ Terminate(d) \/ IdleReap(d) \/ CrashDaemon(d)
      PROVE  UNCHANGED spawnLock
  BY <1>5, Zenon DEF DaemonStep, Terminate, IdleReap, CrashDaemon, BeginClose, Create, Mark,
     Judge, Unlink, Mint, ClearSocket, Bind, ProbeOccupant, EndClose, CheckPidFile,
     RemoveOwnPidFile, CheckTokenFile, RemoveOwnTokenFile
<1>6. Age \/ UNCHANGED vars => UNCHANGED spawnLock
  BY Zenon DEF Age, vars
<1> QED
  BY <1>1, <1>2, <1>3, <1>4, <1>5, <1>6, Zenon DEF Next, ClientStep

LEMMA OverlapSteps == [Next]_vars =>
  \/ overlapped' = overlapped
  \/ overlapped' = (overlapped \/ \E e \in Daemons : dpc[e] = "unlink")
<1> SUFFICES ASSUME [Next]_vars
             PROVE  \/ overlapped' = overlapped
                    \/ overlapped' = (overlapped \/ \E e \in Daemons : dpc[e] = "unlink")
  OBVIOUS
<1>1. ASSUME NEW c \in Clients,
             \/ ClientStep(c) \/ Call(c) \/ Leave(c) \/ CrashClient(c) \/ RestartClient(c)
      PROVE  overlapped' = overlapped
  BY <1>1, Zenon DEF ClientStep, Call, Ping, ProbeMarker, TryLock, Stamp, Look, Steal, PollHit,
     PollDeadline, BreakLock, Spawn, ReleaseSpawnLock, Handshake, Leave, CrashClient,
     RestartClient
<1>2. ASSUME NEW d \in Daemons, Create(d)
      PROVE  \/ overlapped' = overlapped
             \/ overlapped' = (overlapped \/ \E e \in Daemons : dpc[e] = "unlink")
  BY <1>2, Zenon DEF Create
<1>3. ASSUME NEW d \in Daemons,
             \/ Mark(d) \/ Judge(d) \/ Unlink(d) \/ Mint(d) \/ ClearSocket(d) \/ Bind(d)
             \/ ProbeOccupant(d) \/ EndClose(d) \/ CheckPidFile(d) \/ RemoveOwnPidFile(d)
             \/ CheckTokenFile(d) \/ RemoveOwnTokenFile(d)
             \/ Terminate(d) \/ IdleReap(d) \/ CrashDaemon(d)
      PROVE  overlapped' = overlapped
  BY <1>3, Zenon DEF Terminate, IdleReap, CrashDaemon, BeginClose, Mark, Judge, Unlink, Mint,
     ClearSocket, Bind, ProbeOccupant, EndClose, CheckPidFile, RemoveOwnPidFile,
     CheckTokenFile, RemoveOwnTokenFile
<1>4. Age \/ UNCHANGED vars => overlapped' = overlapped
  BY Zenon DEF Age, vars
<1> QED
  BY <1>1, <1>2, <1>3, <1>4, Zenon DEF Next, DaemonStep

LEMMA SettingKept == [Next]_vars => UNCHANGED setting
  BY Zenon DEF Next, vars, ClientStep, Call, Ping, ProbeMarker, TryLock, Stamp, Look, Steal,
     PollHit, PollDeadline, BreakLock, Spawn, ReleaseSpawnLock, Handshake, Leave, CrashClient,
     RestartClient, DaemonStep, Terminate, IdleReap, CrashDaemon, BeginClose, Create, Mark,
     Judge, Unlink, Mint, ClearSocket, Bind, ProbeOccupant, EndClose, CheckPidFile,
     RemoveOwnPidFile, CheckTokenFile, RemoveOwnTokenFile, Age

LEMMA TypeStep == TypeOK /\ [Next]_vars => TypeOK'
<1> SUFFICES ASSUME TypeOK, [Next]_vars PROVE TypeOK'
  OBVIOUS
<1> USE SpawnAssumption
<1>1. DataType'
  BY DataStep, TypeParts
<1>2. BoolType'
  <2>1. prompt' \in BOOLEAN
    BY SettingKept, TypeParts DEF BoolType, setting
  <2>2. lockStamped' \in BOOLEAN
    BY LockSteps, TypeParts, Zenon DEF BoolType, spawnLock, RemoveLock
  <2>3. overlapped' \in BOOLEAN
    BY OverlapSteps, TypeParts, Zenon DEF BoolType
  <2> QED
    BY <2>1, <2>2, <2>3 DEF BoolType
<1>3. LockType'
  <2>1. None \notin Clients
    OBVIOUS
  <2> QED
    BY <2>1, LockSteps, TypeParts, Zenon DEF LockType, spawnLock, RemoveLock
<1> QED
  <2>1. DataType' /\ BoolType' /\ LockType' => TypeOK'
    BY DEF TypeOK, DataType, BoolType, LockType
  <2> QED
    BY <1>1, <1>2, <1>3, <2>1

(* Every variable keeps its type, in every behaviour of the protocol.      *)
THEOREM TypeCorrect == Spec => []TypeOK
<1>1. TypeOK /\ [Next]_vars => TypeOK'
  BY TypeStep
<1> QED
  BY InitType, <1>1, PTL DEF Spec

-----------------------------------------------------------------------------
(* The strengthening.                                                      *)
LEMMA InitIInv == Init => IInv
<1> SUFFICES ASSUME Init PROVE IInv
  OBVIOUS
<1>1. TypeOK
  BY InitType
<1>2. OldMeansDead
  BY DEF Init, OldMeansDead
<1>3. HolderOwns /\ NoHolderDuringSteal /\ ServerAtEndpoint
  BY DEF Init, HolderOwns, NoHolderDuringSteal, ServerAtEndpoint, Holding
<1> QED
  BY <1>1, <1>2, <1>3 DEF IInv

(* What the lock and the endpoint depend on.                               *)
core == <<dpc, pidOwner, pidStage, endpoint, overlapped>>

LockInv ==
  /\ OldMeansDead
  /\ ~overlapped => HolderOwns /\ NoHolderDuringSteal /\ ServerAtEndpoint

LEMMA LockInvStep == IInv /\ [Next]_vars => LockInv'
<1> SUFFICES ASSUME IInv, [Next]_vars PROVE LockInv'
  OBVIOUS
<1> USE SpawnAssumption DEF IInv, LockInv, OldMeansDead, HolderOwns, NoHolderDuringSteal,
        ServerAtEndpoint, Holding, ToD, Gone, Stay, client, pidFile
<1>t. /\ dpc \in [Daemons -> DaemonStates]
      /\ pidOwner \in Daemons \cup {None}
      /\ endpoint \in Daemons \cup {None}
  BY DEF TypeOK
<1>1. ASSUME UNCHANGED core PROVE LockInv'
  BY <1>1 DEF core
<1>2. ASSUME NEW c \in Clients,
             \/ Call(c) \/ Ping(c) \/ ProbeMarker(c) \/ TryLock(c) \/ Stamp(c) \/ Look(c)
             \/ Steal(c) \/ PollHit(c) \/ PollDeadline(c) \/ BreakLock(c)
             \/ ReleaseSpawnLock(c) \/ Handshake(c) \/ Leave(c) \/ CrashClient(c)
             \/ RestartClient(c)
      PROVE  UNCHANGED core
  BY <1>2, Zenon DEF core, Call, Ping, ProbeMarker, TryLock, Stamp, Look, Steal, PollHit,
     PollDeadline, BreakLock, ReleaseSpawnLock, Handshake, Leave, CrashClient, RestartClient
<1>3. ASSUME NEW c \in Clients, Spawn(c) PROVE LockInv'
  BY <1>t, <1>3 DEF Spawn, FreshPid
<1>4. ASSUME NEW d \in Daemons, Create(d) PROVE LockInv'
  <2>1. CASE pidOwner = None
    <3>1. /\ pidOwner' = d /\ pidStage' = "fresh"
          /\ dpc' = [dpc EXCEPT ![d] = "mark"] /\ endpoint' = endpoint
      BY <1>4, <2>1 DEF Create
    <3>2. ~overlapped' => ~overlapped /\ \A e \in Daemons : dpc[e] # "unlink"
      BY <1>4, <2>1, Zenon DEF Create
    <3>3. ~overlapped => \A e \in Daemons : dpc[e] \notin Holding
      BY <2>1
    <3> QED
      BY <1>t, <3>1, <3>2, <3>3
  <2>2. CASE pidOwner # None
    <3>1. /\ dpc[d] \in {"create", "recreate"} /\ UNCHANGED <<pidOwner, pidStage, overlapped>>
          /\ \/ ToD(d, "judge") /\ Stay
             \/ Gone(d)
      BY <1>4, <2>2, Zenon DEF Create
    <3> QED
      BY <1>t, <3>1
  <2> QED
    BY <2>1, <2>2
<1>5. ASSUME NEW d \in Daemons, Mark(d) PROVE LockInv'
  BY <1>t, <1>5 DEF Mark
<1>6. ASSUME NEW d \in Daemons, Judge(d) PROVE LockInv'
  BY <1>t, <1>6 DEF Judge, Stale, Alive
<1>7. ASSUME NEW d \in Daemons, Unlink(d) PROVE LockInv'
  BY <1>t, <1>7 DEF Unlink, RemovePidFile
<1>8. ASSUME NEW d \in Daemons, Mint(d) PROVE LockInv'
  BY <1>t, <1>8 DEF Mint
<1>9. ASSUME NEW d \in Daemons, ClearSocket(d) PROVE LockInv'
  BY <1>t, <1>9 DEF ClearSocket
<1>10. ASSUME NEW d \in Daemons, Bind(d) PROVE LockInv'
  BY <1>t, <1>10 DEF Bind
<1>11. ASSUME NEW d \in Daemons, ProbeOccupant(d) PROVE LockInv'
  BY <1>t, <1>11 DEF ProbeOccupant
<1>12. ASSUME NEW d \in Daemons, BeginClose(d) PROVE LockInv'
  BY <1>t, <1>12 DEF BeginClose
<1>13. ASSUME NEW d \in Daemons, EndClose(d) PROVE LockInv'
  BY <1>t, <1>13 DEF EndClose
<1>14. ASSUME NEW d \in Daemons, CheckPidFile(d) PROVE LockInv'
  BY <1>t, <1>14 DEF CheckPidFile
<1>15. ASSUME NEW d \in Daemons, RemoveOwnPidFile(d) PROVE LockInv'
  BY <1>t, <1>15 DEF RemoveOwnPidFile, RemovePidFile
<1>16. ASSUME NEW d \in Daemons, CheckTokenFile(d) \/ RemoveOwnTokenFile(d) PROVE LockInv'
  BY <1>t, <1>16 DEF CheckTokenFile, RemoveOwnTokenFile
<1>17. ASSUME NEW d \in Daemons, CrashDaemon(d) PROVE LockInv'
  BY <1>t, <1>17 DEF CrashDaemon
<1>18. CASE Age
  BY <1>t, <1>18 DEF Age, Alive
<1>19. CASE UNCHANGED vars
  BY <1>1, <1>19 DEF vars, core
<1> QED
  BY <1>1, <1>2, <1>3, <1>4, <1>5, <1>6, <1>7, <1>8, <1>9, <1>10, <1>11, <1>12, <1>13, <1>14,
     <1>15, <1>16, <1>17, <1>18, <1>19, Zenon
     DEF Next, ClientStep, DaemonStep, Terminate, IdleReap

(* The strengthening is inductive.                                         *)
THEOREM Inductive == Spec => []IInv
<1>1. IInv /\ [Next]_vars => IInv'
  <2> SUFFICES ASSUME IInv, [Next]_vars PROVE IInv'
    OBVIOUS
  <2>1. TypeOK'
    BY TypeStep DEF IInv
  <2>2. LockInv'
    BY LockInvStep
  <2> QED
    BY <2>1, <2>2 DEF IInv, LockInv
<1> QED
  BY InitIInv, <1>1, PTL DEF Spec

(* Unless a daemon took the lock between the verdict and the unlink of a   *)
(* sibling, no two daemons hold it, whatever crashes and whoever breaks    *)
(* the spawn lock.                                                         *)
THEOREM Singleton == Spec => []SingletonUnlessOverlap
<1>1. IInv => SingletonUnlessOverlap
  BY DEF IInv, HolderOwns, SingletonUnlessOverlap
<1> QED
  BY Inductive, <1>1, PTL

(* Under the same proviso the path or the port leads to the daemon that    *)
(* serves.                                                                 *)
THEOREM Reaching == Spec => []ServerReachable
<1>1. IInv => ServerReachable
  BY DEF IInv, ServerAtEndpoint, ServerReachable
<1> QED
  BY Inductive, <1>1, PTL

-----------------------------------------------------------------------------
(* The database process of a daemon, and its connection to it: the module  *)
(* ManagedStore, as MCManagedStore has it.                                 *)
(* An event that waits, and a handler that does, are about a child that is *)
(* dead; one handler is at work, and only while respawning is set.         *)
SupervisorFits ==
  /\ children <= 1
  /\ events > 0 => children = 0
  /\ ~degraded => exits < MaxRestarts
  /\ \A h \in Handlers : hpc[h] # "off" => respawning /\ ~degraded
  /\ \A h \in Handlers : hpc[h] = "backoff" => children = 0
  /\ \A g, h \in Handlers : hpc[g] # "off" /\ hpc[h] # "off" => g = h

(* The conjuncts of TypeOK, by the part of the state they are about.       *)
SupervisorTypes ==
  /\ children \in 0..2 /\ events \in 0..3 /\ exits \in 0..MaxRestarts
  /\ degraded \in BOOLEAN /\ respawning \in BOOLEAN /\ missed \in BOOLEAN
  /\ hpc \in [Handlers -> {"off", "backoff", "pidfile"}]
LinkTypes ==
  /\ conn \in {"up", "anon", "zombie", "down"} /\ schema \in BOOLEAN /\ suspect \in BOOLEAN
  /\ rec \in {"none", "connect", "pause", "schema"} /\ attempt \in 0..MaxAttempts
  /\ (rec = "none") = (attempt = 0)
  /\ poisoned \in BOOLEAN /\ breaks \in 0..MaxBreaks
CallStates == {"idle", "ensure", "sent", "heal", "resent", "probe", "pinged"}
CallTypes ==
  /\ qpc \in [Queries -> CallStates]
  /\ old \subseteq {q \in Queries : qpc[q] \in {"sent", "resent", "pinged"}}
WedgeTypes ==
  /\ timeouts \in 0..MinTimeouts /\ heals \in 0..MinHeals
  /\ streak \in {"none", "young", "aged"} /\ gone \in BOOLEAN

StoreInv == SupervisorTypes /\ SupervisorFits /\ LinkTypes /\ CallTypes /\ WedgeTypes

LEMMA StoreInit == ASSUME S!Init PROVE StoreInv
<1> USE StoreAssumption DEF S!Init
<1>1. /\ degraded \in BOOLEAN /\ respawning \in BOOLEAN /\ missed \in BOOLEAN
      /\ schema \in BOOLEAN /\ suspect \in BOOLEAN /\ poisoned \in BOOLEAN /\ gone \in BOOLEAN
  OBVIOUS
<1>2. children = 1 /\ events = 0 /\ exits \in 0..MaxRestarts /\ exits < MaxRestarts
  OBVIOUS
<1>3. rec = "none" /\ attempt = 0 /\ attempt \in 0..MaxAttempts /\ breaks \in 0..MaxBreaks
  OBVIOUS
<1>4. timeouts \in 0..MinTimeouts /\ heals \in 0..MinHeals /\ streak = "none"
  OBVIOUS
<1>5. hpc \in [Handlers -> {"off", "backoff", "pidfile"}] /\ \A h \in Handlers : hpc[h] = "off"
  OBVIOUS
<1>6. CallTypes
  BY DEF CallTypes, CallStates
<1>7. conn \in {"up", "anon", "zombie", "down"}
  OBVIOUS
<1> HIDE DEF S!Init
<1>8. SupervisorTypes
  BY <1>1, <1>2, <1>5 DEF SupervisorTypes
<1>9. SupervisorFits
  BY <1>2, <1>5 DEF SupervisorFits
<1>10. LinkTypes
  BY <1>1, <1>3, <1>7 DEF LinkTypes
<1>11. WedgeTypes
  BY <1>1, <1>4 DEF WedgeTypes
<1> QED
  BY <1>6, <1>8, <1>9, <1>10, <1>11 DEF StoreInv

(* A handler that counts an exit waits, or gives up: nobody else is at     *)
(* work.                                                                   *)
LEMMA CountsKeeps ==
  ASSUME SupervisorTypes, SupervisorFits, NEW h \in Handlers, S!Counts(h),
         children = 0, ~degraded, \A g \in Handlers \ {h} : hpc[g] = "off",
         UNCHANGED children, events' \in 0..3, missed' \in BOOLEAN
  PROVE  SupervisorTypes' /\ SupervisorFits'
<1>1. /\ exits' = exits + 1 /\ exits' \in 0..MaxRestarts /\ (~degraded' => exits' < MaxRestarts)
      /\ degraded' \in BOOLEAN /\ respawning' \in BOOLEAN /\ (~degraded' => respawning')
  <2>1. exits' = exits + 1 /\ exits' \in 0..MaxRestarts
    BY StoreAssumption DEF SupervisorTypes, SupervisorFits, S!Counts
  <2>2. degraded' = (exits' >= MaxRestarts) /\ respawning' = ~degraded'
    BY <2>1 DEF S!Counts
  <2>3. degraded' \in BOOLEAN
    BY <2>2
  <2>4. respawning' \in BOOLEAN /\ (~degraded' => respawning')
    BY <2>2
  <2>5. ~degraded' => exits' < MaxRestarts
    <3>1. ~degraded' => ~(exits' >= MaxRestarts)
      BY <2>2
    <3>2. ~(exits' >= MaxRestarts) => exits' < MaxRestarts
      BY <2>1, StoreAssumption
    <3> QED
      BY <3>1, <3>2
  <2> QED
    BY <2>1, <2>3, <2>4, <2>5
<1>2. hpc' \in [Handlers -> {"off", "backoff", "pidfile"}]
  BY DEF SupervisorTypes, S!Counts
<1>3. SupervisorTypes'
  BY <1>1, <1>2 DEF SupervisorTypes
<1>4. \A g \in Handlers : hpc'[g] # "off" => g = h /\ ~degraded'
  BY <1>2 DEF SupervisorTypes, S!Counts
<1> QED
  BY <1>1, <1>3, <1>4 DEF SupervisorFits

LEMMA SupervisorStep ==
  ASSUME StoreInv, S!Next PROVE SupervisorTypes' /\ SupervisorFits'
<1> USE DEF StoreInv
<1>1. CASE UNCHANGED <<children, events, exits, degraded, respawning, hpc, missed>>
  BY <1>1 DEF SupervisorTypes, SupervisorFits
<1>2. CASE S!ChildDies
  BY <1>2 DEF S!ChildDies, SupervisorTypes, SupervisorFits
<1>3. CASE S!WindowMoves
  BY <1>3, StoreAssumption DEF S!WindowMoves, SupervisorTypes, SupervisorFits
<1>4. ASSUME NEW h \in Handlers, S!Exit(h) PROVE SupervisorTypes' /\ SupervisorFits'
  <2>1. events > 0 /\ children = 0 /\ events' \in 0..3 /\ events' = events - 1 /\ UNCHANGED children
    BY <1>4 DEF S!Exit, SupervisorTypes, SupervisorFits
  <2>2. CASE S!Ignores
    <3>1. missed' \in BOOLEAN /\ UNCHANGED <<exits, degraded, respawning, hpc>>
      BY <1>4, <2>2 DEF S!Exit
    <3> QED
      BY <2>1, <3>1 DEF SupervisorTypes, SupervisorFits
  <2>3. CASE ~S!Ignores
    <3>1. S!Counts(h) /\ ~degraded /\ ~respawning /\ UNCHANGED missed
      BY <1>4, <2>3 DEF S!Exit, S!Ignores
    <3>2. \A g \in Handlers \ {h} : hpc[g] = "off"
      BY <3>1 DEF SupervisorFits
    <3> QED
      BY <2>1, <3>1, <3>2, CountsKeeps DEF SupervisorTypes
  <2> QED
    BY <2>2, <2>3
<1>5. ASSUME NEW h \in Handlers, S!Respawn(h) PROVE SupervisorTypes' /\ SupervisorFits'
  <2>1. /\ hpc[h] = "backoff" /\ events = 0 /\ children = 0 /\ respawning /\ ~degraded
        /\ UNCHANGED missed /\ \A g \in Handlers \ {h} : hpc[g] = "off"
    BY <1>5 DEF S!Respawn, SupervisorFits
  <2>2. CASE /\ children' = children + 1 /\ hpc' = [hpc EXCEPT ![h] = "pidfile"]
             /\ UNCHANGED <<events, exits, degraded, respawning, breaks>>
    BY <2>1, <2>2 DEF SupervisorTypes, SupervisorFits
  <2>3. CASE /\ S!Fault /\ events' = events + 1
             /\ respawning' = FALSE /\ hpc' = [hpc EXCEPT ![h] = "off"]
             /\ UNCHANGED <<children, exits, degraded>>
    <3>1. events' = 1 /\ hpc' \in [Handlers -> {"off", "backoff", "pidfile"}]
          /\ \A g \in Handlers : hpc'[g] = "off"
      BY <2>1, <2>3 DEF SupervisorTypes
    <3>2. respawning' \in BOOLEAN /\ UNCHANGED <<children, exits, degraded, missed>>
      BY <2>1, <2>3
    <3>3. SupervisorTypes'
      BY <3>1, <3>2 DEF SupervisorTypes
    <3>4. SupervisorFits'
      BY <2>1, <3>1, <3>2 DEF SupervisorFits
    <3> QED
      BY <3>3, <3>4
  <2>4. CASE S!Fault /\ S!Counts(h) /\ UNCHANGED <<children, events>>
    BY <2>1, <2>4, CountsKeeps DEF SupervisorTypes
  <2> QED
    BY <1>5, <2>2, <2>3, <2>4 DEF S!Respawn
<1>6. ASSUME NEW h \in Handlers, S!Respawned(h) PROVE SupervisorTypes' /\ SupervisorFits'
  BY <1>6 DEF S!Respawned, SupervisorTypes, SupervisorFits
<1> QED
  BY <1>1, <1>2, <1>3, <1>4, <1>5, <1>6
     DEF S!Next, S!Supervise, S!Breaks, S!Reconnecting, S!Returns, S!supervisor, S!ConnectionBreaks,
         S!LateConnect, S!Poisoned, S!Reconnect, S!PauseEnds, S!ApplySchema, S!StreakAges, S!Ask,
         S!Ping, S!Succeeds, S!Rejected, S!Drops, S!Deadline, S!PingTimesOut

(* The query a reconnect takes on, or lets go on at once.                  *)
LEMMA EnsureKeeps ==
  ASSUME LinkTypes, CallTypes, NEW q \in Queries, NEW live \in BOOLEAN,
         NEW stage \in {"ensure", "heal", "probe"}, S!EnsureConnected(q, stage, live),
         UNCHANGED <<schema, poisoned, breaks>>, suspect' \in BOOLEAN
  PROVE  LinkTypes' /\ CallTypes'
<1>1. S!Send(stage) \in {"sent", "resent", "pinged"}
  BY DEF S!Send
<1>2. qpc' \in [Queries -> CallStates]
  BY <1>1 DEF S!EnsureConnected, CallTypes, CallStates
<1>3. \A p \in Queries \ {q} : qpc'[p] = qpc[p]
  BY DEF S!EnsureConnected, CallTypes
<1>4. old' \subseteq {p \in Queries \ {q} : qpc[p] \in {"sent", "resent", "pinged"}}
  BY DEF S!EnsureConnected, CallTypes, S!Sent
<1>5. CallTypes'
  BY <1>2, <1>3, <1>4 DEF CallTypes
<1>6. \/ UNCHANGED <<conn, rec, attempt>>
      \/ conn' = "down" /\ rec' = "connect" /\ attempt' = 1
  BY DEF S!EnsureConnected
<1>7. 1 \in 0..MaxAttempts
  BY StoreAssumption
<1>8. LinkTypes'
  BY <1>6, <1>7 DEF LinkTypes
<1> QED
  BY <1>5, <1>8

LEMMA RetryKeeps ==
  ASSUME LinkTypes, CallTypes, NEW q \in Queries, NEW live \in BOOLEAN,
         S!Retry(q, live), UNCHANGED <<schema, poisoned, breaks>>, suspect' \in BOOLEAN
  PROVE  LinkTypes' /\ CallTypes'
<1>1. CASE qpc[q] = "sent"
  BY <1>1, EnsureKeeps DEF S!Retry
<1>2. CASE qpc[q] # "sent"
  <2>1. /\ qpc' = [qpc EXCEPT ![q] = "idle"] /\ old' = old \ {q}
        /\ UNCHANGED <<conn, rec, attempt>>
    BY <1>2 DEF S!Retry
  <2> QED
    BY <2>1 DEF LinkTypes, CallTypes, CallStates
<1> QED
  BY <1>1, <1>2

(* The reconnect ends: its waiters have sent, or have failed.              *)
LEMMA WaitersKeep ==
  ASSUME CallTypes, S!GoOn \/ S!Fail, UNCHANGED old
  PROVE  CallTypes'
<1>1. \A q \in S!Waiting : S!Send(qpc[q]) \in {"sent", "resent", "pinged"}
  BY DEF S!Waiting, S!Send
<1>2. qpc' \in [Queries -> CallStates]
  BY <1>1 DEF S!GoOn, S!Fail, CallTypes, CallStates, S!Waiting
<1>3. \A q \in old : qpc'[q] = qpc[q]
  BY DEF S!GoOn, S!Fail, S!Waiting, CallTypes
<1> QED
  BY <1>2, <1>3 DEF CallTypes

LEMMA FaultKeeps == ASSUME breaks \in 0..MaxBreaks, S!Fault \/ UNCHANGED breaks
                    PROVE  breaks' \in 0..MaxBreaks
  BY StoreAssumption DEF S!Fault

LEMMA WedgeIs == \A t, h : S!Wedged(t, h) \in BOOLEAN
  BY DEF S!Wedged

LEMMA ReconnectedKeeps ==
  ASSUME StoreInv, NEW applied \in BOOLEAN, S!Reconnected(applied)
  PROVE  /\ CallTypes' /\ WedgeTypes' /\ rec' = "none" /\ attempt' = 0
         /\ schema' \in BOOLEAN /\ suspect' \in BOOLEAN
<1>1. CallTypes'
  BY WaitersKeep DEF S!Reconnected, StoreInv
<1>2. heals' \in 0..MinHeals
  BY StoreAssumption DEF S!Reconnected, S!Healed, StoreInv, WedgeTypes
<1>3. gone' \in BOOLEAN
  BY WedgeIs DEF S!Reconnected
<1>4. UNCHANGED <<timeouts, streak>>
  BY DEF S!Reconnected
<1>5. WedgeTypes'
  BY <1>2, <1>3, <1>4 DEF WedgeTypes, StoreInv
<1>6. schema' \in BOOLEAN /\ suspect' \in BOOLEAN
  BY DEF S!Reconnected
<1> QED
  BY <1>1, <1>5, <1>6 DEF S!Reconnected

LEMMA LinkStep ==
  ASSUME StoreInv, S!Next PROVE LinkTypes' /\ CallTypes' /\ WedgeTypes'
<1> USE DEF StoreInv
<1> DEFINE Goal == LinkTypes' /\ CallTypes' /\ WedgeTypes'
<1>1. CASE S!Supervise
  <2>1. breaks' \in 0..MaxBreaks
    BY <1>1, FaultKeeps DEF S!Supervise, S!WindowMoves, S!Exit, S!Respawn, S!Respawned, LinkTypes
  <2>2. UNCHANGED <<S!link, S!calls, S!wedge, poisoned>>
    BY <1>1 DEF S!Supervise, S!WindowMoves, S!Exit, S!Respawn, S!Respawned
  <2> QED
    BY <2>1, <2>2 DEF S!link, S!calls, S!wedge, LinkTypes, CallTypes, WedgeTypes
<1>2. CASE S!Breaks
  <2>1. breaks' \in 0..MaxBreaks
    BY <1>2, FaultKeeps DEF S!Breaks, S!ChildDies, S!ConnectionBreaks, S!LateConnect, S!Poisoned, LinkTypes
  <2>2. UNCHANGED <<schema, suspect, rec, attempt, S!calls, S!wedge>>
    BY <1>2 DEF S!Breaks, S!ChildDies, S!ConnectionBreaks, S!LateConnect, S!Poisoned
  <2>3. conn' \in {"up", "anon", "zombie", "down"}
    BY <1>2 DEF S!Breaks, S!ChildDies, S!ConnectionBreaks, S!LateConnect, S!Poisoned, LinkTypes
  <2>4. poisoned' \in BOOLEAN
    BY <1>2 DEF S!Breaks, S!ChildDies, S!ConnectionBreaks, S!LateConnect, S!Poisoned, LinkTypes
  <2> QED
    BY <2>1, <2>2, <2>3, <2>4 DEF S!calls, S!wedge, LinkTypes, CallTypes, WedgeTypes
<1>3. CASE S!Reconnect
  <2>1. breaks' \in 0..MaxBreaks
    BY <1>3, FaultKeeps DEF S!Reconnect, LinkTypes
  <2>2. UNCHANGED poisoned /\ conn' \in {"up", "anon", "zombie", "down"}
    BY <1>3 DEF S!Reconnect, LinkTypes
  <2>3. CASE schema /\ S!Reconnected(TRUE)
    <3>1. /\ CallTypes' /\ WedgeTypes' /\ rec' = "none" /\ attempt' = 0
          /\ schema' \in BOOLEAN /\ suspect' \in BOOLEAN
      BY <2>3, ReconnectedKeeps
    <3>2. 0 \in 0..MaxAttempts
      BY StoreAssumption
    <3> QED
      BY <2>1, <2>2, <3>1, <3>2 DEF LinkTypes
  <2>4. CASE rec' = "schema" /\ UNCHANGED <<attempt, schema, suspect, S!calls, S!wedge>>
    <3>1. rec = "connect" /\ attempt # 0
      BY <1>3 DEF S!Reconnect, LinkTypes
    <3> QED
      BY <2>1, <2>2, <2>4, <3>1 DEF S!calls, S!wedge, LinkTypes, CallTypes, WedgeTypes
  <2>5. CASE /\ attempt < MaxAttempts /\ attempt' = attempt + 1 /\ rec' = "pause"
             /\ UNCHANGED <<qpc, schema, suspect, old, S!wedge>>
    <3>1. attempt' \in 0..MaxAttempts /\ attempt' # 0
      BY <2>5, StoreAssumption DEF LinkTypes
    <3> QED
      BY <2>1, <2>2, <2>5, <3>1 DEF S!wedge, LinkTypes, CallTypes, WedgeTypes
  <2>6. CASE /\ attempt' = 0 /\ rec' = "none" /\ S!Fail
             /\ UNCHANGED <<schema, suspect, old, S!wedge>>
    <3>1. CallTypes'
      BY <2>6, WaitersKeep
    <3>2. attempt' \in 0..MaxAttempts
      BY <2>6, StoreAssumption
    <3> QED
      BY <2>1, <2>2, <2>6, <3>1, <3>2 DEF S!wedge, LinkTypes, WedgeTypes
  <2> QED
    BY <1>3, <2>3, <2>4, <2>5, <2>6 DEF S!Reconnect
<1>4. CASE S!PauseEnds
  <2>1. /\ rec = "pause" /\ rec' = "connect" /\ conn' = "down" /\ old' = {p \in Queries : S!Sent(p)}
        /\ UNCHANGED <<schema, suspect, attempt, qpc, S!wedge, poisoned, breaks>>
    BY <1>4 DEF S!PauseEnds
  <2> QED
    BY <2>1 DEF S!Sent, S!wedge, LinkTypes, CallTypes, WedgeTypes
<1>5. CASE S!ApplySchema
  <2>1. breaks' \in 0..MaxBreaks
    BY <1>5, FaultKeeps DEF S!ApplySchema, LinkTypes
  <2>2. UNCHANGED <<conn, poisoned>> /\ \E b \in BOOLEAN : S!Reconnected(b)
    BY <1>5 DEF S!ApplySchema
  <2>3. 0 \in 0..MaxAttempts
    BY StoreAssumption
  <2>4. /\ CallTypes' /\ WedgeTypes' /\ rec' = "none" /\ attempt' = 0
        /\ schema' \in BOOLEAN /\ suspect' \in BOOLEAN
    BY <2>2, ReconnectedKeeps
  <2> QED
    BY <2>1, <2>2, <2>3, <2>4 DEF LinkTypes
<1>6. CASE S!StreakAges
  BY <1>6 DEF S!StreakAges, S!link, S!calls, LinkTypes, CallTypes, WedgeTypes
<1>7. ASSUME NEW q \in Queries, S!Ask(q) \/ S!Ping(q) PROVE Goal
  <2>1. S!Connected(suspect) \in BOOLEAN /\ UNCHANGED <<schema, suspect, S!wedge, poisoned, breaks>>
    BY <1>7 DEF S!Ask, S!Ping, S!Connected
  <2>2. \E stage \in {"ensure", "probe"} : S!EnsureConnected(q, stage, S!Connected(suspect))
    BY <1>7 DEF S!Ask, S!Ping
  <2>3. LinkTypes' /\ CallTypes'
    BY <2>1, <2>2, EnsureKeeps DEF LinkTypes
  <2> QED
    BY <2>1, <2>3 DEF S!wedge, WedgeTypes
<1>8. ASSUME NEW q \in Queries, S!Succeeds(q) PROVE Goal
  <2>1. /\ qpc' = [qpc EXCEPT ![q] = "idle"] /\ q \notin old
        /\ timeouts' = 0 /\ heals' = 0 /\ streak' = "none"
        /\ UNCHANGED <<S!link, old, poisoned, gone, breaks>>
    BY <1>8 DEF S!Succeeds
  <2>2. LinkTypes' /\ CallTypes'
    BY <2>1 DEF S!link, LinkTypes, CallTypes, CallStates
  <2>3. timeouts' \in 0..MinTimeouts /\ heals' \in 0..MinHeals
    BY <2>1, StoreAssumption
  <2> QED
    BY <2>1, <2>2, <2>3 DEF WedgeTypes
<1>9. ASSUME NEW q \in Queries, S!Rejected(q) PROVE Goal
  <2>1. /\ qpc' = [qpc EXCEPT ![q] = "idle"] /\ q \notin old
        /\ UNCHANGED <<S!link, old, poisoned, S!wedge, breaks>>
    BY <1>9 DEF S!Rejected
  <2> QED
    BY <2>1 DEF S!link, S!wedge, LinkTypes, CallTypes, CallStates, WedgeTypes
<1>10. ASSUME NEW q \in Queries, S!Drops(q) \/ S!PingTimesOut(q) PROVE Goal
  <2>1. S!Connected(suspect) \in BOOLEAN /\ UNCHANGED <<schema, suspect, S!wedge, poisoned, breaks>>
    BY <1>10 DEF S!Drops, S!PingTimesOut, S!Connected
  <2>2. S!Retry(q, S!Connected(suspect))
    BY <1>10 DEF S!Drops, S!PingTimesOut
  <2>3. LinkTypes' /\ CallTypes'
    BY <2>1, <2>2, RetryKeeps DEF LinkTypes
  <2> QED
    BY <2>1, <2>3 DEF S!wedge, WedgeTypes
<1>11. ASSUME NEW q \in Queries, S!Deadline(q) PROVE Goal
  <2>1. S!Connected(TRUE) \in BOOLEAN /\ S!Retry(q, S!Connected(TRUE)) /\ suspect' = TRUE
        /\ UNCHANGED <<schema, heals, poisoned, breaks>>
    BY <1>11 DEF S!Deadline, S!Connected
  <2>2. LinkTypes' /\ CallTypes'
    BY <2>1, RetryKeeps
  <2>3. timeouts' \in 0..MinTimeouts
    BY <1>11, StoreAssumption DEF S!Deadline, WedgeTypes
  <2>4. streak' \in {"none", "young", "aged"} /\ gone' \in BOOLEAN
    BY <1>11, WedgeIs DEF S!Deadline, WedgeTypes
  <2> QED
    BY <2>1, <2>2, <2>3, <2>4 DEF WedgeTypes
<1> QED
  BY <1>1, <1>2, <1>3, <1>4, <1>5, <1>6, <1>7, <1>8, <1>9, <1>10, <1>11
     DEF S!Next, S!Reconnecting, S!Returns

(* The inductive invariant of the store of a daemon.                       *)
THEOREM StoreInvariant == S!Spec => []StoreInv
<1>1. StoreInv /\ [S!Next]_S!vars => StoreInv'
  <2> SUFFICES ASSUME StoreInv, [S!Next]_S!vars PROVE StoreInv'
    OBVIOUS
  <2>1. CASE S!Next
    BY <2>1, SupervisorStep, LinkStep DEF StoreInv
  <2>2. CASE UNCHANGED S!vars
    BY <2>2 DEF StoreInv, SupervisorTypes, SupervisorFits, LinkTypes, CallTypes, WedgeTypes,
                S!vars, S!supervisor, S!link, S!calls, S!wedge
  <2> QED
    BY <2>1, <2>2
<1> QED
  BY <1>1, StoreInit, PTL DEF S!Spec

(* Every variable of the store keeps its type.                             *)
THEOREM StoreIsTyped == S!Spec => []StoreTypeOK
<1>1. StoreInv => StoreTypeOK
  BY DEF StoreInv, SupervisorTypes, LinkTypes, CallTypes, CallStates, WedgeTypes, S!TypeOK,
         StoreTypeOK
<1> QED
  BY <1>1, StoreInvariant, PTL

(* The guard of onManagedChildExit (bootstrap.ts): one SurrealDB process   *)
(* at a time has the data directory and the port, however many events a    *)
(* death has and however many handlers wait.                               *)
THEOREM OneStoreProcess == S!Spec => []OneChild
<1>1. StoreInv => OneChild
  BY DEF StoreInv, SupervisorFits, OneChild, S!OneChild
<1> QED
  BY <1>1, StoreInvariant, PTL
=============================================================================
