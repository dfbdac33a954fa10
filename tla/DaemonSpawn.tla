---------------------------- MODULE DaemonSpawn ----------------------------
(***************************************************************************)
(* How the one daemon of a user comes and goes: clients that find it or    *)
(* spawn it (ensureDaemon in src/mcp-client/daemon-spawn.ts), daemons that *)
(* take the singleton lock, bind and leave (src/daemon/index.ts, listen    *)
(* and close in src/daemon/server.ts), and the files they share.           *)
(*                                                                         *)
(* The processes run side by side, so a step is what one of them does to a *)
(* file in one system call.  A process that looks at a file and at the     *)
(* process the file names does so in one step, because what it saw is      *)
(* stale by its next call either way.  A process may die between any two   *)
(* steps.  A process id is used again only when no file names it.          *)
(***************************************************************************)
EXTENDS Naturals

CONSTANTS
  Clients,     \* the mcp-client processes of the user
  Daemons,     \* the process ids daemons get
  None,        \* no process: the file is absent, the client is not connected
  Transports,  \* a subset of {"uds", "tcp"}
  Timings,     \* a subset of BOOLEAN: the values of prompt
  MaxFaults    \* bound on crashes and ordered shutdowns

ASSUME SpawnAssumption ==
  /\ None \notin Clients \cup Daemons
  /\ Transports \subseteq {"uds", "tcp"}
  /\ Timings \subseteq BOOLEAN
  /\ MaxFaults \in Nat

VARIABLES
  transport,   \* resolveTransport(), the same on both sides
  prompt,      \* TRUE if the deadlines are long against what they wait for
  pidOwner,    \* daemon.pid: the daemon that created it
  pidStage,    \* "fresh": empty for less than 5 s, "old": longer, "marked"
  lockOwner,   \* daemon.spawn.lock: the client that created it
  lockStamped, \* and has written its pid into it
  endpoint,    \* the daemon that bound the socket path, or the port
  token,       \* the daemon whose secret is in the token file
  cpc,         \* client -> where it is in ensureDaemon
  again,       \* clients that have broken the spawn lock and try once more
  peer,        \* client -> the daemon it is attached to
  dpc,         \* daemon -> where it is in main()
  overlapped,  \* a daemon took the lock while another had judged the file
               \* before it stale and not yet unlinked it (history)
  faults       \* number of crashes and ordered shutdowns

pidFile   == <<pidOwner, pidStage>>
spawnLock == <<lockOwner, lockStamped>>
client    == <<cpc, again, peer>>
setting   == <<transport, prompt>>
vars == <<setting, pidFile, spawnLock, endpoint, token, client, dpc, overlapped, faults>>

(* Waiting: in pollSocketReady.  Asking: anywhere in ensureDaemon.         *)
Waiting == {"waitPid", "waitLock", "await"}
Asking  == Waiting \cup {"ping", "probe", "lock", "stamp", "look", "steal", "relock",
                         "break", "spawn", "unlockOk", "unlockFail", "reached"}
ClientStates == Asking \cup {"idle", "served", "rejected", "failed", "dead"}

Booting == {"create", "judge", "unlink", "recreate", "mark", "mint", "clear", "bind", "occupied"}
Leaving == {"closing", "release", "unlinkOwn", "yield", "yieldUnlink", "token", "dropToken"}
DaemonStates == Booting \cup Leaving \cup {"off", "serving"}

(* From the O_EXCL create to its own unlink a daemon holds the lock.       *)
Holding == {"mark", "mint", "clear", "bind", "occupied", "serving",
            "closing", "release", "unlinkOwn", "yield", "yieldUnlink"}

(* Types; an absent file has no content, and only a served client is       *)
(* attached.                                                               *)
TypeOK ==
  /\ transport \in {"uds", "tcp"} /\ prompt \in BOOLEAN
  /\ pidOwner \in Daemons \cup {None} /\ pidStage \in {"fresh", "old", "marked"}
  /\ lockOwner \in Clients \cup {None} /\ lockStamped \in BOOLEAN
  /\ endpoint \in Daemons \cup {None} /\ token \in Daemons \cup {None}
  /\ cpc \in [Clients -> ClientStates] /\ again \subseteq Clients
  /\ peer \in [Clients -> Daemons \cup {None}]
  /\ dpc \in [Daemons -> DaemonStates]
  /\ overlapped \in BOOLEAN /\ faults \in 0..MaxFaults
  /\ pidOwner = None => pidStage = "fresh"
  /\ lockOwner = None => ~lockStamped
  /\ \A c \in Clients : peer[c] # None => cpc[c] = "served"

Init ==
  /\ transport \in Transports /\ prompt \in Timings
  /\ pidOwner = None /\ pidStage = "fresh"
  /\ lockOwner = None /\ lockStamped = FALSE
  /\ endpoint = None /\ token = None
  /\ cpc = [c \in Clients |-> "idle"] /\ again = {}
  /\ peer = [c \in Clients |-> None]
  /\ dpc = [d \in Daemons |-> "off"]
  /\ overlapped = FALSE /\ faults = 0

(* pingDaemon: somebody listens where the path or the port leads.          *)
Reachable == endpoint # None /\ dpc[endpoint] = "serving"

Alive(d) == dpc[d] # "off"

ToC(c, to) == cpc' = [cpc EXCEPT ![c] = to]
ToD(d, to) == dpc' = [dpc EXCEPT ![d] = to]

-----------------------------------------------------------------------------
(* ensureDaemon.  A definition named Bad... is a faulty variant of the one *)
(* it precedes; no action uses it.                                         *)

(* The session asks for its daemon, for the first time or after an error.  *)
Call(c) ==
  /\ cpc[c] \in {"idle", "failed", "rejected"}
  /\ ToC(c, "ping") /\ again' = again \ {c}
  /\ UNCHANGED <<setting, pidFile, spawnLock, endpoint, token, peer, dpc, overlapped, faults>>

Ping(c) ==
  /\ cpc[c] = "ping"
  /\ ToC(c, IF Reachable THEN "reached" ELSE "probe")
  /\ UNCHANGED <<setting, pidFile, spawnLock, endpoint, token, again, peer, dpc, overlapped, faults>>

(* A live daemon is waited for; it is not looked at again.                 *)
ProbeMarker(c) ==
  /\ cpc[c] = "probe"
  /\ ToC(c, IF pidOwner # None /\ pidStage = "marked" /\ Alive(pidOwner)
            THEN "waitPid" ELSE "lock")
  /\ UNCHANGED <<setting, pidFile, spawnLock, endpoint, token, again, peer, dpc, overlapped, faults>>

(* tryAcquireSpawnLock returned null: wait, or the second time give up.    *)
Lost(c) == ToC(c, IF c \in again THEN "failed" ELSE "waitLock")

OpenLock(c, otherwise) ==
  \/ /\ lockOwner = None
     /\ lockOwner' = c /\ lockStamped' = FALSE
     /\ ToC(c, "stamp")
  \/ /\ lockOwner # None
     /\ otherwise
     /\ UNCHANGED spawnLock

TryLock(c) ==
  /\ \/ cpc[c] = "lock"   /\ OpenLock(c, ToC(c, "look"))
     \/ cpc[c] = "relock" /\ OpenLock(c, Lost(c))
  /\ UNCHANGED <<setting, pidFile, endpoint, token, again, peer, dpc, overlapped, faults>>

BadStamp(c) ==
  /\ cpc[c] = "stamp"
  /\ lockStamped' = TRUE
  /\ ToC(c, "spawn")
  /\ UNCHANGED <<setting, pidFile, lockOwner, endpoint, token, again, peer, dpc, overlapped, faults>>
(* The pid goes into the file that was opened, which may be unlinked.      *)
Stamp(c) ==
  /\ cpc[c] = "stamp"
  /\ lockStamped' = (lockStamped \/ lockOwner = c)
  /\ ToC(c, "spawn")
  /\ UNCHANGED <<setting, pidFile, lockOwner, endpoint, token, again, peer, dpc, overlapped, faults>>

(* Only a concrete, dead pid makes the lock free; an empty file does not.  *)
HolderDead == lockOwner # None /\ lockStamped /\ cpc[lockOwner] = "dead"

Look(c) ==
  /\ cpc[c] = "look"
  /\ IF HolderDead THEN ToC(c, "steal") ELSE Lost(c)
  /\ UNCHANGED <<setting, pidFile, spawnLock, endpoint, token, again, peer, dpc, overlapped, faults>>

RemoveLock == lockOwner' = None /\ lockStamped' = FALSE

Steal(c) ==
  /\ cpc[c] = "steal"
  /\ IF lockOwner # None THEN ToC(c, "relock") ELSE Lost(c)
  /\ RemoveLock
  /\ UNCHANGED <<setting, pidFile, endpoint, token, again, peer, dpc, overlapped, faults>>

(* pollSocketReady.                                                        *)
PollHit(c) ==
  /\ cpc[c] \in Waiting /\ Reachable
  /\ ToC(c, IF cpc[c] = "await" THEN "unlockOk" ELSE "reached")
  /\ UNCHANGED <<setting, pidFile, spawnLock, endpoint, token, again, peer, dpc, overlapped, faults>>

(* Five minutes.  When prompt, that is longer than a boot or an exit.      *)
PollDeadline(c) ==
  /\ cpc[c] \in Waiting
  /\ prompt => /\ ~Reachable
               /\ \A d \in Daemons : dpc[d] \notin Booting \cup Leaving
  /\ ToC(c, CASE cpc[c] = "waitPid"  -> "lock"
              [] cpc[c] = "waitLock" -> "break"
              [] cpc[c] = "await"    -> "unlockFail")
  /\ UNCHANGED <<setting, pidFile, spawnLock, endpoint, token, again, peer, dpc, overlapped, faults>>

(* The lock is unlinked whosever it is.                                    *)
BreakLock(c) ==
  /\ cpc[c] = "break"
  /\ RemoveLock
  /\ ToC(c, "lock") /\ again' = again \cup {c}
  /\ UNCHANGED <<setting, pidFile, endpoint, token, peer, dpc, overlapped, faults>>

FreshPid(d) == dpc[d] = "off" /\ d \notin {pidOwner, endpoint, token}

Spawn(c) ==
  /\ cpc[c] = "spawn"
  /\ \E d \in Daemons : FreshPid(d) /\ ToD(d, "create")
  /\ ToC(c, "await")
  /\ UNCHANGED <<setting, pidFile, spawnLock, endpoint, token, again, peer, overlapped, faults>>

(* The finally clause.                                                     *)
ReleaseSpawnLock(c) ==
  /\ cpc[c] \in {"unlockOk", "unlockFail"}
  /\ RemoveLock
  /\ ToC(c, IF cpc[c] = "unlockOk" THEN "reached" ELSE "failed")
  /\ UNCHANGED <<setting, pidFile, endpoint, token, again, peer, dpc, overlapped, faults>>

(* getOrConnectIpc connects, reads the token file and shakes hands.        *)
Handshake(c) ==
  /\ cpc[c] = "reached"
  /\ \/ Reachable /\ (transport = "tcp" => token = endpoint)
        /\ ToC(c, "served") /\ peer' = [peer EXCEPT ![c] = endpoint]
     \/ Reachable /\ transport = "tcp" /\ token # endpoint
        /\ ToC(c, "rejected") /\ UNCHANGED peer
     \/ ~Reachable /\ ToC(c, "failed") /\ UNCHANGED peer
  /\ UNCHANGED <<setting, pidFile, spawnLock, endpoint, token, again, dpc, overlapped, faults>>

Leave(c) ==
  /\ cpc[c] = "served"
  /\ ToC(c, "idle") /\ peer' = [peer EXCEPT ![c] = None]
  /\ UNCHANGED <<setting, pidFile, spawnLock, endpoint, token, again, dpc, overlapped, faults>>

CrashClient(c) ==
  /\ cpc[c] \in Asking /\ faults < MaxFaults
  /\ ToC(c, "dead") /\ faults' = faults + 1
  /\ UNCHANGED <<setting, pidFile, spawnLock, endpoint, token, again, peer, dpc, overlapped>>

(* A new session with a pid no lock file names.                            *)
RestartClient(c) ==
  /\ cpc[c] = "dead" /\ lockOwner # c
  /\ ToC(c, "idle")
  /\ UNCHANGED <<setting, pidFile, spawnLock, endpoint, token, again, peer, dpc, overlapped, faults>>

-----------------------------------------------------------------------------
(* main() of the daemon.                                                   *)

BadGone(d) ==
  /\ ToD(d, "off")
  /\ cpc'  = [c \in Clients |-> IF peer[c] = d THEN "idle" ELSE cpc[c]]
  /\ peer' = [c \in Clients |-> IF peer[c] = d THEN None ELSE peer[c]]
  /\ endpoint' = None
(* The process is gone: its connections close and its port is free; files  *)
(* and a socket path stay.                                                 *)
Gone(d) ==
  /\ ToD(d, "off")
  /\ cpc'  = [c \in Clients |-> IF peer[c] = d THEN "idle" ELSE cpc[c]]
  /\ peer' = [c \in Clients |-> IF peer[c] = d THEN None ELSE peer[c]]
  /\ endpoint' = IF transport = "tcp" /\ endpoint = d THEN None ELSE endpoint

Stay == UNCHANGED <<cpc, peer, endpoint>>

(* acquireDaemonSingletonLock: tryCreate, O_EXCL and then the marker.      *)
Create(d) ==
  /\ dpc[d] \in {"create", "recreate"}
  /\ \/ /\ pidOwner = None
        /\ pidOwner' = d /\ pidStage' = "fresh"
        /\ overlapped' = (overlapped \/ \E e \in Daemons : dpc[e] = "unlink")
        /\ ToD(d, "mark") /\ Stay
     \/ /\ pidOwner # None
        /\ IF dpc[d] = "create" THEN ToD(d, "judge") /\ Stay ELSE Gone(d)
        /\ UNCHANGED <<pidFile, overlapped>>
  /\ UNCHANGED <<setting, spawnLock, token, again, faults>>

Mark(d) ==
  /\ dpc[d] = "mark"
  /\ pidStage' = IF pidOwner = d THEN "marked" ELSE pidStage
  /\ ToD(d, IF transport = "tcp" THEN "mint" ELSE "clear")
  /\ UNCHANGED <<setting, pidOwner, spawnLock, endpoint, token, client, overlapped, faults>>

BadStale == pidOwner # None /\ (pidStage # "marked" \/ ~Alive(pidOwner))
BadStaleNever == pidOwner # None /\ pidStage = "marked" /\ ~Alive(pidOwner)
(* Dead holder, recycled pid, or an empty file of more than five seconds.  *)
Stale ==
  /\ pidOwner # None
  /\ pidStage = "old" \/ (pidStage = "marked" /\ ~Alive(pidOwner))

Judge(d) ==
  /\ dpc[d] = "judge"
  /\ IF Stale THEN ToD(d, "unlink") /\ Stay ELSE Gone(d)
  /\ UNCHANGED <<setting, pidFile, spawnLock, token, again, overlapped, faults>>

RemovePidFile == pidOwner' = None /\ pidStage' = "fresh"

(* The file is unlinked by its name: it may be another than was judged.    *)
Unlink(d) ==
  /\ dpc[d] = "unlink"
  /\ RemovePidFile
  /\ ToD(d, "recreate")
  /\ UNCHANGED <<setting, spawnLock, endpoint, token, client, overlapped, faults>>

(* initDaemonHandshakeToken overwrites what is there.                      *)
Mint(d) ==
  /\ dpc[d] = "mint"
  /\ token' = d
  /\ ToD(d, "bind")
  /\ UNCHANGED <<setting, pidFile, spawnLock, endpoint, client, overlapped, faults>>

(* listen on a path: whatever is there is unlinked first.                  *)
ClearSocket(d) ==
  /\ dpc[d] = "clear"
  /\ endpoint' = None
  /\ ToD(d, "bind")
  /\ UNCHANGED <<setting, pidFile, spawnLock, token, client, overlapped, faults>>

Bind(d) ==
  /\ dpc[d] = "bind"
  /\ \/ endpoint = None /\ endpoint' = d /\ ToD(d, "serving")
     \/ endpoint # None /\ UNCHANGED endpoint
        /\ ToD(d, IF transport = "tcp" THEN "occupied" ELSE "release")
  /\ UNCHANGED <<setting, pidFile, spawnLock, token, client, overlapped, faults>>

(* probeTcpOccupant: a sibling is left alone, token file included.         *)
ProbeOccupant(d) ==
  /\ dpc[d] = "occupied"
  /\ ToD(d, IF Reachable THEN "yield" ELSE "release")
  /\ UNCHANGED <<setting, pidFile, spawnLock, endpoint, token, client, overlapped, faults>>

(* gracefulCleanup starts with server.close(): the port is closed, and the *)
(* path is unlinked, by its name.                                          *)
BeginClose(d) ==
  /\ dpc[d] = "serving"
  /\ endpoint' = IF transport = "uds" \/ endpoint = d THEN None ELSE endpoint
  /\ ToD(d, "closing")
  /\ UNCHANGED <<setting, pidFile, spawnLock, token, client, overlapped>>

(* A signal, meta.shutdown or a superseding client.                        *)
Terminate(d) ==
  /\ faults < MaxFaults /\ faults' = faults + 1
  /\ BeginClose(d)

(* Nobody attached for idleTimeoutMs, which is longer than a poll.         *)
IdleReap(d) ==
  /\ \A c \in Clients : peer[c] # d
  /\ prompt /\ endpoint = d => \A c \in Clients : cpc[c] \notin Asking
  /\ BeginClose(d)
  /\ UNCHANGED faults

(* The end of close(): the path is unlinked once more.  The watchdog may   *)
(* fire before.                                                            *)
EndClose(d) ==
  /\ dpc[d] = "closing"
  /\ \/ endpoint' = IF transport = "uds" THEN None ELSE endpoint
     \/ UNCHANGED endpoint
  /\ ToD(d, "release")
  /\ UNCHANGED <<setting, pidFile, spawnLock, token, client, overlapped, faults>>

(* removeOwnPidFile: is the marker ours?  Then unlink, by its name.        *)
CheckPidFile(d) ==
  /\ \/ dpc[d] \in {"release", "yield"} /\ pidOwner = d /\ pidStage = "marked"
        /\ ToD(d, IF dpc[d] = "release" THEN "unlinkOwn" ELSE "yieldUnlink") /\ Stay
     \/ dpc[d] = "release" /\ ~(pidOwner = d /\ pidStage = "marked")
        /\ ToD(d, "token") /\ Stay
     \/ dpc[d] = "yield" /\ ~(pidOwner = d /\ pidStage = "marked")
        /\ Gone(d)
  /\ UNCHANGED <<setting, pidFile, spawnLock, token, again, overlapped, faults>>

RemoveOwnPidFile(d) ==
  /\ RemovePidFile
  /\ \/ dpc[d] = "unlinkOwn"   /\ ToD(d, "token") /\ Stay
     \/ dpc[d] = "yieldUnlink" /\ Gone(d)
  /\ UNCHANGED <<setting, spawnLock, token, again, overlapped, faults>>

(* removeOwnTokenFile: is the secret ours?  Then unlink, and exit.         *)
CheckTokenFile(d) ==
  /\ dpc[d] = "token"
  /\ IF token = d THEN ToD(d, "dropToken") /\ Stay ELSE Gone(d)
  /\ UNCHANGED <<setting, pidFile, spawnLock, token, again, overlapped, faults>>

RemoveOwnTokenFile(d) ==
  /\ dpc[d] = "dropToken"
  /\ token' = None
  /\ Gone(d)
  /\ UNCHANGED <<setting, pidFile, spawnLock, again, overlapped, faults>>

CrashDaemon(d) ==
  /\ Alive(d) /\ faults < MaxFaults /\ faults' = faults + 1
  /\ Gone(d)
  /\ UNCHANGED <<setting, pidFile, spawnLock, token, again, overlapped>>

(* Five seconds pass.  A process between create and write does not take    *)
(* that long: an empty file grows old only when its creator has died.      *)
Age ==
  /\ pidOwner # None /\ pidStage = "fresh" /\ ~Alive(pidOwner)
  /\ pidStage' = "old"
  /\ UNCHANGED <<setting, pidOwner, spawnLock, endpoint, token, client, dpc, overlapped, faults>>

-----------------------------------------------------------------------------
ClientStep(c) ==
  \/ Ping(c) \/ ProbeMarker(c) \/ TryLock(c) \/ Stamp(c) \/ Look(c) \/ Steal(c)
  \/ PollHit(c) \/ PollDeadline(c) \/ BreakLock(c) \/ Spawn(c) \/ ReleaseSpawnLock(c)
  \/ Handshake(c)

DaemonStep(d) ==
  \/ Create(d) \/ Mark(d) \/ Judge(d) \/ Unlink(d) \/ Mint(d) \/ ClearSocket(d) \/ Bind(d)
  \/ ProbeOccupant(d) \/ EndClose(d) \/ CheckPidFile(d) \/ RemoveOwnPidFile(d)
  \/ CheckTokenFile(d) \/ RemoveOwnTokenFile(d)

Next ==
  \/ \E c \in Clients : Call(c) \/ ClientStep(c) \/ Leave(c) \/ CrashClient(c) \/ RestartClient(c)
  \/ \E d \in Daemons : DaemonStep(d) \/ Terminate(d) \/ IdleReap(d) \/ CrashDaemon(d)
  \/ Age

Spec == Init /\ [][Next]_vars

(* Processes run, time passes, and a session that got an error asks again. *)
FairSpec ==
  /\ Spec
  /\ \A c \in Clients : /\ WF_vars(ClientStep(c))
                        /\ WF_vars(cpc[c] # "idle" /\ Call(c))
  /\ \A d \in Daemons : WF_vars(DaemonStep(d)) /\ WF_vars(IdleReap(d))
  /\ WF_vars(Age)

-----------------------------------------------------------------------------
(* The singleton: two daemons hold the lock at once only if one of them    *)
(* created it between the verdict and the unlink of a sibling that was     *)
(* clearing away an older file; no crash, half-written file, broken spawn  *)
(* lock or exit does it (acquireDaemonSingletonLock, removeOwnPidFile).    *)
SingletonUnlessOverlap ==
  ~overlapped => \A d, e \in Daemons :
    dpc[d] \in Holding /\ dpc[e] \in Holding => d = e

(* The path or the port leads to the daemon that serves: no unlink by name *)
(* (listen, close) has hit the socket of another (same proviso).           *)
ServerReachable ==
  ~overlapped => \A d \in Daemons : dpc[d] = "serving" => endpoint = d

(* A session that asks for its daemon reaches one in the end, whatever     *)
(* files the dead have left: empty or stale pid file, stale spawn lock,    *)
(* dead socket (ensureDaemon, with deadlines that are not cut short).      *)
GetsThrough ==
  \A c \in Clients : prompt /\ cpc[c] = "ping" ~>
    cpc[c] \in {"served", "rejected", "dead"} \/ overlapped

(* "Detection + exit is the safe failure mode - never silently end up with *)
(* two daemons" (src/daemon/index.ts:674).                                 *)
NeverTwoDaemons ==
  \A d, e \in Daemons : dpc[d] = "serving" /\ dpc[e] = "serving" => d = e

(* "Remove our token file on shutdown, but only if it still holds OUR      *)
(* token - never clobber a replacement daemon's freshly-written secret"    *)
(* (src/daemon/index.ts:763): a client of the same user is never turned    *)
(* away by a daemon that is alone.                                         *)
OwnUserAdmitted ==
  ~overlapped => \A c \in Clients : cpc[c] # "rejected"
=============================================================================
