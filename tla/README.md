# A formal model of kongcode

kongcode (`laqrumcode` in its identifiers) gives a coding agent a memory: hooks and tools of many agent
sessions talk to one daemon per user, the daemon keeps a graph in SurrealDB, and headless agents drain a
queue of extraction work into that graph. This directory models the part of it that unit tests hardly reach:
what happens when calls interleave, replies are lost, processes die and sockets break. All paths below are
relative to `src/` of the repository root.

## 1. Inventory

| component | state | operations | what is hard | what makes it correct |
|---|---|---|---|---|
| work queue: `src/tools/pending-work.ts`, table `pending_work` in `src/engine/schema.surql` | rows with status, soft-archive flag, commit token, time of the claim; a UNIQUE index over (session, type, status) | enqueue, recover stuck rows, claim, self-complete, commit (swap, check, write, stamp), 7 day purge | each query is a separate round trip; `withRetry` sends statements twice; drainers outlive the daemon; time-outs against slow work | results written once per claim, no row lost, index never broken, the queue drains |
| connection server: `src/daemon/server.ts` | `clients`, `authedSockets`, `perSocketInFlight`, `rpcsInFlight`, supersede flags, timers | connect, data, close/error, dispatch, prune, timers, `close()` | events in any order, handlers that outlive their socket, sockets that die without an event | counters match the handlers, nobody unauthenticated acts, maps do not leak |
| daemon life cycle: `src/daemon/index.ts` | `shuttingDown`, singleton lock, token file, bootstrap phase | bootstrap, `gracefulCleanup`, `meta.*`, signals | five ways to end race with each other | clean-up once, nobody cut off by an idle reaper, an old daemon ends |
| spawn and discovery: `src/mcp-client/daemon-spawn.ts` | spawn lock, pid marker, socket file | probe, lock, spawn, poll, release | several clients, dead holders, stolen locks | one daemon |
| IPC client: `src/mcp-client/ipc-client.ts`, `index.ts` | socket, pending map, shared connect, single flight | connect, call, time-out, close, retry, supersede | events of an old socket after a reconnect; a retry of what may have run | every call ends; nothing runs twice but after a cut |
| auto-drain: `src/daemon/auto-drain.ts` | lock file, spend file, failures, timers | tick, trigger, spawn, heart-beat, release | awaits between check and use, stale locks, a process that dies | one drainer, spend cap kept, cool-down |
| session clean-up: `src/hook-handlers/session-end.ts`, `src/engine/deferred-cleanup.ts` | claim columns of `session` | claim, enqueue, settle, release | two claimants, partial failure | each session is cleaned up |
| store connection: `src/engine/surreal.ts`; its process: `src/engine/bootstrap.ts` | client, single-flight reconnect, wedge counters; child, restart budget | `ensureConnected`, `withRetry`, ping; exit events, respawn | concurrent failures, sockets that hang, one death with two events | the connection or the process is replaced, and only one of each |
| embeddings: `src/engine/embeddings.ts` | two caches, bounded FIFO, drain loop, breaker | `embed`, `dispose`, purge of the stored vectors | a library that hangs, a full queue, vectors of older daemons | every caller is settled, with a vector of the right width; the breaker closes again |
| knowledge: `src/engine/commit.ts`, `upsertConcept` and `relate` in `surreal.ts` | concepts, correction memories, `supersedes` edges | learn, correct, feedback | look and create in two statements, corrections that are sent again | one active concept of one content; a belief is demoted once |
| migration: `src/engine/workspace-migrate.ts` | the user's files, their archive, the artifacts, a marker row | `migrateWorkspace` | rewrites and removes files between statements that fail | no content is lost, a skill is made once |
| soul: `src/engine/soul.ts`, `pending-work.ts` | one document, its copy in Tier 0 of `core_memory`, `graduation_event` | create, guarded revision, seed, celebrate | concurrent drains, replies that are lost, a copy made row by row | nothing is lost unseen, one celebration, the copy follows |
| causal chains: `src/engine/causal.ts`, `pending-work.ts` | `graduated_at` stamps | claim at fetch, un-stamp | failure between claim and commit | no chain is used twice or stranded |
| maintenance: `src/engine/maintenance.ts`, `consolidateMemories` in `surreal.ts` | `maintenance_runs`, once-per-process flags | boot, retry, gate, consolidate, record | several daemons, passes that are cut off, ranks read before | the weekly job happens; a family of duplicates keeps a member |
| turns: `src/hook-handlers/user-prompt-submit.ts`, `stop.ts`, `src/context-assembler.ts`, `src/engine/retrieval-quality.ts`, `orchestrator.ts` | what the hooks of a turn stash on the session for each other, staged items, pending tasks | preflight, stage, ingest, evaluate, postflight | work that outlives its hook, a Stop that comes late or twice, a deadline that aborts | outcomes and metrics are about their own turn, and survive an orderly end |
| gates: `src/engine/hooks/edit-gates.ts`, `gate-registry.ts`, `src/hook-handlers/pre-tool-use.ts`, `post-tool-use.ts` | paths observed, verdicts remembered, the last prompt | observe, check, wipe | several sources of authority, rows written later, a daemon that forgets | by their rules only the user authorises a destructive command |
| sessions and sub-agents: `src/engine/state.ts`, `src/hook-handlers/subagent.ts` | registry, sub-agents and tool calls in progress, rows of `subagent` | get, remove, evict, reap; spawn, stop | a stop without a key, an UPDATE that fails, a reaper on a timer | an open row is remembered, and closed by its own stop |

Scoring, ACAN training, context formatting, the read queries of the graph, downloads, the listeners of HTTP and
UI and the tool adapters are listed in `PROJECT.json` with the reason they are left out: their logic is
arithmetic or text over query results, or I/O.

Interaction: a hook of a session calls the daemon over a socket (*server*); the end of a session creates rows
(*clean-up* → *queue*); the scheduler starts a headless agent (*auto-drain*) that calls `fetch_pending_work`
and `commit_work_results` through the server; all of them share the database (*store*). A client that finds
no daemon starts one (*spawn*), a newer client asks the old daemon to go (*supersede*). Between the first prompt and
the end of a session its hooks run as requests of the server: they prepare and judge a turn (*turns*), stop a tool
call (*gates*) and follow *sub-agents*, over one session object that the daemon may lose. What a drainer extracts and what
the agent corrects enters the graph as *knowledge*, with vectors of the *embeddings* service; *migration* and
*maintenance* work on the same tables.

## 2. Modules

| module | models |
|---|---|
| `PendingWork` | the queue: the two handlers query by query, the drainers, faults |
| `WorkLedger` | what the queue promises: one ticket, at most one write |
| `MCPendingWork` | instances for TLC |
| `PendingWork_proofs` | theorems about `PendingWork` and its refinement of `WorkLedger`, and about `SessionCleanup` |
| `DaemonServer` | the connection server and the end of the daemon |
| `MCDaemonServer`, `DaemonServer_proofs` | instances, theorems |
| `DaemonSpawn` | clients that look for the daemon and spawn it, daemons that take the singleton lock, bind and leave, and the files they share |
| `MCDaemonSpawn`, `DaemonSpawn_proofs` | instances; theorems about `DaemonSpawn` and about `ManagedStore` |
| `IpcRelay` | the relay of a session: its clients, their sockets, its calls, the daemon as they see it |
| `AutoDrain` | the scheduler: lock file, spend file, cool-down, headless drainers, daemons that overlap |
| `SessionCleanup`, `MCSessionCleanup` | how sessions end: claims, queueing, honour or release, resumed and evicted sessions |
| `ManagedStore`, `MCManagedStore` | the database process, its supervisor, and the one connection to it |
| `Graduation`, `MCGraduation` | the work that changes the agent: soul and causal chains, from fetch to commit |
| `Graduation_proofs` | theorems about it |
| `Maintenance` | the weekly consolidation: its start, its gate, its passes |
| `EmbeddingQueue` | the embedding service: caches, queue, loop, deadline, breaker |
| `WorkspaceMigration` | the import of a workspace, file by file, with its archive and its marker |
| `KnowledgeCommit` | concepts that are learnt and corrected by several calls at once |
| `TurnFlow` | the turns of a conversation: what UserPromptSubmit and Stop stash and leave running, outcomes and metrics |
| `ToolGates` | the gates before edits and destructive commands, and what authorises them |
| `Subagents` | the rows of sub-agents: spawn, stop, and the reaper of sessions |
| `MCDrains` | instances for TLC: `AutoDrain`, and the liveness of `PendingWork` |
| `MCCalls` | instances for TLC: `IpcRelay` and `EmbeddingQueue` |
| `MCUpkeep` | instances for TLC: `Maintenance` and `WorkspaceMigration` |
| `MCConversation` | instances for TLC: `KnowledgeCommit`, `TurnFlow`, `ToolGates` and `Subagents` |
| `AutoDrain_proofs`, `Calls_proofs`, `Upkeep_proofs`, `Conversation_proofs` | theorems about `AutoDrain`, and about all that `MCCalls`, `MCUpkeep` and `MCConversation` hold |

`MCDrains`, `MCCalls`, `MCUpkeep` and `MCConversation` hold instances that are about the same question and share no
state: a behaviour is one of one instance (`part` says which), and the others stand still in their initial states,
which are fixed as far as possible. This checks several modules in one run without multiplying their states; it is
no composition. What the four modules of a conversation share in the code is the session object, of which each has
the fields that no other reads; whether the daemon still has that object is modelled in each of them.

`MCManagedStore` and `MCSessionCleanup` are instances too, of one module each, with names of their own for the constants
and variables that another module of the same proofs uses (`breaks` for `faults`, `claim` for `token`, and so on), and with
the assumptions on the constants.

They compose by what they share. `WorkLedger` is what the rest may assume of the queue, and `PendingWork`
implements it. `SessionCleanup` creates the rows that `PendingWork` drains, `AutoDrain` starts the drainers,
and `Graduation` opens up the one step `Write` of `PendingWork` for three kinds of work. `DaemonSpawn` is where
a daemon comes from, `DaemonServer` what it does with its connections, `IpcRelay` the other end of them; what
the relay assumes of a daemon (it refuses, answers, runs a request, dies) are the outcomes of `dispatchLine` in
`DaemonServer`. `ManagedStore` explains where the lost replies and failed statements of the others come from. `KnowledgeCommit` opens
up what `Write` of `PendingWork` does with one concept and one correction, and a vector that is missing there is a
call of `EmbeddingQueue` that was refused.

A definition named `Bad...` is a faulty variant of the one it precedes. No action uses it; it shows that a property
depends on that definition.

### PendingWork

The variables `status`, `active`, `token` and `stale` are the columns of a row. The clock is one bit:
`stale[r]` is the condition `processing_started_at < now - 10m` of the recovery query; `Expire` sets it, a
claim and the commit's swap clear it. Each call of a handler is a process with a program counter whose values
are the queries of the handler; between two of its queries any other call runs, as in the event loop of Node.
A transaction (`BEGIN ... COMMIT`) is one action. The terminal stamp with a token is not a transaction in the
code, so the look-up of the sibling (`MarkRead`) and the update (`MarkStamp`, `MarkArchive`) are two actions,
and the archiving in the catch clause a third (`MarkCollides` leads to it).

| code | actions |
|---|---|
| `CREATE pending_work` | `Enqueue` |
| stuck rows, first loop of `handleFetchPendingWork` | `FetchStart`, `Recover`, `RecoverFails` |
| skip-ahead loop | `Select`, `Claim`, `ClaimLoses`, `ClaimReplyLost`, `ClaimRejected`, `SelfComplete`, `Deliver` |
| catch clause | `ClaimRejected`, `FetchThrows` |
| `handleCommitWorkResults` | `Cas`, `CasReplyLost`, `CasFails`, `StillOwned`, `Write`, `CommitThrows` |
| `markTerminal` | `SelfComplete` (no token); `MarkRead`, `MarkArchive`, `MarkStamp`, `MarkReplyLost`, `MarkCollides`, `MarkUnmatched` |
| `purgeStalePendingWork` | `Purge` |
| death of the daemon, of an agent | `DaemonCrash`, `Forget` |

`claims`, `reverts`, `writes`, `settled`, `purged` and `faults` are history. `settled` says what became of the work of a
row: its results were written or there were none ("done"), a commit recorded it as "failed" (`Recorded`), or neither.
`commitResults` is one step that
writes something or nothing and returns or throws; the payload of `buildWorkPayload` is not looked at. The
bound of ten self-completed items is abstracted to a choice of the loop to go on or to return.

*Bounds.* `MaxFaults` bounds the adverse events of a behaviour. Crashes, lost replies, failing queries, an
agent that dies or commits twice, a purge, and the expiry of work that is still in somebody's hands are
faults. The expiry of work that nobody holds is not: it must happen for the queue to recover.

### DaemonServer

One action is one callback of Node. `conn` says what Node knows of a socket: *down* is destroyed with its
close event on the way, *phantom* is destroyed with no event ever (the case `pruneDeadClients` exists for),
*ended* has got the daemon's FIN but is still read. `rpc` is the set of handlers that run, which the code does
not keep; `inFlight` and `perSock` are the counters the code keeps of them. A `meta.*` handler has no wait
before its effect, so `CallMeta` does the effect and `Ends` is its finally clause. `Drop(Dead)` is
`pruneDeadClients`, which the close events, the timers, `meta.health` and the session reaper all call.

`phase` is the progress of `gracefulCleanup`: *draining* (awaiting requests), *ending* (sockets ended,
awaiting the listeners), *disposed* (store and models), *gone*. `Exits` is both `process.exit(0)` and the
watchdog, so it may come at any time after the latch.

*Bounds.* Sockets are used once. `Requests` bounds how many handlers run at once, `MaxPhantoms` how many
sockets die silently.

### DaemonSpawn

Here the actors are operating system processes, so the atomic step is a system call on a shared file. `cpc`
is where a client is in `ensureDaemon`, `dpc` where a daemon is in `main()`. A file is its creator
(`pidOwner`, `lockOwner`, `endpoint`, `token`) and, for `daemon.pid`, how far it is written: *fresh* (created,
empty, younger than five seconds), *old* (empty and older), *marked*.

| code | actions |
|---|---|
| `ensureDaemon`: ping, pid marker, `pollSocketReady` | `Ping`, `ProbeMarker`, `PollHit`, `PollDeadline` |
| `tryAcquireSpawnLock`: create, stamp; read holder, unlink, create again | `TryLock`, `Stamp`; `Look`, `Steal`, `TryLock` |
| second attempt after five minutes | `BreakLock`, `TryLock` |
| spawn and `finally` | `Spawn`, `ReleaseSpawnLock` |
| `getOrConnectIpc`, `handshake` | `Call`, `Handshake`, `Leave` |
| `acquireDaemonSingletonLock` | `Create`, `Mark`, `Judge`, `Unlink`, `Create` |
| `initDaemonHandshakeToken`, `listen`, `probeTcpOccupant` | `Mint`, `ClearSocket`, `Bind`, `ProbeOccupant` |
| `close` | `BeginClose` (in `Terminate`, `IdleReap`), `EndClose` |
| `removeOwnPidFile`, `removeOwnTokenFile` | `CheckPidFile`, `RemoveOwnPidFile`, `CheckTokenFile`, `RemoveOwnTokenFile` |
| death of a process | `CrashClient`, `CrashDaemon` |

Every unlink is by name, as in the code: it removes whatever is there. Reading a holder and asking whether it
lives are one step, since the answer can be stale by the next call in either case; the `O_TRUNC` and the write
of the token are one step too. Closing a Unix socket unlinks its path (Node does that), and `close()` unlinks
it again. A dead pid and a recycled pid are the same to the daemon, which looks at the command line (Linux).

*Bounds and timing.* A process between `open` and `write` does not pause for five seconds (`Age`). The
five-minute deadlines and the idle time-out may fire at any time when `prompt` is FALSE; when it is TRUE they
are longer than a boot, an exit and a poll. `MaxFaults` bounds crashes and ordered shutdowns; daemons are
process ids that come back when no file names them.

### IpcRelay

The relay is one process, so a step is what runs without an await. Clients and sockets are numbers that are used
again when nothing refers to them. The pending map of a client is the set of calls that are "sent" through it,
and `reply` is what the daemon makes of such a call.

| code | actions |
|---|---|
| `handleToolCall`, `getOrConnectIpc` | `Arrive`, `Retry` (after the back-off) |
| `doConnect` of a client whose socket is gone | `DialLands`, `DialRefused` |
| `connectAndHandshake`: `ensureDaemon`, dial, `meta.handshake` | `EnsureFinds`, `EnsureFails`, `FlightDials`, `FlightRefused`, `FlightLands`, `GreetFails` |
| the rest of it for an older daemon: `meta.requestSupersede`; in `tryOrphanRecycle` the bare dial of a client that has lost its socket, `meta.health`, `meta.shutdown` | `AskSupersede`, `SupersedeAnswered`, `SupersedeThrows`, `Redialed`, `RedialRefused`, `HealthKeeps`, `HealthAlone`, `ShutdownEnds` |
| `onClose`, `processLine`, the deadline of `call` | `SocketCloses`, `Answer`, `CallTimesOut` |
| the daemon: `dispatchLine`, boot, end | `Run`, `Refuse`, `Booted`, `DaemonDies`, `SocketBreaks`, `OtherSpawns` |

Each await of the flight is a value of `flight`, because a socket may close in any of them, and what follows
differs: a close during the handshake fails the flight, one during `meta.requestSupersede` is caught (index.ts 173)
and `meta.health` dials again without a handshake, one during `meta.health` hands over a client that has no socket. `stripped`
remembers the clients this has befallen.

*Bounds.* Two calls, and three clients and three sockets at a time: one client can be on its way out, one in use, and
one in the making, each with a socket that has not had its close event yet. A dial waits while no socket is free. What
the path of a daemon is made of is in `DaemonSpawn`; `EnsureFinds` is its outcome. An older daemon that another session starts is a fault.

### AutoDrain

Daemons of one home directory overlap while one leaves, and share the lock file and the spend file. A trigger is
one run of `spawnHeadlessDrainer`: `Begin` (the guard before the await), `Gate` (pending count, cap, look at the
lock), `Unlink`, `Create`, `Stamp`, `Spawn` or `SpawnFails`. A drainer is "run", "exited" while its event waits,
and in "tally" while the queue is counted again. Two histories name the drainers that run without the lock: `loose`
those that lost it on purpose (stolen when old, or given up by a shutdown), `robbed` all others: their fresh lock was unlinked
by name, by a thief that had judged another file or after a spawn that failed, or it was gone before they started.
`crowded` says that two daemons have been alive at a time or the machine has slept. `slips` counts the steals of a lock in
use and those after a cap that was checked before, which `SpendCapped` leaves out.

*Bounds.* Two daemons, triggers and drainers; a cap of two and a cool-down after one fast failure; one fault (a
crash at any step, a shutdown, a machine that sleeps, a store that does not answer, a failed spawn).

### SessionCleanup

A conversation may have several rows, as every SessionStart creates one. A worker is one call of SessionEnd or
of the deferred pass. Its states are "claim", "count" (the turns of a deferred row), "gate" (CREATE of the
extraction, checks and CREATEs of graduations) and "settle". `token` is the claim token on the row, by which a
claim that is sent twice recognises itself. `SecondTurn` stands for the threshold of two user turns.

| code | actions |
|---|---|
| `SessionStart`, `UserPromptSubmit`, `ingestTurn` | `SessionStart`, `Prompt`, `SecondTurn` |
| eviction and removal in `state.ts` | `Evict`, `SessionEnd` (`Removed`) |
| `claimSessionForCleanup` | `Claim`, `ClaimReplyLost`, `ClaimLost`, `ClaimThrows` |
| extraction, `hasPendingWorkOfType`, graduations | `Count`, `Gate`, `Create`, `CreateFails` |
| complete or release | `Honour`, `Release` |

A SessionStart of a conversation while its own end is under way changes the row that the end will release; the
release is not guarded by the token. This overlap is not modelled.

*Bounds.* Two conversations, two workers, two rows, one graduation type, one fault.

### ManagedStore

`conn` is what stands behind `this.db`: *up*, *anon* (the SDK has dialled again by itself, and is not signed
in), *zombie* (it says it is connected and settles nothing) or *down*. `rec` is the single-flight reconnect,
`qpc` a call of the query functions in `withRetry`. `timeouts`, `heals` and `streak` are the `WedgeDetector`,
whose verdict ends the daemon (`Wedged`). On the side of the process, `events` are exit and error events that
have not been delivered, `hpc` the calls of `onManagedChildExit`, which wait for a back-off and then for the
pid file. Nearly all callers ask `isAvailable()` first, so a connection that is down is dialled again only
by a caller that does not (`Ping`: `introspect.ts`, `memory-health.ts`). The row that
`recordSchemaWedgeRecovery` writes when duplicates stop an index (surreal.ts 588 to 622) is left out.

*Bounds.* Three calls (one of them a ping), two exit handlers, two faults; budgets and thresholds of two, so that
each is reached once with and once without a second failure.

### Graduation

A run is a drainer with one item. Rows are reduced to who may commit; `Stuck`, `Release` and `GiveBack` are the
recovery of a row, whose read of the won chain ids, un-stamping and revert are separate round trips. An entry of
the soul is named by the run that wrote it, so that a section is a set of names.

| code | actions |
|---|---|
| `buildWorkPayload`: soul; causal chains | `Build`; `Group`, `Select`, `Claim`, `ClaimReplyLost`, `Persist` |
| `handleCommitWorkResults`, `markTerminal` | `Commit`, `StillOwned`, `Mark` |
| `commitResults` of `causal_graduate`, `unstampGraduatedChains` | `Skills`, `Unstamp` |
| `createSoul` | `Probe`, `CreateSoul`, `CreateSoulFails` |
| `soul_evolve`, `mergeSoulSection`, `reviseSoulGuarded` | `ReadSoul`, `Revise`, `ReviseFails` |
| `seedSoulAsCoreMemory`, `recordGraduationEvent` | `View`, `List`, `Copy`, `Archive`, `Celebrate` |

`made`, `reopened`, `lost`, `usurped`, `resent` and `blurred` are history. The last four name what the code
accepts: chains whose claim or ids a fault cut off, rows that were recovered under a live drainer, an event
that was sent twice, and copies that failed or overlapped.

The model leaves out `emotional_dimensions`, which no copy ever takes to Tier 0 (soul.ts 789 to 810), the fixed persona
entry, and a soul that lacks a section, as an older version may have left one: that section is written without a guard
(pending-work.ts 1498 to 1505).

*Bounds.* Two items, three runs (so that a recovered item is drained again), one section of at most three entries,
two chains that make a group alone, two attempts to revise, one fault. One section is enough: what relates
two sections is that one statement writes both.

### Maintenance

One behaviour is about one table, *memory* or *reflection*, with rows that are all near-duplicates of each other.
A pass reads ranks with its list (`known`) and with each search (`found`) and compares these, while rows change.
`age` is the time since the newest row of `maintenance_runs`, which the pass and `runJob` both write.

| code | actions |
|---|---|
| boot timer, session start, retry timer, deferred group | `Boot`, `SessionStart`, `RetryTimer`, `HeavyTimer` |
| `shouldRunMaintenance` | `Gate` |
| `consolidateMemories`, passes 1 and 3 | `List`, `Search`, `Merge`, `Finish`, `Throws` |
| `runJob` | `Record` |

*Bounds.* Two daemons, three rows, one of them created late, with record ids that are not in the order of creation
and a rank above the others; a week of one day; one fault.

### EmbeddingQueue

A step is what the event loop does without an await. The loop of `drainEmbedQueue` waits only for a computation, so
`running` is also `queueDraining`, and `Drain` is all the loop does up to its next wait: it rejects everything behind an
open breaker, or starts the next item. A vector is *fit* or *unfit* (of another width). An older daemon may have stored
unfit ones (`Init`), which is why `l2Get` looks at the width.

| code | actions |
|---|---|
| `embed`: first cache, second cache, ceiling, enqueue | `Ask`, `Hit`, `Miss` |
| `computeAndSettle` | `Computed`, `WrongWidth`, `ComputeFails`, `DeadlinePasses` |
| breaker: a minute after it was opened | `CoolDown` |
| `l2Put`, `purgeStaleEmbedCache` | `WriteLands`, `PurgeStored` |
| `initialize`, `dispose` | `Load`, `Dispose`, `Disposed` |

*Bounds.* Three callers on two texts, so that two ask for the same; a cache of one entry, a queue of one item behind
the one that is computed, a breaker that opens after two time-outs, two faults (a wedge, a failure, a wrong width, a
write that is lost).

### WorkspaceMigration

A SKILL.md is *full*, *empty* while it is rewritten, then a *stub*; another file is *full* or *gone*; its copy in the
archive is *torn* while it is written. `rows` tells the artifact row of the migration from the one the PostToolUse hook
may have left for the same path, which has no content and rejects the CREATE. Each statement and each file operation
may fail, and the reply of a CREATE may be lost, which makes the retry of the same statement fail on its own row.

| code | actions |
|---|---|
| `migrateAction`, marker look-up, `collectOpenClawFiles` | `Call`, `Check`, `Collect` |
| document: artifact, memories | `IngestDoc`, `IngestMemories` |
| `ingestSkill`, `commitSkill`, `writeSkillStub` | `LeaveStub`, `CommitSkill`, `CreateArtifact`, `WriteStub`, `StubWritten` |
| `archiveFiles` | `CopyFile`, `CopyEnds`, `Unlink` |
| marker | `Mark` |

`left[m]` are the files that call `m` has not dealt with yet in the pass it is in, in the order of `Order`. A failure of
`archiveFiles` as a whole is caught (workspace-migrate.ts 239 to 247) and is not an action of its own: a directory that
cannot be made leaves every file where it is, as a `CopyFile` that fails for each of them does, a manifest that cannot
be written leaves what the files left; the marker is written either way.

*Bounds.* One SKILL.md and one document, two calls, two faults: a pass that is cut off, one that runs again, and a
statement that fails in either.

### KnowledgeCommit

A row of `concept` is its content and a number: 0 for the id that is a hash of the content, others for the random ids
of content that is learnt again after it was superseded. `Alike` are contents whose vectors fold into one. Learners and
correctors are calls of `commitConcept` and `commitCorrection`; between two of their statements any other call runs.
Stability is counted in percent, and `believed` (history) keeps what a row was worth while it was active.

| code | actions |
|---|---|
| `commitConcept`, `upsertConcept` | `Learn`, `Look`, `Fold`, `Create`, `Rematch`, `Near`, `Rebirth`, `Link` |
| `commitCorrection`: memory, targets, edge, decay | `Correct`, `FindMemory`, `CreateMemory`, `Resolve`, `CheckEdge`, `Relate`, `Decay` |
| `record_retrieval_feedback` on a concept | `Feedback` |
| `ensureEdgeIndexes` | `armed`, either way from the start; in the run, armed where a belief is there at the start |

Targets that are memories (`status = 'superseded'`), links to tasks and projects, and the access counts are left out.
So is a target that the caller names by `oldId` (commit.ts 1147 to 1149): it is taken without a look at `superseded_at`
or the floor, and its stability is not read but assumed; `DecayedOnce` says nothing of it.

*Bounds.* Two learners of one content and two calls of one correction of it, two at a time; one random id, two rows of
the memory, one signal of feedback, one fault. The concept may be there at the start, near the floor. One content is
enough for what the run checks: rows of other content are other rows.

### TurnFlow

A step is what a hook does between two awaits. `assemble[n]` is how far `assembleContextString` of a turn has come, `stop`
how far `handleStop` of a delivery; `eval` and `post` are the promises that Stop leaves behind. Staged items are named
by their turn and an assistant's row by the Stop that wrote it, which is how one can tell whether an outcome is about
the right turn and the right answer.

| code | actions |
|---|---|
| `handleUserPromptSubmit`, `preflight` (its counter), bypass | `Prompt` |
| `assembleContextString` after `preflight` | `Preflight` |
| `graphTransformInner`: `stageRetrieval`, `stageSkills`; deadline and abort | `Retrieve`: `StageRetrieval`, `StageSkills`; `TransformTimesOut`, `HookReturns` |
| `handleStop`: transcript, pointer; `ingestTurn`; the rest | `Deliver` (in `Stop`, `Redeliver`); `IngestAssistant`; `StopReturns` |
| `evaluateRetrieval`, `postflight` | `Evaluate`, `Postflight` |
| git push in PreToolUse, the block of Stop | `Pushes`, `StopReturns` |
| `dispatchHookWithDeadline` | `HookTimesOut` |
| `gracefulCleanup`, `awaitPendingTasks`; exit; watchdog or death | `Shutdown`, `Exit`; `Dies` |

`staged` and `skills` are the entry of the session: the turn of its items, and the turn whose skills it carries. A
transform that was given up after its last look at the signal no longer stages items, but still puts its skills into
the entry that is there (graph-context.ts 2135 and 2297), which is an earlier or a later turn's.

After a restart the next hook may or may not find a session object (a tool call may have made it): `restarted`.
`fresh`, `gone`, `cut`, `skipped` and `overlap` are history.

*Bounds.* Two prompts, the first of them plain, two deliveries of Stop, and one fault (a deadline of the transform or
of a hook, a transcript that is not read, a redelivery, a store that is away, a shutdown, a death). Two turns are one
whose evaluation is slow and one that stages meanwhile; two Stops are one for each turn, or one that comes twice
or is blocked by a push.

### ToolGates

A *subject* is what a gate asks about and remembers: a file, or the one destructive pattern, which several commands match.
What is said is reduced to the subjects it names, and the commands a user gives word for word. The memory is per
pattern (edit-gates.ts 134, 144): a user who gives one command of it lets every other one through, until the
session is idle or forgotten; a row, on the other hand, is searched for the name of the pattern only. `writing` are turns whose `ingestTurn` has not reached the database, `rows` what the cold path of a gate finds
there. `allowed` records a pass only if a rule found an authority; a gate that is open because the store is away or the
session has no row lets the call through and leaves no trace, as in the code.

| code | actions |
|---|---|
| `handleUserPromptSubmit`, `handleStop`, `ingestTurn` | `UserPrompt`, `AgentSays`, `Ingest` |
| PreToolUse of Read, PostToolUse of recall and searches | `Read` |
| `runGates`: edit gate; bash gate | `Edit`; `Bash`, `Authorised` |
| `maybeWipeIdleCache` | `GoesIdle`, `Remembered` |
| removal of the session, restart | `Forget` |

*Bounds.* One file, one pattern with two commands, two prompts that name one thing or nothing (`MaxNamed`), one fault; the
agent says anything, any number of times.

### Subagents

A spawn is its sub-agent, its `tool_use_id` and its row. `exact` says what SubagentStop carries: the `tool_use_id`, or only
an `agent_id` that names no row. `ours` are the hook calls that hold the session object which is in the map; a call
that holds an older one changes an object nobody will look at.

| code | actions |
|---|---|
| PreToolUse of Agent and Task, `commitSubagent` | `Spawn`, `Create`, `Seal`, `Start` |
| `handleSubagentStop` | `Deliver` (in `Stop`, `Redeliver`), `Select`, `Update`, `Orphan` |
| `pendingToolArgs` of Write and Edit | `PreEdit`, `PostEdit` |
| `reapStaleSessions`; eviction, and SessionEnd or a restart with rows in progress | `TwoHours`, `Vanish`, `Reap`; `Evict` |

The last three lose the rows in progress in the same way: nobody remembers them. They are one action, which spends
the fault, and `lost` names the rows.

*Bounds.* Two spawns, one edit, one fault (a store that is away, a statement that fails, a time-out, a stop that
comes twice, an eviction).

## 3. Runs

| run | instance | what it shows |
|---|---|---|
| `queue_safe` | 2 rows of one session and type, 2 fetchers, 2 committers, 1 fault; symmetric calls | the safety of the queue and that it implements `WorkLedger` |
| `queue_stale` | 1 row, 2 faults | violated: `StaleClaimDiscarded` |
| `server_life` | 2 sockets (one owner of the token), 3 requests, ceilings 2 and 1, 1 phantom, with and without authentication | all safety of the server, and `SupersedeLands` |
| `spawn_safe` | 2 clients, 3 daemons, both transports, 1 fault, deadlines at any time; symmetric processes | the safety of the spawn protocol |
| `spawn_live` | 2 clients, 2 daemons, 1 fault, `prompt`, no symmetry | `GetsThrough` |
| `calls` | relay: 2 calls, 3 clients, 3 sockets, 1 fault, with and without authentication; embeddings: 3 callers, 2 texts, cache and queue of 1, 2 faults | safety of the retry; `EmbedsFit`; every call ends (`CallsEnd`) |
| `drains` | scheduler: 2 daemons, 2 triggers, 2 drainers, 1 fault; queue: 2 rows of one session and type, 1 fetcher, 3 committers, 1 fault | one drainer, the cap, and draining that goes on (`WorkDrains`) |
| `sessions` | 2 conversations, 2 workers, 2 rows, 1 fault; symmetric | the safety of the end of a session |
| `store` | 3 calls, 2 exit handlers, 2 faults | one process; healing and escalation |
| `graduation` | 2 items, 3 drainers, 1 fault; symmetric | the safety of soul and chains |
| `upkeep` | consolidation: 2 daemons, 3 rows, 1 fault; import: 2 files, 2 calls, 2 faults | `FamilyStands`, `BigIsConsolidated`; `NothingLost`, `MigratesOnce` |
| `conversation` | knowledge: 2 learners, 2 correctors, 1 content, 1 fault, symmetric; turns: 2 turns, 2 Stops, 1 fault; gates: 1 file, 1 pattern with 2 commands, 2 prompts, 1 fault; agents: 2 spawns, 1 edit, 1 fault | `ConceptsFold`, `DecayedOnce`; `TurnsKept`, `StagedKept`; `NoSelfAuthorisation`; `AgentsClosed` |

Why these bounds are enough to be interesting: the index, the recovery and `markTerminal` are about a row and
one sibling, so two rows of one key exercise every branch (the archived, the terminal, the pending sibling);
two commits and two fetches are the smallest number in which one overtakes the other, and one fault is enough
for a revert under a live drainer. A ceiling of 1 per socket and 2 overall, under three requests, lets each
ceiling be reached without the other. Three daemons are a dead one that left its files and two that find them;
two clients are the holder of the spawn lock and the one that waits for it. The bounds of the other modules are
explained with them. The theorems of section 4 remove the bounds for what they cover.

### Properties

*Queue.* `WriteBudget`: results of a row are written at most once, plus once per recovery of the row.
`RowsConsistent` has three parts. `DedupKeyUnique`: the transactions that set a status without asking the index
never break it. `CompletedIsSettled`: a row reads completed only if its results were written or its payload was
empty. `NoWorkDropped`: for every row an active row of its session and type remains, or one of them was worked on, was recorded
as failed, or was purged for its age.
`ImplementsLedger`: refinement, with *open* mapped to rows that wait or are processed and *inflight* to the
commits between swap and write. `QueueDrains`, a part of `WorkDrains`: every open row is settled or archived in the end.

*Server.* `Admission` is `Counters` (`LoadBounded` and `QuotaNotLeaked`: counters against handlers) and
`OwnersOnly`, the TCP gate. `Maps` is `NothingLeftBehind` (the maps after a close), `IdleArmed` (the reaper) and
`OneSupersedeCallback`. `Endings` is `CleanupOnce` (the latch) and `PeacefulEnd` (the daemon's own ends cut nobody
off). `SupersedeLands`: a supersede that was accepted ends the daemon.

*Spawn.* `SingletonUnlessOverlap`: two daemons hold the singleton lock only if one created its file between
the verdict of a sibling on an older file and that sibling's unlink (`overlapped`); crashes, half-written
files, broken spawn locks, concurrent spawns and exits do not do it. `ServerReachable`: with the same proviso
the socket path or port leads to the daemon that serves, so that none of the unlinks by name hits the socket of
another. `GetsThrough`: every client that asks reaches a daemon, whatever the dead have left. A client that a
daemon turns away has reached one.

*Relay.* `RetryIsSafe` is `TwiceOnlyIfCut` (the daemon runs a call twice only if its first connection was cut or
the daemon was busy) and `GreetedOrStripped` (a retry is written to a socket that has passed the handshake, or its
client was `stripped` of that socket before its flight had handed it over). That the second case happens contradicts a
comment: see `RetryIsGreeted` below.
`CloseIsOwn`: the close event of an old socket never touches a newer one. `EveryCallEnds`, a part of `CallsEnd`.

*Auto-drain.* `OneDrainer`: two drainers run together only if one of them has lost its lock on purpose; or one was
robbed of it, and the state is `crowded`. Unlinks by name do make two drainers run at once (`NobodyRobbed` below), but never
under one daemon that stays awake: what it does between the check of the lock and the marker excludes its other triggers,
and an exit leaves the lock of another drainer alone.
`SpendCapped`: the spawns of a day stay within the cap but for lines that could not be written and for the
`slips`. `DrainResumes`, the other part of `WorkDrains`: a lock that nobody uses does not stop the drains.

*Sessions.* `EndedOnce` is `OneWinner` (one handler at a time works on a row), `ExtractedOnce` (one extraction of a
row, not counting a CREATE that landed and was reported failed) and `GraduationsBounded` (graduations pile up only
when two handlers pass the check together or the check fails).

*Store.* `OneChild`: the supervisor runs one process. `StoreHeals` is `ChildReturns` (that process returns), `ZombieHeals` (a connection that hangs is
replaced, or the attempts fail) and `PoisonEscalates` (a process whose connections all hang exits, or is left without
a connection that anybody asks for).

*Graduation.* `NothingUnseenLost` is `DropsOnlyRead` (a revision drops an entry only if its last read has shown
it) and `IdentityKept` (Tier 0 never loses a section of the soul). `TierZeroFollows`: between commits Tier 0
says what the soul says, as long as no copy has failed, was cut off or overlapped another; what must hold over those
too is `IdentityKept`. `DoneOnce` is `CelebratedOnce` (one graduation event) and `ChainsOnce`, which is `SkillsBudget`
(skills are made from a chain once, and once more for every release) and `NotStranded` (a stamped chain has become a
skill, or somebody has it).

*Maintenance.* `FamilyStands`: whatever reflection is archived has an active successor. `BigIsConsolidated`: above
the floor of ten memories the job runs again and again.

*Embeddings.* `EmbedsFit`: no vector of a wrong width is handed out or kept in the first cache, from wherever it comes, and nobody waits
behind a breaker that is open. `EmbedSettles`, the other part of `CallsEnd`, is `CallsSettle` (every `embed()` settles) and `BreakerCloses` (if the
library has recovered and calls go on that no cache answers, the breaker closes).

*Migration.* `NothingLost`: a SKILL.md is rewritten only after its content is in the database, another file is removed
only when the archive holds all of it, unless two calls archive at once. `MigratesOnce`: calls that do not overlap make
one skill of a SKILL.md, and one more per fault at most; a stub is never taken for a skill.

*Knowledge.* `ConceptsFold`: content that nobody corrected has one active row, unless the look-up after a collision
failed, and the link scans run once at most for a row. `DecayedOnce`: a correction changes a stability only to the lowered value
of one the row had while it was believed, and what was superseded stays superseded.

*Turns.* `TurnsKept` has four parts. `OwnAnswer`: an outcome is about the answer of the Stop that evaluates it, unless two
Stops ran at a time. `OwnItems`: without a fault, a turn that staged items is not judged by those of another.
`MetricsOnce`: the measures of a turn are recorded once. `OutcomesSurvive`: an orderly shutdown cuts off no evaluation
but those of Stops that were still running. `StagedKept`: what is staged is removed only by the evaluation of that very
entry, the items of a transform that was given up are not staged, and the skills an entry carries are those of its own
turn or of a transform that was given up. The last is more than the code's comments allow: `SkillsShown`, below.

*Gates.* `NoSelfAuthorisation`: a gate lets a destructive command through by its rules only after the user has named its
pattern or given a command of it, although the agent's words are stored in the same table. This is what the queries
do (`role = 'user'`, edit-gates.ts 155 to 160), and what a comment says of the file gate (88 to 90); the header and the denial of the
bash gate offer the agent a way of its own, which does not exist: `MentionSuffices`, below.

*Sub-agents.* `AgentsClosed` is `Remembered` (a row in progress is remembered by the session that must close it, so that
a stop that comes again finds it and no reaper takes the session away) and `OwnStop` (a row is closed by the stop of its
own agent), unless a row was lost by a failure or a stop came twice.

### The violated property

`StaleClaimDiscarded` is what comments at the commit's swap state. The swap compares the status, not the claim, so
a drainer whose row was recovered and claimed again matches the other's claim. `WriteBudget` still holds: the
second drainer is the one that is discarded.

### Other divergences met while modelling

Each of these definitions states what a comment of the code says and is violated by what the code does. No run of
`PROJECT.json` has them; adding the name to the configuration shown, as INVARIANT or PROPERTY, gives the
counterexample.

| property | configuration | what happens |
|---|---|---|
| `ClaimNeverRejected` (INVARIANT) | `PendingWork_safe.cfg` | the status is part of the UNIQUE key, so a claim is rejected while a sibling is processing, and the fetch call ends there. `WorkDrains` holds nevertheless |
| `SocketShareKept` (INVARIANT) | `DaemonServer_life.cfg` | `decInFlightForSocket` runs for `meta.*` requests too, and is a no-op only if the socket has no entry |
| `StoreOutlivesHandlers` (INVARIANT) | `DaemonServer_life.cfg` | requests that arrive on ended sockets after the drain run while the store is disposed |
| `EmptyReaped` (PROPERTY) | `DaemonServer_life.cfg` | only one of the four pruning paths arms the idle timer, so a phantom can leave an empty daemon behind |
| `NeverTwoDaemons` (INVARIANT) | `DaemonSpawn_safe.cfg` | two siblings judge one pid file stale; the first unlinks and creates, the second unlinks the new file and creates as well |
| `OwnUserAdmitted` (INVARIANT) | `DaemonSpawn_safe.cfg` | the pid file is given up before the token file is checked and unlinked; a successor that starts in between loses its secret and turns the clients of its own user away |
| `ConnectRespawns` (INVARIANT) | `Calls_end.cfg` | a call whose client has lost its socket dials by itself, and ends with the refusal of that dial: only the next flight spawns a daemon |
| `RetryIsGreeted` (INVARIANT) | `Calls_end.cfg` | a socket that closes while an older daemon is asked to supersede is dialled again without a handshake, and the retry that waited for the flight is written to it; "getOrConnectIpc()/connectAndHandshake below re-handshakes" (mcp-client/index.ts 312). A daemon that wants the token refuses it, and there is no second retry |
| `NobodyRobbed` (INVARIANT) | `Drains_end.cfg` | of two daemons that judge one dead lock, the second unlinks the fresh lock of the first one's drainer by name, and two drainers run, although `tryAcquireLock` "returns ... null if another live drainer ... already owns it" (auto-drain.ts 425) |
| `UnknownIsNoProgress` (PROPERTY) | `Drains_end.cfg` | a recount that the store does not answer reads as an empty queue, and the failures are forgotten |
| `LoserIsCovered` (PROPERTY, by way of `E!LoserIsCovered` in `MCSessionCleanup`) | `SessionCleanup_ends.cfg`, `Conversations = {c1}`, `Workers = {w1}`, `SessionRows = {s1}`, `MaxSlips = 0` | a conversation that ended before its second turn is closed without an extraction; resumed on the same row and ended again it loses the claim to nobody |
| `RetryIsRebuilt` (PROPERTY, by way of `S!RetryIsRebuilt` in `MCManagedStore`) | `ManagedStore_heals.cfg`, `Queries = {q1}`, `Pings = {}`, `Handlers = {h1}`, thresholds 1, `MaxBreaks = 1`, `S!Spec` | the retry after an anonymous session awaits `ensureConnected`, which returns at once, and is sent on the same connection |
| `NoClobber` (PROPERTY) | `Graduation_commits.cfg` | the retry after a conflict reads the soul again and may replace entries its agent was never shown, if the result shares one entry with the section |
| `AddsOnly` (PROPERTY) | `Graduation_commits.cfg` | an agent that returns entries of its own only replaces the section when its first attempt had landed and its reply was lost: the merge then finds its own entries there |
| `SmallIsConsolidated` (PROPERTY) | `Upkeep_weeks.cfg` | `runJob` writes an "ok" row also when the gate has skipped the job, so every start of a daemon puts the weekly run off by another week |
| `KeeperIsActive` (PROPERTY) | `Upkeep_weeks.cfg` | the pass over memory lists archived and resolved rows too, and archives an active near-duplicate in their favour |
| `ProbeReopens` (PROPERTY, by way of a definition `E!ProbeReopens` in `MCCalls`) | `Calls_end.cfg` | a half-open probe that fails for another reason than a time-out does not open the breaker again, and the backlog goes through (embeddings.ts 285 to 289) |
| `ArchivedIsIngested` (INVARIANT, by way of `M!ArchivedIsIngested` in `MCUpkeep`) | `Upkeep_weeks.cfg` | a file whose ingestion failed is archived with the others (workspace-migrate.ts 742) |
| `StubHasSkill` (INVARIANT, by way of `M!StubHasSkill` in `MCUpkeep`) | `Upkeep_weeks.cfg`, `Twins = {s1}` | a SKILL.md that is close to another skill makes no row of its own, and its stub names a skill that is not there (workspace-migrate.ts 758) |
| `EdgeMeansDecayed` (INVARIANT) | `Conversation_holds.cfg` | the edge is written before the decay; if the decay fails, no later try of the correction makes up for it (commit.ts 1227 to 1239) |
| `DecayLowers` (PROPERTY) | `Conversation_holds.cfg` | feedback takes a concept below the floor while a correction holds its old stability, and the correction writes it back up (supersede.ts 10) |
| `FirstEditInvestigated` (INVARIANT, as `part = "gates" => G!FirstEditInvestigated` in `MCConversation`) | `Conversation_holds.cfg` | PreToolUse adds the path of the edit itself to the observed paths before it runs the gates (pre-tool-use.ts 41 to 50), so the edit gate finds every file investigated and never denies; its header promises the opposite (edit-gates.ts 4) |
| `MentionSuffices` (INVARIANT, as `part = "gates" => G!MentionSuffices` in `MCConversation`) | `Conversation_holds.cfg` | the bash gate requires "user authorization or prior session mention" (edit-gates.ts 12, 219), and its denial tells the agent to surface context and to "retry", as it "fires once per pattern per session" (236 to 241); but only rows of the user are asked for, nothing is remembered when a command is denied, and every retry is denied until the user names the pattern |
| `SkillsShown` (PROPERTY, by way of `T!SkillsShown` in `MCConversation`) | `Conversation_holds.cfg` | what a transform finds after its deadline shall not "seed Stop's evaluateRetrieval" (graph-context.ts 2272), but its skills do: `stageSkills` stands outside the guard (2135, 2297), and Stop scores them for the answer of another turn (retrieval-quality.ts 199) |
| `MetricsRecorded` (INVARIANT, as `part = "turns" => T!MetricsRecorded` in `MCConversation`) | `Conversation_holds.cfg` | `postflight` reads the index of the turn again after its wait, so the measures of a slow turn are filed under the next one, which is then taken for "an already-recorded turn" (orchestrator.ts 352); the same befalls the first turns after a restart, when the index starts again at 0 |

Others are visible in the actions without a property: a causal claim whose reply is lost stamps chains no item
knows of (`ClaimReplyLost`); `unstampGraduatedChains` resets chains that another item has claimed since (`Reset`);
a CREATE of the soul whose reply is lost leaves a soul that is neither celebrated nor copied (`CreateSoulFails`);
two overlapping copies can leave Tier 0 behind the soul (`blurred`); an exit event during the wait for the pid
file is taken for a duplicate (`missed` in `ManagedStore`); the marker of a migration does not name its workspace, so that a
second workspace of the same user is never migrated (`Check`); a concept that feedback has taken to the floor of 0.15 or
below is no target of a correction any more (`Resolve`); a Stop that is still in `ingestTurn` when the listeners close
registers its evaluation after the wait has begun, although "no new Stop hooks can register more work past this point"
(daemon/index.ts 905; `caught`); a Stop that is delivered again, or again after the block of a push, evaluates the same
items once more under a new row (`StartEval`), and the entry of a turn that was interrupted is evaluated with the answer
of the next (`Prompt` from "working"); the `turn_score` row is written by a promise nobody waits for, though
stop.ts 89 counts on it; a sub-agent's stop that cannot be told from others is skipped and "will be reaped by the deferred-cleanup
pass" (subagent.ts 137), which does not touch such rows, and its session is never reaped (`Resolve`, `Idle`), as little as one whose
failed edit left its arguments behind (`PostEdit`); the edit gate's text says that a search does not clear it, while
PostToolUse sees to it that one does (post-tool-use.ts 178; `Read`); an idle hour clears the verdicts, not the
observed paths (`Remembered`); `consolidateMemories` never throws, so the back-off
after an error does not concern it, and a daemon that is not restarted consolidates only once (`Maintenance`).

### Fairness

The scheduler polls for ever (`WF` on `FetchStart`), every query returns or throws (`WF` on the steps of a
call), time passes (`WF` on `Expire` for work nobody holds). A drainer commits what it holds: strong fairness,
because the calls are a bounded pool and a free one may be taken by somebody else again and again; the code
has no such pool. No fault is fair. In the server, timers fire, queued callbacks run and the close event of a
destroyed socket arrives (`WF`); clients need not leave and handlers need not end, so `SupersedeLands` rests
on the grace timer and the watchdog alone.

In the spawn protocol processes run (`WF` on the steps of each client and daemon), files age, an unattached
daemon is reaped, and a session whose call failed calls again: every tool call goes through `getOrConnectIpc`.
No session has to leave, and no crash or shutdown is fair.

In the relay the event loop gets to every callback, a dial and `ensureDaemon` settle, and deadlines fire; nothing
is assumed of the daemon, so `EveryCallEnds` rests on the deadline of a call. In the scheduler the periodic timer,
the event loop and the clock are fair; a drainer may hang and the store may stay away. In the store timers fire
and promises settle, and the callers that ask `isAvailable()` go on asking; nobody has to ping, which is why
the liveness properties leave out a connection that is down and that nobody asks for. Of the embedding service it is assumed that
queries are answered, timers fire, and a library that does not hang answers or rejects; callers need not call. In maintenance timers fire,
statements are answered, outages and days end, daemons are stopped and started again, and someone has a session:
strong fairness for SessionStart, because outages and restarts may come between.

Migrations, knowledge and the aspects of a conversation have no liveness: nothing retries them, and a hook need not be
delivered.

`CHECK_DEADLOCK FALSE` in the runs `server_life`, `calls`, `drains`, `sessions`, `store`, `graduation`, `upkeep` and `conversation`: a daemon is a process that exits, calls, runs and rows are used once or bounded,
and a quiet system may stop.

## 4. Proofs

Every safety invariant and every action property that a passing run checks is also a theorem, for every value of the
constants under the named assumptions, and so is the refinement. The runs are small instances of the theorems; the
liveness properties are what the runs alone show.

The assumptions ask of the constants what the code gives: that what is counted is finite (`RowsAssumption`,
`CallsAssumption`, `ServerAssumption`, `DrainAssumption`, `GraduationAssumption`, `MaintenanceAssumption`,
`ConversationAssumption`), that identifiers of different things differ, ranks and record ids tell rows apart, ceilings and
thresholds are positive, and bounds are numbers (also `SpawnAssumption`, `RelayAssumption`, `EmbedAssumption`,
`SessionAssumption`, `StoreAssumption`, `MigrationAssumption`, `KnowledgeAssumption`). TLC evaluates each of them. The bound on
faults is a parameter like the others: the theorems hold for any number of faults, calls, daemons and rows.

*Queue* (`PendingWork_proofs`). `WritesAreBudgeted` is `Spec => []WriteBudget`. The property alone is not
inductive: a commit past its swap is about to write. The invariant `IInv` adds `Budget`: for each row, writes
done, plus commits that may still write, plus one if the row is open, are at most one plus the recoveries (and
none before the row exists). It needs `FreshToken` (a commit that has not tried its swap is named by no row, so
that only its own retry passes the second branch of the swap) and `Held` (a call that works holds a row). `InvariantHolds` has a step
for each action; the cardinality facts are in `CommitSets`, `Counts` and the `...Budget` lemmas.
`TableStaysConsistent` is `RowsConsistent`, from `TableInv`, which adds `Honest` (a commit
that is about to record "completed" has been through `commitResults`) and `Existing` (rows that are active or in the hands
of a fetch have been created).
`QueueImplementsLedger` is the refinement: for each row the triple (open, in flight, written) that the mapping reads off the
queue moves by one action of `WorkLedger` or stays (`NextRefines`, one lemma per group of actions). It needs `FreshToken` as
well: a swap that is sent twice must be one step of the ledger.

*Sessions* (`PendingWork_proofs`, second part). `SessionsEndOnce` is `EndedOnce`. The code's claim is a column of the row, while
the property speaks of handlers: the invariant `EndsInv` ties them. `Claimed`: a token on a row is that of the worker who is at
that row, and the row is closed. `Owning`: who owns a row is the one its token names, so that two owners of one row are
one. `OnceQueued`: a row with an extraction is closed, and its owner, if it has one, knows that a CREATE of its own succeeded,
so that it will not release it. `Single`: unless a type was raced, its row or one CREATE under way excludes the other.

*Server* (`DaemonServer_proofs`). Every safety property of `server_life` and each of its parts is a theorem; `AdmissionHolds`, `MapsHold`
and `EndingsHold` put the parts together. `ServerInv` is
`TypeOK`, `Load` (the two counters) and `MapInv`; what makes it inductive is `Registered` (while the daemon is
up every open connection is in the map), `TokenKept` (authenticated sockets are owners), and `CallsCounted`
(callbacks are counted by the latch). `EndsInPeace` and `CleansUpOnce` prove the two action properties from it.

*Spawn* (`DaemonSpawn_proofs`). `Singleton` and `Reaching` are the two safety properties. `IInv` adds `HolderOwns` (whoever is
between its create and its unlink is the owner of the file), `NoHolderDuringSteal` (while a sibling is about to
unlink, nobody holds the lock; this is what `overlapped` excludes) and `OldMeansDead` (an empty file is old only
when its creator is dead), without which a steal could hit a daemon that is still writing.

*Store* (`DaemonSpawn_proofs`, second part). `OneStoreProcess` is `OneChild`. Nothing in the code counts processes; that there is
one follows from `SupervisorFits`: an event that waits and a handler in its back-off are about a child that is dead, and handlers
are off unless `respawning` is set, which admits one at a time.

*Relay and embeddings* (`Calls_proofs`). `RetriesAreSafe` rests on `RelayInv`: a socket that is not closed is that of its
client, or the client has none (`SocketsFit`), a client that will be dialled has no socket left whose close event could
reach it (`Bare`), a call that was sent is on a socket of its client, a greeted one if it was sent again and the client is not `stripped` (`CallFits`), and
`RunsCounted` bounds the runs of a call by what its first attempt may have done. `ClosesAreOwn` follows from
`SocketsFit`. `VectorsFit` rests on `EmbedInv`: what is in the first cache fits, what was returned fits, and behind a
breaker that is hot nothing waits.

*Auto-drain* (`AutoDrain_proofs`). `OneDrainerHolds`: a drainer that runs and is neither `loose` nor `robbed` is the
holder of the lock (`InsideHolds`), and nobody is robbed unless `crowded`, by the invariant `Solo` of a daemon that is alone: one
trigger at most is between check and marker (`OneBusy`), what it judged stale is stale still when it unlinks (`Judged`), the name
is free when it creates (`NoneThere`), and who is about to spawn has the lock (`Mine`). `SpendStaysCapped` counts in `Paid`: every spawn is a line of the spend file or a missed one, the lines and the
triggers that are about to add one are at most the cap and the slips, and triggers that have lost the lock before they spawned
are as many as the slips at most.

*Graduation* (`Graduation_proofs`). `GraduationInv` has five parts. `CopyInv`: of every section of the soul one row of Tier 0 is
safe, that is, listed by nobody who has already copied that section, and hence archived by nobody; this keeps a section in
Tier 0 whatever number of copies run. `FollowInv`: unless `blurred`, the one run that copies has seen the last revision, unless
another has yet to begin, and Tier 0 holds what that run has listed and copied. `EventInv`: one run at a time is between
its CREATE of the soul and the event. `BudgetInv`: skills made of a chain, runs that may still make one, and one if the chain is
free, are at most one and the releases. `HandInv`: while no row was taken from a live drainer a row has one run, what that
has won is on the row or lost, and every stamped chain has made a skill or is in the hands of a run or of a row that recovery
has yet to release. `GraduatesOnce`, `TierZeroIsCurrent` and `UnseenIsKept` follow.

*Upkeep* (`Upkeep_proofs`). `FamiliesStand` is about following `superseded_by` from row to row. Ranks of reflections do
not change, so all passes agree on which of two rows is kept, and whatever is archived points to a row that ranks above
it (`Upwards`). Among the finitely many rows one meets, take one with the fewest rows above it: it has no successor, so it is
active. `FilesAreKept` needs what a call knows at each place (`CallFits`: who rewrites a SKILL.md has its row; who removes
a file has copied it, unless calls overlap). `SkillsAreMadeOnce` is a budget again: as long as calls do
not overlap, a file that a call has yet to make a skill of (`ToMint`) has at most as many skills as there were faults, and any
file at most one more.

*Conversation* (`Conversation_proofs`). `ConceptsAreFolded` and `BeliefsDecayOnce`: who has collided knows that the row under the
hash is there, and who goes on to a random id has seen it superseded (`Folding`); the links of a row are made by the call that created it
(`Linking`); what a corrector holds is a worth the row had (`Holding`). `AgentCannotAuthorise`: whatever could let a command
through by the rules of the gate, wherever it is kept, was the user's (`UsersOwn`). `AgentsAreClosed`: a row in progress is remembered by a session that
lives, and unless a row was lost or a stop came twice, rows follow their agents (`Calm`). `TurnsAreKept` has an invariant
for each part of the property: `MeasuredOnce` (the index of a turn is in one place only: with the turn that prepares it, with one
postflight, or in the metrics), `CutWereCaught`, `PointerIsOwn` and `ItemsAreOwn`. Each invariant is proved for its own module, and lifted to the
composition, where the other parts stand still; `MCConversation` fixes some of the initial states, the invariants of the
modules start from all of them.

Each module with theorems also proves its type invariant; for queue and server, and for the spawn protocol, that invariant is
no longer part of a run.

Only model-checked: liveness (`WorkDrains`, `SupersedeLands`, `GetsThrough`, `CallsEnd`, `StoreHeals`,
`BigIsConsolidated`), since the prover handles neither ENABLED nor fairness; that `StaleClaimDiscarded` is violated, and the
other divergences of section 3. Within what is proved the provisos are those of the properties: `overlapped`, `slips`, `blurred`,
`raced` and the like are set by the very step they name, and a theorem says nothing about what follows such a step.

## 5. Not modelled, and the plan

What is left to prove:

1. The parts of the properties that hold without their provisos: which of `TierZeroFollows` survives a failed copy
   when the next one succeeds, and which of `AgentsClosed` survives a stop that comes twice.
2. Step properties of the queue that no run states yet: who owns a row that is processed, and that an archived row is
   never claimed again.
3. An abstract specification of the end of a session (a claim, then work queued, or a release) that `SessionCleanup`
   implements as `PendingWork` implements `WorkLedger`, so that the two can be composed.

What is left to model, in this order: the deferred jobs of maintenance besides consolidation and purge, the writers
that create rows without a look at others, and the read path of a retrieval where it writes access counts.

Not modelled, with the reason for each component in `PROJECT.json`: scoring and formatting of a retrieval, the
ACAN reranker, the read queries of the graph, the listeners of HTTP and UI, the MCP adapters and the counters of observability are arithmetic or text over query results, or plain I/O; they keep no state over
an await that another actor could change, other than through the parts above. `recovery.ts` copies
an old database once, before anything runs.

Left out of the modules: the content of payloads and results, accept errors, a foreign process on the port, a
missing daemon script, signals during the boot, process ids that are handed out again while a file names them;
write conflicts that `withRetry` repeats in place; a degraded schema, which is applied again only by a reconnect;
the audit trail of revisions of the soul and its persona row; a graduation report that cannot be computed after
the soul was created; the jobs of maintenance other than consolidation and purge, hard deletion, and the access
counts that tell memories of equal importance apart; writers that create rows without a look at others (reflections,
artifacts, monologues); token counts and the daily roll-up of metrics; the gate on protected configuration files and gates from
`gates.json`; the cap on observed paths; the text of messages, statistics.
