# A TLA+ development beside the launcher

The launcher is a TypeScript monorepo: an Electron application whose main process
runs some fifty services (`xmcl-runtime/`), libraries those services are built from
(`packages/`), an API layer (`xmcl-runtime-api/`), a shell (`xmcl-electron-app/`)
and a Vue interface (`xmcl-keystone-ui/`). This directory models the parts with state that
several callbacks, tasks or machines share, checks them with TLC on small instances
and proves the most important facts with TLAPS for every instance.

1. [Inventory](#1-inventory)
2. [What is modelled](#2-what-is-modelled)
3. [Runs](#3-runs)
4. [Proofs](#4-proofs)
5. [Abstractions, and what is not modelled](#5-abstractions-and-what-is-not-modelled)
6. [Disagreements with docs and comments](#6-disagreements-with-docs-and-comments)
7. [Plan](#7-plan)

Paths below are relative to the repository.

## 1. Inventory

Everything in the main process runs on one event loop: an interleaving can only happen
at an `await`, in a callback or a timer. What makes it hard is that almost
every operation awaits something, that users cancel, that the process may
die between two file operations, and that other processes (the game, the user's file
manager, worker threads, the other players' launchers) act meanwhile.

| Component | State | Operations | Meets | Hard | Correct when |
|---|---|---|---|---|---|
| **Instance file delta** `packages/instance/files_delta.ts` | none (pure, reads the disk) | `computeFileUpdates` | the file transaction | mtime against hash against nothing known | every path gets the operation its three versions (old entry, new entry, disk) call for |
| **Instance file transaction** `packages/instance/files_handler.ts` | instance folder, workspace, backup folder; link/unzip/https/ready queues; `phase2Finished`, `phase3Finished` | `prepareInstallFiles`, `backupAndRename`, rollback | delta, download engine, the game writing to the folder | parallel renames, best-effort rollback racing renames in flight, crash and resume | user's files never destroyed; commit exact; rollback exact |
| **Instance install calls** `xmcl-runtime/instanceIO/InstanceInstallService.ts` | `instance-lock.json`, `.install-profile`, `unresolved-files.json`, pending manifest, locks | install (upstream / diff), resume, dismiss, stage/set/apply/discard manifest, watch | file transaction, `MutexManager`, deletion | state read before a lock and used inside it; cancelled lock waiters; crash between two records | records tell the truth; critical sections exclude each other; calls end |
| **Instance deletion** `xmcl-runtime/instance/InstanceService.ts` | instances map, remove handlers | `deleteInstance`, `registerRemoveHandler` | install calls through `LockKey.instance` | aborts the holder, rejects the waiters, queues behind them | a deleted instance stays deleted |
| **Multiplayer room** `packages/multiplayer-core/lib/room.ts` | websocket, `revision`, members, `pendingPeerDrops`, `pendingTransfer` | connect, `applyState`, `transferMaster`, `remove`, `quit`, `restore` | peers, the room server | reconnects reset the revision; grace timers; confirmations racing timeouts | no state goes back; no live member dropped; every promise settles |
| **Multiplayer peers** `packages/multiplayer-core/lib/multiplayer.ts`, `peer.ts` | sessions, `roomOperation`, description revisions, channels | enter/leave, create/drop/retry, descriptions | room, WebRTC | late signals for a closed session, operations overtaking each other | at most one live session per member, none after leaving |
| **Multiplayer file channel** `packages/multiplayer-core/lib/fileTransfer.ts` | active upload/download, paused flags | request, pause, resume, cancel | peers | two independent reasons to pause | a paused receiver is not written to; downloads end |
| **Download engine** `packages/file-transfer/download.ts` | segments, one file descriptor, checkpoint | ranged download, re-roll, fallback | dispatch limiter, every installer | siblings of a failed range still writing | a finished file is complete |
| **Dispatch limiter** `packages/file-transfer/concurrency_dispatcher.ts` | active, queue, limit | dispatch, abort, close, set limit | download engine | release once, drain on every path | limit kept, nobody starved |
| **Shared state replication** `xmcl-runtime/service/ServiceStateContainer.ts`, `ServiceStateManager.ts` | state containers, clients, in-flight factory | `registerOrGet`, track, untrack, destroy, commit | windows over IPC | destroy while the factory is pending | each client sees each commit once; disposers run |
| **Diagnosis cache and install coordinator** `xmcl-runtime/install/` | in-flight and fresh results, generations | get, invalidate, coordinate | installers | result of an old generation arriving late | no stale result served after invalidation |
| **Resource watcher** `packages/resource/core/watchResourcesDirectory.ts`, `packages/utils/WorkerQueue.ts` | files list, job queue | add, remove, revalidate, dispose | resource database | late result for a removed file | the list agrees with the folder when quiet |
| **Launch service** `xmcl-runtime/launch/`, `packages/core/launch.ts` | `processes`, `updates`, one record folder per launch, the game's `latest.log` | launch, kill, exit handler; `begin`, `markReady`, `complete`, `prune` | the games, `InstanceSavesService` | exits while a record is awaited, operations on one record overlapping, concurrent games with one log | exits reported; records true; no foreign log kept |
| User accounts, java/version/modpack installers, market, settings, saves, themes, updater | mostly persisted records | requests and I/O | external services | little shared state of their own | – |
| User interface, format libraries | presentation; pure conversions | – | – | – | – |

`PROJECT.json` lists the same components with their status, and the hazards of this code, each at its line, with the
properties that cover it or the reason none does.

The installation of files into an instance was modelled first: it is what the launcher does most, it
destroys user data when it is wrong, and it combines crashes, rollbacks, a user who
interferes and a lock protocol. Then came the parts where several actors meet in one piece of state:
downloads, the peers of a room, the replicated states, the diagnosis cache and the launches.

## 2. What is modelled

```
InstanceFiles            paths, manifests, what an update promises (Updated, Between)
 |-- FilesDelta          computeFileUpdates
 |    `-- FileTransaction            one handler and its attempts
 |         |-- FileTransactionProofs  TLAPS
 |         `-- MCFileTransaction      TLC
 `-- InstanceInstall                 the calls around it, one instance
      |-- InstanceInstallProofs       TLAPS
      `-- MCInstanceInstall           TLC

ConcurrencyDispatcher -- INSTANCE --> RequestLimiter     what the dispatcher promises
 `-- ConcurrencyDispatcherProofs      TLAPS
RangedDownload                       one download() over those requests
 `-- RangedDownloadProofs             TLAPS
TogetherPeers                        the master's connections, its room and the server
 `-- TogetherPeersProofs              TLAPS
SharedStates                         one replicated state and its windows
 `-- SharedStatesProofs               TLAPS
DiagnosisCache                       diagnoses while versions are installed
 `-- DiagnosisCacheProofs             TLAPS
GameLaunch                           the launches of one instance
 `-- GameLaunchProofs                 TLAPS
```

The modules without an MC module take plain values for their constants and are checked as they stand, with the cfg of
the same name.

`FileTransaction` and `InstanceInstall` are two levels of one system. `FileTransaction` opens up one update;
`InstanceInstall` takes it as a single step and opens up everything around it. What `InstanceInstall` assumes of the step is what is proved of
`FileTransaction`, path by path:

| Step of `InstanceInstall` | leaves at a path | because of |
|---|---|---|
| `MoveFiles` (`Moved`) | what `Updated` says, where a source was found | `CommitExact` |
| | where none was found: what was there, or nothing, if it was a changed file and the install works from its own queues | `UnresolvedSpared` |
| `FailInside` and `Crash` amid the moves (`Torn`) | the old content, the new one or nothing (`Between`); what neither manifest lists is as it was | `HalfUpdated`, `UnresolvedSpared` |

A failure amid the moves is thus no return to the old files: the rollback restores what it can (`RollbackRestores`), but what it can not, what `add` replaced without a
backup and what a late rename brings is in `Torn`. Late renames land together with the failure, before the lock is given away; in the code they may
land a system call later.

### FilesDelta

A file is a content and one bit, *recent*: its mtime is later than the mtime
the previous install recorded. Contents are told apart only by equality; those in
`Digested` have a hash in the manifest, so the code can compare them.
`OperationOn` is the decision table of `computeFileUpdates` for one path.

### FileTransaction

| In the model | In the code |
|---|---|
| `plan` | the arguments: old and new manifest, `oldInstallTime` (`timed`), and which of the two callers it is (`mode`) |
| `disk`, `workspace`, `backup` | the three folders |
| `jobs` | `#linkQueue`, `#unzipQueue` and `#httpsQueue` (one: "fetch"), `#readyQueue` |
| `backedUp`, `renamed` | `phase2Finished`, `phase3Finished` |
| `flight` | the renames of `Promise.all` that have not settled |
| `todo` | the rest of the current loop |
| `Start`, `PrepareFile` | a new handler with a fresh delta; link, unzip, download, or found ready |
| `Commit`, `BackupFile`, `BackupDone`, `RenameOk`, `RenameFail`, `RenameDone`, `CleanFile`, `CleanDone` | `backupAndRename` |
| `UndoRename`, `UndoBackup`, ... | its rollback |
| `Crash`, `Touch` | the process dies; the game or the user writes or deletes a file |

*Locked* mode (installs with an upstream, and resumes) computes the delta once and commits
what the handler's queues hold. *Diff* mode prepares on a first delta, and commits a delta computed afresh under the lock.
When one rename fails `Promise.all` rejects, but the others
go on: they stay in `flight` and land during or after the rollback, whose loop runs
over an array they still push to (`RenameOk` adds to `todo` while `phase = "undoRename"`).

Six variables are ghosts. Four are about one attempt: `before` is the disk when the delta was taken; `touched` holds the paths
the user touched since, for which the code promises nothing; `stuck` those on which a move of the rollback failed; `late` those that a rename in flight
hit when the rollback was past them. Two are carried from one attempt to the next: `saved` is the changed file that an attempt found at a path and undertook to keep (the user gives
it up by overwriting his only copy), and `displaced` holds the paths where a later attempt put another file in the place of the kept one in the backup folder.

### InstanceInstall

Calls are processes: `Installs` (with upstream), `Diffs` (without), `Resumes`,
`Removals` (`deleteInstance`) and `Dismissals` (`dismissUnresolvedFiles`). An action is what happens between two awaits.

| In the model | In the code |
|---|---|
| `folder`, `disk` | the instance folder and its managed files |
| `lockFile`, `profile`, `unresolved` | `instance-lock.json`, `.install-profile` (the marker of a pending install), `unresolved-files.json` |
| `holder`, `queue` | the mutex `LockKey.instance(path)` and its waiters, in order |
| `handlers`, `aborted` | remove handlers, aborted task signals |
| `seen`, `target`, `paths`, `listed` | `lockState`, `targetState`, `handler.unresolvable`, the list as a call has read it |
| `CallInstall`, `CallResume`, `ReadProfile`, `CallDiff`, `Register`, `PrepareDiff` | up to the lock |
| `Begin` ... `WriteUnresolved`, `Refuse`, `FailInside` | inside the lock |
| `Moved`, `Torn` | what `backupAndRename` leaves when it succeeds, and when it throws or is cut off |
| `CloseDiff`, `DropProfile` | `finally` and `catch` after the lock |
| `CallDelete`, `RemoveFolder`, `RemoveFolderFail` | `deleteInstance`: reject the waiters, queue, abort, remove |

The ghosts are `missing` (paths that the last update to attempt them could not resolve), `dismissed` (those the user dismissed since),
`lapsed` (a reconciliation of the list was cut off by a crash or an exception, or overlapped a dismissal) and
`removed`.

### ConcurrencyDispatcher and RequestLimiter

All requests of all downloads pass this gate. `active`, `queue` are `#active`, `#queue`; `setting` is what
`getConcurrency` would return now. The code is synchronous but reentrant: a handler is called in the midst
of a release, and the HTTP client may settle a request before `dispatch` returns. So a release that is draining is a
frame of the call stack, counted in `drains`, and between two rounds of its loop every callback may come.
`raised` is a ghost: the user has raised the limit since a loop ended, and nothing is drained for that.

`RequestLimiter` is the abstract specification: no counter and no queue, a request waits only while as many run as the limit allows
and runs only below the limit. `Limiter == INSTANCE RequestLimiter WITH ...` maps the request states,
`Concurrency` to the limit, and `closing`; `ImplementsLimiter` is checked by TLC and proved.

### RangedDownload

`download()` with a controller. A *stream* is one range, or the whole file when the mirror does not know ranges
(`Whole`); it asks one URL after another and goes on where the attempt before stood. Its record holds the URL, the resume
offset and the budgets, and of the current attempt the position and the writes under way. `phase` is where
`download()` has come: the ranges side by side, the truncation before the fallback, the whole file, the restart after
416, the end. The server says where its answer for the whole file begins and how long it is (`Answer`), and the stream goes by that; only a range insists on what it asked for. Writes are asynchronous, and an attempt that ends does not wait for its own: they become `orphans`, which
land later (`Land`), even in the file of the fallback. Data is counted in chunks.

### TogetherPeers

The connections of the master of a room, with the room as it sees it. `present`, `revision`, `holds` are the server and
the members (external); `inbox` is what is on its way to the master's current socket; `room` is `TogetherRoom` (socket,
snapshot, revision, members, grace timers), `glue` is `createTogetherMultiplayer` (peers, `roomPeers`, retries, reconnect
timers). Callbacks of the room (`initiate`, `drop`, `remap`) run inside `applyState`, so they are operators from one glue
state to the next that an action folds over. Members come, go, come back under the same
peer id or another, and answer an offer more than once; states overtake each other; the socket is lost with
everything on its way and restored; connections break. Applying an answer may fail before or after it has given the connection its other end (`Answered`): the attempt of
the peer is over then (`spoilt`), the peer is not.

### SharedStates

One state of the main process (a `ServiceStateContainer` under one id) and its copies in the windows. A run of `mutate()` in `useState` is a *fetch*;
a container is named by the fetch that made it. `toMain` are the calls and `unref`s of a window, in order. `HandleCall`,
`Revalidated`, `Answer` are `registerOrGet` and `serializeAndTrack` cut at their awaits; `HandleUnref`, `CloseWindow` untrack and,
with the last window, destroy; `Operate` is an operation on the state that finds a tracked window closed; `Receive`, `Abort` are the window; `Collect`, `Finalize` the garbage collection of a copy and its `FinalizationRegistry`
callback. A copy in use is not collected. A container whose factory is pending is destroyed only when the application is
disposed, which is not modelled.

### DiagnosisCache

`FreshResultCache` (results with a generation, bounded) and `InFlightCache` (promises that are shared), as
`InstallCoordinator` uses them for diagnoses and for the checksums under them. A diagnosis
is the checksums of its files; an install writes files in any order, and invalidates everything when it begins and
when it ends. `overlapped` is a ghost: the calls some install has overlapped. The strict diagnoses that installers
make themselves share the checksums as well, they are not modelled.

### GameLaunch

The launches of one instance from the spawned process on, numbered in the order of `startedAt`.

| In the model | In the code |
|---|---|
| `game`, `window`, `latest` | the process, its window, `logs/latest.log` (external) |
| `tracked`, `ambiguous` | `this.processes`, `gameLogAmbiguous` |
| `step`, `doomed` | where `launch()` awaits `launchHistory.begin`, and the records its prune has yet to remove |
| `exit`, `log` | where the `minecraft-exit` handler is, and whether `resolveLaunchLog` let the log pass |
| `jobs`, `held` | `updates`: the operations of a launch in order, and the record each has read |
| `history`, `archive` | `launch.json` and `game.log` in the folder of a launch |
| `pending` | `pending` of `watchSaves` |

`met` and `failed` are ghosts: who was tracked at the same time, and which launches had an operation fail or cut off. `Restart` is the launcher
ending while the games go on. Writing or removing a record folder is one step. Which of the game's writes after its end fall within the two
seconds of `resolveLaunchLog` is left open.

## 3. Runs

Every property of a passing run is paired in `PROJECT.json` with a mutant: a
plausible bug (its operator stands next to the real one and is marked "Mutant") under which TLC finds that property violated.

| Run | Instance | Shows |
|---|---|---|
| `transaction` | 2 paths, 3 pairs of manifests (replace, drop, bring, without hash, unchanged), every disk, 2 attempts, any 2 troubles | `TypeOK`, `ChangedFilesKept`, `CommitExact`, `RollbackRestores`; `AttemptEnds`: every attempt ends, whatever fails in its rollback |
| `install_safety` | an install (of two packs), a diff, a delete, a dismissal, 2 troubles | `TypeOK`, `LockDiscipline`, `NoResurrection`, `RecordedIsInstalled`, `UnresolvedListed` |
| `install_live` | an install, its resume, a delete, 3 troubles | `CallsEnd`: every call ends; `LockFileTruthful`: without a marker the record is the truth |
| `dispatcher` | 5 requests, limits 1 to 3 that change | `TypeOK`, `PermitsMatch`, `FullWhileQueued`, `EveryoneServed`, `ImplementsLimiter` |
| `download` | 3 chunks in 2 ranges, 2 URLs, each budget 1, 1 fault | `TypeOK`, `NoGap`, `CompleteFile`, `DownloadEnds` |
| `peers` | one account, 2 peer ids, 2 visits, 4 sessions, a break, a lost socket, 2 answers | `TypeOK`, `InStep`, `RoomPeersTrue`, `GraceSpares`, `PeersSettle` |
| `shared` | 2 windows, 3 fetches | `TypeOK`, `LiveRegistered`, `LiveUsed`, `FetchesEnd`, `ReleasedWhenIdle` |
| `diagnosis` | 3 calls, 2 versions that share a file, an install that writes it twice | `TypeOK`, `FreshDiagnosis`, `CallsAnswered` |
| `launch` | 2 launches, 1 record kept, 1 trouble | `TypeOK`, `OwnGameLog`, `RecordTrue`, `SavesFlushed`, `HistoryKept`, `ExitReported` |
| `transaction_originals`, `peers_failed`, `shared_users` | 2 paths, one attempt, one failing move; one account, no lost socket; 2 windows | one statement each of a test or a comment that the code does not keep (section 6) |

**Bounds.** In the two install modules `MaxTroubles` bounds failing operations, aborts, crashes and edits together (and nothing
else: what happens without trouble, as a source that is not found, is free); `MaxAttempts` bounds the handlers
made for one plan. Two troubles make the pairs that matter: a failing rename and a failing rollback move,
a failure and a crash in the next attempt, a crash and an edit. Paths meet only in that one's failure
rolls the other back, so two are enough for one to succeed, and land late, while the other fails. Three contents let old, new and user's version be
different, and the initial states contain every disk that goes with the manifests; a fourth, without a digest, makes a new file look changed to the attempt that resumes. In `InstanceInstall` two paths let
one be resolvable and the other not, and one of each call makes every pair of kinds meet.

Five requests over a limit of at most three let two wait behind a full dispatcher while a release drains. Three chunks make one range
of two and one of one, so that an attempt can stop amid its range while the other is done, and let the whole file be answered from before, at or beyond its offset and with a shorter length; two URLs and budgets of one
reach every branch of the re-rolls; `MaxFaults` bounds failing writes and answers for the whole file that begin or end elsewhere than was asked, together. One account is enough for the peers since nothing of one member's peer depends on another's; two
peer ids and visits let it come back under another id; four sessions are all that retries (one) and returns create, a fifth adds no state. Three fetches in two windows
let one be aborted, one be answered late and one be made after a destruction. With capacity 1 and two versions each result evicts the other. Two launches with one record to keep
prune each other's; a third would only be a second older one. What each number bounds is named in the `CONSTANTS` of its module.

**Deadlock** checking is off in all runs: when all attempts, calls or launches are used up, the system has nothing more to do. That
nobody is stuck is what the liveness properties say.

**Fairness.** `FileTransaction` assumes `WF(Handler)`: each file operation settles, one way or the other, and the
async function then goes on. It assumes nothing of `Start`, `Crash`, failures or edits. `InstanceInstall` assumes
`WF(\E c : Step(c))`, that the event loop goes on with *some* call that can; which one is up to it, and calls of the user
are not forced. The dispatcher assumes that every request in flight settles (the client has timeouts) and that a loop on the stack and a resolved promise run to their end; `RangedDownload`, that some
stream or `download()` itself goes on as long as one can (one weak fairness for all of them), so that every attempt comes to a result, not to a good one. `TogetherPeers` assumes that the steps of a peer that are due happen (`Due`): a connection that is being made or has lost
its other end comes to a result (ICE decides), timers fire. A connection that is up need not open its metadata channel and need not break. It assumes nothing of members, server, socket or descriptions. `SharedStates` and `DiagnosisCache` assume
that event loops run, that factories, revalidations and the checksum worker settle, not that they succeed (in `SharedStates` only that some loop or promise goes on while one can); nothing makes anybody operate on a shared state (`Operate`). `GameLaunch` assumes that each handler goes on; a game need not exit, a window need not
appear. That is what the runtime gives: no step blocks the loop, and network operations have timeouts.

## 4. Proofs

Every safety invariant that a passing run checks is also a theorem, for all values of the constants. The assumptions are those the modules name next to their constants, and
say no more than that constants have their types, that bounds are natural numbers, that `None` and `Absent` are no values and, in `TogetherPeers`, that
there are finitely many accounts. One theorem, `LockFileTrue`, has a hypothesis of its own, stated in it.

**`FileTransactionProofs`.**

* **`TypeCorrect`**: `Spec => []TypeOK`. `TypeOK` alone is not inductive: `PrepareFile` puts the wanted content of a path into the
  workspace, so one must know that the path has one (`Wanted`). `OperationFacts` and `CurrentDeltaFacts` supply that: only
  paths with a manifest entry get an operation that prepares.
* **`ChangedFilesSafe`**: `Spec => []ChangedFilesKept`: a file the user had changed when some attempt of an update met it is in the instance or in the backup folder,
  through failures, crashes, rollbacks, edits and all later attempts. The statement has two exceptions, both losses the code allows and findings of section 6: `late`, where a rename landed
  after the rollback had put the file back (without that exception the statement is `OriginalsKept`, which the run `transaction_originals` refutes), and `displaced`, where a later attempt
  put another backup in its place. The proof has two layers. `IInv` is about the present attempt and each path it owes: `BeforeCommit` (nothing has moved yet), `Loops` (what the loops have still to visit),
  `NotBackedUp` (the file is on disk and no rename in flight or finished can have replaced it) and `BackedUp` (it is in the backup, or the rollback has put it back and nothing
  can land on it any more unnoticed). The layer above it carries `saved` over the attempts. `IInvStep` has a step for every action.

* **`CommitsExactly`** (`CommitExact`), **`RollsBack`** (`RollbackRestores`; what may be at a path where `add` had no backup, where a move of the rollback failed and where a rename landed late is part of the statement) and **`EndsClean`** (`CleanEnd`: a finished update leaves no workspace and no backup of a plain removal) follow every
  path, not only the owed ones, on top of that `IInv`. `Exact` is the invariant: the delta is that of `before` (`DeltaTrue`), the workspace
  holds what the manifest wants (`WorkspaceTrue`), the queues cover what has to be put (`Queueing`, `Committing`), and a path is as it was (`Unmoved`), gone (`Gone`),
  in place (`InPlace`), in the backup (`InBackup`) or dropped (`Dropped`) depending on how far the loops have come.
* **`LeavesNothingElse`** (`HalfUpdated`) and **`SparesUnresolved`** (`UnresolvedSpared`) are about every moment and every end of an attempt, also where the rollback was stuck or a rename landed late: what
  `InstanceInstall` builds on. A third layer, `Rest`: a path that is not as it was is empty and backed up, or was renamed and is new or empty (`Amid`); what the rollback
  will move back is in the backup (`Spare`); and no rename reaches an unresolvable path (`Resolving`): an install that refreshes its delta queues none,
  and for the others the lemma `OutcomesLost` shows that a file that is queued though it was not found has nothing in the workspace that could be renamed.

**`InstanceInstallProofs`** proves every safety property that the install runs check, for any number of calls of each kind, any requests and any number of troubles
(`CallsAssumption`: the five kinds of calls are disjoint; `RequestsAssumption`: what is asked for is a manifest with an upstream). The invariants are layered, each proved from
those before it, with one step per action:

* **`InstallTypeCorrect`** (`TypeOK`), with `HasTarget`: whoever comes to the lock has something to install.
* **`LockKept`** (`LockDiscipline`), with one addition, `LockInv`: the holder is waiting for the wake-up or inside. Without it a call could queue behind itself. Most actions fall
  under three lemmas, by what they do to the lock: `LockUnmoved`, `LockAcquired`, `LockReleased`. `CallDelete`, which empties the queue and takes its place, has a proof of its own.
* **`DeletedStaysDeleted`** (`NoResurrection`), from `GoneInv`: once the folder is gone, no update is inside the lock (`RemoveFolder` holds the lock, so nobody is at that time; and
  `Begin` lets nobody in later).
* **`RecordTrue`** (`RecordedIsInstalled`), from `InstalledInv`: the files are in place from the moves on, the record a step later, and the lock keeps everybody else off both.
* **`MissingListed`** (`UnresolvedListed`), from `ListInv`: a missing path is listed, or lost by the update that is reconciling now; and whatever a call has read of the list is what the list still says.
* **`LockFileTrue`** (`LockFileTruthful`), under `OneInstall`: one install is asked for and no diff, as in `install_live`; resumes, deletes, dismissals, failures, aborts and crashes are any. It needs the
  hypothesis: a second request overwrites or removes the marker of the first, and a diff removes whatever marker it finds. `TruthInv` holds until a delete, after which `GoneInv`
  takes over. It says what everybody wants (`Wishes`: the marker and every resume want what the install wanted), that what a call has read of the record is
  outdated only by this install (`Views`), that whatever is left over from an earlier install is known to the record and to every call that might remove it (`Known`), that
  only a foreign upstream refuses (`Refusals`), that who moves files has set the marker and leaves nothing over (`Marking`), and that without a marker
  the files are settled (`Unmarked`). A crash or failure amid the moves only needs `TruthMoved`: the marker is still there, and files the install does not want can only go.

**`ConcurrencyDispatcherProofs`**: `TypeOK` is not inductive, as `active - 1` might be negative: one needs `PermitsMatch` (**`NoPermitLeaks`**), for which the queue must hold exactly the
waiting requests, each once (`QueueMatches`, with a lemma on `splice`). **`NoIdleSlot`** is `FullWhileQueued`; **`CloseCutsNobodyOff`** is `ClosedWhenIdle` (the client is closed when
all requests have ended, from `IdleIsEmpty`); **`DispatcherLimits`** is the refinement: every step of the dispatcher is a step of `RequestLimiter` or a stutter.

**`SharedStatesProofs`**: **`OnlyRegisteredLive`** and **`NoOrphanedWatchers`**. The invariant says which fetch waits for which container (`CallsMatch`), that a container is made when
its fetch is handled (`NotMadeYet`), and what each phase of the factory allows (`PhaseOK`: a pending container is registered, not destroyed, and awaited). Most actions leave the containers or the calls
alone in one of two ways (`ContainersKept`, `FetchesKept`).

**`DiagnosisCacheProofs`**: **`NeverStale`** is `FreshDiagnosis` for any versions, files, calls and installs. What is shared was not invalidated (`Shares`), what a call waits for was
not either unless an install overlapped it (`WaitOK`), and when no install runs everything kept, shared or under way in the current generation agrees with the disk
(`KeptFresh`, `SharedFresh`, `WorkFresh`). **`Shared`** is `OneDiagnosis`: the diagnosis of a key that was not invalidated is the one later calls join.

**`GameLaunchProofs`**: **`LogsOwn`** (`OwnGameLog`), **`RecordsTrue`**, **`SavesAwaited`**, **`NewestKept`** (`HistoryKept`). The invariant: what a launch that is not yet listened to cannot
have seen (`Early`); that a tracked game runs or its exit was lost (`TrackedRuns`); that a launch whose log passes met no other and never will (`LogAlone`); that the operation
under way is the first of its launch (`InTurn`) and has read, or will write, what the operations before it left (`ReadyTrue`, `StateTrue`); that a doomed record keeps its newer ones
(`DoomedOld`), which needs a lemma that removing a doomed record leaves every other doomed one enough.

**`TogetherPeersProofs`**: **`TypeCorrect`**, **`MasterInStep`** (`InStep`), **`RoomPeersKept`** (`RoomPeersTrue`) and **`GraceSparesMembers`** (`GraceSpares`), for any accounts, peer ids, sessions and budgets. `InStep` says nothing until the inbox
is empty; the invariant follows the messages before that. `Knows(r, q, n, a, id)` is what the room will think of an account after the first `n` messages, whichever of them are outdated:
the newest state among them and the room's own decides. `Foreseen` says that all that is on its way leads to where the server is, and that a member's answer comes behind a
state that names him, though states overtake each other (`Swapped`), get lost with a socket and are told anew; `Revisions`, that states have revisions of their own. Of the glue, an open peer is somebody's (`Remotes`), and `Sound` says
whom the room peers may be of. The callbacks of a state are folded over the accounts it changes. That a fold over a finite set keeps what each of its steps keeps is proved without an
induction theorem: `SeenBy` describes the glue after a part of the accounts, and a smallest part for which it fails to describe one (`Least`, from the well-foundedness of the subsets of a finite set, stated without an
operator parameter) would have one account less to fail for. That is why `AccountsAssumption` asks for finitely many accounts.

**`RangedDownloadProofs`**: **`NothingPassedOver`** (`NoGap`), **`FileComplete`** (`CompleteFile`) and **`TypeCorrect`**, for any size, number of ranges and URLs, and any budgets, whatever
offsets and lengths the answers for the whole file declare. Blocks a server leaves out of such an answer are `skipped`, blocks whose write failed are `lost`; both are named in the statements, and both are findings. `NoGap` is not inductive: where a stream
resumes next is where its attempt stands now, so that what lies before the current position must be accounted for as well (`Gapless`), the position must not lie before the range (`Ahead`),
a stream outside an attempt has none (`Quiet`), and one that has returned has all of its range (`Finished`). `PhaseOK` says which streams run in which phase: a file is
complete when the whole has returned or every range has, and `Cover` shows that the ranges, rounded up as they are, leave no block out. All the ends of an attempt
fall under two lemmas, `AgainInv` and `Takedown`; the fallback and the restart, which may empty the disk, under `FromTheStart`: nobody who relied on it still runs.

**Only proved**, not among the runs: `CleanEnd`, `HalfUpdated`, `UnresolvedSpared`, `ClosedWhenIdle`, `OneDiagnosis`; TLC has checked them on the instances of the runs before they were
proved, as it has every invariant named above. **Only model-checked**: liveness (`AttemptEnds`, `CallsEnd`, `EveryoneServed`, `DownloadEnds`, `PeersSettle`,
`FetchesEnd`, `ReleasedWhenIdle`, `CallsAnswered`, `ExitReported`), as liveness under fairness is beyond the prover; and that the three properties of section 6 that
have a run are violated. That the table of section 2 makes `InstanceInstall` an abstraction of `FileTransaction` is an argument from the theorems named in it, not a
theorem: the two modules do not share their variables.

## 5. Abstractions, and what is not modelled

*In FilesDelta and FileTransaction.*
Entries that differ from a disk file only by case (`caseRename`) and the checks of paths (escaping the folder, collisions by case) are left out. A
hash stands for its content, and comparing sizes counts as no digest. Linked files are copies: a write through a hard link is not seen at the other name. Folders are
removed at once. The download engine appears by its outcomes: the wanted content, or an exception. An
entry that neither zip nor url can supply becomes `unresolvable`; a zip without the wanted entry, or with a leftover of equal
size in its way, is passed over silently, as in the code. `ensureDir` of the instance folder between phases 2 and 3 does not fail.

*In InstanceInstall.* Writing a JSON file is one step, that may fail. One upstream is the same as another when they are equal. A path
with the wanted content is recognised (a manifest entry is taken to carry a hash). Left out: the legacy lock file format (`getLegacyLock`), `overrides` on a
resume, rewriting the marker with finished paths, `updateResources`, the migration of mod groups, and what else takes
`LockKey.instance` (saving metadata, server recipes). A second delete waits until the first is through the lock (`LockKey.instanceRemove` guards it).
The pending-manifest operations (stage, set, apply, discard), `watchInstanceInstall` and previews are not modelled.

*In the download modules.* Telemetry; a handler of the dispatcher whose `onDispatch` throws after `#active += 1` (`concurrency_dispatcher.ts:135`): the permit would be lost, but the one handler there is does not throw. Answers with other statuses than 200, 206
and errors; an expected size of 0, with which `download()` compares nothing. When the answer for the whole file declares no length the expected size stands, as in the code; the path of `download()` without a controller; checksums of a finished file; what a controller decides (any decision within its budget is possible). The dispatcher's requests and a download's are not composed: a request of
`RangedDownload` may be answered, refused or rejected at any time, which includes waiting in the dispatcher.

*In TogetherPeers.* The side of a member, who only answers; joining, admission, master transfer (`transferMaster` with its timeout), `remove` and `quit` as such, entering one room after another; what runs
over a connection that is up (proxies, shares, heartbeats, the file channel with its two reasons to pause).

*In SharedStates.* The mutations and events (`state-validating`) sent to the copies, `pendingCommits`, the commits of a window, static states, the disposal of the application.

*In DiagnosisCache.* What an install is (recipes, the mutex of the coordinator): installs overlap and write what they like.

*In GameLaunch.* Option building, checks, authentication and middlewares before the spawn, decoding of output, crash reports, `list` with live evidence, `readEvidence`,
`findByCrashReport`; several instances (only `tracked.options.gameDirectory` relates launches).

*Elsewhere.* The components with status `not_modelled` in `PROJECT.json`: the resource watcher and the file channel are the two with a protocol of their own; accounts, installers, market and settings
are I/O with little state; the interface presents replicated state; the shell is platform glue; the format libraries convert data. These make up most of the lines of the repository: the modules cover the
part of it where several actors share state, not a large share of its text.

## 6. Disagreements with docs and comments

Each is a finding in `PROJECT.json` with the quoted line. Three have a run that TLC ends with a counterexample:

* `transaction_originals` (`OriginalsKept`): a rename of a rejected `Promise.all` lands when the rollback has put the user's file back, and overwrites the only copy of it. `ChangedFilesKept` and `RollbackRestores` except such paths (`late`).
* `peers_failed` (`FailedPeerReplaced`): a late answer for a peer that was closed makes a peer that can never connect, and takes the
  place of the live one in `roomPeers`; when that one fails it is not replaced.
* `shared_users` (`UsersTracked`): a window is tracked once but untracked by every release, so that the release of one fetch, or the finalizer of
  an old copy, disposes the state another fetch of the window uses; so does a revalidation that is overtaken by the destruction.

The others were met while modelling; the properties name them as their exceptions where they bear on one.

* *Rollback.* An unchanged file is overwritten without backup, and if another rename fails it is
  rolled back to *nothing*; a test says that there must be no hole. `RollbackRestores` excepts it.
* *Resumed backups.* A resumed attempt uses the backup folder of the one before; another file at the path is moved onto the file that was saved there, or the place is dropped with a plain removal. `ChangedFilesKept` excepts such paths (`displaced`).
* *Missing link source.* It leaves its file in two queues; the commit
  renames it twice, the second rename fails and everything is rolled back, though a comment promises that one missing source aborts nothing.
* *Unresolved changes.* An install that works from its own queues moves a changed file to the backup folder although no source was found for the new one, so that the
  path is empty; a diff leaves such a file alone (`files_handler.ts:196` filters, `:344` does not). `UnresolvedSpared` says that the file is in the backup folder.
* *Previous install.* `instance-lock.json` is read before the lock is asked for; an
  install that waited compares with the install before the previous one.
* *Marker.* It is removed after the lock was released, by then it may be another call's; and before the unresolved files are stored, so that a crash
  between the two loses them. `LockFileTruthful` and `UnresolvedListed` say what holds nevertheless.
* *Resume offset.* A range resumes behind what was asked to be written, not what was written: a write that fails leaves a hole in a download that resolves. `CompleteFile` and `NoGap` except such blocks (`lost`, `orphans`).
* *Declared length and offset.* An answer for the whole file is measured by the length it declares and written from where it says it begins; a shorter one, or one that begins too late, resolves with blocks missing. The two properties except these (`skipped`).
* *Answers that can not be applied.* They end the attempt but not the peer, and the timer of the metadata channel passes over a peer whose attempt has ended: it may stay connected without a channel for ever. `PeersSettle` excepts it (`GivenUp`).
* *Windows that close early.* A window that is closed before its call is answered is tracked nevertheless, and nothing untracks it but an operation on the state that may never come. `ReleasedWhenIdle` excepts it.
* *Offers that are lost.* An offer made without socket or snapshot is not repeated: the open peer is reused for ever.
* *Failed factories.* A container whose factory has failed stays registered and rejects every later call.
* *Early exits.* The listeners of a game are attached after its record was awaited; an exit meanwhile is lost, and the game stays tracked. `ExitReported` and `SavesFlushed` except `exit = "lost"`.
* *Killed games.* `kill` forgets a game that still runs, so that a relaunch is not ambiguous. `OwnGameLog` speaks of games tracked at the same time.
* *Pruned records.* An operation that has read its record before a prune removed it makes it again. `HistoryKept` states the other direction.

## 7. Plan

What would come next, in this order: the mutations of `SharedStates` with `pendingCommits` (hazard at `preload/service.ts:87`); the glue of `TogetherPeers` for entering and leaving rooms and the master transfer;
the resource watcher (`WorkerQueue`, revalidation, a file removed while it is parsed); the file channel; the pending-manifest operations of `InstanceInstall`.
Next proofs: `RequestLimiter`'s own promises carried over to the dispatcher, and the refinement between the two install modules, with one module that has the variables of both.
