---------------------------- MODULE InstanceInstall ----------------------------
(***************************************************************************)
(* The calls that install into, resume on, clean up and delete one         *)
(* instance, as InstanceInstallService and InstanceService run them side   *)
(* by side on one event loop.  They meet in                                *)
(*   the instance folder with its files, instance-lock.json (the manifest  *)
(*   of the last install), .install-profile (the marker of a pending       *)
(*   install) and unresolved-files.json;                                   *)
(*   the mutex LockKey.instance, a FIFO of which deleteInstance may reject *)
(*   the waiters;                                                          *)
(*   the remove handlers, which abort the installs that registered one.    *)
(* An action is what happens between two awaits.  Moving the files is one  *)
(* step: FileTransaction shows what lies inside it.                        *)
(***************************************************************************)
EXTENDS InstanceFiles, Sequences, Naturals

CONSTANTS
    Installs,    \* calls of installInstanceFiles with an upstream
    Diffs,       \* calls of installInstanceFiles without one
    Resumes,     \* calls of resumeInstanceInstall
    Removals,    \* calls of deleteInstance
    Dismissals,  \* calls of dismissUnresolvedFiles
    Targets,     \* what an install may ask for: [files, upstream]
    Patches,     \* what a diff may ask for: [old, files]
    Peer,        \* the upstream a diff records
    None,        \* a file that is not there, a lock nobody holds
    MaxTroubles  \* bound on failing operations, aborts and crashes

Locked == Installs \cup Resumes
Updates == Locked \cup Diffs
Calls == Updates \cup Removals \cup Dismissals
Upstreams == {t.upstream : t \in Targets} \cup {Peer}
Snapshot == [files : Manifest, upstream : Upstreams]

ASSUME CallsAssumption ==
    /\ Installs \cap Resumes = {} /\ Locked \cap Diffs = {}
    /\ Updates \cap Removals = {} /\ (Updates \cup Removals) \cap Dismissals = {}
    /\ None \notin Calls
ASSUME RequestsAssumption ==
    /\ \A t \in Targets : t \in [files : Manifest, upstream : {t.upstream}]
    /\ Patches \subseteq [old : Manifest, files : Manifest]
    /\ None \notin Snapshot
ASSUME TroublesAssumption == MaxTroubles \in Nat

VARIABLES
    folder,      \* does the instance folder exist?
    disk,        \* the content of its managed files
    lockFile,    \* instance-lock.json
    profile,     \* .install-profile
    unresolved,  \* the paths in unresolved-files.json
    holder,      \* who holds the instance lock
    queue,       \* who waits for it
    handlers,    \* the calls with a remove handler
    aborted,     \* the calls whose task is aborted
    pc,          \* where each call stands
    seen,        \* the lockState each update works with
    target,      \* the targetState each update works for
    paths,       \* handler.unresolvable; for a dismissal, what it dismisses
    listed,      \* unresolved-files.json as the call has read it
    missing,     \* ghost: paths the last update of theirs did not resolve
    dismissed,   \* ghost: the missing paths that were dismissed since
    lapsed,      \* ghost: a reconciliation was cut off or overlapped a dismissal
    removed,     \* ghost: deleteInstance has removed the folder
    troubles     \* troubles left of MaxTroubles

files == <<folder, disk, lockFile, profile, unresolved>>
mutex == <<holder, queue>>
locals == <<seen, target, paths, listed>>
ghosts == <<missing, dismissed, lapsed, removed>>
vars == <<files, mutex, handlers, aborted, pc, locals, ghosts, troubles>>

\* The steps of a call that run inside the lock, after its first check.
Inside == {"prepare", "moving", "moved", "locked", "reconcile", "write"}
Ended == {"done", "failed", "crashed"}
Steps == {"idle", "called", "profile", "patch", "waiting", "dismissing", "closing",
          "closed", "refused"} \cup Inside \cup Ended

Trouble == troubles > 0 /\ troubles' = troubles - 1
Goto(c, step) == pc' = [pc EXCEPT ![c] = step]
-----------------------------------------------------------------------------
(***************************************************************************)
(* The mutex.                                                              *)
(***************************************************************************)
Acquire(c) ==
    IF holder = None THEN holder' = c /\ UNCHANGED queue
                     ELSE queue' = Append(queue, c) /\ UNCHANGED holder

Release ==
    IF queue = <<>> THEN holder' = None /\ UNCHANGED queue
                    ELSE holder' = Head(queue) /\ queue' = Tail(queue)

Waiters == {queue[n] : n \in DOMAIN queue}

\* Where a call that throws goes on: a diff cleans up, outside the lock.
AfterThrow(c) == IF c \in Diffs THEN "closing" ELSE "failed"

\* Mutant: an exception leaves the lock taken.
ThrowHoldingLock(c, step) ==
    /\ UNCHANGED mutex
    /\ handlers' = IF c \in Diffs THEN handlers ELSE handlers \ {c}
    /\ Goto(c, step)
    /\ lapsed' = (lapsed \/ pc[c] = "write")
    /\ UNCHANGED <<folder, lockFile, unresolved, aborted, locals, missing, dismissed,
                   removed>>

\* An update throws inside the lock.
Throw(c, step) ==
    /\ Release
    /\ handlers' = IF c \in Diffs THEN handlers ELSE handlers \ {c}
    /\ Goto(c, step)
    /\ lapsed' = (lapsed \/ pc[c] = "write")
    /\ UNCHANGED <<folder, lockFile, unresolved, aborted, locals, missing, dismissed,
                   removed>>
-----------------------------------------------------------------------------
Init ==
    /\ folder = TRUE
    /\ \/ disk = NoFiles /\ lockFile = None
       \/ \E t \in Targets : disk = t.files /\ lockFile = t
    /\ profile = None /\ unresolved = {}
    /\ holder = None /\ queue = <<>> /\ handlers = {} /\ aborted = {}
    /\ pc = [c \in Calls |-> "idle"]
    /\ seen = [c \in Updates |-> None] /\ target = [c \in Updates |-> None]
    /\ paths = [c \in Updates \cup Dismissals |-> {}] /\ listed = paths
    /\ missing = {} /\ dismissed = {} /\ lapsed = FALSE /\ removed = FALSE
    /\ troubles = MaxTroubles
-----------------------------------------------------------------------------
(***************************************************************************)
(* installInstanceFiles and resumeInstanceInstall up to the lock.          *)
(***************************************************************************)

\* instance-lock.json is read when the call begins, long before the lock.
CallInstall(i) ==
    /\ i \in Installs /\ pc[i] = "idle"
    /\ seen' = [seen EXCEPT ![i] = lockFile]
    /\ \E t \in Targets : target' = [target EXCEPT ![i] = t]
    /\ Goto(i, "called")
    /\ UNCHANGED <<files, mutex, handlers, aborted, paths, listed, ghosts, troubles>>

CallResume(r) ==
    /\ r \in Resumes /\ pc[r] = "idle"
    /\ seen' = [seen EXCEPT ![r] = lockFile]
    /\ Goto(r, "profile")
    /\ UNCHANGED <<files, mutex, handlers, aborted, target, paths, listed, ghosts, troubles>>

ReadProfile(r) ==
    /\ r \in Resumes /\ pc[r] = "profile"
    /\ target' = [target EXCEPT ![r] = profile]
    /\ Goto(r, IF profile = None THEN "done" ELSE "called")
    /\ UNCHANGED <<files, mutex, handlers, aborted, seen, paths, listed, ghosts, troubles>>

\* A diff takes the files it replaces as the previous install.
CallDiff(d) ==
    /\ d \in Diffs /\ pc[d] = "idle"
    /\ \E x \in Patches :
         /\ seen' = [seen EXCEPT ![d] = [files |-> x.old, upstream |-> Peer]]
         /\ target' = [target EXCEPT ![d] = [files |-> x.files, upstream |-> Peer]]
    /\ Goto(d, "called")
    /\ UNCHANGED <<files, mutex, handlers, aborted, paths, listed, ghosts, troubles>>

\* The remove handler is registered; a diff prepares before it asks for the
\* lock, the others ask for it at once.
Register(u) ==
    /\ u \in Updates /\ pc[u] = "called"
    /\ handlers' = handlers \cup {u}
    /\ IF u \in Diffs THEN Goto(u, "patch") /\ UNCHANGED mutex
                      ELSE Goto(u, "waiting") /\ Acquire(u)
    /\ UNCHANGED <<files, aborted, locals, ghosts, troubles>>

\* What no source is found for; a path that has the wanted content is kept.
Unresolvable(u) ==
    SUBSET {p \in Paths : target[u].files[p] \notin {Absent, disk[p]}}

\* Mutant: a diff moves its files without the lock.
PrepareDiffUnlocked(d) ==
    /\ d \in Diffs /\ pc[d] = "patch"
    /\ d \notin aborted
    /\ \E lost \in Unresolvable(d) : paths' = [paths EXCEPT ![d] = lost]
    /\ Goto(d, "moving") /\ UNCHANGED mutex
    /\ UNCHANGED <<files, handlers, aborted, seen, target, listed, ghosts, troubles>>

PrepareDiff(d) ==
    /\ d \in Diffs /\ pc[d] = "patch"
    /\ d \notin aborted
    /\ \E lost \in Unresolvable(d) : paths' = [paths EXCEPT ![d] = lost]
    /\ Goto(d, "waiting") /\ Acquire(d)
    /\ UNCHANGED <<files, handlers, aborted, seen, target, listed, ghosts, troubles>>

PrepareDiffFail(d) ==
    /\ d \in Diffs /\ pc[d] = "patch"
    /\ IF d \in aborted THEN UNCHANGED troubles ELSE Trouble
    /\ Goto(d, "closing")
    /\ UNCHANGED <<files, mutex, handlers, aborted, locals, ghosts>>
-----------------------------------------------------------------------------
(***************************************************************************)
(* An update inside the lock.                                              *)
(***************************************************************************)

\* Mutant: the first write creates the folder it needs.
BeginAnew(u) ==
    /\ holder = u /\ u \in Updates /\ pc[u] = "waiting"
    /\ IF u \in aborted
       THEN Throw(u, AfterThrow(u)) /\ UNCHANGED <<disk, profile>>
       ELSE /\ profile' = target[u] /\ folder' = TRUE
            /\ Goto(u, IF u \in Diffs THEN "moving" ELSE "prepare")
            /\ UNCHANGED <<disk, lockFile, unresolved, mutex, handlers, aborted,
                           locals, ghosts>>
    /\ UNCHANGED troubles

\* The first write needs the folder: it does not come back by an install.
Begin(u) ==
    /\ holder = u /\ u \in Updates /\ pc[u] = "waiting"
    /\ IF u \in aborted \/ ~folder
       THEN Throw(u, AfterThrow(u)) /\ UNCHANGED <<disk, profile>>
       ELSE /\ profile' = target[u]
            /\ Goto(u, IF u \in Diffs THEN "moving" ELSE "prepare")
            /\ UNCHANGED <<disk, lockFile, folder, unresolved, mutex, handlers, aborted,
                           locals, ghosts>>
    /\ UNCHANGED troubles

\* "The instance is locked by another upstream".
OtherUpstream(l) == seen[l] # None /\ seen[l].upstream # target[l].upstream

Refuse(l) ==
    /\ l \in Locked /\ pc[l] = "prepare"
    /\ OtherUpstream(l)
    /\ Throw(l, "refused")
    /\ UNCHANGED <<disk, profile, troubles>>

\* The abort signal is looked at for the last time before the files move.
Prepare(l) ==
    /\ l \in Locked /\ pc[l] = "prepare"
    /\ ~OtherUpstream(l) /\ l \notin aborted
    /\ \E lost \in Unresolvable(l) : paths' = [paths EXCEPT ![l] = lost]
    /\ Goto(l, "moving")
    /\ UNCHANGED <<files, mutex, handlers, aborted, seen, target, listed, ghosts,
                   troubles>>

\* The files of lockState, which may be missing.
FilesOf(state) == IF state = None THEN NoFiles ELSE state.files

\* What moving the files may leave at a path.  A file that no replacement was
\* found for stays, but an install that works from its own queues has moved a
\* changed one to the backup folder all the same.
Leaves(u, p) ==
    IF p \in paths[u] THEN {disk[p]} \cup (IF u \in Locked THEN {Absent} ELSE {})
    ELSE {Updated(disk[p], FilesOf(seen[u])[p], target[u].files[p])}

Moved(u) == {d \in Manifest : \A p \in Paths : d[p] \in Leaves(u, p)}

\* A crash amid the moves leaves any mixture of old, new and absent files, and
\* so does a failure: its rollback brings back no file that was overwritten
\* without a backup, skips what it can not move, and lets late renames land.
Torn(u) ==
    {d \in Manifest :
       \A p \in Paths :
         d[p] \in IF p \in paths[u] THEN Leaves(u, p)
                  ELSE Between(disk[p], FilesOf(seen[u])[p], target[u].files[p])}

MoveFiles(u) ==
    /\ u \in Updates /\ pc[u] = "moving"
    /\ disk' \in Moved(u)
    /\ Goto(u, "moved")
    /\ UNCHANGED <<folder, lockFile, profile, unresolved, mutex, handlers, aborted,
                   locals, ghosts, troubles>>

\* Mutant: only the files are recorded.
WriteFilesOnly(l) ==
    /\ l \in Locked /\ pc[l] = "moved"
    /\ l \notin aborted
    /\ lockFile' = [files |-> target[l].files]
    /\ Goto(l, "locked")
    /\ UNCHANGED <<folder, disk, profile, unresolved, mutex, handlers, aborted, locals,
                   ghosts, troubles>>

WriteLockFile(l) ==
    /\ l \in Locked /\ pc[l] = "moved"
    /\ l \notin aborted
    /\ lockFile' = target[l]
    /\ Goto(l, "locked")
    /\ UNCHANGED <<folder, disk, profile, unresolved, mutex, handlers, aborted, locals,
                   ghosts, troubles>>

Attempted(u) == {p \in Paths : target[u].files[p] # Absent}
Lost(u) == {p \in paths[u] : disk[p] # target[u].files[p]}

ClearProfile(u) ==
    /\ u \in Updates /\ pc[u] = IF u \in Diffs THEN "moved" ELSE "locked"
    /\ profile' = None
    /\ missing' = (missing \ Attempted(u)) \cup Lost(u)
    /\ dismissed' = dismissed \ Attempted(u)
    /\ Goto(u, "reconcile")
    /\ UNCHANGED <<folder, disk, lockFile, unresolved, mutex, handlers, aborted, locals,
                   lapsed, removed, troubles>>

ReadUnresolved(u) ==
    /\ u \in Updates /\ pc[u] = "reconcile"
    /\ listed' = [listed EXCEPT ![u] = unresolved]
    /\ Goto(u, "write")
    /\ UNCHANGED <<files, mutex, handlers, aborted, seen, target, paths, ghosts,
                   troubles>>

\* Another call has read unresolved-files.json and will write it back.
Overlaps(c) == \E d \in Calls \ {c} : pc[d] \in {"write", "dismissing"}

\* Mutant: the list of this update replaces the earlier one.
WriteOwnUnresolved(u) ==
    /\ u \in Updates /\ pc[u] = "write"
    /\ unresolved' = Lost(u)
    /\ lapsed' = (lapsed \/ Overlaps(u))
    /\ Release
    /\ IF u \in Diffs THEN Goto(u, "closed") /\ UNCHANGED handlers
                      ELSE Goto(u, "done") /\ handlers' = handlers \ {u}
    /\ UNCHANGED <<folder, disk, lockFile, profile, aborted, locals, missing,
                   dismissed, removed, troubles>>

WriteUnresolved(u) ==
    /\ u \in Updates /\ pc[u] = "write"
    /\ unresolved' = (listed[u] \ Attempted(u)) \cup Lost(u)
    /\ lapsed' = (lapsed \/ Overlaps(u))
    /\ Release
    /\ IF u \in Diffs THEN Goto(u, "closed") /\ UNCHANGED handlers
                      ELSE Goto(u, "done") /\ handlers' = handlers \ {u}
    /\ UNCHANGED <<folder, disk, lockFile, profile, aborted, locals, missing,
                   dismissed, removed, troubles>>

\* Mutant: the marker goes with the attempt that failed.
FailUnmarked(u) ==
    /\ u \in Updates /\ pc[u] \in {"prepare", "moving", "moved", "write"}
    /\ Trouble
    /\ Throw(u, AfterThrow(u))
    /\ profile' = None
    /\ IF pc[u] = "moving" THEN disk' \in Torn(u) ELSE UNCHANGED disk

\* A source or a file operation fails (once the files have moved, the removal
\* of the workspace or a write), or the abort signal is seen.
FailInside(u) ==
    /\ u \in Updates /\ pc[u] \in {"prepare", "moving", "moved", "write"}
    /\ \/ /\ u \in aborted \cap Locked
          /\ pc[u] = "moved" \/ (pc[u] = "prepare" /\ ~OtherUpstream(u))
          /\ UNCHANGED troubles
       \/ Trouble
    /\ Throw(u, AfterThrow(u))
    /\ IF pc[u] = "moving" THEN disk' \in Torn(u) ELSE UNCHANGED disk
    /\ UNCHANGED profile
-----------------------------------------------------------------------------
(***************************************************************************)
(* After the lock.                                                         *)
(***************************************************************************)

\* The finally block of a diff removes the marker, whoever wrote it.
CloseDiff(d) ==
    /\ d \in Diffs /\ pc[d] \in {"closing", "closed"}
    /\ profile' = None
    /\ handlers' = handlers \ {d}
    /\ Goto(d, IF pc[d] = "closed" THEN "done" ELSE "failed")
    /\ UNCHANGED <<folder, disk, lockFile, unresolved, mutex, aborted, locals, ghosts,
                   troubles>>

DropProfile(l) ==
    /\ l \in Locked /\ pc[l] = "refused"
    /\ profile' = None
    /\ Goto(l, "failed")
    /\ UNCHANGED <<folder, disk, lockFile, unresolved, mutex, handlers, aborted, locals,
                   ghosts, troubles>>
-----------------------------------------------------------------------------
(***************************************************************************)
(* deleteInstance and dismissUnresolvedFiles.                              *)
(***************************************************************************)

\* Mutant: the delete takes the lock from its holder.
CallDeleteAtOnce(x) ==
    /\ x \in Removals /\ pc[x] = "idle"
    /\ folder
    /\ holder' = x /\ queue' = <<>>
    /\ pc' = [c \in Calls |-> IF c = x THEN "waiting"
                              ELSE IF c \in Waiters THEN AfterThrow(c) ELSE pc[c]]
    /\ handlers' = handlers \ (Waiters \ Diffs)
    /\ aborted' = aborted \cup handlers
    /\ UNCHANGED <<files, locals, ghosts, troubles>>

\* The waiters are rejected, the delete takes their place in the queue, and
\* every registered handler aborts its install; nothing happens in between.
CallDelete(x) ==
    /\ x \in Removals /\ pc[x] = "idle"
    /\ \A y \in Removals : pc[y] # "waiting"
    /\ folder
    /\ IF holder = None THEN holder' = x /\ queue' = <<>>
                        ELSE queue' = <<x>> /\ UNCHANGED holder
    /\ pc' = [c \in Calls |-> IF c = x THEN "waiting"
                              ELSE IF c \in Waiters THEN AfterThrow(c) ELSE pc[c]]
    /\ handlers' = handlers \ (Waiters \ Diffs)
    /\ aborted' = aborted \cup handlers
    /\ UNCHANGED <<files, locals, ghosts, troubles>>

RemoveFolder(x) ==
    /\ holder = x /\ x \in Removals
    /\ folder' = FALSE /\ disk' = NoFiles /\ lockFile' = None /\ profile' = None
    /\ unresolved' = {} /\ removed' = TRUE /\ missing' = {} /\ dismissed' = {}
    /\ Release /\ handlers' = {} /\ Goto(x, "done")
    /\ UNCHANGED <<aborted, locals, lapsed, troubles>>

\* EPERM is only logged; any other failure leaves the handlers as they are.
RemoveFolderFail(x) ==
    /\ holder = x /\ x \in Removals
    /\ Trouble
    /\ Release
    /\ \/ handlers' = {} /\ Goto(x, "done")
       \/ UNCHANGED handlers /\ Goto(x, "failed")
    /\ UNCHANGED <<files, aborted, locals, ghosts>>

CallDismiss(m) ==
    /\ m \in Dismissals /\ pc[m] = "idle"
    /\ \E ps \in SUBSET Paths \ {{}} : paths' = [paths EXCEPT ![m] = ps]
    /\ listed' = [listed EXCEPT ![m] = unresolved]
    /\ Goto(m, "dismissing")
    /\ UNCHANGED <<files, mutex, handlers, aborted, seen, target, ghosts, troubles>>

WriteDismissal(m) ==
    /\ m \in Dismissals /\ pc[m] = "dismissing"
    /\ unresolved' = IF folder THEN listed[m] \ paths[m] ELSE unresolved
    /\ dismissed' = dismissed \cup paths[m]
    /\ lapsed' = (lapsed \/ Overlaps(m))
    /\ Goto(m, "done")
    /\ UNCHANGED <<folder, disk, lockFile, profile, mutex, handlers, aborted, locals,
                   missing, removed, troubles>>

DismissAll(m) ==
    /\ m \in Dismissals /\ pc[m] = "idle"
    /\ unresolved' = {} /\ dismissed' = dismissed \cup missing
    /\ lapsed' = (lapsed \/ Overlaps(m))
    /\ Goto(m, "done")
    /\ UNCHANGED <<folder, disk, lockFile, profile, mutex, handlers, aborted, locals,
                   missing, removed, troubles>>
-----------------------------------------------------------------------------
(***************************************************************************)
(* The user cancels a task; the launcher crashes.                          *)
(***************************************************************************)
Cancel(u) ==
    /\ u \in handlers \ aborted
    /\ Trouble
    /\ aborted' = aborted \cup {u}
    /\ UNCHANGED <<files, mutex, handlers, pc, locals, ghosts>>

Quiet == \A c \in Calls : pc[c] \in {"idle"} \cup Ended

Crash ==
    /\ ~Quiet
    /\ Trouble
    /\ \/ \E u \in Updates : pc[u] = "moving" /\ disk' \in Torn(u)
       \/ (\A u \in Updates : pc[u] # "moving") /\ UNCHANGED disk
    /\ holder' = None /\ queue' = <<>> /\ handlers' = {} /\ aborted' = {}
    /\ pc' = [c \in Calls |-> IF pc[c] \in {"idle"} \cup Ended THEN pc[c] ELSE "crashed"]
    /\ lapsed' = (lapsed \/ \E c \in Calls : pc[c] \in {"reconcile", "write"})
    /\ UNCHANGED <<folder, lockFile, profile, unresolved, locals, missing,
                   dismissed, removed>>

\* Everything a call does by itself once it has begun.
Step(c) ==
    \/ ReadProfile(c) \/ Register(c) \/ PrepareDiff(c) \/ PrepareDiffFail(c)
    \/ Begin(c) \/ Refuse(c) \/ Prepare(c) \/ MoveFiles(c) \/ WriteLockFile(c)
    \/ ClearProfile(c) \/ ReadUnresolved(c) \/ WriteUnresolved(c) \/ FailInside(c)
    \/ CloseDiff(c) \/ DropProfile(c) \/ RemoveFolder(c) \/ RemoveFolderFail(c)
    \/ WriteDismissal(c)

User(c) ==
    \/ CallInstall(c) \/ CallResume(c) \/ CallDiff(c) \/ CallDelete(c)
    \/ CallDismiss(c) \/ DismissAll(c) \/ Cancel(c)

Next == Crash \/ \E c \in Calls : Step(c) \/ User(c)

Spec == Init /\ [][Next]_vars

\* Every file operation and every source settles, so the event loop gets on
\* with some call as long as one can go on.
FairSpec == Spec /\ WF_vars(\E c \in Calls : Step(c))
-----------------------------------------------------------------------------
TypeOK ==
    /\ folder \in BOOLEAN /\ disk \in Manifest
    /\ lockFile \in Snapshot \cup {None} /\ profile \in Snapshot \cup {None}
    /\ unresolved \subseteq Paths
    /\ holder \in Calls \cup {None} /\ queue \in Seq(Calls)
    /\ handlers \subseteq Updates /\ aborted \subseteq Updates
    /\ pc \in [Calls -> Steps]
    /\ seen \in [Updates -> Snapshot \cup {None}]
    /\ target \in [Updates -> Snapshot \cup {None}]
    /\ paths \in [Updates \cup Dismissals -> SUBSET Paths]
    /\ listed \in [Updates \cup Dismissals -> SUBSET Paths]
    /\ missing \subseteq Paths /\ dismissed \subseteq Paths
    /\ lapsed \in BOOLEAN /\ removed \in BOOLEAN
    /\ troubles \in Nat

\* The critical sections exclude each other, through cancelled waiters,
\* aborts, throws and crashes: only the holder is inside, and who waits is
\* the holder or queued exactly once, so no wake-up is lost.
LockDiscipline ==
    /\ \A c \in Calls : pc[c] \in Inside => holder = c
    /\ \A c \in Calls : pc[c] = "waiting" => holder = c \/ c \in Waiters
    /\ \A n \in DOMAIN queue : pc[queue[n]] = "waiting" /\ queue[n] # holder
    /\ \A m, n \in DOMAIN queue : queue[m] = queue[n] => m = n
    /\ holder = None => queue = <<>>

\* A deleted instance stays deleted: no install, diff or dismissal that was
\* under way or waiting, nor one that comes later, brings the folder or a
\* file of it back.
NoResurrection ==
    removed => /\ ~folder /\ disk = NoFiles
               /\ lockFile = None /\ profile = None /\ unresolved = {}

\* From the moment an install records its manifest in instance-lock.json
\* until it lets go of the lock, the record is its own and every file it
\* could resolve is in place, whatever the other calls do meanwhile.
RecordedIsInstalled ==
    \A l \in Locked :
      pc[l] \in {"locked", "reconcile", "write"} =>
        /\ lockFile = target[l]
        /\ \A p \in Paths \ paths[l] : target[l].files[p] \in {disk[p], Absent}

\* Nobody is about to write unresolved-files.json.
Reconciled == \A u \in Updates : pc[u] \notin {"reconcile", "write"}

\* A path that the last update to attempt it could not resolve is listed in
\* unresolved-files.json until it is dismissed, unless its reconciliation was
\* cut off or overlapped a dismissal.
UnresolvedListed == ~lapsed /\ Reconciled => missing \ dismissed \subseteq unresolved

\* With a single install request, its resumes and any failures, aborts and
\* crashes: when nothing runs and no marker asks for a resume, the instance
\* holds exactly the files instance-lock.json names, but for unresolved ones.
LockFileTruthful ==
    Quiet /\ profile = None =>
      \A p \in Paths \ (unresolved \cup missing) :
        disk[p] = IF lockFile = None THEN Absent ELSE lockFile.files[p]

\* Every call comes to an end: nobody waits for a lock that is never released,
\* and a delete gets through whatever was running or queued.
CallsEnd == ~Quiet ~> Quiet

=============================================================================
