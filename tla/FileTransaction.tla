--------------------------- MODULE FileTransaction ---------------------------
(***************************************************************************)
(* InstanceFileOperationHandler of packages/instance/files_handler.ts, with *)
(* the attempts that InstanceInstallService makes with it on one instance: *)
(*   prepare     link, unzip or download the new files into a workspace;   *)
(*   backup      move the files that go away into the backup folder;       *)
(*   rename      move all prepared files into the instance, in parallel;   *)
(*   clean       drop the backups of plain removals and the workspace;     *)
(*   undoRename, undoBackup   the best-effort rollback.                    *)
(* A crash stops an attempt anywhere; the marker the service keeps names   *)
(* the same workspace and backup folder, so a resumed attempt finds what   *)
(* the earlier one left there.  The game and the user may touch any file   *)
(* at any time.                                                            *)
(*                                                                         *)
(* Two callers use the handler differently.  In "locked" mode the delta is *)
(* computed once, before prepare, and the handler's own queues drive the   *)
(* commit.  In "diff" mode prepare runs on a first delta (and also copies  *)
(* the files to keep), and the commit follows a delta computed afresh.     *)
(***************************************************************************)
EXTENDS FilesDelta, Naturals

CONSTANTS
    Requests,      \* the updates asked for: a previous and a next manifest
    UserContents,  \* contents the user or the game may write
    MaxAttempts,   \* bound on the attempts (first one and resumes)
    MaxTroubles    \* bound on failing operations, aborts, crashes, edits

ASSUME RequestsAssumption ==
    /\ Requests \subseteq [old : Manifest, new : Manifest]
    /\ UserContents \subseteq Contents
ASSUME BoundsAssumption ==
    MaxAttempts \in Nat /\ MaxTroubles \in Nat

VARIABLES
    plan,         \* [mode, timed, old, new]: the request, fixed at the start
    disk,         \* the instance folder
    workspace,    \* the workspace folder
    backup,       \* the backup folder
    phase,        \* where the current attempt stands
    todo,         \* the paths the loop of this phase has yet to visit
    delta,        \* the updates the attempt works from
    jobs,         \* #linkQueue, #unzipQueue + #httpsQueue, #readyQueue
    flight,       \* the phase-3 renames issued and not settled
    unresolvable, \* the files no source was found for
    backedUp,     \* phase2Finished
    renamed,      \* phase3Finished
    before,       \* ghost: the instance when the delta was taken
    touched,      \* ghost: paths the user or the game touched since then
    stuck,        \* ghost: paths a move of the rollback itself failed on
    late,         \* ghost: paths a rename hit when the rollback was past it
    saved,        \* ghost: the changed file an attempt of this update undertook
                  \* to keep; it is carried from one attempt to the next
    displaced,    \* ghost: paths whose kept file a later attempt put another
                  \* backup in the place of
    attempts,     \* attempts left of MaxAttempts
    troubles      \* troubles left of MaxTroubles

vars == <<plan, disk, workspace, backup, phase, todo, delta, jobs, flight,
          unresolvable, backedUp, renamed, before, touched, stuck, late, saved,
          displaced, attempts, troubles>>
handlerVars == <<delta, jobs, unresolvable, backedUp, renamed>>
ghosts == <<before, touched, stuck, late, saved, displaced>>
bounds == <<attempts, troubles>>

Phases == {"idle", "prepare", "backup", "rename", "clean", "undoRename",
           "undoBackup", "done", "failed", "crashed"}
Running == Phases \ {"idle", "done", "failed", "crashed"}

\* "link" is the link queue, "fetch" the unzip and download queues, "ready"
\* what an earlier attempt had already prepared; "update" stands for an
\* entry of the refreshed delta, from which diff mode takes its renames.
Queues == {"link", "fetch", "ready", "update"}
Jobs == Paths \X Queues
PathsOf(js) == {j[1] : j \in js}

NewFile(c, r) == [content |-> c, recent |-> r]

AddOps == {"add", "backup-add"}
BackupOps == {"remove", "backup-remove", "backup-add"}
PreserveOps == {"backup-add", "backup-remove"}

CurrentDelta == computeFileUpdates(disk, plan.old, plan.new, plan.timed)

Trouble ==
    /\ troubles > 0
    /\ troubles' = troubles - 1
    /\ UNCHANGED attempts
-----------------------------------------------------------------------------
(***************************************************************************)
(* An instance before an update: every path holds what the previous        *)
(* install put there, nothing, or a file of the user's.  A diff install    *)
(* passes its own call time as install time, so no file is recent yet.     *)
(***************************************************************************)
Plan == [mode : {"locked", "diff"}, timed : BOOLEAN, old : Manifest, new : Manifest]

UserFiles == {NewFile(c, r) : c \in UserContents,
                              r \in IF plan.mode = "diff" THEN {FALSE} ELSE BOOLEAN}
InstalledFiles(p) == {NewFile(c, FALSE) : c \in {plan.old[p]} \ {Absent}}

Init ==
    /\ plan \in Plan
    /\ [old |-> plan.old, new |-> plan.new] \in Requests
    /\ plan.mode = "diff" => plan.timed
    /\ disk \in Disk
    /\ \A p \in Paths : disk[p] \in {Absent} \cup UserFiles \cup InstalledFiles(p)
    /\ workspace = NoFiles /\ backup = NoFiles
    /\ phase = "idle" /\ todo = {} /\ flight = {}
    /\ delta = [p \in Paths |-> "none"] /\ jobs = {} /\ unresolvable = {}
    /\ backedUp = {} /\ renamed = {}
    /\ before = disk /\ touched = {} /\ stuck = {} /\ late = {}
    /\ saved = NoFiles /\ displaced = {}
    /\ attempts = MaxAttempts /\ troubles = MaxTroubles
-----------------------------------------------------------------------------
(***************************************************************************)
(* Phase 1.                                                                *)
(***************************************************************************)

\* Touched files that came into the workspace: carried there by a rollback,
\* or copied by a diff install that believed them unchanged.
Tainted ==
    {p \in touched : workspace[p] # Absent /\ workspace[p].content # plan.new[p]}

\* Kept files that wait in the backup folder.
HeldInBackup == {p \in Paths : saved[p] # Absent /\ backup[p] = saved[p]}

\* What an attempt with delta d undertakes to keep: what an earlier attempt
\* undertook and has not lost, and the changed files that d finds.
Undertaken(d) ==
    [p \in Paths |->
        IF saved[p] # Absent /\ p \notin late \cup displaced THEN saved[p]
        ELSE IF d[p] \in PreserveOps THEN disk[p] ELSE Absent]

\* A new handler.  Only a locked install is resumed with its own mode.  A
\* rename left in flight is one system call and is over before the user can
\* ask to resume.
Start ==
    /\ phase = "idle" \/ (phase \in {"failed", "crashed"} /\ plan.mode = "locked")
    /\ flight = {}
    /\ attempts > 0
    /\ attempts' = attempts - 1
    /\ phase' = "prepare"
    /\ delta' = CurrentDelta
    /\ todo' = WithOperation(CurrentDelta,
                   IF plan.mode = "diff" THEN AddOps \cup {"keep"} ELSE AddOps)
    /\ jobs' = {} /\ unresolvable' = {} /\ backedUp' = {} /\ renamed' = {}
    /\ before' = disk /\ touched' = Tainted
    /\ saved' = Undertaken(CurrentDelta)
    /\ stuck' = {} /\ late' = {} /\ displaced' = {}
    /\ UNCHANGED <<plan, disk, workspace, backup, flight, troubles>>

\* How a file may be prepared: the queues it ends up in, the file that lands
\* in the workspace (Absent: none does) and whether a source was found.
Outcome(queues, lands, found) ==
    [queues |-> queues, lands |-> lands, found |-> found]

\* A link whose source has vanished stays in the link queue and falls back to
\* the zip or the download, if the file has one; the zip may lack the entry.
UnlinkedOutcomes(want) ==
    {Outcome({"link", "fetch"}, NewFile(want, TRUE), TRUE),
     Outcome({"link", "fetch"}, Absent, TRUE),
     Outcome({"link"}, Absent, FALSE)}

\* A cached copy found by its hash is linked and keeps its own mtime.
LinkOutcomes(want) ==
    {Outcome({"link"}, NewFile(want, r), TRUE) : r \in BOOLEAN}
      \cup UnlinkedOutcomes(want)

\* A zip may lack the entry, or find a leftover of the same size in the
\* workspace and leave it there; nobody notices.
UnzipOutcomes(want) ==
    {Outcome({"fetch"}, NewFile(want, TRUE), TRUE),
     Outcome({"fetch"}, Absent, TRUE)}

\* A download that ends well has the wanted content.
DownloadOutcomes(want) == {Outcome({"fetch"}, NewFile(want, TRUE), TRUE)}

\* The zip comes first, then the download; a file may have neither.
FetchOutcomes(want) ==
    UnzipOutcomes(want) \cup DownloadOutcomes(want) \cup {Outcome({}, Absent, FALSE)}

\* The file to keep is copied from the instance.
KeepOutcomes(p) ==
    IF disk[p] # Absent THEN {Outcome({"link"}, disk[p], TRUE)}
    ELSE UnlinkedOutcomes(plan.new[p])

\* A workspace copy with the right hash is taken as it is.
AlreadyPrepared(p) ==
    /\ plan.new[p] \in Digested
    /\ workspace[p] # Absent /\ workspace[p].content = plan.new[p]

Outcomes(p) ==
    IF delta[p] = "keep" THEN KeepOutcomes(p)
    ELSE IF AlreadyPrepared(p) THEN {Outcome({"ready"}, workspace[p], TRUE)}
    ELSE FetchOutcomes(plan.new[p])
           \cup (IF plan.new[p] \in Digested THEN LinkOutcomes(plan.new[p]) ELSE {})

PrepareFile(p) ==
    /\ phase = "prepare" /\ p \in todo
    /\ \E o \in Outcomes(p) :
         /\ jobs' = jobs \cup ({p} \X o.queues)
         /\ workspace' = IF o.lands = Absent THEN workspace
                         ELSE [workspace EXCEPT ![p] = o.lands]
         /\ unresolvable' = IF o.found THEN unresolvable ELSE unresolvable \cup {p}
    /\ todo' = todo \ {p}
    /\ UNCHANGED <<plan, disk, backup, phase, delta, flight, backedUp, renamed,
                   ghosts, bounds>>

\* The end of an attempt by an exception.  A diff install removes its
\* workspace; a locked one keeps it for the next attempt.
Fail ==
    /\ phase' = "failed" /\ todo' = {}
    /\ workspace' = IF plan.mode = "diff" THEN NoFiles ELSE workspace

\* A source fails, a hash does not match, or the task is aborted: the last
\* check of the abort signal comes right before the commit.
PrepareFail ==
    /\ phase = "prepare"
    /\ Trouble
    /\ Fail
    /\ UNCHANGED <<plan, disk, backup, handlerVars, flight, ghosts>>

\* backupAndRename begins.  Without updates every backup-add of the queue is
\* moved away, resolvable or not; with the refreshed updates the
\* unresolvable ones are left alone.
Commit ==
    /\ phase = "prepare" /\ todo = {}
    /\ phase' = "backup"
    /\ IF plan.mode = "locked"
       THEN /\ todo' = WithOperation(delta, BackupOps)
            /\ UNCHANGED <<delta, jobs, before, touched, saved>>
       ELSE LET d == CurrentDelta
            IN  /\ delta' = d
                /\ todo' = WithOperation(d, BackupOps)
                             \ (WithOperation(d, {"backup-add"}) \cap unresolvable)
                /\ jobs' = (WithOperation(d, AddOps) \ unresolvable) \X {"update"}
                /\ before' = disk /\ touched' = Tainted
                /\ saved' = Undertaken(d)
    /\ UNCHANGED <<plan, disk, workspace, backup, flight, unresolvable, backedUp,
                   renamed, stuck, late, displaced, bounds>>
-----------------------------------------------------------------------------
(***************************************************************************)
(* Phase 2.                                                                *)
(***************************************************************************)

\* A file that is gone by now needs no backup.
BackupFile(p) ==
    /\ phase = "backup" /\ p \in todo
    /\ todo' = todo \ {p}
    /\ IF disk[p] = Absent
       THEN UNCHANGED <<disk, backup, backedUp, displaced>>
       ELSE /\ backup' = [backup EXCEPT ![p] = disk[p]]
            /\ disk' = [disk EXCEPT ![p] = Absent]
            /\ backedUp' = backedUp \cup {p}
            /\ displaced' = displaced \cup ({p} \cap HeldInBackup)
    /\ UNCHANGED <<plan, workspace, phase, delta, jobs, flight, unresolvable,
                   renamed, before, touched, stuck, late, saved, bounds>>

BackupFail ==
    /\ phase = "backup" /\ todo # {}
    /\ Trouble
    /\ phase' = "undoBackup" /\ todo' = backedUp
    /\ UNCHANGED <<plan, disk, workspace, backup, handlerVars, flight, ghosts>>

\* Mutant: what an earlier attempt had prepared is in no queue.
BackupDoneNoReady ==
    /\ phase = "backup" /\ todo = {}
    /\ phase' = "rename" /\ flight' = {j \in jobs : j[2] # "ready"}
    /\ UNCHANGED <<plan, disk, workspace, backup, todo, handlerVars, ghosts,
                   bounds>>

BackupDone ==
    /\ phase = "backup" /\ todo = {}
    /\ phase' = "rename" /\ flight' = jobs
    /\ UNCHANGED <<plan, disk, workspace, backup, todo, handlerVars, ghosts,
                   bounds>>
-----------------------------------------------------------------------------
(***************************************************************************)
(* Phase 3.  Promise.all settles on the first failing rename; the others   *)
(* stay in flight, and those that succeed are pushed to phase3Finished     *)
(* while the rollback iterates over it.                                    *)
(***************************************************************************)
RenameOk(j) ==
    LET p == j[1]
    IN  /\ j \in flight /\ workspace[p] # Absent
        /\ disk' = [disk EXCEPT ![p] = workspace[p]]
        /\ workspace' = [workspace EXCEPT ![p] = Absent]
        /\ flight' = flight \ {j}
        /\ renamed' = renamed \cup {p}
        /\ todo' = IF phase = "undoRename" THEN todo \cup {p} ELSE todo
        /\ late' = IF phase \in {"rename", "undoRename"} THEN late ELSE late \cup {p}
        /\ UNCHANGED <<plan, backup, phase, delta, jobs, unresolvable, backedUp,
                       before, touched, stuck, saved, displaced, bounds>>

\* Mutant: the rollback only brings the backups back.
RenameFailKeepsRenamed(j) ==
    /\ j \in flight
    /\ IF workspace[j[1]] = Absent THEN UNCHANGED bounds ELSE Trouble
    /\ flight' = flight \ {j}
    /\ IF phase = "rename"
       THEN phase' = "undoBackup" /\ todo' = backedUp
       ELSE UNCHANGED <<phase, todo>>
    /\ UNCHANGED <<plan, disk, workspace, backup, handlerVars, ghosts>>

\* The source is missing, or the file system refuses.
RenameFail(j) ==
    /\ j \in flight
    /\ IF workspace[j[1]] = Absent THEN UNCHANGED bounds ELSE Trouble
    /\ flight' = flight \ {j}
    /\ IF phase = "rename"
       THEN phase' = "undoRename" /\ todo' = renamed
       ELSE UNCHANGED <<phase, todo>>
    /\ UNCHANGED <<plan, disk, workspace, backup, handlerVars, ghosts>>

\* Mutant: every backup is dropped.
RenameDoneDropsAll ==
    /\ phase = "rename" /\ flight = {}
    /\ phase' = "clean" /\ todo' = WithOperation(delta, BackupOps)
    /\ UNCHANGED <<plan, disk, workspace, backup, handlerVars, flight, ghosts,
                   bounds>>

RenameDone ==
    /\ phase = "rename" /\ flight = {}
    /\ phase' = "clean" /\ todo' = WithOperation(delta, {"remove"})
    /\ UNCHANGED <<plan, disk, workspace, backup, handlerVars, flight, ghosts,
                   bounds>>

CleanFile(p) ==
    /\ phase = "clean" /\ p \in todo
    /\ todo' = todo \ {p}
    /\ backup' = [backup EXCEPT ![p] = Absent]
    /\ displaced' = displaced \cup (({p} \cap HeldInBackup) \ backedUp)
    /\ UNCHANGED <<plan, disk, workspace, phase, handlerVars, flight, before,
                   touched, stuck, late, saved, bounds>>

CleanDone ==
    /\ phase = "clean" /\ todo = {}
    /\ phase' = "done" /\ workspace' = NoFiles
    /\ UNCHANGED <<plan, disk, backup, todo, handlerVars, flight, ghosts, bounds>>
-----------------------------------------------------------------------------
(***************************************************************************)
(* The rollback.  Every step is best effort: a move that fails is skipped. *)
(***************************************************************************)
\* Mutant: a move that fails is tried again.
UndoRenameInsists(p) ==
    /\ phase = "undoRename" /\ p \in todo
    /\ disk[p] # Absent
    /\ workspace' = [workspace EXCEPT ![p] = disk[p]]
    /\ disk' = [disk EXCEPT ![p] = Absent]
    /\ todo' = todo \ {p}
    /\ UNCHANGED <<plan, backup, phase, handlerVars, flight, ghosts, bounds>>

UndoRename(p) ==
    /\ phase = "undoRename" /\ p \in todo
    /\ todo' = todo \ {p}
    /\ \/ /\ disk[p] # Absent
          /\ workspace' = [workspace EXCEPT ![p] = disk[p]]
          /\ disk' = [disk EXCEPT ![p] = Absent]
          /\ UNCHANGED <<stuck, bounds>>
       \/ /\ IF disk[p] = Absent THEN UNCHANGED bounds ELSE Trouble
          /\ stuck' = stuck \cup {p}
          /\ UNCHANGED <<disk, workspace>>
    /\ UNCHANGED <<plan, backup, phase, handlerVars, flight, before, touched,
                   late, saved, displaced>>

UndoRenameDone ==
    /\ phase = "undoRename" /\ todo = {}
    /\ phase' = "undoBackup" /\ todo' = backedUp
    /\ UNCHANGED <<plan, disk, workspace, backup, handlerVars, flight, ghosts,
                   bounds>>

UndoBackup(p) ==
    /\ phase = "undoBackup" /\ p \in todo
    /\ todo' = todo \ {p}
    /\ \/ /\ backup[p] # Absent
          /\ disk' = [disk EXCEPT ![p] = backup[p]]
          /\ backup' = [backup EXCEPT ![p] = Absent]
          /\ UNCHANGED <<stuck, bounds>>
       \/ /\ IF backup[p] = Absent THEN UNCHANGED bounds ELSE Trouble
          /\ stuck' = stuck \cup {p}
          /\ UNCHANGED <<disk, backup>>
    /\ UNCHANGED <<plan, workspace, phase, handlerVars, flight, before, touched,
                   late, saved, displaced>>

UndoBackupDone ==
    /\ phase = "undoBackup" /\ todo = {}
    /\ Fail
    /\ UNCHANGED <<plan, disk, backup, handlerVars, flight, ghosts, bounds>>
-----------------------------------------------------------------------------
(***************************************************************************)
(* The environment.                                                        *)
(***************************************************************************)

\* An exception in the clean phase, when the workspace can not be removed,
\* leaves what a crash there leaves: nothing is rolled back any more.
Crash ==
    /\ phase \in Running \/ flight # {}
    /\ Trouble
    /\ phase' = "crashed" /\ todo' = {} /\ flight' = {}
    /\ UNCHANGED <<plan, disk, workspace, backup, handlerVars, ghosts>>

\* The user or the game writes or deletes a file.  Whoever overwrites his own
\* only copy of a changed file has given it up.  Doing so before the first
\* attempt is one more initial state, and after the last one no concern of
\* this update.
Touch(p) ==
    /\ phase \notin {"idle", "done"}
    /\ Trouble
    /\ disk' \in {[disk EXCEPT ![p] = f] :
                    f \in {Absent} \cup {NewFile(c, TRUE) : c \in UserContents}}
    /\ touched' = touched \cup {p}
    /\ saved' = IF p \in HeldInBackup THEN saved ELSE [saved EXCEPT ![p] = Absent]
    /\ UNCHANGED <<plan, workspace, backup, phase, todo, handlerVars, flight, before,
                   stuck, late, displaced>>

Handler ==
    \/ Commit \/ BackupDone \/ RenameDone \/ CleanDone
    \/ UndoRenameDone \/ UndoBackupDone
    \/ \E p \in Paths : \/ PrepareFile(p) \/ BackupFile(p) \/ CleanFile(p)
                        \/ UndoRename(p) \/ UndoBackup(p)
    \/ \E j \in Jobs : RenameOk(j) \/ RenameFail(j)

Environment ==
    \/ Start \/ PrepareFail \/ BackupFail \/ Crash
    \/ \E p \in Paths : Touch(p)

Next == Handler \/ Environment

Spec == Init /\ [][Next]_vars

\* Every file operation settles, so the handler always gets on.
FairSpec == Spec /\ WF_vars(Handler)
-----------------------------------------------------------------------------
TypeOK ==
    /\ plan \in Plan
    /\ disk \in Disk /\ workspace \in Disk /\ backup \in Disk
    /\ phase \in Phases /\ todo \subseteq Paths
    /\ delta \in Delta /\ jobs \subseteq Jobs /\ unresolvable \subseteq Paths
    /\ flight \subseteq Jobs
    /\ backedUp \subseteq Paths /\ renamed \subseteq Paths
    /\ before \in Disk /\ touched \subseteq Paths
    /\ stuck \subseteq Paths /\ late \subseteq Paths
    /\ saved \in Disk /\ displaced \subseteq Paths
    /\ attempts \in Nat /\ troubles \in Nat

\* A file the user had changed when an attempt met it is never destroyed,
\* neither by that attempt nor by the ones that resume it, through backup,
\* rename, failing rollback moves and crashes: it is in the instance or in
\* the backup folder, unless the user himself overwrote the instance's copy.
\* There are two exceptions, both losses the code allows.  A rename that lands
\* after the rollback has put the file back overwrites it (late: see
\* OriginalsKept).  And a later attempt that finds another file in the
\* instance moves it onto the same place of the backup folder, or, when it
\* takes it for a plain removal, drops that place (displaced).
ChangedFilesKept ==
    \A p \in Paths \ (late \cup displaced) :
      saved[p] # Absent => saved[p] \in {disk[p], backup[p]}

\* "If the process is interrupted, the instance files need to be restored to
\* the original state", files_handler.ts promises: whatever interrupts an
\* attempt, a file the user had changed is still there.
OriginalsKept ==
    \A p \in Paths : saved[p] # Absent => saved[p] \in {disk[p], backup[p]}

\* A finished update left the instance exactly as the two manifests promise,
\* also when it resumed an attempt that had crashed or failed in any phase:
\* resolvable files have the wanted content, files the manifest dropped are
\* gone, and all others are as they were.  Files the user or the game touched
\* meanwhile are nobody's promise.
CommitExact ==
    phase = "done" =>
      \A p \in Paths \ (touched \cup unresolvable) :
        ContentOf(disk[p]) = Updated(ContentOf(before[p]), plan.old[p], plan.new[p])

\* An attempt that failed put every file back, except where one of three
\* things happened.  "add" overwrites a file the user had not changed without
\* a backup, and it is rolled back to nothing.  A move of the rollback failed
\* and was skipped (stuck).  Or a rename still in flight landed after the
\* rollback was past its path (late): then the path may hold the new file, which
\* has overwritten the one that the rollback had put back.  What the user or
\* the game touched meanwhile is nobody's promise.
RollbackRestores ==
    phase = "failed" =>
      \A p \in Paths \ (touched \cup stuck) :
        \/ disk[p] = before[p]
        \/ delta[p] = "add" /\ before[p] # Absent /\ disk[p] = Absent
        \/ p \in late /\ ContentOf(disk[p]) = plan.new[p]

\* Backup files of plain removals do not pile up, and a finished update
\* leaves no workspace behind.
CleanEnd ==
    phase = "done" =>
      /\ workspace = NoFiles
      /\ \A p \in Paths : delta[p] = "remove" => backup[p] = Absent

\* Every attempt comes to an end, whatever fails and however the renames in
\* flight and the rollback interleave.
AttemptEnds == phase \in Running ~> phase \in {"done", "failed", "crashed"}
=============================================================================
