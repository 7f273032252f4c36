----------------------- MODULE FileTransactionProofs -----------------------
(***************************************************************************)
(* Proofs about FileTransaction for every set of paths and contents and    *)
(* every bound: type correctness; that a file the user had changed is kept *)
(* by the attempt that meets it and by those that resume it, but for the   *)
(* two losses the code allows; and what an attempt does to every file.  A  *)
(* finished update is exactly the one the manifests ask for, a failed one  *)
(* has put everything back that it could, and a finished one leaves        *)
(* nothing behind.                                                         *)
(***************************************************************************)
EXTENDS FileTransaction, TLAPS

\* A path waiting to be prepared has something to prepare.
Wanted == phase = "prepare" => \A p \in todo : plan.new[p] \in Contents
-----------------------------------------------------------------------------
(***************************************************************************)
(* Lemmas about the delta and the outcomes of a preparation.               *)
(***************************************************************************)

\* An operation is decided for every file and pair of entries; one that
\* preserves a file has a file to preserve, and one that puts a file has an
\* entry that wants it.
LEMMA OperationFacts ==
    ASSUME NEW file \in File \cup {Absent},
           NEW oldEntry \in Contents \cup {Absent},
           NEW newEntry \in Contents \cup {Absent},
           NEW timed \in BOOLEAN
    PROVE  LET op == OperationOn(file, oldEntry, newEntry, timed)
           IN  /\ op \in Operations
               /\ op \in PreserveOps => file # Absent
               /\ op \in AddOps \cup {"keep"} => newEntry # Absent
  BY DEF OperationOn, Operations, PreserveOps, AddOps

\* The same of the delta an attempt computes.
LEMMA CurrentDeltaFacts ==
    ASSUME TypeOK
    PROVE  /\ CurrentDelta \in Delta
           /\ \A p \in Paths : CurrentDelta[p] \in PreserveOps => disk[p] # Absent
           /\ \A p \in Paths :
                CurrentDelta[p] \in AddOps \cup {"keep"} => plan.new[p] \in Contents
  <1>1. /\ plan.old \in Manifest /\ plan.new \in Manifest
        /\ plan.timed \in BOOLEAN /\ disk \in Disk
    BY DEF TypeOK, Plan
  <1>2. CurrentDelta = [p \in Paths |->
                          OperationOn(disk[p], plan.old[p], plan.new[p], plan.timed)]
    BY DEF CurrentDelta, computeFileUpdates
  <1>3. ASSUME NEW p \in Paths
        PROVE  /\ CurrentDelta[p] \in Operations
               /\ CurrentDelta[p] \in PreserveOps => disk[p] # Absent
               /\ CurrentDelta[p] \in AddOps \cup {"keep"} => plan.new[p] \in Contents
    <2>1. /\ disk[p] \in File \cup {Absent}
          /\ plan.old[p] \in Contents \cup {Absent}
          /\ plan.new[p] \in Contents \cup {Absent}
      BY <1>1 DEF Disk, Manifest
    <2>2. CurrentDelta[p] = OperationOn(disk[p], plan.old[p], plan.new[p], plan.timed)
      BY <1>2
    <2> QED BY <1>1, <2>1, <2>2, OperationFacts
  <1> QED BY <1>2, <1>3 DEF Delta

\* What is prepared for a wanted path is a file or nothing, in known queues.
LEMMA OutcomesTyped ==
    ASSUME TypeOK, NEW p \in Paths, plan.new[p] \in Contents, NEW o \in Outcomes(p)
    PROVE  /\ o.queues \subseteq Queues
           /\ o.lands \in File \cup {Absent}
  <1>1. disk[p] \in File \cup {Absent} /\ workspace[p] \in File \cup {Absent}
    BY DEF TypeOK, Disk
  <1>2. \A r \in BOOLEAN : NewFile(plan.new[p], r) \in File
    BY DEF NewFile, File
  <1> DEFINE Sound(r) == r.queues \subseteq Queues /\ r.lands \in File \cup {Absent}
  <1>3. \A queues, lands, found :
          queues \subseteq Queues /\ lands \in File \cup {Absent}
            => Sound(Outcome(queues, lands, found))
    BY DEF Outcome
  <1>4. {"link"} \subseteq Queues /\ {"fetch"} \subseteq Queues
          /\ {"ready"} \subseteq Queues /\ {"link", "fetch"} \subseteq Queues
    BY DEF Queues
  <1> HIDE DEF Sound
  <1>5. \A r \in UnlinkedOutcomes(plan.new[p]) : Sound(r)
    BY <1>2, <1>3, <1>4 DEF UnlinkedOutcomes
  <1>6. \A r \in LinkOutcomes(plan.new[p]) : Sound(r)
    BY <1>2, <1>3, <1>4, <1>5 DEF LinkOutcomes
  <1>7. \A r \in FetchOutcomes(plan.new[p]) : Sound(r)
    BY <1>2, <1>3, <1>4 DEF FetchOutcomes, UnzipOutcomes, DownloadOutcomes
  <1>8. \A r \in KeepOutcomes(p) : Sound(r)
    BY <1>1, <1>3, <1>4, <1>5 DEF KeepOutcomes
  <1>9. Sound(o)
    BY <1>1, <1>3, <1>4, <1>6, <1>7, <1>8 DEF Outcomes
  <1> QED BY <1>9 DEF Sound

-----------------------------------------------------------------------------
(***************************************************************************)
(* Type correctness.  TypeOK alone is not inductive: a wanted content that *)
(* were Absent would put a file without content into the workspace.        *)
(***************************************************************************)
TypeInv == TypeOK /\ Wanted

\* A new file has the shape of a file.
LEMMA NewFileTyped ==
    \A c \in Contents, r \in BOOLEAN : NewFile(c, r) \in File
  BY DEF NewFile, File

\* The first state is well typed.
LEMMA TypeInit == Init => TypeInv
  <1> SUFFICES ASSUME Init PROVE TypeInv
    OBVIOUS
  <1>1. plan \in Plan /\ disk \in Disk
    BY DEF Init
  <1>3. NoFiles \in Disk
    BY DEF NoFiles, Disk
  <1>4. [p \in Paths |-> "none"] \in Delta
    BY DEF Delta, Operations
  <1> QED BY <1>1, <1>3, <1>4, BoundsAssumption
          DEF Init, TypeInv, TypeOK, Wanted, Phases

\* A failing operation uses up a trouble.
LEMMA TroubleTyped ==
    ASSUME TypeOK, Trouble PROVE attempts' \in Nat /\ troubles' \in Nat
  BY DEF TypeOK, Trouble

\* What an attempt undertakes to keep is a file or nothing.
LEMMA UndertakenTyped ==
    ASSUME TypeOK, NEW d PROVE Undertaken(d) \in Disk
  BY DEF TypeOK, Disk, Undertaken

\* Every step, of the handler and of its environment, keeps the types.
LEMMA TypeStep == TypeInv /\ [Next]_vars => TypeInv'
  <1> SUFFICES ASSUME TypeInv, [Next]_vars PROVE TypeInv'
    OBVIOUS
  <1> USE DEF TypeInv
  <1>a. NoFiles \in Disk
    BY DEF NoFiles, Disk
  <1>b. \A f \in Disk, g \in File \cup {Absent}, q \in Paths :
          [f EXCEPT ![q] = g] \in Disk
    BY DEF Disk
  <1>c. \A f \in Disk, q \in Paths : f[q] \in File \cup {Absent}
    BY DEF Disk
  <1>1. CASE Commit
    <2>1. todo' \subseteq Paths /\ delta' \in Delta /\ jobs' \subseteq Jobs
      BY <1>1, CurrentDeltaFacts DEF Commit, TypeOK, WithOperation, Jobs, Queues
    <2>2. before' \in Disk /\ touched' \subseteq Paths /\ saved' \in Disk
      BY <1>1, UndertakenTyped DEF Commit, TypeOK, Tainted
    <2> QED BY <1>1, <2>1, <2>2
            DEF Commit, TypeOK, Wanted, Phases, bounds
  <1>2. CASE BackupDone
    BY <1>2
    DEF BackupDone, TypeOK, Wanted, Phases, handlerVars, ghosts, bounds
  <1>3. CASE RenameDone
    BY <1>3
    DEF RenameDone, TypeOK, Wanted, Phases, WithOperation, handlerVars, ghosts, bounds
  <1>4. CASE CleanDone
    BY <1>4, <1>a
    DEF CleanDone, TypeOK, Wanted, Phases, handlerVars, ghosts, bounds
  <1>5. CASE UndoRenameDone
    BY <1>5
    DEF UndoRenameDone, TypeOK, Wanted, Phases, handlerVars, ghosts, bounds
  <1>6. CASE UndoBackupDone
    BY <1>6, <1>a
    DEF UndoBackupDone, Fail, TypeOK, Wanted, Phases, handlerVars, ghosts, bounds
  <1>7. ASSUME NEW p \in Paths, PrepareFile(p) PROVE TypeInv'
    <2>1. plan.new[p] \in Contents /\ p \in Paths
      BY <1>7 DEF PrepareFile, Wanted
    <2>2. PICK o \in Outcomes(p) :
            /\ jobs' = jobs \cup ({p} \X o.queues)
            /\ workspace' = IF o.lands = Absent THEN workspace
                            ELSE [workspace EXCEPT ![p] = o.lands]
            /\ unresolvable' = IF o.found THEN unresolvable ELSE unresolvable \cup {p}
      BY <1>7 DEF PrepareFile
    <2>3. o.queues \subseteq Queues /\ o.lands \in File \cup {Absent}
      BY <2>1, OutcomesTyped
    <2>4. jobs' \subseteq Jobs
      BY <2>2, <2>3 DEF TypeOK, Jobs
    <2>5. workspace' \in Disk
      BY <1>b, <2>2, <2>3 DEF TypeOK
    <2>6. unresolvable' \subseteq Paths
      BY <2>2 DEF TypeOK
    <2> QED BY <1>7, <2>4, <2>5, <2>6
            DEF PrepareFile, TypeOK, Wanted, ghosts, bounds
  <1>8. ASSUME NEW p \in Paths, BackupFile(p) PROVE TypeInv'
    BY <1>8, <1>b, <1>c DEF BackupFile, TypeOK, Wanted, bounds
  <1>9. ASSUME NEW p \in Paths, CleanFile(p) PROVE TypeInv'
    BY <1>9, <1>b DEF CleanFile, TypeOK, Wanted, handlerVars, bounds
  <1>10. ASSUME NEW p \in Paths, UndoRename(p) PROVE TypeInv'
    <2>1. /\ disk' \in Disk /\ workspace' \in Disk
          /\ stuck' \subseteq Paths
      BY <1>10, <1>b, <1>c DEF UndoRename, TypeOK
    <2>2. attempts' \in Nat /\ troubles' \in Nat
      BY <1>10, TroubleTyped DEF UndoRename, TypeOK, bounds
    <2> QED BY <1>10, <2>1, <2>2
            DEF UndoRename, TypeOK, Wanted, handlerVars
  <1>11. ASSUME NEW p \in Paths, UndoBackup(p) PROVE TypeInv'
    <2>1. /\ disk' \in Disk /\ backup' \in Disk
          /\ stuck' \subseteq Paths
      BY <1>11, <1>b, <1>c, SMTT(60) DEF UndoBackup, TypeOK
    <2>2. attempts' \in Nat /\ troubles' \in Nat
      BY <1>11, TroubleTyped DEF UndoBackup, TypeOK, bounds
    <2> QED BY <1>11, <2>1, <2>2
            DEF UndoBackup, TypeOK, Wanted, handlerVars
  <1>12. ASSUME NEW j \in Jobs, RenameOk(j) PROVE TypeInv'
    <2>1. j[1] \in Paths
      BY <1>12 DEF Jobs
    <2>2. disk' \in Disk /\ workspace' \in Disk
      BY <1>12, <1>b, <1>c, <2>1 DEF RenameOk, TypeOK
    <2>3. /\ flight' \subseteq Jobs /\ renamed' \subseteq Paths
          /\ todo' \subseteq Paths /\ late' \subseteq Paths
      BY <1>12, <2>1 DEF RenameOk, TypeOK
    <2>4. Wanted'
      BY <1>12 DEF RenameOk, Wanted
    <2> QED BY <1>12, <2>2, <2>3, <2>4 DEF RenameOk, TypeOK, bounds
  <1>13. ASSUME NEW j \in Jobs, RenameFail(j) PROVE TypeInv'
    <2>1. /\ flight' \subseteq Jobs /\ todo' \subseteq Paths /\ phase' \in Phases
          /\ phase' = "prepare" => phase = "prepare" /\ todo' = todo
      BY <1>13 DEF RenameFail, TypeOK, Phases
    <2>2. attempts' \in Nat /\ troubles' \in Nat
      BY <1>13, TroubleTyped DEF RenameFail, TypeOK, bounds
    <2> QED BY <1>13, <2>1, <2>2
            DEF RenameFail, TypeOK, Wanted, handlerVars, ghosts
  <1>14. CASE Start
    <2>1. /\ CurrentDelta \in Delta
          /\ \A q \in Paths :
               CurrentDelta[q] \in AddOps \cup {"keep"} => plan.new[q] \in Contents
      BY CurrentDeltaFacts
    <2>2. todo' \subseteq Paths /\ \A q \in todo' : plan.new[q] \in Contents
      BY <1>14, <2>1 DEF Start, WithOperation, AddOps
    <2>3. /\ delta' \in Delta /\ before' \in Disk /\ touched' \subseteq Paths
          /\ saved' \in Disk
      BY <1>14, <2>1, UndertakenTyped DEF Start, TypeOK, Tainted
    <2>4. attempts' \in Nat
      BY <1>14 DEF Start, TypeOK
    <2> QED BY <1>14, <2>2, <2>3, <2>4 DEF Start, TypeOK, Wanted, Phases
  <1>15. CASE PrepareFail
    BY <1>15, <1>a, TroubleTyped
    DEF PrepareFail, Fail, TypeOK, Wanted, Phases, handlerVars, ghosts
  <1>16. CASE BackupFail
    BY <1>16, TroubleTyped
    DEF BackupFail, TypeOK, Wanted, Phases, handlerVars, ghosts
  <1>17. CASE Crash
    BY <1>17, TroubleTyped
    DEF Crash, TypeOK, Wanted, Phases, handlerVars, ghosts
  <1>18. ASSUME NEW p \in Paths, Touch(p) PROVE TypeInv'
    <2>1. \A c \in UserContents : NewFile(c, TRUE) \in File
      BY RequestsAssumption, NewFileTyped
    <2>2. PICK f \in {Absent} \cup {NewFile(c, TRUE) : c \in UserContents} :
            disk' = [disk EXCEPT ![p] = f]
      BY <1>18 DEF Touch
    <2>3. disk' \in Disk /\ saved' \in Disk
      BY <1>18, <1>b, <2>1, <2>2 DEF Touch, TypeOK
    <2> QED BY <1>18, <2>3, TroubleTyped
            DEF Touch, TypeOK, Wanted, handlerVars
  <1>19. CASE UNCHANGED vars
    BY <1>19 DEF vars, TypeOK, Wanted
  <1> QED BY <1>1, <1>2, <1>3, <1>4, <1>5, <1>6, <1>7, <1>8, <1>9, <1>10, <1>11, <1>12, <1>13, <1>14, <1>15, <1>16, <1>17, <1>18, <1>19
          DEF Next, Handler, Environment

\* Every reachable state is well typed, for every set of paths and contents:
\* in particular no queue, loop or backup names a path the update does not
\* know, and what is prepared, moved and restored is always a whole file.
THEOREM TypeCorrect == Spec => []TypeOK
  <1>1. Spec => []TypeInv
    BY TypeInit, TypeStep, PTL DEF Spec
  <1>2. TypeInv => TypeOK
    BY DEF TypeInv
  <1> QED BY <1>1, <1>2, PTL
-----------------------------------------------------------------------------
(***************************************************************************)
(* What an attempt keeps.  AttemptKeeps only says that a file it owes is   *)
(* in the instance or in the backup folder.  That survives a step only     *)
(* because of what else is known: while it has not been backed up no       *)
(* rename in flight aims at its path, and the rollback, which moves        *)
(* renamed files away and overwrites what it restores, only ever visits    *)
(* paths that were renamed or backed up.                                   *)
(***************************************************************************)

\* The paths that a rename of the current attempt may already have replaced,
\* or may still replace.
Landing == PathsOf(flight) \cup renamed

\* What the handler has lost control of: paths a move of the rollback failed
\* on, and paths a rename hit when the rollback was past them.
astray == stuck \cup late

\* Paths whose fate is the handler's alone.
Untouched == Paths \ (touched \cup astray)

\* A changed file of such a path is kept by the attempt that found it.
AttemptKeeps ==
    \A p \in Untouched :
      delta[p] \in PreserveOps => before[p] \in {disk[p], backup[p]}

\* The files this attempt answers for.
OwedPaths == {p \in Untouched : delta[p] \in PreserveOps}

\* Before the commit the attempt has moved nothing in the instance.
BeforeCommit ==
    phase \in {"idle", "prepare"} =>
      /\ flight = {} /\ backedUp = {} /\ renamed = {} /\ astray = {}
      /\ \A p \in Paths \ touched : disk[p] = before[p]

\* What the loops still have to visit, and what may be in flight.
Loops ==
    /\ flight \subseteq jobs
    /\ phase \in {"backup", "clean", "done", "crashed"} => flight = {}
    /\ phase = "backup" => todo \cap backedUp = {} /\ renamed = {}
    /\ phase = "undoRename" => todo \subseteq renamed
    /\ phase = "undoBackup" => todo \subseteq backedUp
    /\ phase = "clean" => todo \subseteq {p \in Paths : delta[p] = "remove"}

\* An owed file that was not moved to the backup folder is still in place,
\* and no rename aims at it, except that it may wait for its backup.
NotBackedUp ==
    \A p \in OwedPaths \ backedUp :
      /\ before[p] # Absent
      /\ phase # "crashed" => disk[p] = before[p]
      /\ phase = "backup" => p \in todo \/ p \notin PathsOf(jobs)
      /\ phase # "crashed" => p \notin Landing

\* An owed file in the backup folder stays there until the rollback has
\* moved it back.
BackedUp ==
    \A p \in OwedPaths \cap backedUp :
      /\ \/ phase \in {"backup", "rename", "clean", "undoRename", "done"}
         \/ phase = "undoBackup" /\ p \in todo
         => backup[p] = before[p]
      /\ \/ phase = "failed"
         \/ phase = "undoBackup" /\ p \notin todo
         => disk[p] = before[p]

\* What an attempt decided to preserve was there when it decided.
SomethingToPreserve ==
    \A p \in Paths : delta[p] \in PreserveOps => before[p] # Absent

IInv ==
    /\ TypeInv
    /\ SomethingToPreserve
    /\ BeforeCommit
    /\ Loops
    /\ NotBackedUp
    /\ BackedUp
    /\ phase = "crashed" => AttemptKeeps

\* Nothing is owed before the first attempt.
LEMMA IInvInit == Init => IInv
  BY TypeInit DEF Init, IInv, astray, SomethingToPreserve, BeforeCommit, Loops, NotBackedUp,
                  BackedUp, OwedPaths, Untouched, PreserveOps, Landing, PathsOf

\* What the invariant says of an owed file, phase by phase, keeps it.
LEMMA IInvKeeps == IInv => AttemptKeeps
  <1> SUFFICES ASSUME IInv, NEW p \in Untouched, delta[p] \in PreserveOps
               PROVE  before[p] \in {disk[p], backup[p]}
    BY DEF AttemptKeeps
  <1>1. p \in OwedPaths /\ p \in Paths
    BY DEF OwedPaths, Untouched
  <1>2. CASE phase = "crashed"
    BY <1>2 DEF IInv, AttemptKeeps
  <1>3. CASE phase # "crashed" /\ p \notin backedUp
    BY <1>1, <1>3 DEF IInv, NotBackedUp
  <1>4. CASE phase # "crashed" /\ p \in backedUp
    <2>1. phase \in Phases \ {"idle", "prepare", "crashed"}
      BY <1>4 DEF IInv, TypeInv, TypeOK, BeforeCommit
    <2>2. p \in OwedPaths \cap backedUp
      BY <1>1, <1>4
    <2> QED BY <2>1, <2>2 DEF IInv, BackedUp, Phases
  <1> QED BY <1>2, <1>3, <1>4

\* Every step keeps the invariant, conjunct by conjunct.
LEMMA IInvStep == IInv /\ [Next]_vars => IInv'
  <1> SUFFICES ASSUME IInv, [Next]_vars PROVE IInv'
    OBVIOUS
  <1> USE DEF astray
  <1> DEFINE Rest == /\ SomethingToPreserve /\ BeforeCommit /\ Loops
                     /\ NotBackedUp /\ BackedUp
                     /\ phase = "crashed" => AttemptKeeps
  <1>a. TypeInv'
    BY TypeStep DEF IInv
  <1>b. TypeOK /\ Wanted /\ Rest /\ AttemptKeeps
    BY IInvKeeps DEF IInv, TypeInv
  <1>c. disk \in Disk /\ workspace \in Disk /\ backup \in Disk
    BY <1>b DEF TypeOK
  <1> SUFFICES Rest'
    BY <1>a DEF IInv
  <1>1. CASE Commit
    <2>1. SomethingToPreserve'
      <3>1. \/ delta' = delta /\ before' = before
            \/ delta' = CurrentDelta /\ before' = disk
        BY <1>1 DEF Commit
      <3> QED BY <1>b, <3>1, CurrentDeltaFacts DEF SomethingToPreserve
    <2>2. BeforeCommit'
      BY <1>1, <1>b DEF Commit, BeforeCommit
    <2>3. Loops'
      BY <1>1, <1>b DEF Commit, Loops, BeforeCommit
    <2>4. NotBackedUp'
      <3>1. flight' = {} /\ renamed' = {} /\ disk' = disk /\ phase' = "backup"
        BY <1>1, <1>b DEF Commit, BeforeCommit
      <3>2. ASSUME NEW q \in OwedPaths', q \notin backedUp'
            PROVE  /\ before'[q] # Absent
                   /\ disk'[q] = before'[q]
                   /\ q \in todo' \/ q \notin PathsOf(jobs')
        <4>1. q \in Paths /\ q \notin touched' /\ delta'[q] \in PreserveOps
          BY <3>2 DEF OwedPaths, Untouched
        <4>2. before'[q] # Absent
          BY <2>1, <4>1 DEF SomethingToPreserve
        <4>3. CASE plan.mode = "locked"
          BY <1>1, <1>b, <4>1, <4>2, <4>3
          DEF Commit, BeforeCommit, WithOperation, BackupOps, PreserveOps
        <4>4. CASE plan.mode # "locked"
          <5>1. /\ delta' = CurrentDelta /\ before' = disk /\ disk' = disk
                /\ todo' = WithOperation(delta', BackupOps)
                            \ (WithOperation(delta', {"backup-add"}) \cap unresolvable)
                /\ jobs' = (WithOperation(delta', AddOps) \ unresolvable) \X {"update"}
            BY <1>1, <4>4 DEF Commit
          <5>2. q \in PathsOf(jobs') => delta'[q] \in AddOps /\ q \notin unresolvable
            BY <5>1 DEF PathsOf, WithOperation
          <5>3. q \in PathsOf(jobs') => q \in todo'
            BY <4>1, <5>1, <5>2 DEF WithOperation, BackupOps, PreserveOps
          <5> QED BY <4>2, <5>1, <5>3
        <4> QED BY <4>3, <4>4
      <3> QED BY <3>1, <3>2 DEF NotBackedUp, Landing, PathsOf
    <2>5. BackedUp'
      BY <1>1, <1>b DEF Commit, BackedUp, OwedPaths, Untouched, BeforeCommit
    <2>6. (phase = "crashed" => AttemptKeeps)'
      BY <1>1, <1>b DEF Commit, AttemptKeeps, Untouched
    <2> QED BY <2>1, <2>2, <2>3, <2>4, <2>5, <2>6
  <1>2. CASE BackupDone
    <2>1. SomethingToPreserve'
      BY <1>2, <1>b DEF BackupDone, handlerVars, ghosts, SomethingToPreserve
    <2>2. BeforeCommit'
      BY <1>2, <1>b DEF BackupDone, handlerVars, ghosts, BeforeCommit
    <2>3. Loops'
      BY <1>2, <1>b DEF BackupDone, handlerVars, ghosts, Loops
    <2>4. NotBackedUp'
      BY <1>2, <1>b DEF BackupDone, handlerVars, ghosts, NotBackedUp, Landing,
          OwedPaths, Untouched
    <2>5. BackedUp'
      BY <1>2, <1>b DEF BackupDone, handlerVars, ghosts, BackedUp, OwedPaths,
          Untouched
    <2>6. (phase = "crashed" => AttemptKeeps)'
      BY <1>2, <1>b DEF BackupDone, handlerVars, ghosts, AttemptKeeps,
          Untouched
    <2> QED BY <2>1, <2>2, <2>3, <2>4, <2>5, <2>6
  <1>3. CASE RenameDone
    <2>1. SomethingToPreserve'
      BY <1>3, <1>b DEF RenameDone, handlerVars, ghosts, SomethingToPreserve
    <2>2. BeforeCommit'
      BY <1>3, <1>b DEF RenameDone, handlerVars, ghosts, BeforeCommit
    <2>3. Loops'
      BY <1>3, <1>b DEF RenameDone, handlerVars, ghosts, Loops, WithOperation
    <2>4. NotBackedUp'
      BY <1>3, <1>b DEF RenameDone, handlerVars, ghosts, NotBackedUp, Landing,
          OwedPaths, Untouched
    <2>5. BackedUp'
      BY <1>3, <1>b DEF RenameDone, handlerVars, ghosts, BackedUp, OwedPaths,
          Untouched
    <2>6. (phase = "crashed" => AttemptKeeps)'
      BY <1>3, <1>b DEF RenameDone, handlerVars, ghosts, AttemptKeeps,
          Untouched
    <2> QED BY <2>1, <2>2, <2>3, <2>4, <2>5, <2>6
  <1>4. CASE CleanDone
    <2>1. SomethingToPreserve'
      BY <1>4, <1>b DEF CleanDone, handlerVars, ghosts, SomethingToPreserve
    <2>2. BeforeCommit'
      BY <1>4, <1>b DEF CleanDone, handlerVars, ghosts, BeforeCommit
    <2>3. Loops'
      BY <1>4, <1>b DEF CleanDone, handlerVars, ghosts, Loops
    <2>4. NotBackedUp'
      BY <1>4, <1>b DEF CleanDone, handlerVars, ghosts, NotBackedUp, Landing,
          OwedPaths, Untouched
    <2>5. BackedUp'
      BY <1>4, <1>b DEF CleanDone, handlerVars, ghosts, BackedUp, OwedPaths,
          Untouched
    <2>6. (phase = "crashed" => AttemptKeeps)'
      BY <1>4, <1>b DEF CleanDone, handlerVars, ghosts, AttemptKeeps,
          Untouched
    <2> QED BY <2>1, <2>2, <2>3, <2>4, <2>5, <2>6
  <1>5. CASE UndoRenameDone
    <2>1. SomethingToPreserve'
      BY <1>5, <1>b DEF UndoRenameDone, handlerVars, ghosts, SomethingToPreserve
    <2>2. BeforeCommit'
      BY <1>5, <1>b DEF UndoRenameDone, handlerVars, ghosts, BeforeCommit
    <2>3. Loops'
      BY <1>5, <1>b DEF UndoRenameDone, handlerVars, ghosts, Loops
    <2>4. NotBackedUp'
      BY <1>5, <1>b DEF UndoRenameDone, handlerVars, ghosts, NotBackedUp,
          Landing, OwedPaths, Untouched
    <2>5. BackedUp'
      BY <1>5, <1>b DEF UndoRenameDone, handlerVars, ghosts, BackedUp,
          OwedPaths, Untouched
    <2>6. (phase = "crashed" => AttemptKeeps)'
      BY <1>5, <1>b DEF UndoRenameDone, handlerVars, ghosts, AttemptKeeps,
          Untouched
    <2> QED BY <2>1, <2>2, <2>3, <2>4, <2>5, <2>6
  <1>6. CASE UndoBackupDone
    <2>1. SomethingToPreserve'
      BY <1>6, <1>b DEF UndoBackupDone, handlerVars, ghosts, Fail,
          SomethingToPreserve
    <2>2. BeforeCommit'
      BY <1>6, <1>b DEF UndoBackupDone, handlerVars, ghosts, Fail, BeforeCommit
    <2>3. Loops'
      BY <1>6, <1>b DEF UndoBackupDone, handlerVars, ghosts, Fail, Loops
    <2>4. NotBackedUp'
      BY <1>6, <1>b DEF UndoBackupDone, handlerVars, ghosts, Fail, NotBackedUp,
          Landing, OwedPaths, Untouched
    <2>5. BackedUp'
      BY <1>6, <1>b DEF UndoBackupDone, handlerVars, ghosts, Fail, BackedUp,
          OwedPaths, Untouched
    <2>6. (phase = "crashed" => AttemptKeeps)'
      BY <1>6, <1>b DEF UndoBackupDone, handlerVars, ghosts, Fail,
          AttemptKeeps, Untouched
    <2> QED BY <2>1, <2>2, <2>3, <2>4, <2>5, <2>6
  <1>7. ASSUME NEW p \in Paths, PrepareFile(p) PROVE Rest'
    <2>1. SomethingToPreserve'
      BY <1>7, <1>b DEF PrepareFile, ghosts, SomethingToPreserve
    <2>2. BeforeCommit'
      BY <1>7, <1>b DEF PrepareFile, ghosts, BeforeCommit
    <2>3. Loops'
      BY <1>7, <1>b DEF PrepareFile, ghosts, Loops
    <2>4. NotBackedUp'
      BY <1>7, <1>b DEF PrepareFile, ghosts, NotBackedUp, Landing, OwedPaths,
          Untouched
    <2>5. BackedUp'
      BY <1>7, <1>b DEF PrepareFile, ghosts, BackedUp, OwedPaths, Untouched
    <2>6. (phase = "crashed" => AttemptKeeps)'
      BY <1>7, <1>b DEF PrepareFile, ghosts, AttemptKeeps, Untouched
    <2> QED BY <2>1, <2>2, <2>3, <2>4, <2>5, <2>6
  <1>8. ASSUME NEW p \in Paths, BackupFile(p) PROVE Rest'
    <2>1. SomethingToPreserve'
      BY <1>8, <1>b DEF BackupFile, ghosts, SomethingToPreserve
    <2>2. BeforeCommit'
      BY <1>8, <1>b DEF BackupFile, ghosts, BeforeCommit
    <2>3. Loops'
      BY <1>8, <1>b DEF BackupFile, ghosts, Loops
    <2>4. NotBackedUp'
      <3>1. OwedPaths' = OwedPaths /\ Landing' = Landing /\ PathsOf(jobs') = PathsOf(jobs)
        BY <1>8 DEF BackupFile, ghosts, OwedPaths, Untouched, Landing
      <3>2. ASSUME NEW q \in OwedPaths, q \notin backedUp'
            PROVE  /\ q \notin backedUp /\ q # p
                   /\ disk'[q] = disk[q]
        <4>1. q \in Paths /\ q \notin backedUp
          BY <1>8, <3>2 DEF BackupFile, OwedPaths, Untouched
        <4>2. disk[q] # Absent
          BY <1>8, <1>b, <3>2, <4>1 DEF BackupFile, NotBackedUp
        <4>3. q # p
          BY <1>8, <3>2, <4>2 DEF BackupFile
        <4> QED BY <1>8, <1>c, <4>1, <4>3 DEF BackupFile, Disk
      <3> QED BY <1>8, <1>b, <3>1, <3>2 DEF BackupFile, NotBackedUp, ghosts
    <2>5. BackedUp'
      <3>1. ASSUME NEW q \in OwedPaths, q \in backedUp'
            PROVE  backup'[q] = before[q]
        <4>1. q \in Paths
          BY <3>1 DEF OwedPaths, Untouched
        <4>2. CASE q \in backedUp
          BY <1>8, <1>b, <1>c, <4>1, <4>2, <3>1
          DEF BackupFile, BackedUp, Loops, Disk
        <4>3. CASE q \notin backedUp
          <5>1. q = p /\ disk[p] # Absent
            BY <1>8, <3>1, <4>3 DEF BackupFile
          <5>2. disk[p] = before[p]
            BY <1>8, <1>b, <3>1, <4>3, <5>1 DEF BackupFile, NotBackedUp
          <5> QED BY <1>8, <1>c, <5>1, <5>2 DEF BackupFile, Disk
        <4> QED BY <4>2, <4>3
      <3> QED BY <1>8, <3>1 DEF BackupFile, BackedUp, ghosts, OwedPaths, Untouched
    <2>6. (phase = "crashed" => AttemptKeeps)'
      BY <1>8, <1>b DEF BackupFile, ghosts, AttemptKeeps, Untouched
    <2> QED BY <2>1, <2>2, <2>3, <2>4, <2>5, <2>6
  <1>9. ASSUME NEW p \in Paths, CleanFile(p) PROVE Rest'
    <2>1. SomethingToPreserve'
      BY <1>9, <1>b DEF CleanFile, handlerVars, ghosts, SomethingToPreserve
    <2>2. BeforeCommit'
      BY <1>9, <1>b DEF CleanFile, handlerVars, ghosts, BeforeCommit
    <2>3. Loops'
      BY <1>9, <1>b DEF CleanFile, handlerVars, ghosts, Loops
    <2>4. NotBackedUp'
      BY <1>9, <1>b DEF CleanFile, handlerVars, ghosts, NotBackedUp, Landing,
          OwedPaths, Untouched
    <2>5. BackedUp'
      <3>1. ASSUME NEW q \in OwedPaths, q \in backedUp
            PROVE  backup'[q] = before[q]
        <4>1. q \in Paths /\ delta[q] \in PreserveOps /\ delta[p] = "remove"
          BY <1>9, <1>b, <3>1 DEF CleanFile, Loops, OwedPaths, Untouched
        <4>2. q # p
          BY <4>1 DEF PreserveOps
        <4>3. backup[q] = before[q]
          BY <1>9, <1>b, <3>1 DEF CleanFile, BackedUp
        <4> QED BY <1>9, <1>c, <4>1, <4>2, <4>3 DEF CleanFile, Disk
      <3> QED BY <1>9, <3>1
              DEF CleanFile, BackedUp, handlerVars, ghosts, OwedPaths, Untouched
    <2>6. (phase = "crashed" => AttemptKeeps)'
      BY <1>9, <1>b DEF CleanFile, handlerVars, ghosts, AttemptKeeps,
          Untouched
    <2> QED BY <2>1, <2>2, <2>3, <2>4, <2>5, <2>6
  <1>10. ASSUME NEW p \in Paths, UndoRename(p) PROVE Rest'
    <2>1. SomethingToPreserve'
      BY <1>10, <1>b DEF UndoRename, handlerVars, SomethingToPreserve
    <2>2. BeforeCommit'
      BY <1>10, <1>b DEF UndoRename, handlerVars, BeforeCommit
    <2>3. Loops'
      BY <1>10, <1>b DEF UndoRename, handlerVars, Loops
    <2>4. NotBackedUp'
      <3>1. ASSUME NEW q \in OwedPaths', q \notin backedUp'
            PROVE  q \in OwedPaths /\ q \notin backedUp /\ disk'[q] = disk[q]
        <4>1. q \in OwedPaths /\ q \in Paths /\ q \notin backedUp
          BY <1>10, <3>1 DEF UndoRename, handlerVars, OwedPaths, Untouched
        <4>2. q # p
          BY <1>10, <1>b, <4>1 DEF UndoRename, NotBackedUp, Landing, Loops
        <4> QED BY <1>10, <1>c, <4>1, <4>2 DEF UndoRename, Disk
      <3> QED BY <1>10, <1>b, <3>1
              DEF UndoRename, handlerVars, NotBackedUp, Landing
    <2>5. BackedUp'
      BY <1>10, <1>b DEF UndoRename, handlerVars, BackedUp, OwedPaths, Untouched
    <2>6. (phase = "crashed" => AttemptKeeps)'
      BY <1>10, <1>b DEF UndoRename, handlerVars, AttemptKeeps, Untouched
    <2> QED BY <2>1, <2>2, <2>3, <2>4, <2>5, <2>6
  <1>11. ASSUME NEW p \in Paths, UndoBackup(p) PROVE Rest'
    <2>1. SomethingToPreserve'
      BY <1>11, <1>b DEF UndoBackup, handlerVars, SomethingToPreserve
    <2>2. BeforeCommit'
      BY <1>11, <1>b DEF UndoBackup, handlerVars, BeforeCommit
    <2>3. Loops'
      BY <1>11, <1>b DEF UndoBackup, handlerVars, Loops
    <2>4. NotBackedUp'
      <3>1. ASSUME NEW q \in OwedPaths', q \notin backedUp'
            PROVE  q \in OwedPaths /\ q \notin backedUp /\ disk'[q] = disk[q]
        <4>1. q \in OwedPaths /\ q \in Paths /\ q \notin backedUp
          BY <1>11, <3>1 DEF UndoBackup, handlerVars, OwedPaths, Untouched
        <4>2. q # p
          BY <1>11, <1>b, <4>1 DEF UndoBackup, Loops
        <4> QED BY <1>11, <1>c, <4>1, <4>2 DEF UndoBackup, Disk
      <3> QED BY <1>11, <1>b, <3>1
              DEF UndoBackup, handlerVars, NotBackedUp, Landing
    <2>5. BackedUp'
      <3>1. ASSUME NEW q \in OwedPaths', q \in backedUp'
            PROVE  IF q \in todo' THEN backup'[q] = before'[q]
                                  ELSE disk'[q] = before'[q]
        <4>1. q \in OwedPaths /\ q \in Paths /\ q \in backedUp /\ q \notin astray'
          BY <1>11, <3>1 DEF UndoBackup, handlerVars, OwedPaths, Untouched
        <4>2. CASE q = p
          <5>1. q \notin todo' /\ backup[q] = before[q] /\ before' = before
            BY <1>11, <1>b, <4>1, <4>2 DEF UndoBackup, BackedUp
          <5>2. disk' = [disk EXCEPT ![p] = backup[p]]
            BY <1>11, <4>1, <4>2 DEF UndoBackup
          <5> QED BY <1>c, <4>1, <4>2, <5>1, <5>2 DEF Disk
        <4>3. CASE q # p
          <5>1. disk'[q] = disk[q] /\ backup'[q] = backup[q]
            BY <1>11, <1>c, <4>1, <4>3 DEF UndoBackup, Disk
          <5> QED BY <1>11, <1>b, <4>1, <4>3, <5>1 DEF UndoBackup, BackedUp
        <4> QED BY <4>2, <4>3
      <3> QED BY <1>11, <3>1 DEF UndoBackup, BackedUp
    <2>6. (phase = "crashed" => AttemptKeeps)'
      BY <1>11, <1>b DEF UndoBackup, handlerVars, AttemptKeeps, Untouched
    <2> QED BY <2>1, <2>2, <2>3, <2>4, <2>5, <2>6
  <1>12. ASSUME NEW j \in Jobs, RenameOk(j) PROVE Rest'
    <2>1. SomethingToPreserve'
      BY <1>12, <1>b DEF RenameOk, SomethingToPreserve
    <2>2. BeforeCommit'
      BY <1>12, <1>b DEF RenameOk, BeforeCommit
    <2>3. Loops'
      BY <1>12, <1>b DEF RenameOk, Loops
    <2>4. NotBackedUp'
      BY <1>12, <1>b DEF RenameOk, NotBackedUp, Landing, OwedPaths, Untouched,
          PathsOf, Loops
    <2>5. BackedUp'
      BY <1>12, <1>b DEF RenameOk, BackedUp, OwedPaths, Untouched
    <2>6. (phase = "crashed" => AttemptKeeps)'
      BY <1>12, <1>b DEF RenameOk, AttemptKeeps, Untouched
    <2> QED BY <2>1, <2>2, <2>3, <2>4, <2>5, <2>6
  <1>13. ASSUME NEW j \in Jobs, RenameFail(j) PROVE Rest'
    <2>1. SomethingToPreserve'
      BY <1>13, <1>b DEF RenameFail, handlerVars, ghosts, SomethingToPreserve
    <2>2. BeforeCommit'
      BY <1>13, <1>b DEF RenameFail, handlerVars, ghosts, BeforeCommit
    <2>3. Loops'
      BY <1>13, <1>b DEF RenameFail, handlerVars, ghosts, Loops
    <2>4. NotBackedUp'
      BY <1>13, <1>b DEF RenameFail, handlerVars, ghosts, NotBackedUp, Landing,
          OwedPaths, Untouched, PathsOf
    <2>5. BackedUp'
      BY <1>13, <1>b DEF RenameFail, handlerVars, ghosts, BackedUp, OwedPaths,
          Untouched
    <2>6. (phase = "crashed" => AttemptKeeps)'
      BY <1>13, <1>b DEF RenameFail, handlerVars, ghosts, AttemptKeeps,
          Untouched
    <2> QED BY <2>1, <2>2, <2>3, <2>4, <2>5, <2>6
  <1>14. CASE Start
    <2>1. SomethingToPreserve'
      BY <1>14, <1>b, CurrentDeltaFacts DEF Start, SomethingToPreserve
    <2>2. BeforeCommit'
      BY <1>14, <1>b DEF Start, BeforeCommit
    <2>3. Loops'
      BY <1>14, <1>b DEF Start, Loops
    <2>4. NotBackedUp'
      <3>1. \A q \in OwedPaths' : before'[q] # Absent /\ disk'[q] = before'[q]
        BY <1>14, <2>1 DEF Start, SomethingToPreserve, OwedPaths, Untouched
      <3>2. Landing' = {}
        BY <1>14 DEF Start, Landing, PathsOf
      <3> QED BY <1>14, <3>1, <3>2 DEF Start, NotBackedUp
    <2>5. BackedUp'
      BY <1>14, <1>b DEF Start, BackedUp, OwedPaths, Untouched
    <2>6. (phase = "crashed" => AttemptKeeps)'
      BY <1>14, <1>b DEF Start, AttemptKeeps, Untouched
    <2> QED BY <2>1, <2>2, <2>3, <2>4, <2>5, <2>6
  <1>15. CASE PrepareFail
    <2>1. SomethingToPreserve'
      BY <1>15, <1>b DEF PrepareFail, handlerVars, ghosts, Fail,
          SomethingToPreserve
    <2>2. BeforeCommit'
      BY <1>15, <1>b DEF PrepareFail, handlerVars, ghosts, Fail, BeforeCommit
    <2>3. Loops'
      BY <1>15, <1>b DEF PrepareFail, handlerVars, ghosts, Fail, Loops
    <2>4. NotBackedUp'
      BY <1>15, <1>b DEF PrepareFail, handlerVars, ghosts, Fail, NotBackedUp,
          Landing, OwedPaths, Untouched
    <2>5. BackedUp'
      BY <1>15, <1>b DEF PrepareFail, handlerVars, ghosts, Fail, BackedUp,
          OwedPaths, Untouched, BeforeCommit
    <2>6. (phase = "crashed" => AttemptKeeps)'
      BY <1>15, <1>b DEF PrepareFail, handlerVars, ghosts, Fail,
          AttemptKeeps, Untouched
    <2> QED BY <2>1, <2>2, <2>3, <2>4, <2>5, <2>6
  <1>16. CASE BackupFail
    <2>1. SomethingToPreserve'
      BY <1>16, <1>b DEF BackupFail, handlerVars, ghosts, SomethingToPreserve
    <2>2. BeforeCommit'
      BY <1>16, <1>b DEF BackupFail, handlerVars, ghosts, BeforeCommit
    <2>3. Loops'
      BY <1>16, <1>b DEF BackupFail, handlerVars, ghosts, Loops
    <2>4. NotBackedUp'
      BY <1>16, <1>b DEF BackupFail, handlerVars, ghosts, NotBackedUp, Landing,
          OwedPaths, Untouched
    <2>5. BackedUp'
      BY <1>16, <1>b DEF BackupFail, handlerVars, ghosts, BackedUp, OwedPaths,
          Untouched
    <2>6. (phase = "crashed" => AttemptKeeps)'
      BY <1>16, <1>b DEF BackupFail, handlerVars, ghosts, AttemptKeeps,
          Untouched
    <2> QED BY <2>1, <2>2, <2>3, <2>4, <2>5, <2>6
  <1>17. CASE Crash
    <2>1. SomethingToPreserve'
      BY <1>17, <1>b DEF Crash, handlerVars, ghosts, SomethingToPreserve
    <2>2. BeforeCommit'
      BY <1>17, <1>b DEF Crash, handlerVars, ghosts, BeforeCommit
    <2>3. Loops'
      BY <1>17, <1>b DEF Crash, handlerVars, ghosts, Loops
    <2>4. NotBackedUp'
      BY <1>17, <1>b DEF Crash, handlerVars, ghosts, NotBackedUp, Landing,
          OwedPaths, Untouched
    <2>5. BackedUp'
      BY <1>17, <1>b DEF Crash, handlerVars, ghosts, BackedUp, OwedPaths,
          Untouched
    <2>6. (phase = "crashed" => AttemptKeeps)'
      BY <1>17, <1>b DEF Crash, handlerVars, ghosts, AttemptKeeps, Untouched
    <2> QED BY <2>1, <2>2, <2>3, <2>4, <2>5, <2>6
  <1>18. ASSUME NEW p \in Paths, Touch(p) PROVE Rest'
    <2>1. SomethingToPreserve'
      BY <1>18, <1>b DEF Touch, handlerVars, SomethingToPreserve
    <2>2. BeforeCommit'
      <3>a. PICK f : disk' = [disk EXCEPT ![p] = f]
        BY <1>18 DEF Touch
      <3>1. \A q \in Paths \ {p} : disk'[q] = disk[q]
        BY <3>a, <1>c DEF Disk
      <3> QED BY <1>18, <1>b, <3>1 DEF Touch, handlerVars, BeforeCommit
    <2>3. Loops'
      BY <1>18, <1>b DEF Touch, handlerVars, Loops
    <2>4. NotBackedUp'
      <3>1. \A q \in OwedPaths' : q \in OwedPaths /\ q \in Paths /\ q # p
        BY <1>18 DEF Touch, handlerVars, OwedPaths, Untouched
      <3>a. PICK f : disk' = [disk EXCEPT ![p] = f]
        BY <1>18 DEF Touch
      <3>2. \A q \in OwedPaths' : disk'[q] = disk[q]
        BY <3>a, <1>c, <3>1 DEF Disk
      <3> QED BY <1>18, <1>b, <3>1, <3>2 DEF Touch, handlerVars, NotBackedUp, Landing
    <2>5. BackedUp'
      <3>1. \A q \in OwedPaths' : q \in OwedPaths /\ q \in Paths /\ q # p
        BY <1>18 DEF Touch, handlerVars, OwedPaths, Untouched
      <3>a. PICK f : disk' = [disk EXCEPT ![p] = f]
        BY <1>18 DEF Touch
      <3>2. \A q \in OwedPaths' : disk'[q] = disk[q]
        BY <3>a, <1>c, <3>1 DEF Disk
      <3> QED BY <1>18, <1>b, <3>1, <3>2 DEF Touch, handlerVars, BackedUp
    <2>6. (phase = "crashed" => AttemptKeeps)'
      <3>a. PICK f : disk' = [disk EXCEPT ![p] = f]
        BY <1>18 DEF Touch
      <3>1. \A q \in Untouched' : q \in Untouched /\ disk'[q] = disk[q]
        BY <1>18, <3>a, <1>c DEF Touch, Untouched, Disk
      <3> QED BY <1>18, <1>b, <3>1 DEF Touch, handlerVars, AttemptKeeps
    <2> QED BY <2>1, <2>2, <2>3, <2>4, <2>5, <2>6
  <1>19. CASE UNCHANGED vars
    BY <1>19, <1>b DEF vars, SomethingToPreserve, BeforeCommit, Loops, NotBackedUp, BackedUp, OwedPaths, Untouched, Landing, PathsOf, AttemptKeeps
  <1> QED BY <1>1, <1>2, <1>3, <1>4, <1>5, <1>6, <1>7, <1>8, <1>9, <1>10, <1>11, <1>12, <1>13, <1>14, <1>15, <1>16, <1>17, <1>18, <1>19
          DEF Next, Handler, Environment
-----------------------------------------------------------------------------
(***************************************************************************)
(* Changed files across attempts.  The invariant above forgets, with each  *)
(* attempt, what the one before it had saved.  What an earlier attempt     *)
(* left in the backup folder stays there because the later ones leave that *)
(* place alone, put another file there (displaced), or drop it (displaced, *)
(* too); what it left or put back in the instance is a file that the next  *)
(* delta preserves again.                                                  *)
(***************************************************************************)

\* The changed files that the attempts of this update still answer for.
KeptPaths == {p \in Paths \ (late \cup displaced) : saved[p] # Absent}

\* What is kept is a file that the manifests would have preserved.
Preserved ==
    \A p \in Paths : saved[p] # Absent =>
      OperationOn(saved[p], plan.old[p], plan.new[p], plan.timed) \in PreserveOps

\* A kept file that is not in the backup folder is about to be moved there,
\* or nothing is going to be renamed onto it.
Due ==
    \A p \in KeptPaths \ HeldInBackup :
      /\ phase = "prepare" => delta[p] \in PreserveOps
      /\ phase = "backup" => p \in todo \/ p \notin PathsOf(jobs)
      /\ phase \in {"rename", "undoRename"} => p \notin Landing

\* What this attempt moved to the backup folder stays there until the
\* rollback moves it back.
Guarded ==
    \A p \in KeptPaths \cap backedUp :
      phase \in {"backup", "rename", "undoRename"} \/ (phase = "undoBackup" /\ p \in todo)
        => p \in HeldInBackup

\* The plain removals, whose backups are dropped, have not moved a kept file.
Dropping ==
    \A p \in KeptPaths : delta[p] = "remove" => p \in HeldInBackup /\ p \notin backedUp

Keeping == ChangedFilesKept /\ Preserved /\ Due /\ Guarded /\ Dropping

LEMMA KeepingInit == Init => Keeping
  BY DEF Init, Keeping, ChangedFilesKept, Preserved, Due, Guarded, Dropping, KeptPaths,
         NoFiles

\* What an attempt takes over from the earlier ones, or finds, is a file its
\* delta preserves, unless it is in the backup folder already.
LEMMA UndertakenKept ==
    ASSUME TypeOK, ChangedFilesKept, Preserved, NEW p \in Paths,
           Undertaken(CurrentDelta)[p] # Absent
    PROVE  LET file == Undertaken(CurrentDelta)[p]
           IN  /\ \/ backup[p] = file
                  \/ disk[p] = file /\ CurrentDelta[p] \in PreserveOps
               /\ CurrentDelta[p] \in PreserveOps \/ backup[p] = file
               /\ OperationOn(file, plan.old[p], plan.new[p], plan.timed) \in PreserveOps
  <1>1. CurrentDelta[p] = OperationOn(disk[p], plan.old[p], plan.new[p], plan.timed)
    BY DEF CurrentDelta, computeFileUpdates
  <1>2. CASE saved[p] # Absent /\ p \notin late \cup displaced
    <2>1. Undertaken(CurrentDelta)[p] = saved[p]
      BY <1>2 DEF Undertaken
    <2>2. saved[p] \in {disk[p], backup[p]}
      BY <1>2 DEF ChangedFilesKept
    <2>3. OperationOn(saved[p], plan.old[p], plan.new[p], plan.timed) \in PreserveOps
      BY <1>2 DEF Preserved
    <2> QED BY <1>1, <2>1, <2>2, <2>3
  <1>3. CASE ~(saved[p] # Absent /\ p \notin late \cup displaced)
    <2>1. CurrentDelta[p] \in PreserveOps /\ Undertaken(CurrentDelta)[p] = disk[p]
      BY <1>3 DEF Undertaken
    <2> QED BY <1>1, <2>1
  <1> QED BY <1>2, <1>3

\* A step that moves no file, and begins no loop but the first of a rollback
\* or the renames that the backups have made safe.
LEMMA KeepingKept ==
    ASSUME Keeping,
           UNCHANGED <<plan, disk, backup, delta, backedUp, renamed, late, displaced, saved>>,
           phase' = "prepare" \/ jobs' = jobs,
           phase' = "prepare" => phase = "prepare",
           phase' = "backup" => phase = "backup" /\ todo' = todo,
           phase' \in {"rename", "undoRename"} =>
             \/ phase \in {"rename", "undoRename"} /\ flight' \subseteq flight
             \/ phase = "backup" /\ todo = {} /\ renamed = {} /\ flight' \subseteq jobs,
           phase' = "undoBackup" =>
             \/ phase \in {"backup", "rename", "undoRename"}
             \/ phase = "undoBackup" /\ todo' \subseteq todo
    PROVE  Keeping'
  <1>1. KeptPaths' = KeptPaths /\ HeldInBackup' = HeldInBackup
    BY DEF KeptPaths, HeldInBackup
  <1>2. ChangedFilesKept' /\ Preserved'
    BY DEF Keeping, ChangedFilesKept, Preserved
  <1>3. Due'
    BY <1>1 DEF Keeping, Due, Landing, PathsOf
  <1>4. Guarded' /\ Dropping'
    BY <1>1 DEF Keeping, Guarded, Dropping
  <1> QED BY <1>2, <1>3, <1>4 DEF Keeping

\* A step that moves or loses the file of one path p and leaves the others.
LEMMA KeepingMoved ==
    ASSUME Keeping, NEW p \in Paths,
           UNCHANGED <<plan, phase, delta, jobs>>,
           \A q \in Paths \ {p} :
             /\ disk'[q] = disk[q] /\ backup'[q] = backup[q] /\ saved'[q] = saved[q]
             /\ q \in late' <=> q \in late
             /\ q \in displaced' <=> q \in displaced
             /\ q \in backedUp' <=> q \in backedUp
             /\ q \in renamed' <=> q \in renamed
             /\ q \in todo' <=> q \in todo,
           flight' \subseteq flight,
           p \in KeptPaths' =>
             /\ saved'[p] = saved[p] /\ saved'[p] \in {disk'[p], backup'[p]}
             /\ \/ p \in HeldInBackup'
                \/ phase = "undoBackup" /\ p \notin todo'
                \/ phase \notin {"prepare", "backup", "rename", "undoRename", "undoBackup"}
             /\ delta[p] = "remove" => p \in HeldInBackup' /\ p \notin backedUp',
           saved'[p] \in {saved[p], Absent}
    PROVE  Keeping'
  <1>1. \A q \in Paths \ {p} : /\ q \in KeptPaths' <=> q \in KeptPaths
                               /\ q \in HeldInBackup' <=> q \in HeldInBackup
    BY DEF KeptPaths, HeldInBackup
  <1>2. ChangedFilesKept'
    BY DEF Keeping, ChangedFilesKept, KeptPaths
  <1>3. Preserved'
    BY DEF Keeping, Preserved
  <1>4. PathsOf(jobs') = PathsOf(jobs) /\ PathsOf(flight') \subseteq PathsOf(flight)
    BY DEF PathsOf
  <1>5. Due'
    <2> SUFFICES ASSUME NEW q \in KeptPaths' \ HeldInBackup'
                 PROVE  /\ phase' = "prepare" => delta'[q] \in PreserveOps
                        /\ phase' = "backup" => q \in todo' \/ q \notin PathsOf(jobs')
                        /\ phase' \in {"rename", "undoRename"} => q \notin Landing'
      BY DEF Due
    <2>1. CASE q = p
      BY <2>1
    <2>2. CASE q # p
      <3>1. q \in KeptPaths \ HeldInBackup /\ q \in Paths
        BY <1>1, <2>2 DEF KeptPaths
      <3> QED BY <1>4, <2>2, <3>1 DEF Keeping, Due, Landing
    <2> QED BY <2>1, <2>2
  <1>6. Guarded'
    <2> SUFFICES ASSUME NEW q \in KeptPaths' \cap backedUp',
                        \/ phase' \in {"backup", "rename", "undoRename"}
                        \/ phase' = "undoBackup" /\ q \in todo'
                 PROVE  q \in HeldInBackup'
      BY DEF Guarded
    <2>1. CASE q = p
      BY <2>1
    <2>2. CASE q # p
      BY <1>1, <2>2 DEF Keeping, Guarded, KeptPaths
    <2> QED BY <2>1, <2>2
  <1>7. Dropping'
    <2> SUFFICES ASSUME NEW q \in KeptPaths', delta'[q] = "remove"
                 PROVE  q \in HeldInBackup' /\ q \notin backedUp'
      BY DEF Dropping
    <2>1. CASE q = p
      BY <2>1
    <2>2. CASE q # p
      BY <1>1, <2>2 DEF Keeping, Dropping, KeptPaths
    <2> QED BY <2>1, <2>2
  <1> QED BY <1>2, <1>3, <1>5, <1>6, <1>7 DEF Keeping

\* Every step keeps it.
LEMMA KeepingStep == IInv /\ Keeping /\ [Next]_vars => Keeping'
  <1> SUFFICES ASSUME IInv, Keeping, [Next]_vars PROVE Keeping'
    OBVIOUS
  <1> USE DEF handlerVars, ghosts
  <1>a. TypeOK /\ TypeOK'
    BY TypeStep DEF IInv, TypeInv
  <1>b. /\ disk \in Disk /\ workspace \in Disk /\ backup \in Disk /\ saved \in Disk
        /\ \A f \in Disk : DOMAIN f = Paths
    BY <1>a DEF TypeOK, Disk
  <1>1. CASE Commit
    <2>1. CASE plan.mode = "locked"
      <3>1. /\ UNCHANGED <<plan, disk, backup, delta, jobs, backedUp, renamed, late,
                           displaced, saved>>
            /\ phase = "prepare" /\ phase' = "backup"
            /\ todo' = WithOperation(delta, BackupOps) /\ backedUp = {}
        BY <1>1, <2>1 DEF Commit, IInv, BeforeCommit
      <3>2. KeptPaths' = KeptPaths /\ HeldInBackup' = HeldInBackup
        BY <3>1 DEF KeptPaths, HeldInBackup
      <3>3. ChangedFilesKept' /\ Preserved'
        BY <3>1 DEF Keeping, ChangedFilesKept, Preserved
      <3>4. Due'
        BY <3>1, <3>2 DEF Keeping, Due, KeptPaths, WithOperation, PreserveOps, BackupOps
      <3>5. Guarded' /\ Dropping'
        BY <3>1, <3>2 DEF Keeping, Guarded, Dropping
      <3> QED BY <3>3, <3>4, <3>5 DEF Keeping
    <2>2. CASE plan.mode # "locked"
      <3>1. /\ UNCHANGED <<plan, disk, backup, backedUp, late, displaced>>
            /\ delta' = CurrentDelta /\ saved' = Undertaken(CurrentDelta)
            /\ phase = "prepare" /\ phase' = "backup" /\ backedUp = {}
            /\ todo' = WithOperation(CurrentDelta, BackupOps)
                        \ (WithOperation(CurrentDelta, {"backup-add"}) \cap unresolvable)
            /\ jobs' = (WithOperation(CurrentDelta, AddOps) \ unresolvable) \X {"update"}
        BY <1>1, <2>2 DEF Commit, IInv, BeforeCommit
      <3>2. \A q \in KeptPaths' :
              /\ q \in Paths /\ saved'[q] # Absent
              /\ \/ backup'[q] = saved'[q]
                 \/ disk'[q] = saved'[q] /\ CurrentDelta[q] \in PreserveOps
              /\ CurrentDelta[q] \in PreserveOps \/ backup'[q] = saved'[q]
        BY <1>a, <3>1, UndertakenKept DEF KeptPaths, Keeping
      <3>3. ChangedFilesKept'
        BY <3>2 DEF ChangedFilesKept, KeptPaths
      <3>4. Preserved'
        BY <1>a, <3>1, UndertakenKept DEF Preserved, Keeping
      <3>5. Due'
        <4>1. \A q \in PathsOf(jobs') : q \notin unresolvable
          BY <3>1 DEF PathsOf
        <4>2. \A q \in Paths : CurrentDelta[q] \in PreserveOps /\ q \notin unresolvable
                                 => q \in todo'
          BY <3>1 DEF WithOperation, PreserveOps, BackupOps
        <4> QED BY <3>1, <3>2, <4>1, <4>2 DEF Due, HeldInBackup
      <3>6. Guarded' /\ Dropping'
        BY <3>1, <3>2 DEF Guarded, Dropping, HeldInBackup, PreserveOps
      <3> QED BY <3>3, <3>4, <3>5, <3>6 DEF Keeping
    <2> QED BY <2>1, <2>2
  <1>2. CASE BackupDone
    <2>1. renamed = {}
      BY <1>2 DEF BackupDone, IInv, Loops
    <2> QED BY <1>2, <2>1, KeepingKept DEF BackupDone
  <1>3. CASE RenameDone
    BY <1>3, KeepingKept DEF RenameDone
  <1>4. CASE CleanDone
    BY <1>4, KeepingKept DEF CleanDone
  <1>5. CASE UndoRenameDone
    BY <1>5, KeepingKept DEF UndoRenameDone
  <1>6. CASE UndoBackupDone
    BY <1>6, KeepingKept DEF UndoBackupDone, Fail
  <1>7. ASSUME NEW p \in Paths, PrepareFile(p) PROVE Keeping'
    BY <1>7, KeepingKept DEF PrepareFile
  <1>8. ASSUME NEW p \in Paths, BackupFile(p) PROVE Keeping'
    <2>1. CASE disk[p] = Absent
      <3>1. /\ UNCHANGED <<plan, phase, disk, backup, delta, jobs, flight, backedUp, renamed,
                           late, displaced, saved>>
            /\ phase = "backup" /\ todo' = todo \ {p}
        BY <1>8, <2>1 DEF BackupFile
      <3>2. p \in KeptPaths => p \in HeldInBackup
        BY <2>1 DEF Keeping, ChangedFilesKept, KeptPaths, HeldInBackup
      <3>3. p \in KeptPaths' <=> p \in KeptPaths
        BY <3>1 DEF KeptPaths
      <3>4. HeldInBackup' = HeldInBackup
        BY <3>1 DEF HeldInBackup
      <3>5. /\ p \in KeptPaths => saved[p] \in {disk[p], backup[p]}
            /\ p \in KeptPaths /\ delta[p] = "remove" => p \notin backedUp
        BY DEF Keeping, ChangedFilesKept, Dropping, KeptPaths
      <3> QED BY <3>1, <3>2, <3>3, <3>4, <3>5, KeepingMoved
    <2>2. CASE disk[p] # Absent
      <3>1. /\ UNCHANGED <<plan, phase, delta, jobs, flight, renamed, late, saved>>
            /\ phase = "backup" /\ todo' = todo \ {p}
            /\ backup' = [backup EXCEPT ![p] = disk[p]]
            /\ disk' = [disk EXCEPT ![p] = Absent]
            /\ backedUp' = backedUp \cup {p}
            /\ displaced' = displaced \cup ({p} \cap HeldInBackup)
        BY <1>8, <2>2 DEF BackupFile
      <3>2. \A q \in Paths \ {p} : disk'[q] = disk[q] /\ backup'[q] = backup[q]
        BY <1>b, <3>1
      <3>3. p \in KeptPaths' =>
              p \in KeptPaths \ HeldInBackup /\ saved'[p] = saved[p] /\ backup'[p] = saved[p]
        <4>1. p \in KeptPaths' => p \in KeptPaths \ HeldInBackup
          BY <3>1 DEF KeptPaths
        <4>2. p \in KeptPaths \ HeldInBackup => disk[p] = saved[p]
          BY DEF Keeping, ChangedFilesKept, KeptPaths, HeldInBackup
        <4> QED BY <1>b, <3>1, <4>1, <4>2
      <3>4. p \in KeptPaths' => delta[p] # "remove" /\ p \in HeldInBackup'
        BY <3>3 DEF Keeping, Dropping, HeldInBackup, KeptPaths
      <3> HIDE DEF HeldInBackup
      <3> QED BY <3>1, <3>2, <3>3, <3>4, KeepingMoved
    <2> QED BY <2>1, <2>2
  <1>9. ASSUME NEW p \in Paths, CleanFile(p) PROVE Keeping'
    <2>1. /\ UNCHANGED <<plan, phase, disk, delta, jobs, flight, backedUp, renamed, late, saved>>
          /\ phase = "clean" /\ p \in todo /\ todo' = todo \ {p}
          /\ backup' = [backup EXCEPT ![p] = Absent]
          /\ displaced' = displaced \cup (({p} \cap HeldInBackup) \ backedUp)
      BY <1>9 DEF CleanFile
    <2>2. delta[p] = "remove"
      BY <2>1 DEF IInv, Loops
    <2>3. \A q \in Paths \ {p} : backup'[q] = backup[q]
      BY <1>b, <2>1
    <2>4. p \notin KeptPaths'
      BY <2>1, <2>2 DEF Keeping, Dropping, KeptPaths
    <2> QED BY <2>1, <2>3, <2>4, KeepingMoved
  <1>10. ASSUME NEW p \in Paths, UndoRename(p) PROVE Keeping'
    <2>1. /\ UNCHANGED <<plan, phase, backup, delta, jobs, flight, backedUp, renamed, late,
                         saved, displaced>>
          /\ phase = "undoRename" /\ p \in todo /\ todo' = todo \ {p}
          /\ disk' = [disk EXCEPT ![p] = Absent] \/ disk' = disk
      BY <1>10 DEF UndoRename
    <2>2. p \in renamed
      BY <2>1 DEF IInv, Loops
    <2>3. \A q \in Paths \ {p} : disk'[q] = disk[q]
      BY <1>b, <2>1
    <2>4. p \in KeptPaths' <=> p \in KeptPaths
      BY <2>1 DEF KeptPaths
    <2>5. HeldInBackup' = HeldInBackup
      BY <2>1 DEF HeldInBackup
    <2>6. p \in KeptPaths => p \in HeldInBackup
      BY <2>1, <2>2 DEF Keeping, Due, Landing
    <2>7. p \in KeptPaths /\ delta[p] = "remove" => p \notin backedUp
      BY DEF Keeping, Dropping
    <2>8. p \in KeptPaths => saved'[p] \in {disk'[p], backup'[p]}
      BY <2>1, <2>6 DEF HeldInBackup
    <2> QED BY <2>1, <2>3, <2>4, <2>5, <2>6, <2>7, <2>8, KeepingMoved
  <1>11. ASSUME NEW p \in Paths, UndoBackup(p) PROVE Keeping'
    <2>1. /\ UNCHANGED <<plan, phase, delta, jobs, flight, backedUp, renamed, late,
                         saved, displaced>>
          /\ phase = "undoBackup" /\ p \in todo /\ todo' = todo \ {p}
          /\ \/ /\ disk' = [disk EXCEPT ![p] = backup[p]]
                /\ backup' = [backup EXCEPT ![p] = Absent]
             \/ disk' = disk /\ backup' = backup
      BY <1>11 DEF UndoBackup
    <2>2. p \in backedUp
      BY <2>1 DEF IInv, Loops
    <2>3. \A q \in Paths \ {p} : disk'[q] = disk[q] /\ backup'[q] = backup[q]
      BY <1>b, <2>1
    <2>4. p \in KeptPaths' <=> p \in KeptPaths
      BY <2>1 DEF KeptPaths
    <2>5. p \in KeptPaths => backup[p] = saved[p] /\ delta[p] # "remove"
      BY <2>1, <2>2 DEF Keeping, Guarded, Dropping, HeldInBackup
    <2>6. p \in KeptPaths => saved'[p] \in {disk'[p], backup'[p]}
      BY <1>b, <2>1, <2>5
    <2>7. p \notin todo'
      BY <2>1
    <2> QED BY <2>1, <2>3, <2>4, <2>5, <2>6, <2>7, KeepingMoved
  <1>12. ASSUME NEW j \in Jobs, RenameOk(j) PROVE Keeping'
    <2>1. j[1] \in Paths
      BY DEF Jobs
    <2>2. /\ UNCHANGED <<plan, phase, backup, delta, jobs, backedUp, saved, displaced>>
          /\ j \in flight /\ flight' = flight \ {j}
          /\ disk' = [disk EXCEPT ![j[1]] = workspace[j[1]]]
          /\ renamed' = renamed \cup {j[1]}
          /\ todo' = IF phase = "undoRename" THEN todo \cup {j[1]} ELSE todo
          /\ late' = IF phase \in {"rename", "undoRename"} THEN late ELSE late \cup {j[1]}
      BY <1>12 DEF RenameOk
    <2>3. \A q \in Paths \ {j[1]} : disk'[q] = disk[q]
      BY <1>b, <2>1, <2>2
    <2>4. HeldInBackup' = HeldInBackup
      BY <2>2 DEF HeldInBackup
    <2>5. j[1] \in KeptPaths' => j[1] \in KeptPaths /\ phase \in {"rename", "undoRename"}
      BY <2>2 DEF KeptPaths
    <2>6. j[1] \in KeptPaths' => j[1] \in HeldInBackup
      BY <2>2, <2>5 DEF Keeping, Due, Landing, PathsOf
    <2>7. j[1] \in KeptPaths' => saved'[j[1]] \in {disk'[j[1]], backup'[j[1]]}
      BY <2>2, <2>6 DEF HeldInBackup
    <2>8. j[1] \in KeptPaths' /\ delta[j[1]] = "remove" => j[1] \notin backedUp
      BY <2>5 DEF Keeping, Dropping
    <2> QED BY <2>1, <2>2, <2>3, <2>4, <2>6, <2>7, <2>8, KeepingMoved
  <1>13. ASSUME NEW j \in Jobs, RenameFail(j) PROVE Keeping'
    BY <1>13, KeepingKept DEF RenameFail
  <1>14. CASE Start
    <2>1. /\ UNCHANGED <<plan, disk, backup>>
          /\ delta' = CurrentDelta /\ saved' = Undertaken(CurrentDelta)
          /\ phase' = "prepare" /\ backedUp' = {}
      BY <1>14 DEF Start
    <2>2. \A q \in KeptPaths' :
            /\ q \in Paths /\ saved'[q] # Absent
            /\ \/ backup'[q] = saved'[q]
               \/ disk'[q] = saved'[q] /\ CurrentDelta[q] \in PreserveOps
            /\ CurrentDelta[q] \in PreserveOps \/ backup'[q] = saved'[q]
      BY <1>a, <2>1, UndertakenKept DEF KeptPaths, Keeping
    <2>3. ChangedFilesKept'
      BY <2>2 DEF ChangedFilesKept, KeptPaths
    <2>4. Preserved'
      BY <1>a, <2>1, UndertakenKept DEF Preserved, Keeping
    <2>5. Due' /\ Guarded' /\ Dropping'
      BY <2>1, <2>2 DEF Due, Guarded, Dropping, HeldInBackup, PreserveOps
    <2> QED BY <2>3, <2>4, <2>5 DEF Keeping
  <1>15. CASE PrepareFail
    BY <1>15, KeepingKept DEF PrepareFail, Fail
  <1>16. CASE BackupFail
    BY <1>16, KeepingKept DEF BackupFail
  <1>17. CASE Crash
    BY <1>17, KeepingKept DEF Crash
  <1>18. ASSUME NEW p \in Paths, Touch(p) PROVE Keeping'
    <2>1. /\ UNCHANGED <<plan, phase, backup, todo, delta, jobs, flight, backedUp, renamed,
                         late, displaced>>
          /\ saved' = IF p \in HeldInBackup THEN saved ELSE [saved EXCEPT ![p] = Absent]
      BY <1>18 DEF Touch
    <2>2. PICK f : disk' = [disk EXCEPT ![p] = f]
      BY <1>18 DEF Touch
    <2>3. \A q \in Paths \ {p} : disk'[q] = disk[q] /\ saved'[q] = saved[q]
      BY <1>b, <2>1, <2>2
    <2>4. p \in KeptPaths' => p \in HeldInBackup /\ saved' = saved /\ p \in KeptPaths
      BY <1>b, <2>1 DEF KeptPaths
    <2>5. p \in KeptPaths' => p \in HeldInBackup' /\ backup'[p] = saved'[p]
      BY <2>1, <2>4 DEF HeldInBackup
    <2>6. p \in KeptPaths /\ delta[p] = "remove" => p \notin backedUp
      BY DEF Keeping, Dropping
    <2>7. saved'[p] \in {saved[p], Absent}
      BY <1>b, <2>1
    <2> QED BY <2>1, <2>3, <2>4, <2>5, <2>6, <2>7, KeepingMoved
  <1>19. CASE UNCHANGED vars
    BY <1>19, KeepingKept DEF vars
  <1> QED BY <1>1, <1>2, <1>3, <1>4, <1>5, <1>6, <1>7, <1>8, <1>9, <1>10, <1>11, <1>12,
             <1>13, <1>14, <1>15, <1>16, <1>17, <1>18, <1>19
          DEF Next, Handler, Environment

\* A file the user had changed when any attempt of an update met it is in the
\* instance or in the backup folder, through crashes, failures and resumes,
\* whatever renames are in flight; the exceptions are the two the property
\* names, a rename that lands behind the rollback and a backup displaced by a
\* later attempt.
THEOREM ChangedFilesSafe == Spec => []ChangedFilesKept
  <1>1. Init => IInv /\ Keeping
    BY IInvInit, KeepingInit
  <1>2. IInv /\ Keeping /\ [Next]_vars => (IInv /\ Keeping)'
    BY IInvStep, KeepingStep
  <1>3. Keeping => ChangedFilesKept
    BY DEF Keeping
  <1> QED BY <1>1, <1>2, <1>3, PTL DEF Spec
-----------------------------------------------------------------------------
(***************************************************************************)
(* The invariant above follows the files that must be preserved.  From     *)
(* here on every path is followed, with what the queues and the workspace  *)
(* hold for it, through crashes and resumed attempts.                      *)
(***************************************************************************)

\* The delta is that of the instance as it was when it was computed.
DeltaTrue ==
    phase # "idle" =>
      delta = computeFileUpdates(before, plan.old, plan.new, plan.timed)

\* The workspace holds what the next manifest wants, but for what the user or
\* the game has touched.
WorkspaceTrue ==
    \A p \in Paths \ touched :
      workspace[p] # Absent => workspace[p].content = plan.new[p]

\* The queues of a locked install, while they are filled.
Queueing ==
    phase = "prepare" /\ plan.mode = "locked" =>
      /\ todo \cup PathsOf(jobs) \subseteq WithOperation(delta, AddOps)
      /\ WithOperation(delta, AddOps) \subseteq todo \cup unresolvable \cup PathsOf(jobs)

\* What the commit is about: it backs up and renames paths that need it, and
\* renames all that have a source.
Committing ==
    /\ Landing \subseteq WithOperation(delta, AddOps)
    /\ backedUp \subseteq WithOperation(delta, BackupOps)
    /\ phase = "backup" => /\ PathsOf(jobs) \subseteq WithOperation(delta, AddOps)
                           /\ todo \subseteq WithOperation(delta, BackupOps)
    /\ phase \in {"backup", "rename", "clean", "done"} =>
         WithOperation(delta, AddOps) \subseteq unresolvable \cup PathsOf(jobs)
    /\ phase \in {"rename", "clean", "done"} => PathsOf(jobs) \subseteq Landing

\* A path that was neither backed up nor renamed is as it was.
Unmoved == \A p \in Untouched \ (backedUp \cup renamed) : disk[p] = before[p]

\* A path that goes away is gone when its turn in the backup loop has come.
Gone ==
    phase \in {"backup", "rename", "clean", "done"} =>
      \A p \in Untouched :
        delta[p] \in {"remove", "backup-remove"} =>
          (phase = "backup" /\ p \in todo) \/ disk[p] = Absent

\* What was renamed is in place until the rollback, which moves it away.
InPlace ==
    /\ phase \in {"rename", "clean", "done", "undoRename"} =>
         \A p \in renamed \ touched : disk[p] # Absent => disk[p].content = plan.new[p]
    /\ phase \in {"rename", "clean", "done"} => \A p \in renamed \ touched : disk[p] # Absent
    /\ phase = "undoRename" => \A p \in Untouched \cap renamed : p \in todo \/ disk[p] = Absent
    /\ phase \in {"undoBackup", "failed"} =>
         \A p \in (Untouched \cap renamed) \ backedUp : disk[p] = Absent

\* What was backed up is in the backup folder until the rollback has moved it
\* back or the clean phase has dropped it.
InBackup ==
    \A p \in Untouched \cap backedUp :
      /\ \/ phase \in {"backup", "rename", "undoRename"}
         \/ phase = "undoBackup" /\ p \in todo
         => backup[p] = before[p]
      /\ \/ phase = "failed"
         \/ phase = "undoBackup" /\ p \notin todo
         => disk[p] = before[p]

\* The clean phase has dropped what it has visited.
Dropped ==
    /\ phase \in {"clean", "done"} =>
         \A p \in WithOperation(delta, {"remove"}) :
           (phase = "clean" /\ p \in todo) \/ backup[p] = Absent
    /\ phase = "done" => workspace = NoFiles

Exact ==
    /\ DeltaTrue /\ WorkspaceTrue /\ Queueing /\ Committing
    /\ Unmoved /\ Gone /\ InPlace /\ InBackup /\ Dropped
-----------------------------------------------------------------------------
\* What a decision says of the file and of the two entries.
LEMMA OperationExact ==
    ASSUME NEW file \in File \cup {Absent},
           NEW oldEntry \in Contents \cup {Absent},
           NEW newEntry \in Contents \cup {Absent},
           NEW timed \in BOOLEAN
    PROVE  LET op == OperationOn(file, oldEntry, newEntry, timed)
           IN  /\ op \in AddOps => newEntry # Absent
               /\ op \in {"remove", "backup-remove"} => newEntry = Absent /\ oldEntry # Absent
               /\ op \in {"none", "keep"} =>
                    ContentOf(file) = Updated(ContentOf(file), oldEntry, newEntry)
               /\ op = "keep" => file # Absent /\ file.content = newEntry
  BY AbsentAssumption, DigestedAssumption
  DEF OperationOn, AddOps, ContentOf, Updated, DiffersFromNew, File

\* The same of the delta of the running attempt.
LEMMA DeltaExact ==
    ASSUME TypeOK, DeltaTrue, phase # "idle", NEW p \in Paths
    PROVE  /\ delta[p] \in AddOps => plan.new[p] # Absent
           /\ delta[p] \in {"remove", "backup-remove"} =>
                plan.new[p] = Absent /\ plan.old[p] # Absent
           /\ delta[p] \in {"none", "keep"} =>
                ContentOf(before[p]) = Updated(ContentOf(before[p]), plan.old[p], plan.new[p])
           /\ delta[p] = "keep" => before[p] # Absent /\ before[p].content = plan.new[p]
  <1>1. /\ before[p] \in File \cup {Absent} /\ plan.old[p] \in Contents \cup {Absent}
        /\ plan.new[p] \in Contents \cup {Absent} /\ plan.timed \in BOOLEAN
    BY DEF TypeOK, Plan, Manifest, Disk
  <1>2. delta[p] = OperationOn(before[p], plan.old[p], plan.new[p], plan.timed)
    BY DEF DeltaTrue, computeFileUpdates
  <1> QED
    BY <1>1, <1>2, OperationExact, SMTT(30)

\* The content of what is prepared: the wanted one, but for a touched file
\* that is kept.
LEMMA OutcomesExact ==
    ASSUME TypeOK, WorkspaceTrue, NEW p \in Paths, NEW o \in Outcomes(p), p \notin touched,
           delta[p] = "keep" => disk[p] # Absent /\ disk[p].content = plan.new[p]
    PROVE  o.lands # Absent => o.lands.content = plan.new[p]
  <1> DEFINE Sound(r) == r.lands # Absent => r.lands.content = plan.new[p]
  <1>1. \A queues, lands, found :
          (lands # Absent => lands.content = plan.new[p]) => Sound(Outcome(queues, lands, found))
    BY DEF Outcome
  <1>2. \A r \in BOOLEAN : NewFile(plan.new[p], r).content = plan.new[p]
    BY DEF NewFile
  <1> HIDE DEF Sound
  <1>3. \A r \in UnlinkedOutcomes(plan.new[p]) : Sound(r)
    BY <1>1, <1>2 DEF UnlinkedOutcomes
  <1>4. \A r \in LinkOutcomes(plan.new[p]) : Sound(r)
    BY <1>1, <1>2, <1>3, ZenonT(60) DEF LinkOutcomes
  <1>5. \A r \in FetchOutcomes(plan.new[p]) : Sound(r)
    <2>1. \A r \in UnzipOutcomes(plan.new[p]) : Sound(r)
      BY <1>1, <1>2 DEF UnzipOutcomes
    <2>2. \A r \in DownloadOutcomes(plan.new[p]) : Sound(r)
      BY <1>1, <1>2 DEF DownloadOutcomes
    <2>3. Sound(Outcome({}, Absent, FALSE))
      BY <1>1
    <2> QED
      BY <2>1, <2>2, <2>3 DEF FetchOutcomes
  <1>6. delta[p] = "keep" => \A r \in KeepOutcomes(p) : Sound(r)
    BY <1>1, <1>3 DEF KeepOutcomes
  <1>7. AlreadyPrepared(p) => Sound(Outcome({"ready"}, workspace[p], TRUE))
    BY <1>1 DEF AlreadyPrepared
  <1>8. Sound(o)
    BY <1>4, <1>5, <1>6, <1>7 DEF Outcomes
  <1> QED
    BY <1>8 DEF Sound

\* A source that is found is queued, and nothing else is.
LEMMA OutcomesQueued ==
    ASSUME NEW p \in Paths, NEW o \in Outcomes(p)
    PROVE  o.found => o.queues # {}
  <1> DEFINE Sound(r) == r.found => r.queues # {}
  <1>1. /\ \A q, lands : Sound(Outcome({q}, lands, TRUE))
        /\ \A q, lands : Sound(Outcome({q}, lands, FALSE))
        /\ \A q, s, lands : Sound(Outcome({q, s}, lands, TRUE))
        /\ Sound(Outcome({}, Absent, FALSE))
    BY DEF Outcome
  <1> HIDE DEF Sound
  <1>2. \A want : \A r \in UnlinkedOutcomes(want) : Sound(r)
    BY <1>1, ZenonT(60) DEF UnlinkedOutcomes
  <1>3. \A want : \A r \in LinkOutcomes(want) : Sound(r)
    BY <1>1, <1>2, Zenon DEF LinkOutcomes
  <1>4. \A want : \A r \in FetchOutcomes(want) : Sound(r)
    BY <1>1, Zenon DEF FetchOutcomes, UnzipOutcomes, DownloadOutcomes
  <1>5. \A r \in KeepOutcomes(p) : Sound(r)
    BY <1>1, <1>2, Zenon DEF KeepOutcomes
  <1>6. Sound(o)
    BY <1>1, <1>3, <1>4, <1>5, Zenon DEF Outcomes
  <1> QED
    BY <1>6 DEF Sound

\* The paths of a product.
LEMMA PathsOfProduct ==
    ASSUME NEW A, NEW B
    PROVE  PathsOf(A \X B) = IF B = {} THEN {} ELSE A
  <1>1. \A j \in A \X B : j[1] \in A /\ j[2] \in B
    OBVIOUS
  <1>2. \A a \in A, b \in B : <<a, b>> \in A \X B /\ <<a, b>>[1] = a
    OBVIOUS
  <1>3. \A a \in A, b \in B : a \in PathsOf(A \X B)
    BY <1>2, Zenon DEF PathsOf
  <1>4. \A a \in PathsOf(A \X B) : a \in A /\ B # {}
    BY <1>1 DEF PathsOf
  <1> QED
    BY <1>3, <1>4

LEMMA ExactInit == Init => Exact
  BY DEF Init, Exact, DeltaTrue, WorkspaceTrue, Queueing, Committing, Landing, PathsOf,
         Unmoved, Gone, InPlace, InBackup, Dropped, Untouched, NoFiles

-----------------------------------------------------------------------------
\* Every step keeps it, conjunct by conjunct.
LEMMA ExactStep == IInv /\ Exact /\ [Next]_vars => Exact'
  <1> SUFFICES ASSUME IInv, Exact, [Next]_vars PROVE Exact'
    OBVIOUS
  <1> USE DEF astray
  <1>b. /\ DeltaTrue /\ WorkspaceTrue /\ Queueing /\ Committing
        /\ Unmoved /\ Gone /\ InPlace /\ InBackup /\ Dropped
    BY DEF Exact
  <1>c. disk \in Disk /\ workspace \in Disk /\ backup \in Disk
    BY DEF IInv, TypeInv, TypeOK
  <1>t. renamed \subseteq Paths /\ backedUp \subseteq Paths
    BY DEF IInv, TypeInv, TypeOK
  <1>d. Loops /\ BeforeCommit
    BY DEF IInv
  <1>1. CASE Commit
    <2>a. /\ phase = "prepare" /\ phase' = "backup" /\ todo = {}
          /\ UNCHANGED <<plan, disk, workspace, backup, flight, unresolvable, backedUp,
                         renamed, astray>>
      BY <1>1 DEF Commit
    <2>b. plan.mode = "locked" =>
            /\ todo' = WithOperation(delta, BackupOps)
            /\ UNCHANGED <<delta, jobs, before, touched>>
      BY <1>1 DEF Commit
    <2>d. plan.mode # "locked" =>
            /\ delta' = CurrentDelta /\ before' = disk /\ touched' = Tainted
            /\ todo' = WithOperation(CurrentDelta, BackupOps)
                         \ (WithOperation(CurrentDelta, {"backup-add"}) \cap unresolvable)
            /\ jobs' = (WithOperation(CurrentDelta, AddOps) \ unresolvable) \X {"update"}
      BY <1>1 DEF Commit
    <2>c. flight = {} /\ backedUp = {} /\ renamed = {}
      BY <2>a, <1>d DEF BeforeCommit
    <2>1. DeltaTrue'
      BY <2>a, <2>b, <2>d, <1>b DEF DeltaTrue, CurrentDelta
    <2>2. WorkspaceTrue'
      BY <2>a, <2>b, <2>d, <1>b DEF WorkspaceTrue, Tainted
    <2>3. Queueing'
      BY <1>1, <1>b DEF Commit, handlerVars, ghosts, Queueing
    <2>4. Committing'
      <3>1. CASE plan.mode = "locked"
        BY <2>a, <2>b, <2>c, <3>1, <1>b DEF Committing, Queueing, Landing, PathsOf
      <3>2. CASE plan.mode # "locked"
        <4>1. PathsOf(jobs') = WithOperation(CurrentDelta, AddOps) \ unresolvable
          <5>1. \A A : PathsOf(A \X {"update"}) = A
            BY PathsOfProduct
          <5>2. jobs' = (WithOperation(CurrentDelta, AddOps) \ unresolvable) \X {"update"}
            BY <2>d, <3>2
          <5> QED
            BY <5>1, <5>2, Zenon
        <4>2. Landing' = {}
          BY <2>a, <2>c DEF Landing, PathsOf
        <4> QED
          BY <2>a, <2>c, <2>d, <3>2, <4>1, <4>2 DEF Committing
      <3> QED
        BY <3>1, <3>2
    <2>5. Unmoved'
      BY <1>1, <1>b, <1>d DEF Commit, handlerVars, ghosts, Unmoved, Untouched, Loops
    <2>6. Gone'
      BY <2>a, <2>b, <2>d DEF Gone, Untouched, WithOperation, BackupOps
    <2>7. InPlace'
      BY <1>1, <1>b, <1>d DEF Commit, handlerVars, ghosts, InPlace, Untouched, Loops
    <2>8. InBackup'
      BY <2>a, <2>c DEF InBackup, Untouched
    <2>9. Dropped'
      BY <1>1, <1>b DEF Commit, handlerVars, ghosts, Dropped
    <2> QED BY <2>1, <2>2, <2>3, <2>4, <2>5, <2>6, <2>7, <2>8, <2>9 DEF Exact
  <1>2. CASE BackupDone
    <2>1. DeltaTrue'
      BY <1>2, <1>b DEF BackupDone, handlerVars, ghosts, DeltaTrue
    <2>2. WorkspaceTrue'
      BY <1>2, <1>b DEF BackupDone, handlerVars, ghosts, WorkspaceTrue
    <2>3. Queueing'
      BY <1>2, <1>b DEF BackupDone, handlerVars, ghosts, Queueing
    <2>4. Committing'
      BY <1>2, <1>b, <1>d DEF BackupDone, handlerVars, ghosts, Committing, Landing, PathsOf, Loops
    <2>5. Unmoved'
      BY <1>2, <1>b, <1>d DEF BackupDone, handlerVars, ghosts, Unmoved, Untouched, Loops
    <2>6. Gone'
      BY <1>2, <1>b, <1>d DEF BackupDone, handlerVars, ghosts, Gone, Untouched, Loops
    <2>7. InPlace'
      BY <1>2, <1>b, <1>d DEF BackupDone, handlerVars, ghosts, InPlace, Untouched, Loops
    <2>8. InBackup'
      BY <1>2, <1>b, <1>d DEF BackupDone, handlerVars, ghosts, InBackup, Untouched, Loops
    <2>9. Dropped'
      BY <1>2, <1>b DEF BackupDone, handlerVars, ghosts, Dropped
    <2> QED BY <2>1, <2>2, <2>3, <2>4, <2>5, <2>6, <2>7, <2>8, <2>9 DEF Exact
  <1>3. CASE RenameDone
    <2>1. DeltaTrue'
      BY <1>3, <1>b DEF RenameDone, handlerVars, ghosts, DeltaTrue
    <2>2. WorkspaceTrue'
      BY <1>3, <1>b DEF RenameDone, handlerVars, ghosts, WorkspaceTrue
    <2>3. Queueing'
      BY <1>3, <1>b DEF RenameDone, handlerVars, ghosts, Queueing
    <2>4. Committing'
      BY <1>3, <1>b, <1>d DEF RenameDone, handlerVars, ghosts, Committing, Landing, PathsOf, Loops
    <2>5. Unmoved'
      BY <1>3, <1>b, <1>d DEF RenameDone, handlerVars, ghosts, Unmoved, Untouched, Loops
    <2>6. Gone'
      BY <1>3, <1>b, <1>d DEF RenameDone, handlerVars, ghosts, Gone, Untouched, Loops
    <2>7. InPlace'
      BY <1>3, <1>b, <1>d DEF RenameDone, handlerVars, ghosts, InPlace, Untouched, Loops
    <2>8. InBackup'
      BY <1>3, <1>b, <1>d DEF RenameDone, handlerVars, ghosts, InBackup, Untouched, Loops
    <2>9. Dropped'
      BY <1>3, <1>b DEF RenameDone, handlerVars, ghosts, Dropped
    <2> QED BY <2>1, <2>2, <2>3, <2>4, <2>5, <2>6, <2>7, <2>8, <2>9 DEF Exact
  <1>4. CASE CleanDone
    <2>1. DeltaTrue'
      BY <1>4, <1>b DEF CleanDone, handlerVars, ghosts, DeltaTrue
    <2>2. WorkspaceTrue'
      BY <1>4, <1>b, <1>c DEF CleanDone, WorkspaceTrue, NoFiles, handlerVars, ghosts
    <2>3. Queueing'
      BY <1>4, <1>b DEF CleanDone, handlerVars, ghosts, Queueing
    <2>4. Committing'
      BY <1>4, <1>b, <1>d DEF CleanDone, handlerVars, ghosts, Committing, Landing, PathsOf, Loops
    <2>5. Unmoved'
      BY <1>4, <1>b, <1>d DEF CleanDone, handlerVars, ghosts, Unmoved, Untouched, Loops
    <2>6. Gone'
      BY <1>4, <1>b, <1>d DEF CleanDone, handlerVars, ghosts, Gone, Untouched, Loops
    <2>7. InPlace'
      BY <1>4, <1>b, <1>d DEF CleanDone, handlerVars, ghosts, InPlace, Untouched, Loops
    <2>8. InBackup'
      BY <1>4, <1>b, <1>d DEF CleanDone, handlerVars, ghosts, InBackup, Untouched, Loops
    <2>9. Dropped'
      BY <1>4, <1>b DEF CleanDone, handlerVars, ghosts, Dropped
    <2> QED BY <2>1, <2>2, <2>3, <2>4, <2>5, <2>6, <2>7, <2>8, <2>9 DEF Exact
  <1>5. CASE UndoRenameDone
    <2>1. DeltaTrue'
      BY <1>5, <1>b DEF UndoRenameDone, handlerVars, ghosts, DeltaTrue
    <2>2. WorkspaceTrue'
      BY <1>5, <1>b DEF UndoRenameDone, handlerVars, ghosts, WorkspaceTrue
    <2>3. Queueing'
      BY <1>5, <1>b DEF UndoRenameDone, handlerVars, ghosts, Queueing
    <2>4. Committing'
      BY <1>5, <1>b, <1>d DEF UndoRenameDone, handlerVars, ghosts, Committing, Landing, PathsOf, Loops
    <2>5. Unmoved'
      BY <1>5, <1>b, <1>d DEF UndoRenameDone, handlerVars, ghosts, Unmoved, Untouched, Loops
    <2>6. Gone'
      BY <1>5, <1>b, <1>d DEF UndoRenameDone, handlerVars, ghosts, Gone, Untouched, Loops
    <2>7. InPlace'
      BY <1>5, <1>b, <1>d DEF UndoRenameDone, handlerVars, ghosts, InPlace, Untouched, Loops
    <2>8. InBackup'
      BY <1>5, <1>b, <1>d DEF UndoRenameDone, handlerVars, ghosts, InBackup, Untouched, Loops
    <2>9. Dropped'
      BY <1>5, <1>b DEF UndoRenameDone, handlerVars, ghosts, Dropped
    <2> QED BY <2>1, <2>2, <2>3, <2>4, <2>5, <2>6, <2>7, <2>8, <2>9 DEF Exact
  <1>6. CASE UndoBackupDone
    <2>1. DeltaTrue'
      BY <1>6, <1>b DEF UndoBackupDone, Fail, handlerVars, ghosts, DeltaTrue
    <2>2. WorkspaceTrue'
      BY <1>6, <1>b, <1>c DEF UndoBackupDone, Fail, WorkspaceTrue, NoFiles, handlerVars, ghosts
    <2>3. Queueing'
      BY <1>6, <1>b DEF UndoBackupDone, Fail, handlerVars, ghosts, Queueing
    <2>4. Committing'
      BY <1>6, <1>b, <1>d DEF UndoBackupDone, Fail, handlerVars, ghosts, Committing, Landing, PathsOf, Loops
    <2>5. Unmoved'
      BY <1>6, <1>b, <1>d DEF UndoBackupDone, Fail, handlerVars, ghosts, Unmoved, Untouched, Loops
    <2>6. Gone'
      BY <1>6, <1>b, <1>d DEF UndoBackupDone, Fail, handlerVars, ghosts, Gone, Untouched, Loops
    <2>7. InPlace'
      BY <1>6, <1>b, <1>d DEF UndoBackupDone, Fail, handlerVars, ghosts, InPlace, Untouched, Loops
    <2>8. InBackup'
      BY <1>6, <1>b, <1>d DEF UndoBackupDone, Fail, handlerVars, ghosts, InBackup, Untouched, Loops
    <2>9. Dropped'
      BY <1>6, <1>b DEF UndoBackupDone, Fail, handlerVars, ghosts, Dropped
    <2> QED BY <2>1, <2>2, <2>3, <2>4, <2>5, <2>6, <2>7, <2>8, <2>9 DEF Exact
  <1>7. ASSUME NEW p \in Paths, PrepareFile(p) PROVE Exact'
    <2>a. PICK o \in Outcomes(p) :
            /\ jobs' = jobs \cup ({p} \X o.queues)
            /\ workspace' = IF o.lands = Absent THEN workspace
                            ELSE [workspace EXCEPT ![p] = o.lands]
            /\ unresolvable' = IF o.found THEN unresolvable ELSE unresolvable \cup {p}
      BY <1>7 DEF PrepareFile
    <2>b. /\ phase = "prepare" /\ p \in todo /\ todo' = todo \ {p}
          /\ UNCHANGED <<plan, phase, delta, touched>>
      BY <1>7 DEF PrepareFile, ghosts
    <2>1. DeltaTrue'
      BY <1>7, <1>b DEF PrepareFile, handlerVars, ghosts, DeltaTrue
    <2>2. WorkspaceTrue'
      <3> SUFFICES ASSUME NEW q \in Paths \ touched, workspace'[q] # Absent
                   PROVE  workspace'[q].content = plan.new[q]
        BY <2>b DEF WorkspaceTrue
      <3>1. CASE workspace'[q] = workspace[q]
        BY <3>1, <1>b DEF WorkspaceTrue
      <3>2. CASE workspace'[q] # workspace[q]
        <4>1. q = p /\ workspace'[p] = o.lands /\ o.lands # Absent
          BY <2>a, <3>2, <1>c DEF Disk
        <4>2. delta[p] = "keep" => disk[p] # Absent /\ disk[p].content = plan.new[p]
          <5>1. disk[p] = before[p]
            BY <2>b, <4>1, <1>d DEF BeforeCommit
          <5> QED
            BY <2>b, <5>1, <1>b, DeltaExact DEF IInv, TypeInv
        <4> QED
          BY <4>1, <4>2, <1>b, OutcomesExact DEF IInv, TypeInv
      <3> QED
        BY <3>1, <3>2
    <2>3. Queueing'
      <3>1. PathsOf(jobs') = PathsOf(jobs) \cup (IF o.queues = {} THEN {} ELSE {p})
        <4>1. PathsOf(jobs') = PathsOf(jobs) \cup PathsOf({p} \X o.queues)
          BY <2>a DEF PathsOf
        <4> QED
          BY <4>1, PathsOfProduct
      <3>2. o.found => o.queues # {}
        BY OutcomesQueued
      <3> QED
        BY <2>a, <2>b, <3>1, <3>2, <1>b DEF Queueing
    <2>4. Committing'
      BY <1>7, <1>b, <1>d DEF PrepareFile, handlerVars, ghosts, Committing, Landing, PathsOf, Loops
    <2>5. Unmoved'
      BY <1>7, <1>b, <1>d DEF PrepareFile, handlerVars, ghosts, Unmoved, Untouched, Loops
    <2>6. Gone'
      BY <1>7, <1>b, <1>d DEF PrepareFile, handlerVars, ghosts, Gone, Untouched, Loops
    <2>7. InPlace'
      BY <1>7, <1>b, <1>d DEF PrepareFile, handlerVars, ghosts, InPlace, Untouched, Loops
    <2>8. InBackup'
      BY <1>7, <1>b, <1>d DEF PrepareFile, handlerVars, ghosts, InBackup, Untouched, Loops
    <2>9. Dropped'
      BY <1>7, <1>b DEF PrepareFile, handlerVars, ghosts, Dropped
    <2> QED BY <2>1, <2>2, <2>3, <2>4, <2>5, <2>6, <2>7, <2>8, <2>9 DEF Exact
  <1>8. ASSUME NEW p \in Paths, BackupFile(p) PROVE Exact'
    <2>a. /\ phase = "backup" /\ phase' = "backup" /\ p \in todo /\ todo' = todo \ {p}
          /\ UNCHANGED <<renamed, before, touched, astray, delta>>
      BY <1>8 DEF BackupFile, ghosts
    <2>b. \A q \in Paths : q # p => /\ disk'[q] = disk[q] /\ backup'[q] = backup[q]
                                    /\ q \in backedUp' <=> q \in backedUp
      BY <1>8, <1>c DEF BackupFile, Disk
    <2>c. IF disk[p] = Absent
          THEN disk'[p] = disk[p] /\ backup'[p] = backup[p] /\ backedUp' = backedUp
          ELSE disk'[p] = Absent /\ backup'[p] = disk[p] /\ p \in backedUp'
      BY <1>8, <1>c DEF BackupFile, Disk
    <2>d. p \notin backedUp /\ renamed = {} /\ (p \in Untouched => disk[p] = before[p])
      BY <2>a, <1>b, <1>d DEF Loops, Unmoved
    <2>1. DeltaTrue'
      BY <1>8, <1>b DEF BackupFile, handlerVars, ghosts, DeltaTrue
    <2>2. WorkspaceTrue'
      BY <1>8, <1>b DEF BackupFile, handlerVars, ghosts, WorkspaceTrue
    <2>3. Queueing'
      BY <1>8, <1>b DEF BackupFile, handlerVars, ghosts, Queueing
    <2>4. Committing'
      BY <1>8, <1>b, <1>d DEF BackupFile, handlerVars, ghosts, Committing, Landing, PathsOf, Loops
    <2>5. Unmoved'
      BY <2>a, <2>b, <2>c, <2>d, <1>b DEF Unmoved, Untouched
    <2>6. Gone'
      BY <2>a, <2>b, <2>c, <1>b DEF Gone, Untouched
    <2>7. InPlace'
      BY <1>8, <1>b, <1>d DEF BackupFile, handlerVars, ghosts, InPlace, Untouched, Loops
    <2>8. InBackup'
      BY <2>a, <2>b, <2>c, <2>d, <1>b DEF InBackup, Untouched
    <2>9. Dropped'
      BY <1>8, <1>b DEF BackupFile, handlerVars, ghosts, Dropped
    <2> QED BY <2>1, <2>2, <2>3, <2>4, <2>5, <2>6, <2>7, <2>8, <2>9 DEF Exact
  <1>9. ASSUME NEW p \in Paths, CleanFile(p) PROVE Exact'
    <2>a. /\ phase = "clean" /\ phase' = "clean" /\ todo' = todo \ {p}
          /\ UNCHANGED <<delta, workspace>>
      BY <1>9 DEF CleanFile, handlerVars
    <2>b. \A q \in Paths : backup'[q] = IF q = p THEN Absent ELSE backup[q]
      BY <1>9, <1>c DEF CleanFile, Disk
    <2>1. DeltaTrue'
      BY <1>9, <1>b DEF CleanFile, handlerVars, ghosts, DeltaTrue
    <2>2. WorkspaceTrue'
      BY <1>9, <1>b DEF CleanFile, handlerVars, ghosts, WorkspaceTrue
    <2>3. Queueing'
      BY <1>9, <1>b DEF CleanFile, handlerVars, ghosts, Queueing
    <2>4. Committing'
      BY <1>9, <1>b, <1>d DEF CleanFile, handlerVars, ghosts, Committing, Landing, PathsOf, Loops
    <2>5. Unmoved'
      BY <1>9, <1>b, <1>d DEF CleanFile, handlerVars, ghosts, Unmoved, Untouched, Loops
    <2>6. Gone'
      BY <1>9, <1>b, <1>d DEF CleanFile, handlerVars, ghosts, Gone, Untouched, Loops
    <2>7. InPlace'
      BY <1>9, <1>b, <1>d DEF CleanFile, handlerVars, ghosts, InPlace, Untouched, Loops
    <2>8. InBackup'
      BY <1>9, <1>b, <1>d DEF CleanFile, handlerVars, ghosts, InBackup, Untouched, Loops
    <2>9. Dropped'
      BY <2>a, <2>b, <1>b DEF Dropped, WithOperation
    <2> QED BY <2>1, <2>2, <2>3, <2>4, <2>5, <2>6, <2>7, <2>8, <2>9 DEF Exact
  <1>10. ASSUME NEW p \in Paths, UndoRename(p) PROVE Exact'
    <2>a. /\ phase = "undoRename" /\ phase' = "undoRename" /\ p \in todo /\ todo' = todo \ {p}
          /\ UNCHANGED <<plan, renamed, backedUp, before, touched>>
      BY <1>10 DEF UndoRename, handlerVars
    <2>b. \A q \in Paths : q # p => /\ disk'[q] = disk[q] /\ workspace'[q] = workspace[q]
                                    /\ q \in astray' <=> q \in astray
      BY <1>10, <1>c DEF UndoRename, Disk
    <2>c. \/ /\ disk[p] # Absent /\ workspace'[p] = disk[p] /\ disk'[p] = Absent
             /\ astray' = astray
          \/ p \in astray' /\ disk' = disk /\ workspace' = workspace
      BY <1>10, <1>c DEF UndoRename, Disk
    <2>d. p \in renamed
      BY <2>a, <1>d DEF Loops
    <2>1. DeltaTrue'
      BY <1>10, <1>b DEF UndoRename, handlerVars, ghosts, DeltaTrue
    <2>2. WorkspaceTrue'
      BY <2>a, <2>b, <2>c, <2>d, <1>b DEF WorkspaceTrue, InPlace
    <2>3. Queueing'
      BY <1>10, <1>b DEF UndoRename, handlerVars, ghosts, Queueing
    <2>4. Committing'
      BY <1>10, <1>b, <1>d DEF UndoRename, handlerVars, ghosts, Committing, Landing, PathsOf, Loops
    <2>5. Unmoved'
      BY <2>a, <2>b, <2>d, <1>b DEF Unmoved, Untouched
    <2>6. Gone'
      BY <1>10, <1>b, <1>d DEF UndoRename, handlerVars, ghosts, Gone, Untouched, Loops
    <2>7. InPlace'
      BY <2>a, <2>b, <2>c, <1>b, <1>t DEF InPlace, Untouched
    <2>8. InBackup'
      BY <1>10, <1>b, <1>d DEF UndoRename, handlerVars, ghosts, InBackup, Untouched, Loops
    <2>9. Dropped'
      BY <1>10, <1>b DEF UndoRename, handlerVars, ghosts, Dropped
    <2> QED BY <2>1, <2>2, <2>3, <2>4, <2>5, <2>6, <2>7, <2>8, <2>9 DEF Exact
  <1>11. ASSUME NEW p \in Paths, UndoBackup(p) PROVE Exact'
    <2>a. /\ phase = "undoBackup" /\ phase' = "undoBackup" /\ p \in todo /\ todo' = todo \ {p}
          /\ UNCHANGED <<plan, renamed, backedUp, before, touched>>
      BY <1>11 DEF UndoBackup, handlerVars
    <2>b. \A q \in Paths : q # p => /\ disk'[q] = disk[q] /\ backup'[q] = backup[q]
                                    /\ q \in astray' <=> q \in astray
      BY <1>11, <1>c DEF UndoBackup, Disk
    <2>c. disk'[p] = backup[p] \/ p \in astray'
      BY <1>11, <1>c DEF UndoBackup, Disk
    <2>d. p \in backedUp
      BY <2>a, <1>d DEF Loops
    <2>e. p \in Untouched' => p \in Untouched
      BY <1>11 DEF UndoBackup, Untouched
    <2>1. DeltaTrue'
      BY <1>11, <1>b DEF UndoBackup, handlerVars, ghosts, DeltaTrue
    <2>2. WorkspaceTrue'
      BY <1>11, <1>b DEF UndoBackup, handlerVars, ghosts, WorkspaceTrue
    <2>3. Queueing'
      BY <1>11, <1>b DEF UndoBackup, handlerVars, ghosts, Queueing
    <2>4. Committing'
      BY <1>11, <1>b, <1>d DEF UndoBackup, handlerVars, ghosts, Committing, Landing, PathsOf, Loops
    <2>5. Unmoved'
      BY <2>a, <2>b, <2>d, <1>b DEF Unmoved, Untouched
    <2>6. Gone'
      BY <1>11, <1>b, <1>d DEF UndoBackup, handlerVars, ghosts, Gone, Untouched, Loops
    <2>7. InPlace'
      BY <2>a, <2>b, <2>d, <1>b, <1>t DEF InPlace, Untouched
    <2>8. InBackup'
      BY <2>a, <2>b, <2>c, <2>d, <2>e, <1>b DEF InBackup, Untouched
    <2>9. Dropped'
      BY <1>11, <1>b DEF UndoBackup, handlerVars, ghosts, Dropped
    <2> QED BY <2>1, <2>2, <2>3, <2>4, <2>5, <2>6, <2>7, <2>8, <2>9 DEF Exact
  <1>12. ASSUME NEW j \in Jobs, RenameOk(j) PROVE Exact'
    <2> PICK p \in Paths : p = j[1]
      BY DEF Jobs
    <2>a. /\ j \in flight /\ workspace[p] # Absent /\ renamed' = renamed \cup {p}
          /\ todo' = IF phase = "undoRename" THEN todo \cup {p} ELSE todo
          /\ astray' = IF phase \in {"rename", "undoRename"} THEN astray ELSE astray \cup {p}
          /\ UNCHANGED <<plan, phase, backup, delta, backedUp, before, touched>>
      BY <1>12 DEF RenameOk
    <2>b. \A q \in Paths : disk'[q] = IF q = p THEN workspace[p] ELSE disk[q]
      BY <1>12, <1>c DEF RenameOk, Disk
    <2>c. p \in Landing /\ delta[p] \in AddOps
      BY <2>a, <1>b DEF Landing, PathsOf, Committing, WithOperation
    <2>d. phase \notin {"backup", "clean", "done", "crashed"}
      BY <2>a, <1>d DEF Loops
    <2>1. DeltaTrue'
      BY <1>12, <1>b DEF RenameOk, handlerVars, ghosts, DeltaTrue
    <2>2. WorkspaceTrue'
      BY <1>12, <1>b DEF RenameOk, handlerVars, ghosts, WorkspaceTrue
    <2>3. Queueing'
      BY <1>12, <1>b DEF RenameOk, handlerVars, ghosts, Queueing
    <2>4. Committing'
      BY <1>12, <1>b, <1>d DEF RenameOk, handlerVars, ghosts, Committing, Landing, PathsOf, Loops
    <2>5. Unmoved'
      BY <1>12, <1>b, <1>d DEF RenameOk, handlerVars, ghosts, Unmoved, Untouched, Loops
    <2>6. Gone'
      BY <2>a, <2>b, <2>c, <2>d, <1>b DEF Gone, Untouched, AddOps
    <2>7. InPlace'
      <3>1. p \notin touched => workspace[p].content = plan.new[p]
        BY <2>a, <1>b DEF WorkspaceTrue
      <3> QED
        BY <2>a, <2>b, <2>d, <3>1, <1>b, <1>t DEF InPlace, Untouched
    <2>8. InBackup'
      BY <1>12, <1>b, <1>d DEF RenameOk, handlerVars, ghosts, InBackup, Untouched, Loops
    <2>9. Dropped'
      BY <2>a, <2>d DEF Dropped
    <2> QED BY <2>1, <2>2, <2>3, <2>4, <2>5, <2>6, <2>7, <2>8, <2>9 DEF Exact
  <1>13. ASSUME NEW j \in Jobs, RenameFail(j) PROVE Exact'
    <2>1. DeltaTrue'
      BY <1>13, <1>b DEF RenameFail, handlerVars, ghosts, DeltaTrue
    <2>2. WorkspaceTrue'
      BY <1>13, <1>b DEF RenameFail, handlerVars, ghosts, WorkspaceTrue
    <2>3. Queueing'
      BY <1>13, <1>b DEF RenameFail, handlerVars, ghosts, Queueing
    <2>4. Committing'
      BY <1>13, <1>b, <1>d DEF RenameFail, handlerVars, ghosts, Committing, Landing, PathsOf, Loops
    <2>5. Unmoved'
      BY <1>13, <1>b, <1>d DEF RenameFail, handlerVars, ghosts, Unmoved, Untouched, Loops
    <2>6. Gone'
      BY <1>13, <1>b, <1>d DEF RenameFail, handlerVars, ghosts, Gone, Untouched, Loops
    <2>7. InPlace'
      BY <1>13, <1>b, <1>d DEF RenameFail, handlerVars, ghosts, InPlace, Untouched, Loops
    <2>8. InBackup'
      BY <1>13, <1>b, <1>d DEF RenameFail, handlerVars, ghosts, InBackup, Untouched, Loops
    <2>9. Dropped'
      BY <1>13, <1>b DEF RenameFail, handlerVars, ghosts, Dropped
    <2> QED BY <2>1, <2>2, <2>3, <2>4, <2>5, <2>6, <2>7, <2>8, <2>9 DEF Exact
  <1>14. CASE Start
    <2>a. /\ phase' = "prepare" /\ delta' = CurrentDelta /\ jobs' = {} /\ before' = disk
          /\ touched' = Tainted /\ UNCHANGED <<plan, workspace>>
          /\ todo' = WithOperation(CurrentDelta,
                        IF plan.mode = "diff" THEN AddOps \cup {"keep"} ELSE AddOps)
      BY <1>14 DEF Start
    <2>1. DeltaTrue'
      BY <2>a DEF DeltaTrue, CurrentDelta
    <2>2. WorkspaceTrue'
      BY <2>a, <1>b DEF WorkspaceTrue, Tainted
    <2>3. Queueing'
      <3>1. PathsOf(jobs') = {}
        BY <2>a DEF PathsOf
      <3> QED
        BY <2>a, <3>1 DEF Queueing
    <2>4. Committing'
      BY <1>14, <1>b, <1>d DEF Start, handlerVars, ghosts, Committing, Landing, PathsOf, Loops
    <2>5. Unmoved'
      BY <1>14, <1>b, <1>d DEF Start, handlerVars, ghosts, Unmoved, Untouched, Loops
    <2>6. Gone'
      BY <1>14, <1>b, <1>d DEF Start, handlerVars, ghosts, Gone, Untouched, Loops
    <2>7. InPlace'
      BY <1>14, <1>b, <1>d DEF Start, handlerVars, ghosts, InPlace, Untouched, Loops
    <2>8. InBackup'
      BY <1>14, <1>b, <1>d DEF Start, handlerVars, ghosts, InBackup, Untouched, Loops
    <2>9. Dropped'
      BY <1>14, <1>b DEF Start, handlerVars, ghosts, Dropped
    <2> QED BY <2>1, <2>2, <2>3, <2>4, <2>5, <2>6, <2>7, <2>8, <2>9 DEF Exact
  <1>15. CASE PrepareFail
    <2>1. DeltaTrue'
      BY <1>15, <1>b DEF PrepareFail, Fail, handlerVars, ghosts, DeltaTrue
    <2>2. WorkspaceTrue'
      BY <1>15, <1>b, <1>c DEF PrepareFail, Fail, WorkspaceTrue, NoFiles, handlerVars, ghosts
    <2>3. Queueing'
      BY <1>15, <1>b DEF PrepareFail, Fail, handlerVars, ghosts, Queueing
    <2>4. Committing'
      BY <1>15, <1>b, <1>d DEF PrepareFail, Fail, handlerVars, ghosts, Committing, Landing, PathsOf, Loops
    <2>5. Unmoved'
      BY <1>15, <1>b, <1>d DEF PrepareFail, Fail, handlerVars, ghosts, Unmoved, Untouched, Loops
    <2>6. Gone'
      BY <1>15, <1>b, <1>d DEF PrepareFail, Fail, handlerVars, ghosts, Gone, Untouched, Loops
    <2>7. InPlace'
      BY <1>15, <1>d DEF PrepareFail, Fail, BeforeCommit, InPlace, Untouched, handlerVars, ghosts
    <2>8. InBackup'
      BY <1>15, <1>d DEF PrepareFail, Fail, BeforeCommit, InBackup, Untouched, handlerVars, ghosts
    <2>9. Dropped'
      BY <1>15, <1>b DEF PrepareFail, Fail, handlerVars, ghosts, Dropped
    <2> QED BY <2>1, <2>2, <2>3, <2>4, <2>5, <2>6, <2>7, <2>8, <2>9 DEF Exact
  <1>16. CASE BackupFail
    <2>1. DeltaTrue'
      BY <1>16, <1>b DEF BackupFail, handlerVars, ghosts, DeltaTrue
    <2>2. WorkspaceTrue'
      BY <1>16, <1>b DEF BackupFail, handlerVars, ghosts, WorkspaceTrue
    <2>3. Queueing'
      BY <1>16, <1>b DEF BackupFail, handlerVars, ghosts, Queueing
    <2>4. Committing'
      BY <1>16, <1>b, <1>d DEF BackupFail, handlerVars, ghosts, Committing, Landing, PathsOf, Loops
    <2>5. Unmoved'
      BY <1>16, <1>b, <1>d DEF BackupFail, handlerVars, ghosts, Unmoved, Untouched, Loops
    <2>6. Gone'
      BY <1>16, <1>b, <1>d DEF BackupFail, handlerVars, ghosts, Gone, Untouched, Loops
    <2>7. InPlace'
      BY <1>16, <1>b, <1>d DEF BackupFail, handlerVars, ghosts, InPlace, Untouched, Loops
    <2>8. InBackup'
      BY <1>16, <1>b, <1>d DEF BackupFail, handlerVars, ghosts, InBackup, Untouched, Loops
    <2>9. Dropped'
      BY <1>16, <1>b DEF BackupFail, handlerVars, ghosts, Dropped
    <2> QED BY <2>1, <2>2, <2>3, <2>4, <2>5, <2>6, <2>7, <2>8, <2>9 DEF Exact
  <1>17. CASE Crash
    <2>1. DeltaTrue'
      <3>1. phase # "idle"
        BY <1>17, <1>d DEF Crash, Running, BeforeCommit
      <3> QED
        BY <1>17, <3>1, <1>b DEF Crash, DeltaTrue, handlerVars, ghosts
    <2>2. WorkspaceTrue'
      BY <1>17, <1>b DEF Crash, handlerVars, ghosts, WorkspaceTrue
    <2>3. Queueing'
      BY <1>17, <1>b DEF Crash, handlerVars, ghosts, Queueing
    <2>4. Committing'
      BY <1>17, <1>b, <1>d DEF Crash, handlerVars, ghosts, Committing, Landing, PathsOf, Loops
    <2>5. Unmoved'
      BY <1>17, <1>b, <1>d DEF Crash, handlerVars, ghosts, Unmoved, Untouched, Loops
    <2>6. Gone'
      BY <1>17, <1>b, <1>d DEF Crash, handlerVars, ghosts, Gone, Untouched, Loops
    <2>7. InPlace'
      BY <1>17, <1>b, <1>d DEF Crash, handlerVars, ghosts, InPlace, Untouched, Loops
    <2>8. InBackup'
      BY <1>17, <1>b, <1>d DEF Crash, handlerVars, ghosts, InBackup, Untouched, Loops
    <2>9. Dropped'
      BY <1>17, <1>b DEF Crash, handlerVars, ghosts, Dropped
    <2> QED BY <2>1, <2>2, <2>3, <2>4, <2>5, <2>6, <2>7, <2>8, <2>9 DEF Exact
  <1>18. ASSUME NEW p \in Paths, Touch(p) PROVE Exact'
    <2>a. /\ touched' = touched \cup {p}
          /\ UNCHANGED <<plan, phase, todo, backup, delta, renamed, backedUp, before, astray>>
      BY <1>18 DEF Touch, handlerVars
    <2>b. \A q \in Paths : q # p => disk'[q] = disk[q]
      BY <1>18, <1>c DEF Touch, Disk
    <2>1. DeltaTrue'
      BY <1>18, <1>b DEF Touch, handlerVars, ghosts, DeltaTrue
    <2>2. WorkspaceTrue'
      BY <1>18, <1>b DEF Touch, handlerVars, ghosts, WorkspaceTrue
    <2>3. Queueing'
      BY <1>18, <1>b DEF Touch, handlerVars, ghosts, Queueing
    <2>4. Committing'
      BY <1>18, <1>b, <1>d DEF Touch, handlerVars, ghosts, Committing, Landing, PathsOf, Loops
    <2>5. Unmoved'
      BY <2>a, <2>b, <1>b, <1>t DEF Unmoved, Untouched
    <2>6. Gone'
      BY <2>a, <2>b, <1>b, <1>t DEF Gone, Untouched
    <2>7. InPlace'
      BY <2>a, <2>b, <1>b, <1>t DEF InPlace, Untouched
    <2>8. InBackup'
      BY <2>a, <2>b, <1>b, <1>t DEF InBackup, Untouched
    <2>9. Dropped'
      BY <1>18, <1>b DEF Touch, handlerVars, ghosts, Dropped
    <2> QED BY <2>1, <2>2, <2>3, <2>4, <2>5, <2>6, <2>7, <2>8, <2>9 DEF Exact
  <1>19. CASE UNCHANGED vars
    BY <1>19 DEF vars, Exact, DeltaTrue, WorkspaceTrue, Queueing, Committing, Unmoved, Gone, InPlace, InBackup, Dropped, Landing, PathsOf, Untouched
  <1> QED
    BY <1>1, <1>2, <1>3, <1>4, <1>5, <1>6, <1>7, <1>8, <1>9, <1>10, <1>11, <1>12, <1>13, <1>14, <1>15, <1>16, <1>17, <1>18, <1>19 DEF Next, Handler, Environment

LEMMA ExactAlways == Spec => [](IInv /\ Exact)
  <1>1. Init => IInv /\ Exact
    BY IInvInit, ExactInit
  <1>2. IInv /\ Exact /\ [Next]_vars => (IInv /\ Exact)'
    BY IInvStep, ExactStep
  <1> QED
    BY <1>1, <1>2, PTL DEF Spec

\* As long as an attempt has not turned back nothing is out of its control, and
\* a rename that lands behind the rollback leaves its file there.
Steady ==
    /\ phase \in {"idle", "prepare", "backup", "rename", "clean", "done"} => stuck = {}
    /\ phase \in Phases \ {"undoBackup", "failed", "crashed"} => late = {}
    /\ phase \in {"undoBackup", "failed"} => \A p \in late \ touched : disk[p] # Absent

\* A late rename is one that lands while or after the backups are moved back.
LEMMA SteadyStep == IInv /\ Steady /\ [Next]_vars => Steady'
  <1> SUFFICES ASSUME IInv, Steady, [Next]_vars PROVE Steady'
    OBVIOUS
  <1> USE DEF Steady, handlerVars, ghosts, Phases
  <1>a. /\ phase \in Phases /\ disk \in [Paths -> File \cup {Absent}]
        /\ late \subseteq Paths
    BY DEF IInv, TypeInv, TypeOK, Disk
  <1>1. ASSUME NEW j \in Jobs, RenameOk(j) PROVE Steady'
    <2>1. j[1] \in Paths /\ flight # {}
      BY <1>1 DEF RenameOk, Jobs
    <2>2. phase \in {"rename", "undoRename", "undoBackup", "failed"}
      BY <1>a, <2>1 DEF IInv, Loops, BeforeCommit
    <2> QED BY <1>1, <1>a, <2>1, <2>2 DEF RenameOk
  <1>2. ASSUME NEW j \in Jobs, RenameFail(j) PROVE Steady'
    BY <1>2, <1>a DEF RenameFail
  <1>3. ASSUME NEW p \in Paths, PrepareFile(p) PROVE Steady'
    BY <1>3 DEF PrepareFile
  <1>4. ASSUME NEW p \in Paths, BackupFile(p) \/ CleanFile(p) PROVE Steady'
    BY <1>4 DEF BackupFile, CleanFile
  <1>5. ASSUME NEW p \in Paths, UndoRename(p) PROVE Steady'
    BY <1>5 DEF UndoRename
  <1>6. ASSUME NEW p \in Paths, UndoBackup(p) PROVE Steady'
    <2>1. /\ phase = "undoBackup" /\ phase' = phase /\ late' = late /\ touched' = touched
          /\ disk' = disk \/ (backup[p] # Absent /\ disk' = [disk EXCEPT ![p] = backup[p]])
      BY <1>6 DEF UndoBackup
    <2> QED BY <1>a, <2>1
  <1>7. CASE Commit \/ BackupDone \/ RenameDone \/ CleanDone \/ UndoRenameDone \/ UndoBackupDone
    BY <1>7, <1>a DEF Commit, BackupDone, RenameDone, CleanDone, UndoRenameDone,
                UndoBackupDone, Fail
  <1>8. CASE Start \/ PrepareFail \/ BackupFail \/ Crash
    BY <1>8, <1>a DEF Start, PrepareFail, Fail, BackupFail, Crash
  <1>9. ASSUME NEW p \in Paths, Touch(p) PROVE Steady'
    <2>1. PICK f : disk' = [disk EXCEPT ![p] = f]
      BY <1>9 DEF Touch
    <2> QED BY <1>9, <1>a, <2>1 DEF Touch
  <1>10. CASE UNCHANGED vars
    BY <1>10 DEF vars
  <1> QED BY <1>1, <1>2, <1>3, <1>4, <1>5, <1>6, <1>7, <1>8, <1>9, <1>10
          DEF Next, Handler, Environment

LEMMA SteadyAlways == Spec => []Steady
  <1>1. Init => IInv /\ Steady
    BY IInvInit DEF Init, Steady
  <1>2. IInv /\ Steady /\ [Next]_vars => (IInv /\ Steady)'
    BY IInvStep, SteadyStep
  <1> QED BY <1>1, <1>2, PTL DEF Spec
-----------------------------------------------------------------------------
\* A finished update left the instance exactly as the two manifests ask,
\* whatever attempts of it crashed or failed before.
THEOREM CommitsExactly == Spec => []CommitExact
  <1>1. IInv /\ Exact /\ Steady => CommitExact
    <2> SUFFICES ASSUME IInv, Exact, Steady, phase = "done",
                        NEW p \in Paths \ (touched \cup unresolvable)
                 PROVE  ContentOf(disk[p]) = Updated(ContentOf(before[p]), plan.old[p], plan.new[p])
      BY DEF CommitExact
    <2>1. p \in Untouched /\ p \notin touched /\ delta[p] \in Operations
      BY DEF Steady, Untouched, astray, IInv, TypeInv, TypeOK, Delta
    <2>2. /\ delta[p] \in AddOps => plan.new[p] # Absent
          /\ delta[p] \in {"remove", "backup-remove"} =>
               plan.new[p] = Absent /\ plan.old[p] # Absent
          /\ delta[p] \in {"none", "keep"} =>
               ContentOf(before[p]) = Updated(ContentOf(before[p]), plan.old[p], plan.new[p])
      BY <2>1, DeltaExact DEF IInv, TypeInv, Exact
    <2>3. CASE delta[p] \in AddOps
      <3>1. p \in renamed
        BY <2>1, <2>3 DEF Exact, Committing, WithOperation, Landing, PathsOf, IInv, Loops
      <3>2. disk[p] # Absent /\ disk[p].content = plan.new[p]
        BY <2>1, <3>1 DEF Exact, InPlace
      <3> QED
        BY <2>2, <2>3, <3>2 DEF ContentOf, Updated
    <2>4. CASE delta[p] \in {"remove", "backup-remove"}
      BY <2>1, <2>2, <2>4 DEF Exact, Gone, ContentOf, Updated
    <2>5. CASE delta[p] \in {"none", "keep"}
      <3>1. p \notin renamed /\ p \notin backedUp
        BY <2>5 DEF Exact, Committing, WithOperation, Landing, AddOps, BackupOps
      <3> QED
        BY <2>1, <2>2, <2>5, <3>1 DEF Exact, Unmoved
    <2> QED
      BY <2>1, <2>3, <2>4, <2>5 DEF Operations, AddOps
  <1> QED
    BY <1>1, ExactAlways, SteadyAlways, PTL

\* A finished update leaves no workspace and no backup of a plain removal.
THEOREM EndsClean == Spec => []CleanEnd
  <1>1. Exact => CleanEnd
    BY DEF Exact, Dropped, CleanEnd, WithOperation
  <1> QED
    BY <1>1, ExactAlways, PTL
-----------------------------------------------------------------------------
(***************************************************************************)
(* What is in the instance at any time, also where the rollback could not  *)
(* put a file back.  The install service, for which the whole transaction  *)
(* is one step, may rely on this much of an update that a crash cut off or *)
(* that failed with renames still in flight.                               *)
(***************************************************************************)

\* A path is as it was unless it was moved to the backup folder, and then it is
\* empty, or a rename has reached it, and then it is new or empty.
Amid ==
    \A p \in Paths \ touched :
      \/ disk[p] = before[p]
      \/ p \in backedUp /\ disk[p] = Absent
      \/ p \in renamed /\ ContentOf(disk[p]) \in {Absent, plan.new[p]}

\* What the rollback is to move back is in the backup folder.
Spare ==
    \A p \in backedUp \ touched :
      \/ phase \in {"backup", "rename", "undoRename"}
      \/ phase = "undoBackup" /\ p \in todo
      => backup[p] = before[p]

\* No rename reaches a path that no source was found for: none is queued by an
\* install that refreshes its delta, and the others find nothing to rename.
Resolving ==
    /\ \A p \in unresolvable : plan.new[p] # Absent
    /\ phase = "prepare" => todo \cap (unresolvable \cup PathsOf(jobs)) = {}
    /\ \A p \in unresolvable \ touched : p \notin renamed
    /\ plan.mode = "locked" =>
         \A p \in (unresolvable \cap PathsOf(jobs)) \ touched : workspace[p] = Absent
    /\ plan.mode # "locked" =>
         /\ PathsOf(flight) \cap unresolvable = {}
         /\ phase = "backup" => PathsOf(jobs) \cap unresolvable = {}
         /\ \A p \in unresolvable :
              p \in backedUp \/ (phase = "backup" /\ p \in todo) => delta[p] # "backup-add"

Rest == Amid /\ Spare /\ Resolving

\* A file that is not found and queued all the same is one that could not be
\* linked: nothing of it is in the workspace.
LEMMA OutcomesLost ==
    ASSUME NEW p \in Paths, NEW o \in Outcomes(p), ~o.found, o.queues # {},
           delta[p] # "keep", workspace[p] # Absent => workspace[p].content = plan.new[p]
    PROVE  workspace[p] = Absent /\ o.lands = Absent
  <1> DEFINE Sound(r) == r.found \/ r.queues = {}
  <1>1. /\ \A q, lands : Sound(Outcome(q, lands, TRUE))
        /\ Sound(Outcome({}, Absent, FALSE))
        /\ Outcome({"link"}, Absent, FALSE).lands = Absent
    BY DEF Outcome
  <1> HIDE DEF Sound
  <1>2. \A r \in FetchOutcomes(plan.new[p]) : Sound(r)
    BY <1>1, Zenon DEF FetchOutcomes, UnzipOutcomes, DownloadOutcomes
  <1>3. \A r \in LinkOutcomes(plan.new[p]) : Sound(r) \/ r = Outcome({"link"}, Absent, FALSE)
    BY <1>1, Zenon DEF LinkOutcomes, UnlinkedOutcomes
  <1>4. ~Sound(o)
    BY DEF Sound
  <1>5. ~AlreadyPrepared(p)
    BY <1>1, <1>4, Zenon DEF Outcomes
  <1>6. plan.new[p] \in Digested /\ o \in LinkOutcomes(plan.new[p])
    BY <1>2, <1>4, <1>5, Zenon DEF Outcomes
  <1>7. o.lands = Absent
    BY <1>1, <1>3, <1>4, <1>6
  <1>8. workspace[p] = Absent
    BY <1>5, <1>6 DEF AlreadyPrepared
  <1> QED BY <1>7, <1>8

LEMMA RestInit == Init => Rest
  BY DEF Init, Rest, Amid, Spare, Resolving, PathsOf

\* A step that neither moves a file nor queues one, and goes on with the
\* rollback, if at all, from the start.
LEMMA RestKept ==
    ASSUME Rest, Loops,
           UNCHANGED <<plan, disk, backup, unresolvable, backedUp, renamed, before,
                       touched, jobs, delta>>,
           \A p \in Paths : workspace[p] = Absent => workspace'[p] = Absent,
           unresolvable \subseteq Paths, backedUp \subseteq Paths,
           flight' \subseteq flight \/ (phase = "backup" /\ flight' \subseteq jobs),
           phase' \notin {"prepare", "backup"} \/ (phase' = phase /\ todo' \subseteq todo),
           phase' = "rename" => phase \in {"backup", "rename"},
           phase' = "undoRename" => phase \in {"rename", "undoRename"},
           phase' = "undoBackup" => \/ phase \in {"backup", "rename", "undoRename"}
                                    \/ phase = "undoBackup" /\ todo' \subseteq todo
    PROVE  Rest'
  <1>1. Amid'
    BY DEF Rest, Amid
  <1>2. Spare'
    BY DEF Rest, Spare
  <1>3. Resolving'
    <2>1. PathsOf(jobs)' = PathsOf(jobs)
      BY DEF PathsOf
    <2>2. PathsOf(flight') \subseteq PathsOf(flight)
          \/ (phase = "backup" /\ PathsOf(flight') \subseteq PathsOf(jobs))
      BY DEF PathsOf
    <2>3. /\ \A p \in unresolvable' : plan'.new[p] # Absent
          /\ \A p \in unresolvable' \ touched' : p \notin renamed'
          /\ phase' = "prepare" => todo' \cap (unresolvable' \cup PathsOf(jobs)') = {}
      BY <2>1 DEF Rest, Resolving
    <2>4. plan'.mode = "locked" =>
            \A p \in (unresolvable' \cap PathsOf(jobs)') \ touched' : workspace'[p] = Absent
      BY <2>1 DEF Rest, Resolving
    <2>5. plan'.mode # "locked" =>
            /\ PathsOf(flight)' \cap unresolvable' = {}
            /\ phase' = "backup" => PathsOf(jobs)' \cap unresolvable' = {}
            /\ \A p \in unresolvable' :
                 p \in backedUp' \/ (phase' = "backup" /\ p \in todo')
                   => delta'[p] # "backup-add"
      BY <2>1, <2>2 DEF Rest, Resolving
    <2> QED BY <2>3, <2>4, <2>5 DEF Resolving
  <1> QED BY <1>1, <1>2, <1>3 DEF Rest

\* Every step keeps it; most of them move nothing.
LEMMA RestStep == IInv /\ Exact /\ Rest /\ [Next]_vars => Rest'
  <1> SUFFICES ASSUME IInv, Exact, Rest, [Next]_vars PROVE Rest'
    OBVIOUS
  <1> USE DEF astray
  <1>a. /\ WorkspaceTrue /\ Queueing /\ Committing /\ InPlace /\ Unmoved
        /\ Loops /\ BeforeCommit /\ Amid /\ Spare /\ Resolving /\ Wanted
    BY DEF Exact, IInv, TypeInv, Rest
  <1>b. /\ disk \in Disk /\ workspace \in Disk /\ backup \in Disk
        /\ plan.mode \in {"locked", "diff"}
        /\ renamed \subseteq Paths /\ backedUp \subseteq Paths /\ unresolvable \subseteq Paths
        /\ touched \subseteq Paths /\ todo \subseteq Paths
    BY DEF IInv, TypeInv, TypeOK, Plan
  <1> USE DEF handlerVars, ghosts
  <1>1. CASE Commit
    <2>1. /\ phase = "prepare" /\ phase' = "backup"
          /\ flight = {} /\ backedUp = {} /\ renamed = {}
          /\ UNCHANGED <<plan, disk, workspace, flight, unresolvable, backedUp, renamed>>
      BY <1>1, <1>a DEF Commit, BeforeCommit
    <2>2. Amid' /\ Spare'
      BY <1>1, <1>a, <2>1 DEF Commit, Amid, Spare
    <2>3. Resolving'
      <3>1. PathsOf(flight)' = {}
        BY <2>1 DEF PathsOf
      <3>2. CASE plan.mode = "locked"
        <4>1. PathsOf(jobs)' = PathsOf(jobs) /\ touched' = touched
          BY <1>1, <3>2 DEF Commit, PathsOf
        <4> QED BY <1>a, <2>1, <3>1, <3>2, <4>1 DEF Resolving
      <3>3. CASE plan.mode # "locked"
        <4>1. /\ jobs' = (WithOperation(CurrentDelta, AddOps) \ unresolvable) \X {"update"}
              /\ delta' = CurrentDelta
              /\ todo' = WithOperation(CurrentDelta, BackupOps)
                           \ (WithOperation(CurrentDelta, {"backup-add"}) \cap unresolvable)
          BY <1>1, <3>3 DEF Commit
        <4>2. PathsOf(jobs') \cap unresolvable = {}
          <5>1. \A A : PathsOf(A \X {"update"}) = A
            BY PathsOfProduct
          <5>2. PathsOf(jobs') = WithOperation(CurrentDelta, AddOps) \ unresolvable
            BY <4>1, <5>1, Zenon
          <5> QED BY <5>2
        <4>3. \A p \in unresolvable : p \in todo' => delta'[p] # "backup-add"
          BY <4>1 DEF WithOperation
        <4> QED BY <1>a, <2>1, <3>1, <3>3, <4>2, <4>3 DEF Resolving
      <3> QED BY <3>2, <3>3
    <2> QED BY <2>2, <2>3 DEF Rest
  <1>2. CASE BackupDone
    BY <1>2, <1>a, <1>b, RestKept DEF BackupDone
  <1>3. CASE RenameDone
    BY <1>3, <1>a, <1>b, RestKept DEF RenameDone
  <1>4. CASE CleanDone
    BY <1>4, <1>a, <1>b, RestKept DEF CleanDone, NoFiles
  <1>5. CASE UndoRenameDone
    BY <1>5, <1>a, <1>b, RestKept DEF UndoRenameDone
  <1>6. CASE UndoBackupDone
    BY <1>6, <1>a, <1>b, RestKept DEF UndoBackupDone, Fail, NoFiles
  <1>7. ASSUME NEW p \in Paths, PrepareFile(p) PROVE Rest'
    <2>1. /\ phase = "prepare" /\ phase' = phase /\ p \in todo /\ todo' = todo \ {p}
          /\ UNCHANGED <<plan, disk, backup, flight, delta, backedUp, renamed, before, touched>>
          /\ renamed = {} /\ flight = {} /\ backedUp = {}
      BY <1>7, <1>a DEF PrepareFile, BeforeCommit
    <2>2. PICK o \in Outcomes(p) :
            /\ jobs' = jobs \cup ({p} \X o.queues)
            /\ workspace' = IF o.lands = Absent THEN workspace
                            ELSE [workspace EXCEPT ![p] = o.lands]
            /\ unresolvable' = IF o.found THEN unresolvable ELSE unresolvable \cup {p}
      BY <1>7 DEF PrepareFile
    <2>3. PathsOf(jobs') = PathsOf(jobs) \cup (IF o.queues = {} THEN {} ELSE {p})
      <3>1. PathsOf(jobs') = PathsOf(jobs) \cup PathsOf({p} \X o.queues)
        BY <2>2 DEF PathsOf
      <3> QED BY <3>1, PathsOfProduct
    <2>4. Amid' /\ Spare'
      BY <1>a, <2>1 DEF Amid, Spare
    <2>5. Resolving'
      <3>1. \A q \in Paths : q # p => workspace'[q] = workspace[q]
        BY <1>b, <2>2 DEF Disk
      <3>2. plan.mode = "locked" /\ p \in unresolvable' /\ p \in PathsOf(jobs') /\ p \notin touched
              => workspace'[p] = Absent
        <4> SUFFICES ASSUME plan.mode = "locked", p \in unresolvable', p \in PathsOf(jobs'),
                            p \notin touched
                     PROVE  workspace'[p] = Absent
          OBVIOUS
        <4>1. ~o.found /\ o.queues # {}
          BY <1>a, <2>1, <2>2, <2>3 DEF Resolving
        <4>2. delta[p] # "keep"
          BY <1>a, <2>1 DEF Queueing, WithOperation, AddOps
        <4>3. workspace[p] = Absent /\ o.lands = Absent
          BY <1>a, <4>1, <4>2, OutcomesLost DEF WorkspaceTrue
        <4> QED BY <2>2, <4>3
      <3>3. plan.new[p] # Absent
        BY <1>a, <2>1, AbsentAssumption DEF Wanted
      <3>4. PathsOf(flight)' = {}
        BY <2>1 DEF PathsOf
      <3> QED BY <1>a, <1>b, <2>1, <2>2, <2>3, <3>1, <3>2, <3>3, <3>4 DEF Resolving
    <2> QED BY <2>4, <2>5 DEF Rest
  <1>8. ASSUME NEW p \in Paths, BackupFile(p) PROVE Rest'
    <2>1. /\ phase = "backup" /\ phase' = "backup" /\ p \in todo /\ todo' = todo \ {p}
          /\ UNCHANGED <<plan, workspace, jobs, flight, unresolvable, renamed, before,
                         touched, delta>>
          /\ renamed = {} /\ p \notin backedUp
      BY <1>8, <1>a DEF BackupFile, Loops
    <2>2. \A q \in Paths : q # p => /\ disk'[q] = disk[q] /\ backup'[q] = backup[q]
                                    /\ q \in backedUp' <=> q \in backedUp
      BY <1>8, <1>b DEF BackupFile, Disk
    <2>3. IF disk[p] = Absent
          THEN disk'[p] = disk[p] /\ backup'[p] = backup[p] /\ backedUp' = backedUp
          ELSE disk'[p] = Absent /\ backup'[p] = disk[p] /\ p \in backedUp'
      BY <1>8, <1>b DEF BackupFile, Disk
    <2>4. backedUp' \subseteq backedUp \cup {p}
      BY <1>8 DEF BackupFile
    <2>5. p \notin touched => disk[p] = before[p]
      BY <1>a, <2>1 DEF Amid
    <2>6. Amid' /\ Spare'
      BY <1>a, <1>b, <2>1, <2>2, <2>3, <2>4, <2>5 DEF Amid, Spare
    <2>7. PathsOf(jobs)' = PathsOf(jobs) /\ PathsOf(flight)' = PathsOf(flight)
      BY <2>1 DEF PathsOf
    <2>8. Resolving'
      BY <1>a, <2>1, <2>4, <2>7 DEF Resolving
    <2> QED BY <2>6, <2>8 DEF Rest
  <1>9. ASSUME NEW p \in Paths, CleanFile(p) PROVE Rest'
    <2>1. phase = "clean" /\ phase' = "clean"
          /\ UNCHANGED <<plan, disk, workspace, handlerVars, flight, before, touched>>
      BY <1>9 DEF CleanFile
    <2>2. Amid' /\ Spare'
      BY <1>a, <2>1 DEF Amid, Spare
    <2>3. PathsOf(jobs)' = PathsOf(jobs) /\ PathsOf(flight)' = PathsOf(flight)
      BY <2>1 DEF PathsOf
    <2>4. Resolving'
      BY <1>a, <2>1, <2>3 DEF Resolving
    <2> QED BY <2>2, <2>4 DEF Rest
  <1>10. ASSUME NEW p \in Paths, UndoRename(p) PROVE Rest'
    <2>1. /\ phase = "undoRename" /\ phase' = "undoRename" /\ p \in renamed
          /\ UNCHANGED <<plan, backup, handlerVars, flight, before, touched>>
      BY <1>10, <1>a DEF UndoRename, Loops
    <2>2. /\ \A q \in Paths : q # p => disk'[q] = disk[q] /\ workspace'[q] = workspace[q]
          /\ disk'[p] \in {disk[p], Absent}
      BY <1>10, <1>b DEF UndoRename, Disk
    <2>3. Amid' /\ Spare'
      BY <1>a, <1>b, <2>1, <2>2 DEF Amid, Spare, ContentOf
    <2>4. PathsOf(jobs)' = PathsOf(jobs) /\ PathsOf(flight)' = PathsOf(flight)
      BY <2>1 DEF PathsOf
    <2>5. Resolving'
      BY <1>a, <1>b, <2>1, <2>2, <2>4 DEF Resolving
    <2> QED BY <2>3, <2>5 DEF Rest
  <1>11. ASSUME NEW p \in Paths, UndoBackup(p) PROVE Rest'
    <2>1. /\ phase = "undoBackup" /\ phase' = "undoBackup" /\ p \in backedUp
          /\ p \in todo /\ todo' = todo \ {p}
          /\ UNCHANGED <<plan, workspace, handlerVars, flight, before, touched>>
      BY <1>11, <1>a DEF UndoBackup, Loops
    <2>2. /\ \A q \in Paths : q # p => disk'[q] = disk[q] /\ backup'[q] = backup[q]
          /\ disk'[p] \in {disk[p], backup[p]}
      BY <1>11, <1>b DEF UndoBackup, Disk
    <2>3. p \notin touched => backup[p] = before[p]
      BY <1>a, <2>1 DEF Spare
    <2>4. Amid' /\ Spare'
      BY <1>a, <1>b, <2>1, <2>2, <2>3 DEF Amid, Spare
    <2>5. PathsOf(jobs)' = PathsOf(jobs) /\ PathsOf(flight)' = PathsOf(flight)
      BY <2>1 DEF PathsOf
    <2>6. Resolving'
      BY <1>a, <2>1, <2>5 DEF Resolving
    <2> QED BY <2>4, <2>6 DEF Rest
  <1>12. ASSUME NEW j \in Jobs, RenameOk(j) PROVE Rest'
    <2> PICK p \in Paths : p = j[1]
      BY DEF Jobs
    <2>1. /\ j \in flight /\ workspace[p] # Absent /\ renamed' = renamed \cup {p}
          /\ flight' = flight \ {j}
          /\ UNCHANGED <<plan, phase, backup, delta, jobs, unresolvable, backedUp, before,
                         touched>>
          /\ phase # "undoRename" => todo' = todo
      BY <1>12 DEF RenameOk
    <2>2. \A q \in Paths : /\ disk'[q] = IF q = p THEN workspace[p] ELSE disk[q]
                           /\ workspace'[q] = IF q = p THEN Absent ELSE workspace[q]
      BY <1>12, <1>b DEF RenameOk, Disk
    <2>3. p \notin touched => workspace[p].content = plan.new[p]
      BY <1>a, <2>1 DEF WorkspaceTrue
    <2>4. phase \notin {"prepare", "backup"}
      BY <1>a, <2>1 DEF Loops, BeforeCommit
    <2>5. Amid' /\ Spare'
      BY <1>a, <1>b, <2>1, <2>2, <2>3 DEF Amid, Spare, ContentOf
    <2>6. /\ PathsOf(jobs)' = PathsOf(jobs) /\ PathsOf(flight') \subseteq PathsOf(flight)
          /\ p \in PathsOf(flight) /\ p \in PathsOf(jobs)
      BY <1>a, <2>1 DEF PathsOf, Loops
    <2>7. p \notin unresolvable \ touched
      BY <1>a, <2>1, <2>6 DEF Resolving
    <2>8. Resolving'
      BY <1>a, <1>b, <2>1, <2>2, <2>4, <2>6, <2>7 DEF Resolving
    <2> QED BY <2>5, <2>8 DEF Rest
  <1>13. ASSUME NEW j \in Jobs, RenameFail(j) PROVE Rest'
    <2>1. phase \notin {"prepare", "backup"}
      BY <1>13, <1>a DEF RenameFail, Loops, BeforeCommit
    <2> QED BY <1>13, <1>a, <1>b, <2>1, RestKept DEF RenameFail
  <1>14. CASE Start
    <2>1. /\ phase' = "prepare" /\ backedUp' = {} /\ renamed' = {} /\ unresolvable' = {}
          /\ jobs' = {} /\ flight' = {} /\ before' = disk /\ disk' = disk /\ plan' = plan
      BY <1>14 DEF Start
    <2>2. PathsOf(jobs)' = {} /\ PathsOf(flight)' = {}
      BY <2>1 DEF PathsOf
    <2> QED BY <2>1, <2>2 DEF Rest, Amid, Spare, Resolving
  <1>15. CASE PrepareFail
    BY <1>15, <1>a, <1>b, RestKept DEF PrepareFail, Fail, NoFiles
  <1>16. CASE BackupFail
    BY <1>16, <1>a, <1>b, RestKept DEF BackupFail
  <1>17. CASE Crash
    BY <1>17, <1>a, <1>b, RestKept DEF Crash
  <1>18. ASSUME NEW p \in Paths, Touch(p) PROVE Rest'
    <2>1. /\ touched' = touched \cup {p}
          /\ UNCHANGED <<plan, workspace, backup, phase, todo, handlerVars, flight, before>>
      BY <1>18 DEF Touch
    <2>2. \A q \in Paths : q # p => disk'[q] = disk[q]
      BY <1>18, <1>b DEF Touch, Disk
    <2>3. Amid' /\ Spare'
      BY <1>a, <1>b, <2>1, <2>2 DEF Amid, Spare
    <2>4. PathsOf(jobs)' = PathsOf(jobs) /\ PathsOf(flight)' = PathsOf(flight)
      BY <2>1 DEF PathsOf
    <2>5. Resolving'
      BY <1>a, <2>1, <2>4 DEF Resolving
    <2> QED BY <2>3, <2>5 DEF Rest
  <1>19. CASE UNCHANGED vars
    BY <1>19, <1>a, <1>b, RestKept DEF vars
  <1> QED
    BY <1>1, <1>2, <1>3, <1>4, <1>5, <1>6, <1>7, <1>8, <1>9, <1>10, <1>11, <1>12, <1>13,
       <1>14, <1>15, <1>16, <1>17, <1>18, <1>19 DEF Next, Handler, Environment

LEMMA RestAlways == Spec => [](IInv /\ Exact /\ Rest)
  <1>1. Init => Rest
    BY RestInit
  <1>2. IInv /\ Exact /\ Rest /\ [Next]_vars => Rest'
    BY RestStep
  <1> QED
    BY <1>1, <1>2, ExactAlways, PTL DEF Spec
-----------------------------------------------------------------------------
\* At every moment, and so also when a crash cuts the update off or a failing
\* rollback gives up, each path holds what it held, what the new manifest wants
\* there or nothing; and a path that neither manifest lists is as it was.
HalfUpdated ==
    \A p \in Paths \ touched :
      ContentOf(disk[p]) \in Between(ContentOf(before[p]), plan.old[p], plan.new[p])

\* An interrupted or failed update leaves nothing but old, new and absent files,
\* and touches no path that the two manifests do not list.
THEOREM LeavesNothingElse == Spec => []HalfUpdated
  <1>1. IInv /\ Exact /\ Rest => HalfUpdated
    <2> SUFFICES ASSUME IInv, Exact, Rest, NEW p \in Paths \ touched
                 PROVE  ContentOf(disk[p]) \in
                          Between(ContentOf(before[p]), plan.old[p], plan.new[p])
      BY DEF HalfUpdated
    <2>1. CASE disk[p] = before[p]
      BY <2>1 DEF Between
    <2>2. CASE disk[p] # before[p]
      <3>1. p \in backedUp \cup renamed /\ ContentOf(disk[p]) \in {Absent, plan.new[p]}
        BY <2>2 DEF Rest, Amid, ContentOf
      <3>2. delta[p] \in AddOps \cup BackupOps
        BY <3>1 DEF Exact, Committing, Landing, WithOperation
      <3>3. phase # "idle"
        BY <3>1 DEF IInv, BeforeCommit
      <3>4. plan.new[p] # Absent \/ plan.old[p] # Absent
        BY <3>2, <3>3, DeltaExact DEF Exact, IInv, TypeInv, AddOps, BackupOps
      <3> QED BY <3>1, <3>4 DEF Between
    <2> QED BY <2>1, <2>2
  <1> QED BY <1>1, RestAlways, PTL

\* A path that no source was found for is never written.  Only an install that
\* works from its own queues takes a changed file away from there, and that file
\* is in the backup folder when the update is done.
UnresolvedSpared ==
    \A p \in unresolvable \ touched :
      \/ disk[p] = before[p]
      \/ /\ plan.mode = "locked" /\ delta[p] = "backup-add" /\ disk[p] = Absent
         /\ phase = "done" => backup[p] = before[p]

\* What could not be resolved keeps its file, in the instance or in the backup.
THEOREM SparesUnresolved == Spec => []UnresolvedSpared
  <1>1. IInv /\ Exact /\ Rest /\ Steady => UnresolvedSpared
    <2> SUFFICES ASSUME IInv, Exact, Rest, Steady, NEW p \in unresolvable \ touched,
                        disk[p] # before[p]
                 PROVE  /\ plan.mode = "locked" /\ delta[p] = "backup-add" /\ disk[p] = Absent
                        /\ phase = "done" => backup[p] = before[p]
      BY DEF UnresolvedSpared
    <2>1. p \in Paths /\ p \notin renamed /\ plan.new[p] # Absent
      BY DEF IInv, TypeInv, TypeOK, Rest, Resolving
    <2>2. p \in backedUp /\ disk[p] = Absent
      BY <2>1 DEF Rest, Amid
    <2>3. phase # "idle" /\ delta[p] \in BackupOps
      BY <2>2 DEF IInv, BeforeCommit, Exact, Committing, WithOperation
    <2>4. delta[p] = "backup-add"
      BY <2>1, <2>3, DeltaExact DEF Exact, IInv, TypeInv, BackupOps
    <2>5. plan.mode = "locked"
      BY <2>2, <2>4 DEF Rest, Resolving
    <2>6. phase = "done" => backup[p] = before[p]
      BY <2>1, <2>2, <2>4 DEF Steady, Phases, astray, IInv, BackedUp, OwedPaths, Untouched, PreserveOps
    <2> QED BY <2>2, <2>4, <2>5, <2>6
  <1> QED BY <1>1, RestAlways, SteadyAlways, PTL

\* A failed attempt put every file back, also the ones that were renamed while
\* the rollback ran.  Excepted are a file that "add" replaced without a backup,
\* which is gone, a path where a move of the rollback failed, and one where a
\* rename landed behind the rollback, which may hold the new file instead.
THEOREM RollsBack == Spec => []RollbackRestores
  <1>1. IInv /\ Exact /\ Rest /\ Steady => RollbackRestores
    <2> SUFFICES ASSUME IInv, Exact, Rest, Steady, phase = "failed",
                        NEW p \in Paths \ (touched \cup stuck)
                 PROVE  \/ disk[p] = before[p]
                        \/ delta[p] = "add" /\ before[p] # Absent /\ disk[p] = Absent
                        \/ p \in late /\ ContentOf(disk[p]) = plan.new[p]
      BY DEF RollbackRestores
    <2>1. CASE p \in late
      <3>1. disk[p] # Absent /\ ContentOf(disk[p]) # Absent
        BY <2>1, AbsentAssumption DEF Steady, IInv, TypeInv, TypeOK, Disk, File, ContentOf
      <3> QED BY <2>1, <3>1 DEF Rest, Amid
    <2>2. CASE p \in Untouched
      <3>1. CASE p \in backedUp
        BY <2>2, <3>1 DEF Exact, InBackup
      <3>2. CASE p \notin backedUp /\ p \in renamed
        <4>1. disk[p] = Absent
          BY <2>2, <3>2 DEF Exact, InPlace
        <4>2. delta[p] \in AddOps
          BY <3>2 DEF Exact, Committing, Landing, WithOperation
        <4>3. delta[p] # "backup-add"
          BY <2>2, <3>2 DEF IInv, NotBackedUp, OwedPaths, PreserveOps, Landing
        <4> QED
          BY <4>1, <4>2, <4>3 DEF AddOps
      <3>3. CASE p \notin backedUp /\ p \notin renamed
        BY <2>2, <3>3 DEF Exact, Unmoved
      <3> QED
        BY <3>1, <3>2, <3>3
    <2> QED
      BY <2>1, <2>2 DEF Untouched, astray
  <1> QED
    BY <1>1, RestAlways, SteadyAlways, PTL
=============================================================================
