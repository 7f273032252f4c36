------------------------ MODULE InstanceInstallProofs ------------------------
(***************************************************************************)
(* Proofs about InstanceInstall for every number of calls, every set of    *)
(* paths and requests and every bound: type correctness, the discipline of *)
(* the instance lock, and what rests on it - a deleted instance stays      *)
(* deleted, the record of an install is true while the install holds the   *)
(* lock, and unresolved files stay listed.                                 *)
(***************************************************************************)
EXTENDS InstanceInstall, TLAPS

\* Only a call that has something to install gets to the lock.
HasTarget ==
    \A u \in Updates :
      pc[u] \in {"called", "patch", "waiting"} \cup Inside => target[u] # None

TypeInv == TypeOK /\ HasTarget
-----------------------------------------------------------------------------
(***************************************************************************)
(* Lemmas about the constants and the operators.                           *)
(***************************************************************************)

\* Who is who among the calls.
LEMMA CallSets ==
    /\ Locked \subseteq Updates /\ Diffs \subseteq Updates
    /\ Installs \subseteq Locked /\ Resumes \subseteq Locked
    /\ Updates \subseteq Calls /\ Removals \subseteq Calls /\ Dismissals \subseteq Calls
    /\ Updates = Locked \cup Diffs
    /\ Locked \cap Diffs = {} /\ Updates \cap Removals = {}
    /\ Updates \cap Dismissals = {} /\ Removals \cap Dismissals = {}
    /\ None \notin Calls
  BY CallsAssumption DEF Calls, Updates, Locked

\* What an install or a diff may ask for is a manifest with its upstream.
LEMMA Requests ==
    /\ Targets \subseteq Snapshot
    /\ \A x \in Patches : /\ [files |-> x.old, upstream |-> Peer] \in Snapshot
                          /\ [files |-> x.files, upstream |-> Peer] \in Snapshot
    /\ None \notin Snapshot
    /\ \A s \in Snapshot : s.files \in Manifest
    /\ NoFiles \in Manifest
  <1>1. ASSUME NEW t \in Targets PROVE t \in Snapshot
    <2>1. t.upstream \in Upstreams
      BY DEF Upstreams
    <2> QED BY <2>1, RequestsAssumption DEF Snapshot
  <1>2. Peer \in Upstreams
    BY DEF Upstreams
  <1>3. ASSUME NEW x \in Patches
        PROVE  /\ [files |-> x.old, upstream |-> Peer] \in Snapshot
               /\ [files |-> x.files, upstream |-> Peer] \in Snapshot
    BY <1>2, <1>3, RequestsAssumption DEF Snapshot
  <1>4. NoFiles \in Manifest
    BY DEF NoFiles, Manifest
  <1> QED BY <1>1, <1>3, <1>4, RequestsAssumption DEF Snapshot

\* The lock and its queue keep their types.
LEMMA AcquireTyped ==
    ASSUME holder \in Calls \cup {None}, queue \in Seq(Calls), NEW c \in Calls, Acquire(c)
    PROVE  holder' \in Calls \cup {None} /\ queue' \in Seq(Calls)
  BY DEF Acquire

\* The same of a release.
LEMMA ReleaseTyped ==
    ASSUME holder \in Calls \cup {None}, queue \in Seq(Calls), Release
    PROVE  holder' \in Calls \cup {None} /\ queue' \in Seq(Calls)
  BY DEF Release

\* Moving the files leaves a manifest's worth of files, with what the target
\* wants in place but for what could not be resolved.
LEMMA MovedFacts ==
    ASSUME TypeInv, NEW u \in Updates, pc[u] \in Inside, NEW d \in Moved(u)
    PROVE  /\ d \in Manifest
           /\ \A p \in Paths \ paths[u] : target[u].files[p] \in {d[p], Absent}
  <1>1. d \in Manifest
    BY DEF Moved
  <1>2. ASSUME NEW p \in Paths \ paths[u]
        PROVE  target[u].files[p] \in {d[p], Absent}
    <2>1. d[p] \in Leaves(u, p)
      BY DEF Moved
    <2>2. d[p] = Updated(disk[p], FilesOf(seen[u])[p], target[u].files[p])
      BY <2>1 DEF Leaves
    <2> QED BY <2>2 DEF Updated
  <1> QED BY <1>1, <1>2
-----------------------------------------------------------------------------
(***************************************************************************)
(* Type correctness.                                                       *)
(***************************************************************************)

\* The initial states have their types.
LEMMA TypeInit == Init => TypeInv
  <1> SUFFICES ASSUME Init PROVE TypeInv
    OBVIOUS
  <1>1. disk \in Manifest /\ lockFile \in Snapshot \cup {None}
    BY Requests DEF Init
  <1>2. HasTarget
    BY CallSets DEF Init, HasTarget, Inside
  <1>3. pc \in [Calls -> Steps]
    BY DEF Init, Steps
  <1>4. /\ seen \in [Updates -> Snapshot \cup {None}]
        /\ target \in [Updates -> Snapshot \cup {None}]
    BY DEF Init
  <1>5. /\ paths \in [Updates \cup Dismissals -> SUBSET Paths]
        /\ listed \in [Updates \cup Dismissals -> SUBSET Paths]
    BY DEF Init
  <1>6. holder \in Calls \cup {None} /\ queue \in Seq(Calls)
    BY DEF Init
  <1>7. /\ folder \in BOOLEAN /\ profile \in Snapshot \cup {None}
        /\ unresolved \subseteq Paths
        /\ handlers \subseteq Updates /\ aborted \subseteq Updates
        /\ missing \subseteq Paths /\ dismissed \subseteq Paths
        /\ lapsed \in BOOLEAN /\ removed \in BOOLEAN
        /\ troubles \in Nat
    BY TroublesAssumption DEF Init
  <1> QED BY <1>1, <1>2, <1>3, <1>4, <1>5, <1>6, <1>7 DEF TypeInv, TypeOK

\* What Throw and a step of a call do to the types.
LEMMA ThrowTyped ==
    ASSUME TypeInv, NEW c \in Updates, NEW step \in Steps, Throw(c, step),
           step \notin {"called", "patch", "waiting"} \cup Inside,
           profile' \in Snapshot \cup {None}, troubles' \in Nat, disk' \in Manifest
    PROVE  TypeInv'
  <1>1. holder' \in Calls \cup {None} /\ queue' \in Seq(Calls)
    BY ReleaseTyped DEF Throw, TypeInv, TypeOK
  <1>2. pc' = [pc EXCEPT ![c] = step] /\ pc' \in [Calls -> Steps]
    BY CallSets DEF Throw, Goto, TypeInv, TypeOK
  <1>3. HasTarget'
    BY <1>2, CallSets DEF Throw, locals, TypeInv, TypeOK, HasTarget
  <1>4. handlers' \subseteq Updates /\ lapsed' \in BOOLEAN
    BY DEF Throw, TypeInv, TypeOK
  <1> QED BY <1>1, <1>2, <1>3, <1>4 DEF Throw, locals, TypeInv, TypeOK

\* A call that goes on to a step, with the targets as they were.
LEMMA GotoTyped ==
    ASSUME TypeInv, NEW c \in Calls, NEW step \in Steps, Goto(c, step),
           target' = target,
           c \in Updates /\ step \in {"called", "patch", "waiting"} \cup Inside
             => target[c] # None
    PROVE  pc' \in [Calls -> Steps] /\ HasTarget'
  <1>1. pc' = [pc EXCEPT ![c] = step] /\ pc \in [Calls -> Steps]
    BY DEF Goto, TypeInv, TypeOK
  <1>2. ASSUME NEW u \in Updates,
               pc'[u] \in {"called", "patch", "waiting"} \cup Inside
        PROVE  target'[u] # None
    <2>1. CASE u = c
      BY <1>1, <1>2, <2>1
    <2>2. CASE u # c
      BY <1>1, <1>2, <2>2, CallSets DEF TypeInv, HasTarget
    <2> QED BY <2>1, <2>2
  <1> QED BY <1>1, <1>2 DEF HasTarget

\* Every step of every call, a crash and a stutter keep the types.
LEMMA TypeStep == TypeInv /\ [Next]_vars => TypeInv'
  <1> SUFFICES ASSUME TypeInv, [Next]_vars PROVE TypeInv'
    OBVIOUS
  <1> USE DEF TypeInv
  <1>1. ASSUME NEW i \in Calls, CallInstall(i) PROVE TypeInv'
    <2>1. i \in Installs /\ i \in Updates /\ pc' = [pc EXCEPT ![i] = "called"]
      BY <1>1, CallSets DEF CallInstall, Goto
    <2>2. PICK t \in Targets : target' = [target EXCEPT ![i] = t]
      BY <1>1 DEF CallInstall
    <2>3. t \in Snapshot /\ t # None
      BY Requests
    <2>4. target' \in [Updates -> Snapshot \cup {None}] /\ HasTarget'
      BY <2>1, <2>2, <2>3, CallSets DEF TypeOK, HasTarget
    <2>5. pc' \in [Calls -> Steps]
      BY <2>1 DEF TypeOK, Steps
    <2> QED BY <1>1, <2>4, <2>5 DEF CallInstall, files, mutex, ghosts, TypeOK
  <1>2. ASSUME NEW r \in Calls, CallResume(r) PROVE TypeInv'
    <2>1. pc' \in [Calls -> Steps] /\ HasTarget'
      BY <1>2, GotoTyped DEF CallResume, Steps, Inside
    <2> QED BY <1>2, <2>1, CallSets DEF CallResume, files, mutex, ghosts, TypeOK
  <1>3. ASSUME NEW r \in Calls, ReadProfile(r) PROVE TypeInv'
    <2>1. r \in Updates /\ target' = [target EXCEPT ![r] = profile]
          /\ pc' = [pc EXCEPT ![r] = IF profile = None THEN "done" ELSE "called"]
      BY <1>3, CallSets DEF ReadProfile, Goto
    <2>2. target' \in [Updates -> Snapshot \cup {None}]
      BY <2>1 DEF TypeOK
    <2>3. HasTarget'
      BY <2>1, CallSets DEF TypeOK, HasTarget, Inside
    <2>4. pc' \in [Calls -> Steps]
      BY <2>1 DEF TypeOK, Steps, Ended
    <2> QED BY <1>3, <2>2, <2>3, <2>4 DEF ReadProfile, files, mutex, ghosts, TypeOK
  <1>4. ASSUME NEW d \in Calls, CallDiff(d) PROVE TypeInv'
    <2>1. d \in Updates /\ pc' = [pc EXCEPT ![d] = "called"]
      BY <1>4, CallSets DEF CallDiff, Goto
    <2>2. PICK x \in Patches :
            /\ seen' = [seen EXCEPT ![d] = [files |-> x.old, upstream |-> Peer]]
            /\ target' = [target EXCEPT ![d] = [files |-> x.files, upstream |-> Peer]]
      BY <1>4 DEF CallDiff
    <2>3. /\ [files |-> x.old, upstream |-> Peer] \in Snapshot
          /\ [files |-> x.files, upstream |-> Peer] \in Snapshot
      BY Requests
    <2>4. /\ seen' \in [Updates -> Snapshot \cup {None}]
          /\ target' \in [Updates -> Snapshot \cup {None}]
      BY <2>1, <2>2, <2>3 DEF TypeOK
    <2>5. HasTarget'
      BY <2>1, <2>2, <2>3, Requests, CallSets DEF TypeOK, HasTarget
    <2>6. pc' \in [Calls -> Steps]
      BY <2>1 DEF TypeOK, Steps
    <2> QED BY <1>4, <2>4, <2>5, <2>6 DEF CallDiff, files, mutex, ghosts, TypeOK
  <1>5. ASSUME NEW u \in Calls, Register(u) PROVE TypeInv'
    <2>1. u \in Updates /\ target[u] # None /\ target' = target
      BY <1>5 DEF Register, HasTarget, locals
    <2>2. holder' \in Calls \cup {None} /\ queue' \in Seq(Calls)
      BY <1>5, AcquireTyped DEF Register, mutex, TypeOK
    <2>3. pc' \in [Calls -> Steps] /\ HasTarget'
      BY <1>5, <2>1, GotoTyped DEF Register, Steps
    <2> QED BY <1>5, <2>1, <2>2, <2>3 DEF Register, files, locals, ghosts, TypeOK
  <1>6. ASSUME NEW d \in Calls, PrepareDiff(d) PROVE TypeInv'
    <2>1. d \in Updates /\ target[d] # None
      BY <1>6, CallSets DEF PrepareDiff, HasTarget
    <2>2. paths' \in [Updates \cup Dismissals -> SUBSET Paths]
      BY <1>6, <2>1 DEF PrepareDiff, Unresolvable, TypeOK
    <2>3. holder' \in Calls \cup {None} /\ queue' \in Seq(Calls)
      BY <1>6, AcquireTyped DEF PrepareDiff, TypeOK
    <2>4. pc' \in [Calls -> Steps] /\ HasTarget'
      BY <1>6, <2>1, GotoTyped DEF PrepareDiff, Steps
    <2> QED BY <1>6, <2>2, <2>3, <2>4 DEF PrepareDiff, files, ghosts, TypeOK
  <1>7. ASSUME NEW d \in Calls, PrepareDiffFail(d) PROVE TypeInv'
    <2>1. pc' \in [Calls -> Steps] /\ HasTarget'
      BY <1>7, GotoTyped DEF PrepareDiffFail, Steps, Inside, locals
    <2>2. troubles' \in Nat
      BY <1>7 DEF PrepareDiffFail, Trouble, TypeOK
    <2> QED BY <1>7, <2>1, <2>2 DEF PrepareDiffFail, files, mutex, locals, ghosts, TypeOK
  <1>8. ASSUME NEW u \in Calls, Begin(u) PROVE TypeInv'
    <2>1. u \in Updates /\ target[u] \in Snapshot /\ troubles' \in Nat
      BY <1>8 DEF Begin, HasTarget, TypeOK
    <2>2. CASE u \in aborted \/ ~folder
      <3>1. Throw(u, AfterThrow(u)) /\ profile' = profile /\ disk' = disk
        BY <1>8, <2>2 DEF Begin
      <3>2. AfterThrow(u) \in {"closing", "failed"}
        BY DEF AfterThrow
      <3> QED BY <2>1, <3>1, <3>2, ThrowTyped DEF Steps, Ended, Inside, TypeOK
    <2>3. CASE ~(u \in aborted \/ ~folder)
      <3>1. pc' \in [Calls -> Steps] /\ HasTarget'
        BY <1>8, <2>1, <2>3, GotoTyped, Requests DEF Begin, Steps, Inside, locals
      <3> QED BY <1>8, <2>1, <2>3, <3>1 DEF Begin, mutex, locals, ghosts, TypeOK
    <2> QED BY <2>2, <2>3
  <1>9. ASSUME NEW l \in Calls, Refuse(l) PROVE TypeInv'
    BY <1>9, ThrowTyped, CallSets DEF Refuse, Steps, Inside, TypeOK
  <1>10. ASSUME NEW l \in Calls, Prepare(l) PROVE TypeInv'
    <2>1. l \in Updates /\ target[l] # None
      BY <1>10, CallSets DEF Prepare, HasTarget, Inside
    <2>2. paths' \in [Updates \cup Dismissals -> SUBSET Paths]
      BY <1>10, <2>1 DEF Prepare, Unresolvable, TypeOK
    <2>3. pc' \in [Calls -> Steps] /\ HasTarget'
      BY <1>10, <2>1, GotoTyped DEF Prepare, Steps, Inside
    <2> QED BY <1>10, <2>2, <2>3 DEF Prepare, files, mutex, ghosts, TypeOK
  <1>11. ASSUME NEW u \in Calls, MoveFiles(u) PROVE TypeInv'
    <2>1. u \in Updates /\ target[u] # None /\ disk' \in Manifest
      BY <1>11, MovedFacts DEF MoveFiles, HasTarget, Inside
    <2>2. pc' \in [Calls -> Steps] /\ HasTarget'
      BY <1>11, <2>1, GotoTyped DEF MoveFiles, Steps, Inside, locals
    <2> QED BY <1>11, <2>1, <2>2 DEF MoveFiles, mutex, locals, ghosts, TypeOK
  <1>12. ASSUME NEW l \in Calls, WriteLockFile(l) PROVE TypeInv'
    <2>1. l \in Updates /\ target[l] # None /\ lockFile' \in Snapshot \cup {None}
      BY <1>12, CallSets DEF WriteLockFile, HasTarget, Inside, TypeOK
    <2>2. pc' \in [Calls -> Steps] /\ HasTarget'
      BY <1>12, <2>1, GotoTyped DEF WriteLockFile, Steps, Inside, locals
    <2> QED BY <1>12, <2>1, <2>2 DEF WriteLockFile, mutex, locals, ghosts, TypeOK
  <1>13. ASSUME NEW u \in Calls, ClearProfile(u) PROVE TypeInv'
    <2>1. u \in Updates /\ target[u] # None
      BY <1>13 DEF ClearProfile, HasTarget, Inside
    <2>2. missing' \subseteq Paths /\ dismissed' \subseteq Paths
      BY <1>13, <2>1 DEF ClearProfile, Lost, TypeOK
    <2>3. pc' \in [Calls -> Steps] /\ HasTarget'
      BY <1>13, <2>1, GotoTyped DEF ClearProfile, Steps, Inside, locals
    <2> QED BY <1>13, <2>2, <2>3 DEF ClearProfile, mutex, locals, TypeOK
  <1>14. ASSUME NEW u \in Calls, ReadUnresolved(u) PROVE TypeInv'
    <2>1. u \in Updates /\ target[u] # None
      BY <1>14 DEF ReadUnresolved, HasTarget, Inside
    <2>2. listed' \in [Updates \cup Dismissals -> SUBSET Paths]
      BY <1>14, <2>1 DEF ReadUnresolved, TypeOK
    <2>3. pc' \in [Calls -> Steps] /\ HasTarget'
      BY <1>14, <2>1, GotoTyped DEF ReadUnresolved, Steps, Inside
    <2> QED BY <1>14, <2>2, <2>3 DEF ReadUnresolved, files, mutex, ghosts, TypeOK
  <1>15. ASSUME NEW u \in Calls, WriteUnresolved(u) PROVE TypeInv'
    <2>1. unresolved' \subseteq Paths /\ handlers' \subseteq Updates /\ lapsed' \in BOOLEAN
      BY <1>15 DEF WriteUnresolved, Lost, Overlaps, TypeOK
    <2>2. holder' \in Calls \cup {None} /\ queue' \in Seq(Calls)
      BY <1>15, ReleaseTyped DEF WriteUnresolved, TypeOK
    <2>3. pc' \in [Calls -> Steps] /\ HasTarget'
      BY <1>15, GotoTyped DEF WriteUnresolved, Steps, Ended, Inside, locals
    <2> QED BY <1>15, <2>1, <2>2, <2>3 DEF WriteUnresolved, locals, TypeOK
  <1>16. ASSUME NEW u \in Calls, FailInside(u) PROVE TypeInv'
    <2>1. /\ u \in Updates /\ Throw(u, AfterThrow(u)) /\ profile' = profile
          /\ disk' \in Manifest
      BY <1>16 DEF FailInside, Torn, TypeOK
    <2>2. AfterThrow(u) \in {"closing", "failed"}
      BY DEF AfterThrow
    <2>3. troubles' \in Nat
      BY <1>16 DEF FailInside, Trouble, TypeOK
    <2> QED BY <2>1, <2>2, <2>3, ThrowTyped DEF Steps, Ended, Inside, TypeOK
  <1>17. ASSUME NEW d \in Calls, CloseDiff(d) PROVE TypeInv'
    <2>1. pc' \in [Calls -> Steps] /\ HasTarget'
      BY <1>17, GotoTyped DEF CloseDiff, Steps, Ended, Inside, locals
    <2> QED BY <1>17, <2>1 DEF CloseDiff, mutex, locals, ghosts, TypeOK
  <1>18. ASSUME NEW l \in Calls, DropProfile(l) PROVE TypeInv'
    <2>1. pc' \in [Calls -> Steps] /\ HasTarget'
      BY <1>18, GotoTyped DEF DropProfile, Steps, Ended, Inside, locals
    <2> QED BY <1>18, <2>1 DEF DropProfile, mutex, locals, ghosts, TypeOK
  <1>19. ASSUME NEW x \in Calls, CallDelete(x) PROVE TypeInv'
    <2> DEFINE After(c) == IF c = x THEN "waiting"
                           ELSE IF c \in Waiters THEN AfterThrow(c) ELSE pc[c]
    <2>1. x \in Removals /\ x \notin Updates /\ pc' = [c \in Calls |-> After(c)]
      BY <1>19, CallSets DEF CallDelete
    <2>2. \A c \in Calls : After(c) \in Steps
      BY DEF AfterThrow, Steps, Ended, TypeOK
    <2>3. pc' \in [Calls -> Steps]
      BY <2>1, <2>2
    <2>4. ASSUME NEW u \in Updates,
                 pc'[u] \in {"called", "patch", "waiting"} \cup Inside
          PROVE  pc[u] = pc'[u]
      <3>1. u \in Calls /\ u # x /\ pc'[u] = After(u)
        BY <2>1, CallSets
      <3>2. AfterThrow(u) \in {"closing", "failed"}
        BY DEF AfterThrow
      <3> QED BY <2>4, <3>1, <3>2 DEF Inside
    <2>5. HasTarget'
      BY <1>19, <2>4 DEF CallDelete, locals, HasTarget
    <2>6. holder' \in Calls \cup {None} /\ queue' \in Seq(Calls)
      <3>1. x \in Calls /\ <<x>> \in Seq(Calls) /\ <<>> \in Seq(Calls)
        OBVIOUS
      <3>2. /\ holder' = x \/ holder' = holder
            /\ queue' = <<x>> \/ queue' = <<>>
        BY <1>19 DEF CallDelete
      <3> QED BY <3>1, <3>2 DEF TypeOK
    <2>7. handlers' \subseteq Updates /\ aborted' \subseteq Updates
      BY <1>19 DEF CallDelete, TypeOK
    <2> QED BY <1>19, <2>3, <2>5, <2>6, <2>7 DEF CallDelete, files, locals, ghosts, TypeOK
  <1>20. ASSUME NEW x \in Calls, RemoveFolder(x) PROVE TypeInv'
    <2>1. holder' \in Calls \cup {None} /\ queue' \in Seq(Calls)
      BY <1>20, ReleaseTyped DEF RemoveFolder, TypeOK
    <2>2. pc' \in [Calls -> Steps] /\ HasTarget'
      BY <1>20, GotoTyped DEF RemoveFolder, Steps, Ended, Inside, locals
    <2> QED BY <1>20, <2>1, <2>2, Requests DEF RemoveFolder, locals, TypeOK
  <1>21. ASSUME NEW x \in Calls, RemoveFolderFail(x) PROVE TypeInv'
    <2>1. holder' \in Calls \cup {None} /\ queue' \in Seq(Calls)
      BY <1>21, ReleaseTyped DEF RemoveFolderFail, TypeOK
    <2>2. pc' \in [Calls -> Steps] /\ HasTarget'
      BY <1>21, GotoTyped DEF RemoveFolderFail, Steps, Ended, Inside, locals
    <2>3. troubles' \in Nat /\ handlers' \subseteq Updates
      BY <1>21 DEF RemoveFolderFail, Trouble, TypeOK
    <2> QED BY <1>21, <2>1, <2>2, <2>3 DEF RemoveFolderFail, files, locals, ghosts, TypeOK
  <1>22. ASSUME NEW m \in Calls, CallDismiss(m) PROVE TypeInv'
    <2>1. /\ paths' \in [Updates \cup Dismissals -> SUBSET Paths]
          /\ listed' \in [Updates \cup Dismissals -> SUBSET Paths]
      BY <1>22 DEF CallDismiss, TypeOK
    <2>2. pc' \in [Calls -> Steps] /\ HasTarget'
      BY <1>22, GotoTyped DEF CallDismiss, Steps, Inside
    <2> QED BY <1>22, <2>1, <2>2 DEF CallDismiss, files, mutex, ghosts, TypeOK
  <1>23. ASSUME NEW m \in Calls, WriteDismissal(m) PROVE TypeInv'
    <2>1. unresolved' \subseteq Paths /\ dismissed' \subseteq Paths /\ lapsed' \in BOOLEAN
      BY <1>23 DEF WriteDismissal, Overlaps, TypeOK
    <2>2. pc' \in [Calls -> Steps] /\ HasTarget'
      BY <1>23, GotoTyped DEF WriteDismissal, Steps, Ended, Inside, locals
    <2> QED BY <1>23, <2>1, <2>2 DEF WriteDismissal, mutex, locals, TypeOK
  <1>24. ASSUME NEW m \in Calls, DismissAll(m) PROVE TypeInv'
    <2>1. unresolved' \subseteq Paths /\ dismissed' \subseteq Paths /\ lapsed' \in BOOLEAN
      BY <1>24 DEF DismissAll, Overlaps, TypeOK
    <2>2. pc' \in [Calls -> Steps] /\ HasTarget'
      BY <1>24, GotoTyped DEF DismissAll, Steps, Ended, Inside, locals
    <2> QED BY <1>24, <2>1, <2>2 DEF DismissAll, mutex, locals, TypeOK
  <1>25. ASSUME NEW u \in Calls, Cancel(u) PROVE TypeInv'
    <2>1. troubles' \in Nat /\ aborted' \subseteq Updates
      BY <1>25 DEF Cancel, Trouble, TypeOK
    <2>2. HasTarget'
      BY <1>25 DEF Cancel, locals, HasTarget
    <2> QED BY <1>25, <2>1, <2>2 DEF Cancel, files, mutex, locals, ghosts, TypeOK
  <1>26. CASE Crash
    <2>1. disk' \in Manifest /\ troubles' \in Nat /\ lapsed' \in BOOLEAN
      BY <1>26 DEF Crash, Torn, Trouble, TypeOK
    <2>2. pc' = [c \in Calls |-> IF pc[c] \in {"idle"} \cup Ended THEN pc[c] ELSE "crashed"]
      BY <1>26 DEF Crash
    <2>3. pc' \in [Calls -> Steps]
      BY <2>2 DEF Steps, Ended, TypeOK
    <2>4. HasTarget'
      BY <1>26, <2>2, CallSets DEF Crash, Ended, Inside, HasTarget
    <2> QED BY <1>26, <2>1, <2>3, <2>4 DEF Crash, locals, TypeOK
  <1>27. CASE UNCHANGED vars
    BY <1>27 DEF vars, files, mutex, locals, ghosts, TypeOK, HasTarget
  <1>28. ASSUME NEW c \in Calls, Step(c) PROVE TypeInv'
    BY <1>28, <1>3, <1>5, <1>6, <1>7, <1>8, <1>9, <1>10, <1>11, <1>12, <1>13, <1>14,
       <1>15, <1>16, <1>17, <1>18, <1>20, <1>21, <1>23 DEF Step
  <1>29. ASSUME NEW c \in Calls, User(c) PROVE TypeInv'
    BY <1>29, <1>1, <1>2, <1>4, <1>19, <1>22, <1>24, <1>25 DEF User
  <1> QED BY <1>26, <1>27, <1>28, <1>29 DEF Next

\* TypeOK holds in every reachable state: the calls, the lock, the records and
\* the ghosts keep their types, whatever is asked for and goes wrong.
THEOREM InstallTypeCorrect == Spec => []TypeOK
  <1>1. TypeInv => TypeOK
    BY DEF TypeInv
  <1> QED BY <1>1, TypeInit, TypeStep, PTL DEF Spec
-----------------------------------------------------------------------------
(***************************************************************************)
(* The instance lock.                                                      *)
(***************************************************************************)

\* Where a call holds the lock or waits for it.
Busy == {"waiting"} \cup Inside

\* Who holds the lock is on his way to let it go; without that a call could
\* queue behind itself.
LockInv == LockDiscipline /\ (holder # None => pc[holder] \in Busy)

\* A call that leaves the lock alone stays out of it, or goes on inside.
LEMMA LockUnmoved ==
    ASSUME TypeInv, LockInv, NEW c \in Calls, NEW step \in Steps,
           mutex' = mutex, Goto(c, step),
           \/ pc[c] \notin Busy /\ step \notin Busy
           \/ holder = c /\ step \in Inside
    PROVE  LockInv'
  <1> USE DEF TypeInv, TypeOK, LockInv, LockDiscipline, Busy
  <1>1. /\ holder' = holder /\ queue' = queue /\ Waiters' = Waiters
        /\ pc' = [pc EXCEPT ![c] = step] /\ pc \in [Calls -> Steps]
    BY DEF mutex, Goto, Waiters
  <1>2. \A d \in Calls : pc'[d] = IF d = c THEN step ELSE pc[d]
    BY <1>1
  <1>3. "waiting" \notin Inside
    BY DEF Inside
  <1>4. \A n \in DOMAIN queue : queue[n] \in Calls
    OBVIOUS
  <1>5. \A d \in Calls : pc'[d] \in Inside => holder = d
    BY <1>2
  <1>6. \A d \in Calls : pc'[d] = "waiting" => holder = d \/ d \in Waiters
    BY <1>2, <1>3
  <1>7. \A n \in DOMAIN queue : pc'[queue[n]] = "waiting"
    BY <1>2, <1>4
  <1>8. holder # None => pc'[holder] \in Busy
    BY <1>2
  <1> QED BY <1>1, <1>5, <1>6, <1>7, <1>8

\* A call that asks for the lock holds it or is the last in the queue.
LEMMA LockAcquired ==
    ASSUME TypeInv, LockInv, NEW c \in Calls, pc[c] \notin Busy,
           Acquire(c), Goto(c, "waiting")
    PROVE  LockInv'
  <1> USE DEF TypeInv, TypeOK, LockInv, LockDiscipline, Busy
  <1>1. pc' = [pc EXCEPT ![c] = "waiting"] /\ pc \in [Calls -> Steps]
    BY DEF Goto
  <1>2. \A d \in Calls : pc'[d] = IF d = c THEN "waiting" ELSE pc[d]
    BY <1>1
  <1>3. "waiting" \notin Inside
    BY DEF Inside
  <1>4. \A n \in DOMAIN queue : queue[n] \in Calls /\ queue[n] # c
    OBVIOUS
  <1>5. CASE holder = None
    <2>1. holder' = c /\ queue' = <<>> /\ queue = <<>>
      BY <1>5 DEF Acquire
    <2>2. DOMAIN queue' = {} /\ Waiters = {}
      BY <2>1 DEF Waiters
    <2>3. \A d \in Calls : pc[d] \notin Inside /\ pc[d] # "waiting"
      BY <1>5, <2>2, CallSets
    <2> QED BY <1>2, <1>3, <2>1, <2>2, <2>3
  <1>6. CASE holder # None
    <2>1. holder' = holder /\ queue' = Append(queue, c) /\ holder # c
      BY <1>6 DEF Acquire
    <2>2. /\ DOMAIN queue' = 1..(Len(queue) + 1) /\ DOMAIN queue = 1..Len(queue)
          /\ Len(queue) \in Nat
          /\ \A n \in DOMAIN queue : queue'[n] = queue[n]
          /\ queue'[Len(queue) + 1] = c
      BY <2>1
    <2>3. \A n \in DOMAIN queue' : n \in DOMAIN queue \/ n = Len(queue) + 1
      BY <2>2
    <2>4. Len(queue) + 1 \in DOMAIN queue' /\ DOMAIN queue \subseteq DOMAIN queue'
      BY <2>2
    <2>5. Waiters' = Waiters \cup {c}
      BY <2>2, <2>3, <2>4 DEF Waiters
    <2>6. \A n \in DOMAIN queue' : pc'[queue'[n]] = "waiting" /\ queue'[n] # holder'
      BY <1>2, <1>4, <2>1, <2>2, <2>3
    <2>7. \A m, n \in DOMAIN queue' : queue'[m] = queue'[n] => m = n
      BY <1>4, <2>2, <2>3
    <2> QED BY <1>2, <1>3, <1>6, <2>1, <2>5, <2>6, <2>7
  <1> QED BY <1>5, <1>6

\* The lock goes to the first of the queue and nobody else notices.
LEMMA LockReleased ==
    ASSUME TypeInv, LockInv, NEW c \in Calls, NEW step \in Steps, holder = c,
           Release, Goto(c, step), step \notin Busy
    PROVE  LockInv'
  <1> USE DEF TypeInv, TypeOK, LockInv, LockDiscipline, Busy
  <1>1. pc' = [pc EXCEPT ![c] = step] /\ pc \in [Calls -> Steps]
    BY DEF Goto
  <1>2. \A d \in Calls : pc'[d] = IF d = c THEN step ELSE pc[d]
    BY <1>1
  <1>3. \A n \in DOMAIN queue : queue[n] \in Calls /\ queue[n] # c
    OBVIOUS
  <1>4. CASE queue = <<>>
    <2>1. holder' = None /\ queue' = <<>>
      BY <1>4 DEF Release
    <2>2. Waiters = {} /\ DOMAIN queue' = {}
      BY <1>4, <2>1 DEF Waiters
    <2> QED BY <1>2, <2>1, <2>2
  <1>5. CASE queue # <<>>
    <2>1. holder' = Head(queue) /\ queue' = Tail(queue)
      BY <1>5 DEF Release
    <2>2. /\ Len(queue) \in Nat /\ Len(queue) > 0
          /\ DOMAIN queue = 1..Len(queue) /\ DOMAIN queue' = 1..(Len(queue) - 1)
          /\ \A n \in DOMAIN queue' : queue'[n] = queue[n + 1]
          /\ holder' = queue[1]
      BY <1>5, <2>1
    <2>3. \A n \in DOMAIN queue' : n + 1 \in DOMAIN queue /\ n + 1 # 1 /\ n \in Nat
      BY <2>2
    <2>4. 1 \in DOMAIN queue /\ holder' \in Calls /\ holder' # c /\ holder' # None
      BY <1>3, <2>2, CallSets
    <2>5. \A d \in Waiters : d = holder' \/ d \in Waiters'
      <3> SUFFICES ASSUME NEW n \in DOMAIN queue, n # 1
                   PROVE  queue[n] \in Waiters'
        BY <2>2 DEF Waiters
      <3>1. n - 1 \in DOMAIN queue' /\ (n - 1) + 1 = n
        BY <2>2
      <3> QED BY <2>2, <3>1 DEF Waiters
    <2>6. \A n \in DOMAIN queue' : pc'[queue'[n]] = "waiting" /\ queue'[n] # holder'
      BY <1>2, <1>3, <2>2, <2>3, <2>4
    <2>7. \A m, n \in DOMAIN queue' : queue'[m] = queue'[n] => m = n
      BY <2>2, <2>3
    <2>8. pc'[holder'] = "waiting"
      BY <1>2, <1>3, <2>2, <2>4
    <2>9. \A d \in Calls : pc'[d] \notin Inside
      BY <1>2
    <2>10. \A d \in Calls : pc'[d] = "waiting" => holder' = d \/ d \in Waiters'
      BY <1>2, <2>5
    <2> QED BY <2>4, <2>6, <2>7, <2>8, <2>9, <2>10
  <1> QED BY <1>4, <1>5

\* A step of the holder, as seen by the lock.
LEMMA ThrowReleases ==
    ASSUME TypeInv, LockInv, NEW c \in Updates, holder = c, Throw(c, AfterThrow(c))
    PROVE  LockInv'
  <1>1. AfterThrow(c) \in {"closing", "failed"}
    BY DEF AfterThrow
  <1>2. AfterThrow(c) \in Steps \ Busy
    BY <1>1 DEF Steps, Busy, Inside, Ended
  <1> QED BY <1>2, LockReleased, CallSets DEF Throw

\* Nobody holds or waits for the lock at first.
LEMMA LockInit == Init => LockInv
  <1> SUFFICES ASSUME Init PROVE LockInv
    OBVIOUS
  <1>1. \A c \in Calls : pc[c] = "idle"
    BY DEF Init
  <1>2. holder = None /\ queue = <<>> /\ DOMAIN queue = {}
    BY DEF Init
  <1> QED BY <1>1, <1>2 DEF LockInv, LockDiscipline, Inside

\* Every step keeps the lock in order: it leaves the lock alone, asks for it,
\* lets it go, or is one of the three that reach further (delete, cancel, crash).
LEMMA LockStep == TypeInv /\ LockInv /\ [Next]_vars => LockInv'
  <1> SUFFICES ASSUME TypeInv, LockInv, [Next]_vars PROVE LockInv'
    OBVIOUS
  <1> USE DEF Steps, Busy, Inside, Ended
  <1>0. \A c \in Calls : pc[c] \in Inside => holder = c
    BY DEF LockInv, LockDiscipline
  \* Outside the lock.
  <1>1. ASSUME NEW i \in Calls, CallInstall(i) PROVE LockInv'
    BY <1>1, LockUnmoved DEF CallInstall
  <1>2. ASSUME NEW r \in Calls, CallResume(r) PROVE LockInv'
    BY <1>2, LockUnmoved DEF CallResume
  <1>3. ASSUME NEW r \in Calls, ReadProfile(r) PROVE LockInv'
    BY <1>3, LockUnmoved DEF ReadProfile
  <1>4. ASSUME NEW d \in Calls, CallDiff(d) PROVE LockInv'
    BY <1>4, LockUnmoved DEF CallDiff
  <1>5. ASSUME NEW d \in Calls, PrepareDiffFail(d) PROVE LockInv'
    BY <1>5, LockUnmoved DEF PrepareDiffFail
  <1>6. ASSUME NEW d \in Calls, CloseDiff(d) PROVE LockInv'
    BY <1>6, LockUnmoved DEF CloseDiff
  <1>7. ASSUME NEW l \in Calls, DropProfile(l) PROVE LockInv'
    BY <1>7, LockUnmoved DEF DropProfile
  <1>8. ASSUME NEW m \in Calls, CallDismiss(m) PROVE LockInv'
    BY <1>8, LockUnmoved DEF CallDismiss
  <1>9. ASSUME NEW m \in Calls, WriteDismissal(m) PROVE LockInv'
    BY <1>9, LockUnmoved DEF WriteDismissal
  <1>10. ASSUME NEW m \in Calls, DismissAll(m) PROVE LockInv'
    BY <1>10, LockUnmoved DEF DismissAll
  \* Up to the lock.
  <1>11. ASSUME NEW u \in Calls, Register(u) PROVE LockInv'
    <2>1. CASE u \in Diffs
      BY <1>11, <2>1, LockUnmoved DEF Register
    <2>2. CASE u \notin Diffs
      BY <1>11, <2>2, LockAcquired DEF Register
    <2> QED BY <2>1, <2>2
  <1>12. ASSUME NEW d \in Calls, PrepareDiff(d) PROVE LockInv'
    BY <1>12, LockAcquired DEF PrepareDiff
  \* Inside.
  <1>13. ASSUME NEW u \in Calls, Begin(u) PROVE LockInv'
    <2>1. CASE u \in aborted \/ ~folder
      BY <1>13, <2>1, ThrowReleases DEF Begin
    <2>2. CASE ~(u \in aborted \/ ~folder)
      BY <1>13, <2>2, LockUnmoved DEF Begin
    <2> QED BY <2>1, <2>2
  <1>14. ASSUME NEW l \in Calls, Prepare(l) PROVE LockInv'
    BY <1>0, <1>14, LockUnmoved DEF Prepare
  <1>15. ASSUME NEW u \in Calls, MoveFiles(u) PROVE LockInv'
    BY <1>0, <1>15, LockUnmoved DEF MoveFiles
  <1>16. ASSUME NEW l \in Calls, WriteLockFile(l) PROVE LockInv'
    BY <1>0, <1>16, LockUnmoved DEF WriteLockFile
  <1>17. ASSUME NEW u \in Calls, ClearProfile(u) PROVE LockInv'
    BY <1>0, <1>17, LockUnmoved DEF ClearProfile
  <1>18. ASSUME NEW u \in Calls, ReadUnresolved(u) PROVE LockInv'
    BY <1>0, <1>18, LockUnmoved DEF ReadUnresolved
  \* Out of the lock.
  <1>19. ASSUME NEW l \in Calls, Refuse(l) PROVE LockInv'
    BY <1>0, <1>19, LockReleased DEF Refuse, Throw
  <1>20. ASSUME NEW u \in Calls, WriteUnresolved(u) PROVE LockInv'
    BY <1>0, <1>20, LockReleased DEF WriteUnresolved
  <1>21. ASSUME NEW u \in Calls, FailInside(u) PROVE LockInv'
    BY <1>0, <1>21, ThrowReleases DEF FailInside
  <1>22. ASSUME NEW x \in Calls, RemoveFolder(x) PROVE LockInv'
    BY <1>22, LockReleased DEF RemoveFolder
  <1>23. ASSUME NEW x \in Calls, RemoveFolderFail(x) PROVE LockInv'
    BY <1>23, LockReleased DEF RemoveFolderFail
  \* The others.
  <1>24. ASSUME NEW x \in Calls, CallDelete(x) PROVE LockInv'
    <2>1. \A c \in Calls : pc'[c] = IF c = x THEN "waiting"
                                    ELSE IF c \in Waiters THEN AfterThrow(c) ELSE pc[c]
      BY <1>24 DEF CallDelete
    <2>2. \A c \in Calls : AfterThrow(c) \in {"closing", "failed"}
      BY DEF AfterThrow
    <2>3. pc[x] = "idle" /\ holder # x
      BY <1>24, CallSets DEF CallDelete, LockInv
    <2>4. holder \notin Waiters /\ x \notin Waiters
      BY <2>3 DEF Waiters, LockInv, LockDiscipline
    <2>5. \A c \in Calls : pc'[c] = "waiting" => c = x \/ c = holder
      BY <2>1, <2>2 DEF LockInv, LockDiscipline
    <2>6. \A c \in Calls : pc'[c] \in Inside => c = holder
      BY <1>0, <2>1, <2>2
    <2>7. CASE holder = None
      <3>1. holder' = x /\ queue' = <<>> /\ DOMAIN queue' = {}
        BY <1>24, <2>7 DEF CallDelete
      <3> QED BY <2>1, <2>5, <2>6, <2>7, <3>1, CallSets DEF LockInv, LockDiscipline
    <2>8. CASE holder # None
      <3>1. holder' = holder /\ queue' = <<x>> /\ holder \in Calls
        BY <1>24, <2>8 DEF CallDelete, TypeInv, TypeOK
      <3>2. DOMAIN queue' = {1} /\ queue'[1] = x /\ Waiters' = {x}
        BY <3>1 DEF Waiters
      <3>3. pc'[holder] \in Busy
        BY <2>1, <2>3, <2>4, <2>8, <3>1 DEF LockInv
      <3> QED BY <2>1, <2>3, <2>5, <2>6, <2>8, <3>1, <3>2, <3>3
              DEF LockInv, LockDiscipline
    <2> QED BY <2>7, <2>8
  <1>25. ASSUME NEW u \in Calls, Cancel(u) PROVE LockInv'
    BY <1>25 DEF Cancel, mutex, LockInv, LockDiscipline, Waiters
  <1>26. CASE Crash
    <2>1. \A c \in Calls : pc'[c] \in {"idle", "done", "failed", "crashed"}
      BY <1>26 DEF Crash
    <2>2. holder' = None /\ queue' = <<>> /\ DOMAIN queue' = {}
      BY <1>26 DEF Crash
    <2> QED BY <2>1, <2>2 DEF LockInv, LockDiscipline
  <1>27. CASE UNCHANGED vars
    BY <1>27 DEF vars, mutex, LockInv, LockDiscipline, Waiters
  <1>28. ASSUME NEW c \in Calls, Step(c) PROVE LockInv'
    BY <1>28, <1>3, <1>5, <1>6, <1>7, <1>9, <1>11, <1>12, <1>13, <1>14, <1>15, <1>16,
       <1>17, <1>18, <1>19, <1>20, <1>21, <1>22, <1>23 DEF Step
  <1>29. ASSUME NEW c \in Calls, User(c) PROVE LockInv'
    BY <1>29, <1>1, <1>2, <1>4, <1>8, <1>10, <1>24, <1>25 DEF User
  <1> QED BY <1>26, <1>27, <1>28, <1>29 DEF Next

\* The instance lock excludes and loses nobody: only its holder is inside a
\* critical section, and who waits holds it or is queued exactly once - also
\* when a delete rejects the waiters, and after every exception and crash.
THEOREM LockKept == Spec => []LockDiscipline
  <1>1. LockInv => LockDiscipline
    BY DEF LockInv
  <1> QED BY <1>1, TypeInit, TypeStep, LockInit, LockStep, PTL DEF Spec
-----------------------------------------------------------------------------
(***************************************************************************)
(* A deleted instance.                                                     *)
(***************************************************************************)

\* Two calls are never inside the lock, and nobody is while another holds it.
LEMMA Exclusion ==
    ASSUME LockInv
    PROVE  /\ \A c \in Calls : pc[c] \in Inside => holder = c
           /\ \A c, d \in Calls : pc[c] \in Inside /\ pc[d] \in Inside => c = d
  BY DEF LockInv, LockDiscipline

\* A call that goes on leaves the others where they are.
LEMMA GotoFacts ==
    ASSUME TypeInv, NEW c \in Calls, NEW step, Goto(c, step)
    PROVE  \A d \in Calls : pc'[d] = IF d = c THEN step ELSE pc[d]
  BY DEF Goto, TypeInv, TypeOK

\* The folder is gone exactly when a delete has removed it, and then no update
\* is inside the lock, where alone files are written.
GoneInv ==
    /\ removed <=> ~folder
    /\ removed => /\ disk = NoFiles /\ lockFile = None /\ profile = None
                  /\ unresolved = {} /\ missing = {}
                  /\ \A u \in Updates : pc[u] \notin Inside

\* What writes no file, or removes some, and lets nobody in.
LEMMA GoneKept ==
    ASSUME GoneInv,
           UNCHANGED <<folder, removed, disk, lockFile, missing>>,
           profile' \in {profile, None},
           unresolved' = unresolved \/ unresolved' = {},
           \A u \in Updates : pc'[u] \in Inside => pc[u] \in Inside
    PROVE  GoneInv'
  BY DEF GoneInv

\* What an update does inside the lock.
LEMMA GoneInside ==
    ASSUME GoneInv, NEW u \in Updates, pc[u] \in Inside,
           UNCHANGED <<folder, removed>>
    PROVE  GoneInv'
  BY DEF GoneInv

\* The instance is there at first.
LEMMA GoneInit == Init => GoneInv
  BY DEF Init, GoneInv

\* No step brings anything back: files are written inside the lock only, and
\* only an instance with a folder lets an update in.
LEMMA GoneStep == TypeInv /\ LockInv /\ GoneInv /\ [Next]_vars => GoneInv'
  <1> SUFFICES ASSUME TypeInv, LockInv, GoneInv, [Next]_vars PROVE GoneInv'
    OBVIOUS
  <1>a. \A u \in Updates : u \in Calls
    BY CallSets
  <1>b. Locked \subseteq Updates /\ Diffs \subseteq Updates
    BY CallSets
  <1> USE <1>a, <1>b DEF Inside, files, ghosts
  \* Outside the lock.
  <1>1. ASSUME NEW i \in Calls, CallInstall(i) PROVE GoneInv'
    BY <1>1, GoneKept, GotoFacts DEF CallInstall
  <1>2. ASSUME NEW r \in Calls, CallResume(r) PROVE GoneInv'
    BY <1>2, GoneKept, GotoFacts DEF CallResume
  <1>3. ASSUME NEW r \in Calls, ReadProfile(r) PROVE GoneInv'
    BY <1>3, GoneKept, GotoFacts DEF ReadProfile
  <1>4. ASSUME NEW d \in Calls, CallDiff(d) PROVE GoneInv'
    BY <1>4, GoneKept, GotoFacts DEF CallDiff
  <1>5. ASSUME NEW d \in Calls, PrepareDiffFail(d) PROVE GoneInv'
    BY <1>5, GoneKept, GotoFacts DEF PrepareDiffFail
  <1>6. ASSUME NEW d \in Calls, CloseDiff(d) PROVE GoneInv'
    BY <1>6, GoneKept, GotoFacts DEF CloseDiff
  <1>7. ASSUME NEW l \in Calls, DropProfile(l) PROVE GoneInv'
    BY <1>7, GoneKept, GotoFacts DEF DropProfile
  <1>8. ASSUME NEW m \in Calls, CallDismiss(m) PROVE GoneInv'
    BY <1>8, GoneKept, GotoFacts DEF CallDismiss
  <1>9. ASSUME NEW m \in Calls, WriteDismissal(m) PROVE GoneInv'
    <2>1. CASE folder
      BY <1>9, <2>1 DEF WriteDismissal, GoneInv
    <2>2. CASE ~folder
      BY <1>9, <2>2, GoneKept, GotoFacts DEF WriteDismissal
    <2> QED BY <2>1, <2>2
  <1>10. ASSUME NEW m \in Calls, DismissAll(m) PROVE GoneInv'
    BY <1>10, GoneKept, GotoFacts DEF DismissAll
  <1>11. ASSUME NEW u \in Calls, Register(u) PROVE GoneInv'
    BY <1>11, GoneKept, GotoFacts DEF Register
  <1>12. ASSUME NEW d \in Calls, PrepareDiff(d) PROVE GoneInv'
    BY <1>12, GoneKept, GotoFacts DEF PrepareDiff
  \* Only an instance with a folder lets an update in.
  <1>13. ASSUME NEW u \in Calls, Begin(u) PROVE GoneInv'
    <2>1. CASE u \in aborted \/ ~folder
      <3>1. Throw(u, AfterThrow(u)) /\ profile' = profile /\ disk' = disk
        BY <1>13, <2>1 DEF Begin
      <3> QED BY <3>1, GoneKept, GotoFacts DEF Throw, AfterThrow
    <2>2. CASE ~(u \in aborted \/ ~folder)
      BY <1>13, <2>2 DEF Begin, GoneInv
    <2> QED BY <2>1, <2>2
  \* Inside.
  <1>14. ASSUME NEW l \in Calls, Prepare(l) PROVE GoneInv'
    BY <1>14, GoneInside DEF Prepare
  <1>15. ASSUME NEW u \in Calls, MoveFiles(u) PROVE GoneInv'
    BY <1>15, GoneInside DEF MoveFiles
  <1>16. ASSUME NEW l \in Calls, WriteLockFile(l) PROVE GoneInv'
    BY <1>16, GoneInside DEF WriteLockFile
  <1>17. ASSUME NEW u \in Calls, ClearProfile(u) PROVE GoneInv'
    BY <1>17, GoneInside DEF ClearProfile
  <1>18. ASSUME NEW u \in Calls, ReadUnresolved(u) PROVE GoneInv'
    BY <1>18, GoneInside DEF ReadUnresolved
  <1>19. ASSUME NEW l \in Calls, Refuse(l) PROVE GoneInv'
    BY <1>19, GoneInside DEF Refuse, Throw
  <1>20. ASSUME NEW u \in Calls, WriteUnresolved(u) PROVE GoneInv'
    BY <1>20, GoneInside DEF WriteUnresolved
  <1>21. ASSUME NEW u \in Calls, FailInside(u) PROVE GoneInv'
    BY <1>21, GoneInside DEF FailInside, Throw
  \* The delete holds the lock when it removes the folder.
  <1>22. ASSUME NEW x \in Calls, RemoveFolder(x) PROVE GoneInv'
    <2>1. holder = x /\ x \notin Updates
      BY <1>22, CallSets DEF RemoveFolder
    <2>2. \A u \in Updates : pc'[u] \notin Inside
      BY <1>22, <2>1, Exclusion, GotoFacts DEF RemoveFolder
    <2> QED BY <1>22, <2>2 DEF RemoveFolder, GoneInv
  <1>23. ASSUME NEW x \in Calls, RemoveFolderFail(x) PROVE GoneInv'
    BY <1>23, GoneKept, GotoFacts DEF RemoveFolderFail
  <1>24. ASSUME NEW x \in Calls, CallDelete(x) PROVE GoneInv'
    <2>1. \A u \in Updates : pc'[u] \in Inside => pc[u] \in Inside
      BY <1>24 DEF CallDelete, AfterThrow
    <2> QED BY <1>24, <2>1, GoneKept DEF CallDelete
  <1>25. ASSUME NEW u \in Calls, Cancel(u) PROVE GoneInv'
    BY <1>25, GoneKept DEF Cancel
  <1>26. CASE Crash
    <2>1. \A u \in Updates : pc'[u] \notin Inside
      BY <1>26 DEF Crash, Ended
    <2>2. ASSUME removed PROVE disk' = disk
      <3>1. \A u \in Updates : pc[u] # "moving"
        BY <2>2 DEF GoneInv
      <3> QED BY <1>26, <3>1 DEF Crash
    <2> QED BY <1>26, <2>1, <2>2 DEF Crash, GoneInv
  <1>27. CASE UNCHANGED vars
    BY <1>27, GoneKept DEF vars
  <1>28. ASSUME NEW c \in Calls, Step(c) PROVE GoneInv'
    BY <1>28, <1>3, <1>5, <1>6, <1>7, <1>9, <1>11, <1>12, <1>13, <1>14, <1>15, <1>16,
       <1>17, <1>18, <1>19, <1>20, <1>21, <1>22, <1>23 DEF Step
  <1>29. ASSUME NEW c \in Calls, User(c) PROVE GoneInv'
    BY <1>29, <1>1, <1>2, <1>4, <1>8, <1>10, <1>24, <1>25 DEF User
  <1> QED BY <1>26, <1>27, <1>28, <1>29 DEF Next

\* What deleteInstance has removed stays removed: no install that was running,
\* waiting or is called later brings the folder or a file of it back.
THEOREM DeletedStaysDeleted == Spec => []NoResurrection
  <1>1. GoneInv => NoResurrection
    BY DEF GoneInv, NoResurrection
  <1> QED BY <1>1, TypeInit, TypeStep, LockInit, LockStep, GoneInit, GoneStep, PTL DEF Spec
-----------------------------------------------------------------------------
(***************************************************************************)
(* The record of an install.                                               *)
(***************************************************************************)
Recorded == {"locked", "reconcile", "write"}

\* The resolvable files are in place as soon as they have moved, the record
\* names them a step later.
InstalledInv ==
    \A l \in Locked :
      /\ pc[l] \in Recorded => lockFile = target[l]
      /\ pc[l] \in Recorded \cup {"moved"} =>
           \A p \in Paths \ paths[l] : target[l].files[p] \in {disk[p], Absent}

\* What concerns no install that has moved its files.
LEMMA InstalledKept ==
    ASSUME InstalledInv,
           \A l \in Locked :
             pc'[l] \in Recorded \cup {"moved"} =>
               /\ pc'[l] = pc[l]
               /\ lockFile' = lockFile /\ disk' = disk
               /\ target'[l] = target[l] /\ paths'[l] = paths[l]
    PROVE  InstalledInv'
  BY DEF InstalledInv

\* No install has moved its files at first.
LEMMA InstalledInit == Init => InstalledInv
  BY CallSets DEF Init, InstalledInv, Recorded

\* Every step keeps what the install inside the lock has moved and recorded.
LEMMA InstalledStep == TypeInv /\ LockInv /\ InstalledInv /\ [Next]_vars => InstalledInv'
  <1> SUFFICES ASSUME TypeInv, LockInv, InstalledInv, [Next]_vars PROVE InstalledInv'
    OBVIOUS
  <1>a. \A l \in Locked : l \in Updates /\ l \in Calls /\ l \notin Diffs /\ l \notin Removals
                          /\ l \notin Dismissals
    BY CallSets
  <1>b. /\ target \in [Updates -> Snapshot \cup {None}]
        /\ paths \in [Updates \cup Dismissals -> SUBSET Paths]
    BY DEF TypeInv, TypeOK
  <1> USE <1>a DEF Inside, Recorded, files, locals
  \* Outside the lock.
  <1>1. ASSUME NEW i \in Calls, CallInstall(i) PROVE InstalledInv'
    BY <1>b, <1>1, InstalledKept, GotoFacts DEF CallInstall
  <1>2. ASSUME NEW r \in Calls, CallResume(r) PROVE InstalledInv'
    BY <1>2, InstalledKept, GotoFacts DEF CallResume
  <1>3. ASSUME NEW r \in Calls, ReadProfile(r) PROVE InstalledInv'
    BY <1>b, <1>3, InstalledKept, GotoFacts DEF ReadProfile
  <1>4. ASSUME NEW d \in Calls, CallDiff(d) PROVE InstalledInv'
    BY <1>b, <1>4, InstalledKept, GotoFacts DEF CallDiff
  <1>5. ASSUME NEW d \in Calls, PrepareDiffFail(d) PROVE InstalledInv'
    BY <1>5, InstalledKept, GotoFacts DEF PrepareDiffFail
  <1>6. ASSUME NEW d \in Calls, CloseDiff(d) PROVE InstalledInv'
    BY <1>6, InstalledKept, GotoFacts DEF CloseDiff
  <1>7. ASSUME NEW l \in Calls, DropProfile(l) PROVE InstalledInv'
    BY <1>7, InstalledKept, GotoFacts DEF DropProfile
  <1>8. ASSUME NEW m \in Calls, CallDismiss(m) PROVE InstalledInv'
    BY <1>b, <1>8, InstalledKept, GotoFacts DEF CallDismiss
  <1>9. ASSUME NEW m \in Calls, WriteDismissal(m) PROVE InstalledInv'
    BY <1>9, InstalledKept, GotoFacts DEF WriteDismissal
  <1>10. ASSUME NEW m \in Calls, DismissAll(m) PROVE InstalledInv'
    BY <1>10, InstalledKept, GotoFacts DEF DismissAll
  <1>11. ASSUME NEW u \in Calls, Register(u) PROVE InstalledInv'
    BY <1>11, InstalledKept, GotoFacts DEF Register
  <1>12. ASSUME NEW d \in Calls, PrepareDiff(d) PROVE InstalledInv'
    BY <1>b, <1>12, InstalledKept, GotoFacts DEF PrepareDiff
  <1>13. ASSUME NEW u \in Calls, Begin(u) PROVE InstalledInv'
    <2>1. CASE u \in aborted \/ ~folder
      <3>1. Throw(u, AfterThrow(u)) /\ disk' = disk
        BY <1>13, <2>1 DEF Begin
      <3> QED BY <3>1, InstalledKept, GotoFacts DEF Throw, AfterThrow
    <2>2. CASE ~(u \in aborted \/ ~folder)
      <3> DEFINE step == IF u \in Diffs THEN "moving" ELSE "prepare"
      <3>1. Goto(u, step) /\ UNCHANGED <<disk, lockFile, locals>>
        BY <1>13, <2>2 DEF Begin
      <3> QED BY <3>1, InstalledKept, GotoFacts
    <2> QED BY <2>1, <2>2
  \* Inside.
  <1>14. ASSUME NEW l \in Calls, Prepare(l) PROVE InstalledInv'
    BY <1>b, <1>14, InstalledKept, GotoFacts DEF Prepare
  \* Only the call that moves its files is inside the lock.
  <1>15. ASSUME NEW u \in Calls, MoveFiles(u) PROVE InstalledInv'
    <2>1. u \in Updates /\ pc[u] = "moving" /\ disk' \in Moved(u)
          /\ lockFile' = lockFile /\ target' = target /\ paths' = paths
      BY <1>15 DEF MoveFiles
    <2>2. \A d \in Calls : pc'[d] = IF d = u THEN "moved" ELSE pc[d]
      BY <1>15, GotoFacts DEF MoveFiles
    <2>3. \A l \in Locked : pc'[l] \in Recorded \cup {"moved"} => l = u
      BY <2>1, <2>2, Exclusion
    <2>4. \A p \in Paths \ paths[u] : target[u].files[p] \in {disk'[p], Absent}
      BY <2>1, MovedFacts
    <2> QED BY <2>1, <2>2, <2>3, <2>4 DEF InstalledInv
  <1>16. ASSUME NEW l \in Calls, WriteLockFile(l) PROVE InstalledInv'
    <2>1. /\ l \in Locked /\ pc[l] = "moved" /\ lockFile' = target[l]
          /\ disk' = disk /\ target' = target /\ paths' = paths
      BY <1>16 DEF WriteLockFile
    <2>2. \A d \in Calls : pc'[d] = IF d = l THEN "locked" ELSE pc[d]
      BY <1>16, GotoFacts DEF WriteLockFile
    <2>3. \A k \in Locked : pc'[k] \in Recorded \cup {"moved"} => k = l
      BY <2>1, <2>2, Exclusion
    <2> QED BY <2>1, <2>2, <2>3 DEF InstalledInv
  <1>17. ASSUME NEW u \in Calls, ClearProfile(u) PROVE InstalledInv'
    <2>1. \A d \in Calls : pc'[d] = IF d = u THEN "reconcile" ELSE pc[d]
      BY <1>17, GotoFacts DEF ClearProfile
    <2>2. u \in Locked => pc[u] \in Recorded
      BY <1>17 DEF ClearProfile
    <2> QED BY <1>17, <2>1, <2>2 DEF ClearProfile, InstalledInv
  <1>18. ASSUME NEW u \in Calls, ReadUnresolved(u) PROVE InstalledInv'
    <2>1. \A d \in Calls : pc'[d] = IF d = u THEN "write" ELSE pc[d]
      BY <1>18, GotoFacts DEF ReadUnresolved
    <2> QED BY <1>18, <2>1 DEF ReadUnresolved, InstalledInv
  <1>19. ASSUME NEW l \in Calls, Refuse(l) PROVE InstalledInv'
    BY <1>19, InstalledKept, GotoFacts DEF Refuse, Throw
  <1>20. ASSUME NEW u \in Calls, WriteUnresolved(u) PROVE InstalledInv'
    BY <1>20, InstalledKept, GotoFacts DEF WriteUnresolved
  <1>21. ASSUME NEW u \in Calls, FailInside(u) PROVE InstalledInv'
    <2>1. CASE pc[u] = "moving"
      <3>1. u \in Updates /\ Goto(u, AfterThrow(u))
        BY <1>21 DEF FailInside, Throw
      <3>2. \A l \in Locked : pc'[l] \notin Recorded \cup {"moved"}
        BY <2>1, <3>1, Exclusion, GotoFacts DEF AfterThrow
      <3> QED BY <3>2 DEF InstalledInv
    <2>2. CASE pc[u] # "moving"
      BY <1>21, <2>2, InstalledKept, GotoFacts DEF FailInside, Throw, AfterThrow
    <2> QED BY <2>1, <2>2
  <1>22. ASSUME NEW x \in Calls, RemoveFolder(x) PROVE InstalledInv'
    <2>1. \A l \in Locked : pc'[l] \notin Recorded \cup {"moved"}
      BY <1>22, Exclusion, GotoFacts DEF RemoveFolder
    <2> QED BY <2>1 DEF InstalledInv
  <1>23. ASSUME NEW x \in Calls, RemoveFolderFail(x) PROVE InstalledInv'
    BY <1>23, InstalledKept, GotoFacts DEF RemoveFolderFail
  <1>24. ASSUME NEW x \in Calls, CallDelete(x) PROVE InstalledInv'
    BY <1>24, InstalledKept DEF CallDelete, AfterThrow
  <1>25. ASSUME NEW u \in Calls, Cancel(u) PROVE InstalledInv'
    BY <1>25, InstalledKept DEF Cancel
  <1>26. CASE Crash
    <2>1. \A l \in Locked : pc'[l] \in {"idle", "done", "failed", "crashed"}
      BY <1>26 DEF Crash, Ended
    <2> QED BY <2>1 DEF InstalledInv
  <1>27. CASE UNCHANGED vars
    BY <1>27, InstalledKept DEF vars
  <1>28. ASSUME NEW c \in Calls, Step(c) PROVE InstalledInv'
    BY <1>28, <1>3, <1>5, <1>6, <1>7, <1>9, <1>11, <1>12, <1>13, <1>14, <1>15, <1>16,
       <1>17, <1>18, <1>19, <1>20, <1>21, <1>22, <1>23 DEF Step
  <1>29. ASSUME NEW c \in Calls, User(c) PROVE InstalledInv'
    BY <1>29, <1>1, <1>2, <1>4, <1>8, <1>10, <1>24, <1>25 DEF User
  <1> QED BY <1>26, <1>27, <1>28, <1>29 DEF Next

\* While an install that has written instance-lock.json holds the lock, the
\* record is its own and every file it could resolve is in place.
THEOREM RecordTrue == Spec => []RecordedIsInstalled
  <1>1. InstalledInv => RecordedIsInstalled
    BY DEF InstalledInv, RecordedIsInstalled, Recorded
  <1> QED BY <1>1, TypeInit, TypeStep, LockInit, LockStep, InstalledInit, InstalledStep,
             PTL DEF Spec
-----------------------------------------------------------------------------
(***************************************************************************)
(* The unresolved files.                                                   *)
(***************************************************************************)
Reconciling == {"reconcile", "write"}

\* Every missing path is listed, or about to be by the update that missed it;
\* what has been read of the list is still what it says.
ListInv ==
    ~lapsed =>
      /\ \A p \in missing \ dismissed :
           \/ p \in unresolved
           \/ \E u \in Updates : pc[u] \in Reconciling /\ p \in Lost(u)
      /\ \A u \in Updates : pc[u] \in Reconciling => missing \cap Attempted(u) \subseteq Lost(u)
      /\ \A u \in Updates : pc[u] = "write" => listed[u] = unresolved
      /\ \A m \in Dismissals : pc[m] = "dismissing" /\ folder => listed[m] = unresolved

\* What concerns neither the list nor who works with it.
LEMMA ListKept ==
    ASSUME ListInv,
           UNCHANGED <<missing, dismissed, unresolved, lapsed, folder>>,
           \A u \in Updates : pc'[u] \in Reconciling \/ pc[u] \in Reconciling =>
             /\ pc'[u] = pc[u] /\ disk' = disk
             /\ target'[u] = target[u] /\ paths'[u] = paths[u] /\ listed'[u] = listed[u],
           \A m \in Dismissals : pc'[m] = "dismissing" =>
             pc[m] = "dismissing" /\ listed'[m] = listed[m]
    PROVE  ListInv'
  <1>1. ASSUME NEW u \in Updates, pc[u] \in Reconciling \/ pc'[u] \in Reconciling
        PROVE  /\ pc'[u] = pc[u] /\ listed'[u] = listed[u]
               /\ Lost(u)' = Lost(u) /\ Attempted(u)' = Attempted(u)
    BY <1>1 DEF Lost, Attempted
  <1> QED BY <1>1 DEF ListInv, Reconciling

\* Nothing is missing at first.
LEMMA ListInit == Init => ListInv
  BY CallSets DEF Init, ListInv, Reconciling

\* A throw in the midst of a reconciliation is a lapse; elsewhere it touches
\* neither the list nor who works with it.
LEMMA ListThrow ==
    ASSUME TypeInv, ListInv, NEW c \in Updates, NEW step \in Steps, Throw(c, step),
           step \notin Reconciling, pc[c] # "reconcile",
           disk' = disk \/ \A u \in Updates : pc[u] \notin Reconciling
    PROVE  ListInv'
  <1>1. CASE pc[c] = "write"
    BY <1>1 DEF Throw, ListInv
  <1>2. CASE pc[c] # "write"
    <2>1. \A u \in Updates : pc'[u] = IF u = c THEN step ELSE pc[u]
      BY GotoFacts, CallSets DEF Throw
    <2>2. \A m \in Dismissals : pc'[m] = pc[m]
      BY GotoFacts, CallSets DEF Throw
    <2>3. UNCHANGED <<missing, dismissed, unresolved, folder, target, paths, listed>>
      BY DEF Throw, locals
    <2>4. lapsed' = lapsed
      BY <1>2 DEF Throw, TypeInv, TypeOK
    <2> QED BY <1>2, <2>1, <2>2, <2>3, <2>4, ListKept DEF Reconciling
  <1> QED BY <1>1, <1>2

\* Every step keeps the list complete, or is a lapse.
LEMMA ListStep == TypeInv /\ LockInv /\ ListInv /\ [Next]_vars => ListInv'
  <1> SUFFICES ASSUME TypeInv, LockInv, ListInv, [Next]_vars PROVE ListInv'
    OBVIOUS
  <1>a. /\ \A u \in Updates : u \in Calls /\ u \notin Removals /\ u \notin Dismissals
        /\ \A m \in Dismissals : m \in Calls /\ m \notin Removals
        /\ Locked \subseteq Updates /\ Diffs \subseteq Updates
        /\ Installs \subseteq Locked /\ Resumes \subseteq Locked
    BY CallSets
  <1>b. /\ target \in [Updates -> Snapshot \cup {None}]
        /\ paths \in [Updates \cup Dismissals -> SUBSET Paths]
        /\ listed \in [Updates \cup Dismissals -> SUBSET Paths]
    BY DEF TypeInv, TypeOK
  <1>c. \A u, v \in Updates : pc[u] \in Inside /\ pc[v] \in Inside => u = v
    BY <1>a, Exclusion
  <1> USE <1>a DEF Inside, Reconciling, files, locals, ghosts
  \* Outside the lock.
  <1>1. ASSUME NEW i \in Calls, CallInstall(i) PROVE ListInv'
    BY <1>b, <1>1, ListKept, GotoFacts DEF CallInstall
  <1>2. ASSUME NEW r \in Calls, CallResume(r) PROVE ListInv'
    BY <1>2, ListKept, GotoFacts DEF CallResume
  <1>3. ASSUME NEW r \in Calls, ReadProfile(r) PROVE ListInv'
    BY <1>b, <1>3, ListKept, GotoFacts DEF ReadProfile
  <1>4. ASSUME NEW d \in Calls, CallDiff(d) PROVE ListInv'
    BY <1>b, <1>4, ListKept, GotoFacts DEF CallDiff
  <1>5. ASSUME NEW d \in Calls, PrepareDiffFail(d) PROVE ListInv'
    BY <1>5, ListKept, GotoFacts DEF PrepareDiffFail
  <1>6. ASSUME NEW d \in Calls, CloseDiff(d) PROVE ListInv'
    BY <1>6, ListKept, GotoFacts DEF CloseDiff
  <1>7. ASSUME NEW l \in Calls, DropProfile(l) PROVE ListInv'
    BY <1>7, ListKept, GotoFacts DEF DropProfile
  <1>8. ASSUME NEW m \in Calls, CallDismiss(m) PROVE ListInv'
    <2>1. /\ m \in Dismissals /\ listed' = [listed EXCEPT ![m] = unresolved]
          /\ UNCHANGED <<missing, dismissed, unresolved, lapsed, folder, disk, target>>
      BY <1>8 DEF CallDismiss
    <2>2. \A d \in Calls : pc'[d] = IF d = m THEN "dismissing" ELSE pc[d]
      BY <1>8, GotoFacts DEF CallDismiss
    <2>3. \A u \in Updates : paths'[u] = paths[u] /\ listed'[u] = listed[u]
      BY <1>b, <1>8 DEF CallDismiss
    <2>4. \A u \in Updates :
            pc'[u] = pc[u] /\ Lost(u)' = Lost(u) /\ Attempted(u)' = Attempted(u)
      BY <2>1, <2>2, <2>3 DEF Lost, Attempted
    <2>5. \A n \in Dismissals : listed'[n] = IF n = m THEN unresolved ELSE listed[n]
      BY <1>b, <2>1
    <2> QED BY <2>1, <2>2, <2>3, <2>4, <2>5 DEF ListInv
  <1>9. ASSUME NEW u \in Calls, Register(u) PROVE ListInv'
    BY <1>9, ListKept, GotoFacts DEF Register
  <1>10. ASSUME NEW d \in Calls, PrepareDiff(d) PROVE ListInv'
    BY <1>b, <1>10, ListKept, GotoFacts DEF PrepareDiff
  <1>11. ASSUME NEW u \in Calls, Begin(u) PROVE ListInv'
    <2>1. CASE u \in aborted \/ ~folder
      <3>1. u \in Updates /\ pc[u] = "waiting" /\ Throw(u, AfterThrow(u)) /\ disk' = disk
        BY <1>11, <2>1 DEF Begin
      <3> QED BY <3>1, ListThrow DEF AfterThrow, Steps, Ended
    <2>2. CASE ~(u \in aborted \/ ~folder)
      <3> DEFINE step == IF u \in Diffs THEN "moving" ELSE "prepare"
      <3>1. Goto(u, step) /\ UNCHANGED <<disk, folder, unresolved, locals, ghosts>>
            /\ u \in Updates /\ pc[u] = "waiting"
        BY <1>11, <2>2 DEF Begin
      <3> QED BY <3>1, ListKept, GotoFacts
    <2> QED BY <2>1, <2>2
  \* Inside, before the list is touched.
  <1>12. ASSUME NEW l \in Calls, Prepare(l) PROVE ListInv'
    BY <1>b, <1>12, ListKept, GotoFacts DEF Prepare
  <1>13. ASSUME NEW u \in Calls, MoveFiles(u) PROVE ListInv'
    <2>1. /\ u \in Updates /\ pc[u] = "moving"
          /\ UNCHANGED <<missing, dismissed, unresolved, lapsed, folder, locals>>
      BY <1>13 DEF MoveFiles
    <2>2. \A d \in Calls : pc'[d] = IF d = u THEN "moved" ELSE pc[d]
      BY <1>13, GotoFacts DEF MoveFiles
    <2>3. \A v \in Updates : pc[v] \notin Reconciling /\ pc'[v] \notin Reconciling
      BY <1>c, <2>1, <2>2
    <2>4. \A m \in Dismissals : pc'[m] = pc[m]
      BY <2>1, <2>2
    <2> QED BY <2>1, <2>3, <2>4, ListKept
  <1>14. ASSUME NEW l \in Calls, WriteLockFile(l) PROVE ListInv'
    BY <1>14, ListKept, GotoFacts DEF WriteLockFile
  <1>15. ASSUME NEW l \in Calls, Refuse(l) PROVE ListInv'
    BY <1>15, ListThrow DEF Refuse, Steps
  <1>16. ASSUME NEW u \in Calls, FailInside(u) PROVE ListInv'
    <2>1. u \in Updates /\ pc[u] \in {"prepare", "moving", "moved", "write"}
          /\ Throw(u, AfterThrow(u))
      BY <1>16 DEF FailInside
    <2>2. disk' = disk \/ \A v \in Updates : pc[v] \notin Reconciling
      BY <1>16, <1>c, <2>1 DEF FailInside
    <2> QED BY <2>1, <2>2, ListThrow DEF AfterThrow, Steps, Ended
  \* The reconciliation.
  <1>17. ASSUME NEW u \in Calls, ClearProfile(u) PROVE ListInv'
    <2>1. /\ u \in Updates /\ pc[u] \in Inside \ Reconciling
          /\ missing' = (missing \ Attempted(u)) \cup Lost(u)
          /\ dismissed' = dismissed \ Attempted(u)
          /\ UNCHANGED <<unresolved, lapsed, folder, disk, locals>>
      BY <1>17 DEF ClearProfile
    <2>2. \A d \in Calls : pc'[d] = IF d = u THEN "reconcile" ELSE pc[d]
      BY <1>17, GotoFacts DEF ClearProfile
    <2>3. \A v \in Updates :
            /\ pc[v] \notin Reconciling
            /\ pc'[v] \in Reconciling <=> v = u
            /\ pc'[v] # "write"
      BY <1>c, <2>1, <2>2
    <2>4. Lost(u)' = Lost(u) /\ Attempted(u)' = Attempted(u)
      BY <2>1 DEF Lost, Attempted
    <2>5. \A m \in Dismissals : pc'[m] = pc[m]
      BY <2>1, <2>2
    <2>6. missing' \cap Attempted(u) \subseteq Lost(u)
      BY <2>1
    <2>7. ~lapsed => \A p \in missing' \ dismissed' : p \in unresolved \/ p \in Lost(u)
      BY <2>1, <2>3 DEF ListInv
    <2> QED BY <2>1, <2>3, <2>4, <2>5, <2>6, <2>7 DEF ListInv
  <1>18. ASSUME NEW u \in Calls, ReadUnresolved(u) PROVE ListInv'
    <2>1. /\ u \in Updates /\ pc[u] = "reconcile"
          /\ listed' = [listed EXCEPT ![u] = unresolved]
          /\ UNCHANGED <<missing, dismissed, unresolved, lapsed, folder, disk, target, paths>>
      BY <1>18 DEF ReadUnresolved
    <2>2. \A d \in Calls : pc'[d] = IF d = u THEN "write" ELSE pc[d]
      BY <1>18, GotoFacts DEF ReadUnresolved
    <2>3. \A v \in Updates :
            /\ Lost(v)' = Lost(v) /\ Attempted(v)' = Attempted(v)
            /\ pc'[v] \in Reconciling <=> pc[v] \in Reconciling
            /\ pc'[v] = "write" => v = u
      BY <1>c, <2>1, <2>2 DEF Lost, Attempted
    <2>4. \A m \in Dismissals : pc'[m] = pc[m] /\ listed'[m] = listed[m]
      BY <1>b, <2>1, <2>2
    <2>5. listed'[u] = unresolved
      BY <1>b, <2>1
    <2> QED BY <2>1, <2>3, <2>4, <2>5 DEF ListInv
  <1>19. ASSUME NEW u \in Calls, WriteUnresolved(u) PROVE ListInv'
    <2>1. /\ u \in Updates /\ pc[u] = "write"
          /\ unresolved' = (listed[u] \ Attempted(u)) \cup Lost(u)
          /\ lapsed' = (lapsed \/ Overlaps(u))
          /\ UNCHANGED <<missing, dismissed, folder, disk, locals>>
      BY <1>19 DEF WriteUnresolved
    <2>2. \A d \in Calls : pc'[d] = IF d = u THEN pc'[u] ELSE pc[d]
      BY <1>19, GotoFacts DEF WriteUnresolved
    <2>3. pc'[u] \in {"closed", "done"}
      BY <1>19, GotoFacts DEF WriteUnresolved
    <2>4. \A v \in Updates : pc'[v] \notin Reconciling
      BY <1>c, <2>1, <2>2, <2>3
    <2> SUFFICES ASSUME ~lapsed' PROVE ListInv'
      BY DEF ListInv
    <2>5. ~lapsed /\ \A m \in Dismissals : pc'[m] # "dismissing"
      BY <2>1, <2>2, <2>3 DEF Overlaps
    <2>6. \A p \in missing \ dismissed : p \in unresolved \/ p \in Lost(u)
      BY <1>c, <2>1, <2>5 DEF ListInv
    <2>7. listed[u] = unresolved /\ missing \cap Attempted(u) \subseteq Lost(u)
      BY <2>1, <2>5 DEF ListInv
    <2>8. \A p \in missing \ dismissed : p \in unresolved'
      BY <2>1, <2>6, <2>7
    <2> QED BY <2>1, <2>4, <2>5, <2>8 DEF ListInv
  \* Dismissals.
  <1>20. ASSUME NEW m \in Calls, WriteDismissal(m) PROVE ListInv'
    <2>1. /\ m \in Dismissals /\ pc[m] = "dismissing"
          /\ unresolved' = IF folder THEN listed[m] \ paths[m] ELSE unresolved
          /\ dismissed' = dismissed \cup paths[m]
          /\ lapsed' = (lapsed \/ Overlaps(m))
          /\ UNCHANGED <<missing, folder, disk, locals>>
      BY <1>20 DEF WriteDismissal
    <2>2. \A d \in Calls : pc'[d] = IF d = m THEN "done" ELSE pc[d]
      BY <1>20, GotoFacts DEF WriteDismissal
    <2> SUFFICES ASSUME ~lapsed' PROVE ListInv'
      BY DEF ListInv
    <2>3. /\ ~lapsed
          /\ \A n \in Dismissals : pc'[n] # "dismissing"
          /\ \A u \in Updates : pc'[u] = pc[u] /\ pc'[u] # "write"
      BY <2>1, <2>2 DEF Overlaps
    <2>4. \A u \in Updates : Lost(u)' = Lost(u) /\ Attempted(u)' = Attempted(u)
      BY <2>1 DEF Lost, Attempted
    <2>5. folder => listed[m] = unresolved
      BY <2>1, <2>3 DEF ListInv
    <2> QED BY <2>1, <2>3, <2>4, <2>5 DEF ListInv
  <1>21. ASSUME NEW m \in Calls, DismissAll(m) PROVE ListInv'
    <2>1. /\ m \in Dismissals /\ dismissed' = dismissed \cup missing
          /\ lapsed' = (lapsed \/ Overlaps(m))
          /\ UNCHANGED <<missing, folder, disk, locals>>
      BY <1>21 DEF DismissAll
    <2>2. \A d \in Calls : pc'[d] = IF d = m THEN "done" ELSE pc[d]
      BY <1>21, GotoFacts DEF DismissAll
    <2> SUFFICES ASSUME ~lapsed' PROVE ListInv'
      BY DEF ListInv
    <2>3. /\ ~lapsed
          /\ \A n \in Dismissals : pc'[n] # "dismissing"
          /\ \A u \in Updates : pc'[u] = pc[u] /\ pc'[u] # "write"
      BY <2>1, <2>2 DEF Overlaps
    <2>4. \A u \in Updates : Lost(u)' = Lost(u) /\ Attempted(u)' = Attempted(u)
      BY <2>1 DEF Lost, Attempted
    <2>5. missing' \ dismissed' = {}
      BY <2>1
    <2> QED BY <2>1, <2>3, <2>4, <2>5 DEF ListInv
  \* Deletes.
  <1>22. ASSUME NEW x \in Calls, RemoveFolder(x) PROVE ListInv'
    <2>1. holder = x /\ x \in Removals /\ missing' = {} /\ ~folder'
      BY <1>22 DEF RemoveFolder
    <2>2. \A u \in Updates : pc'[u] \notin Reconciling
      BY <1>22, <2>1, Exclusion, GotoFacts DEF RemoveFolder
    <2> QED BY <2>1, <2>2 DEF ListInv
  <1>23. ASSUME NEW x \in Calls, RemoveFolderFail(x) PROVE ListInv'
    <2>1. /\ x \in Removals
          /\ UNCHANGED <<missing, dismissed, unresolved, lapsed, folder, disk, locals>>
      BY <1>23 DEF RemoveFolderFail
    <2>2. \A d \in Calls : d # x => pc'[d] = pc[d]
      BY <1>23, GotoFacts DEF RemoveFolderFail
    <2> QED BY <2>1, <2>2, ListKept
  <1>24. ASSUME NEW x \in Calls, CallDelete(x) PROVE ListInv'
    <2>1. /\ x \in Removals
          /\ UNCHANGED <<missing, dismissed, unresolved, lapsed, folder, disk, locals>>
      BY <1>24 DEF CallDelete
    <2>2. \A c \in Calls : pc'[c] = IF c = x THEN "waiting"
                                    ELSE IF c \in Waiters THEN AfterThrow(c) ELSE pc[c]
      BY <1>24 DEF CallDelete
    <2>3. \A c \in Waiters : pc[c] = "waiting"
      BY DEF LockInv, LockDiscipline, Waiters
    <2>4. \A c \in Calls : AfterThrow(c) \in {"closing", "failed"}
      BY DEF AfterThrow
    <2> QED BY <2>1, <2>2, <2>3, <2>4, ListKept
  <1>25. ASSUME NEW u \in Calls, Cancel(u) PROVE ListInv'
    BY <1>25, ListKept DEF Cancel
  <1>26. CASE Crash
    <2>1. \A c \in Calls : pc'[c] \in {"idle", "done", "failed", "crashed"}
      BY <1>26 DEF Crash, Ended
    <2>2. UNCHANGED <<missing, dismissed, unresolved>>
      BY <1>26 DEF Crash
    <2> SUFFICES ASSUME ~lapsed' PROVE ListInv'
      BY DEF ListInv
    <2>3. ~lapsed /\ \A c \in Calls : pc[c] \notin Reconciling
      BY <1>26 DEF Crash
    <2>4. \A p \in missing \ dismissed : p \in unresolved
      BY <2>3 DEF ListInv
    <2> QED BY <2>1, <2>2, <2>4 DEF ListInv
  <1>27. CASE UNCHANGED vars
    BY <1>27, ListKept DEF vars
  <1>28. ASSUME NEW c \in Calls, Step(c) PROVE ListInv'
    BY <1>28, <1>3, <1>5, <1>6, <1>7, <1>9, <1>10, <1>11, <1>12, <1>13, <1>14, <1>15,
       <1>16, <1>17, <1>18, <1>19, <1>20, <1>22, <1>23 DEF Step
  <1>29. ASSUME NEW c \in Calls, User(c) PROVE ListInv'
    BY <1>29, <1>1, <1>2, <1>4, <1>8, <1>21, <1>24, <1>25 DEF User
  <1> QED BY <1>26, <1>27, <1>28, <1>29 DEF Next

\* A path the last update could not resolve stays in unresolved-files.json until
\* it is dismissed or resolved, through deletes, failures and other updates,
\* unless a reconciliation was cut off or overlapped a dismissal.
THEOREM MissingListed == Spec => []UnresolvedListed
  <1>1. ListInv => UnresolvedListed
    BY DEF ListInv, UnresolvedListed, Reconciled, Reconciling
  <1> QED BY <1>1, TypeInit, TypeStep, LockInit, LockStep, ListInit, ListStep, PTL
          DEF Spec
-----------------------------------------------------------------------------
(***************************************************************************)
(* instance-lock.json, when one install was asked for and no diff.         *)
(***************************************************************************)
OneInstall == Diffs = {} /\ \E i : Installs = {i}

TheInstall == CHOOSE i : Installs = {i}
Wanted == target[TheInstall]

Active(u) == pc[u] \notin {"idle"} \cup Ended

\* A manifest the install is refused on.
Foreign(s) == s # None /\ Wanted # None /\ s.upstream # Wanted.upstream

\* The files that are there are those of the record.
Settled == \A p \in Paths : p \in missing \/ disk[p] = FilesOf(lockFile)[p]

\* A file that an earlier install has left and this one does not want.
Leftover(p) == disk[p] # Absent /\ (Wanted = None \/ Wanted.files[p] = Absent)

\* The marker and the resumes want what the install wanted.
Wishes ==
    /\ pc[TheInstall] = "idle" => Wanted = None
    /\ profile \in {None, Wanted}
    /\ \A u \in Updates : target[u] \in {None, Wanted}

\* What an update has read of the record is the record, or else this install
\* has replaced it since.
Views ==
    \A u \in Updates : Active(u) =>
      \/ seen[u] = lockFile
      \/ lockFile # None /\ lockFile = Wanted /\ ~Foreign(seen[u])

\* Every update knows of what is left over, so that it can remove it.
Known ==
    \A p \in Paths : Leftover(p) =>
      /\ FilesOf(lockFile)[p] # Absent
      /\ \A u \in Updates : Active(u) => FilesOf(seen[u])[p] # Absent

\* Only for another upstream is an update refused.
Refusals == \A u \in Updates : pc[u] = "refused" => Foreign(seen[u])

Admitted == {"moving", "moved", "locked"}

\* Who moves the files has left the marker, was not refused, and gives up only
\* on files it wants; who has moved them has left nothing over.
Marking ==
    \A u \in Updates :
      /\ pc[u] \in {"prepare"} \cup Admitted => profile # None \/ Foreign(lockFile)
      /\ pc[u] \in Admitted => /\ ~Foreign(seen[u])
                               /\ \A p \in paths[u] : Wanted.files[p] # Absent
      /\ pc[u] \in {"moved", "locked"} => \A p \in Paths : ~Leftover(p)

\* Without the marker, or for another upstream, nothing has been moved.
Unmarked == profile = None \/ Foreign(lockFile) => Settled

Truth == Wishes /\ Views /\ Known /\ Refusals /\ Marking /\ Unmarked
TruthInv == removed \/ Truth

\* The one install is one of the calls, and no resume.
LEMMA TheOne ==
    ASSUME OneInstall
    PROVE  /\ Installs = {TheInstall} /\ Updates = Locked
           /\ TheInstall \in Updates /\ TheInstall \notin Resumes
  <1>1. Installs = {TheInstall}
    BY Zenon DEF OneInstall, TheInstall
  <1> QED BY <1>1, CallsAssumption DEF OneInstall, Updates, Locked

\* An instance with an install done or with none at all is what its record says.
LEMMA TruthInit == OneInstall /\ Init => TruthInv
  <1> SUFFICES ASSUME OneInstall, Init PROVE Truth
    BY DEF TruthInv
  <1>1. /\ \A u \in Updates : u \in Calls /\ pc[u] = "idle" /\ target[u] = None
        /\ Wanted = None
    BY TheOne, CallSets DEF Init, Wanted
  <1>2. Settled
    BY Requests DEF Init, Settled, FilesOf
  <1>3. \A p \in Paths : Leftover(p) => FilesOf(lockFile)[p] # Absent
    BY <1>2 DEF Init, Settled, Leftover
  <1> QED BY <1>1, <1>2, <1>3 DEF Init, Truth, Wishes, Views, Known, Refusals, Marking,
             Unmarked, Active, Foreign, Admitted

\* What neither lets an update move files nor touches the files and records.
LEMMA TruthKept ==
    ASSUME Truth,
           UNCHANGED <<disk, lockFile, missing, target>>,
           profile' = profile \/ (profile' = None /\ Foreign(lockFile)),
           pc'[TheInstall] = "idle" => pc[TheInstall] = "idle",
           \A u \in Updates :
             /\ Active(u)' => Active(u) /\ seen'[u] = seen[u]
             /\ pc'[u] = "refused" => pc[u] = "refused" \/ Foreign(seen[u])
             /\ pc'[u] \in {"prepare"} \cup Admitted =>
                  pc'[u] = pc[u] /\ paths'[u] = paths[u]
    PROVE  Truth'
  <1>1. Wanted' = Wanted /\ Foreign(lockFile)' = Foreign(lockFile) /\ Settled' = Settled
    BY DEF Wanted, Foreign, Settled, FilesOf
  <1>2. \A p \in Paths : Leftover(p)' = Leftover(p)
    BY <1>1 DEF Leftover
  <1>3. \A u \in Updates : Active(u)' => Foreign(seen[u])' = Foreign(seen[u])
    BY <1>1 DEF Foreign
  <1>4. \A u \in Updates : pc'[u] = "refused" \/ pc'[u] \in {"prepare"} \cup Admitted => Active(u)'
    BY DEF Active, Admitted, Ended
  <1>5. Wishes' /\ Unmarked'
    BY <1>1 DEF Truth, Wishes, Unmarked
  <1>6. Views' /\ Refusals'
    BY <1>1, <1>3, <1>4 DEF Truth, Views, Refusals
  <1>7. Known'
    BY <1>2 DEF Truth, Known, FilesOf
  <1>8. Marking'
    BY <1>1, <1>2, <1>3, <1>4 DEF Truth, Marking, Admitted
  <1> QED BY <1>5, <1>6, <1>7, <1>8 DEF Truth

\* Who moves the files works for what the install wanted, has left the marker
\* and was not refused; moving them or some of them leaves nothing over.
LEMMA MovesClean ==
    ASSUME TypeInv, Truth, NEW u \in Updates, pc[u] \in Admitted
    PROVE  /\ target[u] = Wanted /\ Wanted \in Snapshot
           /\ profile # None /\ ~Foreign(lockFile)
           /\ \A p \in Paths : Wanted.files[p] = Absent =>
                /\ \A d \in Moved(u) : d[p] = Absent
                /\ \A d \in Torn(u) : d[p] \in {disk[p], Absent}
  <1>1. target[u] = Wanted /\ Wanted \in Snapshot /\ Wanted # None
    BY Requests DEF Truth, Wishes, TypeInv, TypeOK, HasTarget, Admitted, Inside
  <1>2. Active(u)
    BY DEF Active, Admitted, Ended
  <1>3. ~Foreign(lockFile)
    BY <1>1, <1>2 DEF Truth, Views, Marking, Foreign
  <1>4. profile # None
    BY <1>3 DEF Truth, Marking
  <1>5. ASSUME NEW p \in Paths, Wanted.files[p] = Absent
        PROVE  /\ \A d \in Moved(u) : d[p] = Absent
               /\ \A d \in Torn(u) : d[p] \in {disk[p], Absent}
    <2>1. p \notin paths[u]
      BY <1>5 DEF Truth, Marking
    <2>2. ASSUME NEW d \in Moved(u)
          PROVE  d[p] = Updated(disk[p], FilesOf(seen[u])[p], Absent)
      BY <1>1, <1>5, <2>1 DEF Moved, Leaves
    <2>3. disk[p] # Absent => FilesOf(seen[u])[p] # Absent
      BY <1>2, <1>5 DEF Truth, Known, Leftover
    <2>4. ASSUME NEW d \in Torn(u)
          PROVE  d[p] \in Between(disk[p], FilesOf(seen[u])[p], Absent)
      BY <1>1, <1>5, <2>1 DEF Torn
    <2> QED BY <2>2, <2>3, <2>4 DEF Updated, Between
  <1> QED BY <1>1, <1>3, <1>4, <1>5

\* The files move, or some of them when the launcher crashes: only files this
\* install does not want may go beyond that, and they go.
LEMMA TruthMoved ==
    ASSUME Truth, UNCHANGED <<lockFile, profile, target, seen, paths>>,
           Wanted # None, profile # None, ~Foreign(lockFile),
           \A p \in Paths : Wanted.files[p] = Absent => disk'[p] \in {disk[p], Absent},
           pc'[TheInstall] = "idle" => pc[TheInstall] = "idle",
           \A u \in Updates :
             /\ Active(u)' => Active(u)
             /\ pc'[u] = "refused" => pc[u] = "refused"
             /\ pc'[u] \in {"prepare"} \cup Admitted => 
                  \/ pc'[u] = "prepare" /\ pc[u] = "prepare"
                  \/ /\ pc[u] \in Admitted
                     /\ \A p \in Paths : Wanted.files[p] = Absent => disk'[p] = Absent
    PROVE  Truth'
  <1>1. Wanted' = Wanted /\ Foreign(lockFile)' = Foreign(lockFile)
    BY DEF Wanted, Foreign
  <1>2. \A p \in Paths : Leftover(p)' => Leftover(p)
    BY <1>1 DEF Leftover
  <1>3. \A u \in Updates : Foreign(seen[u])' = Foreign(seen[u])
    BY <1>1 DEF Foreign
  <1>4. Wishes' /\ Unmarked'
    BY <1>1 DEF Truth, Wishes, Unmarked
  <1>5. Views' /\ Refusals'
    BY <1>1, <1>3 DEF Truth, Views, Refusals
  <1>6. Known'
    BY <1>2 DEF Truth, Known, FilesOf
  <1>7. Marking'
    BY <1>1, <1>3 DEF Truth, Marking, Leftover, Admitted
  <1> QED BY <1>4, <1>5, <1>6, <1>7 DEF Truth

\* A throw ends the update, unless it is refused.
LEMMA TruthThrow ==
    ASSUME OneInstall, TypeInv, Truth, NEW u \in Updates, NEW step, Throw(u, step),
           profile' = profile, disk' = disk, Active(u),
           step = "failed" \/ (step = "refused" /\ Foreign(seen[u]))
    PROVE  Truth'
  <1>1. \A v \in Updates : pc'[v] = IF v = u THEN step ELSE pc[v]
    BY GotoFacts, CallSets DEF Throw
  <1>2. UNCHANGED <<lockFile, missing, target, seen, paths>>
    BY DEF Throw, locals
  <1>3. step \notin {"prepare", "idle"} \cup Admitted
    BY DEF Admitted
  <1>4. ASSUME NEW v \in Updates
        PROVE  /\ Active(v)' => Active(v)
               /\ pc'[v] = "refused" => pc[v] = "refused" \/ Foreign(seen[v])
               /\ pc'[v] \in {"prepare"} \cup Admitted => pc'[v] = pc[v]
    <2>1. CASE v = u
      BY <1>1, <1>3, <2>1
    <2>2. CASE v # u
      BY <1>1, <2>2 DEF Active
    <2> QED BY <2>1, <2>2
  <1>5. pc'[TheInstall] = "idle" => pc[TheInstall] = "idle"
    BY <1>1, <1>3, TheOne
  <1> QED BY <1>2, <1>4, <1>5, TruthKept

\* A deleted instance does not become one that was not.
LEMMA RemovedForGood == [Next]_vars /\ removed => removed'
  <1> SUFFICES ASSUME [Next]_vars, removed PROVE removed'
    OBVIOUS
  <1> USE DEF ghosts
  <1>1. CASE UNCHANGED vars
    BY <1>1 DEF vars
  <1>2. CASE Crash
    BY <1>2 DEF Crash
  <1>3. ASSUME NEW c \in Calls, Step(c) PROVE removed'
    BY <1>3 DEF Step, ReadProfile, Register, PrepareDiff, PrepareDiffFail, Begin, Refuse,
       Prepare, MoveFiles, WriteLockFile, ClearProfile, ReadUnresolved, WriteUnresolved,
       FailInside, CloseDiff, DropProfile, RemoveFolder, RemoveFolderFail, WriteDismissal,
       Throw
  <1>4. ASSUME NEW c \in Calls, User(c) PROVE removed'
    BY <1>4 DEF User, CallInstall, CallResume, CallDiff, CallDelete, CallDismiss,
       DismissAll, Cancel
  <1> QED BY <1>1, <1>2, <1>3, <1>4 DEF Next

\* Every step keeps the truth of the record, until the instance is deleted.
LEMMA TruthStep ==
    OneInstall /\ TypeInv /\ LockInv /\ InstalledInv /\ TruthInv /\ [Next]_vars => TruthInv'
  <1> SUFFICES ASSUME OneInstall, TypeInv, LockInv, InstalledInv, Truth, [Next]_vars,
                      ~removed'
               PROVE  Truth'
    BY RemovedForGood DEF TruthInv
  <1>a. /\ \A u \in Updates : u \in Calls /\ u \notin Removals /\ u \notin Dismissals
                              /\ u \in Locked
        /\ Diffs = {} /\ Installs = {TheInstall}
        /\ TheInstall \in Updates /\ TheInstall \notin Resumes
        /\ Resumes \subseteq Updates /\ Locked \subseteq Updates
    BY TheOne, CallSets DEF OneInstall
  <1>b. /\ target \in [Updates -> Snapshot \cup {None}]
        /\ seen \in [Updates -> Snapshot \cup {None}]
        /\ paths \in [Updates \cup Dismissals -> SUBSET Paths]
        /\ None \notin Snapshot
    BY Requests DEF TypeInv, TypeOK
  <1>c. \A u, v \in Updates : pc[u] \in Inside /\ pc[v] \in Inside => u = v
    BY <1>a, Exclusion
  <1>d. /\ Wishes /\ Views /\ Known /\ Refusals /\ Marking /\ Unmarked
        /\ \A u \in Updates :
             pc[u] \in {"called", "patch", "waiting"} \cup Inside =>
               target[u] = Wanted /\ Wanted # None
    BY DEF Truth, Wishes, TypeInv, HasTarget
  <1> USE <1>a DEF Inside, files, locals, ghosts
  \* Outside the lock.
  <1>1. ASSUME NEW i \in Calls, CallInstall(i) PROVE Truth'
    <2>1. /\ i = TheInstall /\ pc[i] = "idle"
          /\ UNCHANGED <<disk, lockFile, profile, missing, paths>>
      BY <1>1 DEF CallInstall
    <2>2. PICK t \in Targets : target' = [target EXCEPT ![i] = t]
      BY <1>1 DEF CallInstall
    <2>3. seen' = [seen EXCEPT ![i] = lockFile]
      BY <1>1 DEF CallInstall
    <2>4. Wanted = None /\ profile = None /\ \A u \in Updates : target[u] = None
      BY <1>d, <2>1 DEF Wishes
    <2>5. Wanted' = t /\ \A u \in Updates : target'[u] \in {None, t}
      BY <1>b, <2>1, <2>2, <2>4 DEF Wanted
    <2>6. \A u \in Updates : pc'[u] = IF u = i THEN "called" ELSE pc[u]
      BY <1>1, GotoFacts DEF CallInstall
    <2>7. \A u \in Updates : seen'[u] = IF u = i THEN lockFile ELSE seen[u]
      BY <1>b, <2>3
    <2>8. Settled /\ Settled'
      BY <1>d, <2>1, <2>4 DEF Unmarked, Settled, FilesOf
    <2>9. \A u \in Updates : Active(u)' => seen'[u] = lockFile
      BY <1>d, <2>4, <2>6, <2>7 DEF Views, Active
    <2>10. \A p \in Paths : Leftover(p)' => Leftover(p)
      BY <2>1, <2>4 DEF Leftover
    <2>11. \A u \in Updates : pc'[u] # "refused" /\ pc'[u] \notin {"prepare"} \cup Admitted
      BY <1>d, <2>4, <2>6 DEF Refusals, Foreign, Admitted
    <2>12. Wishes'
      BY <2>1, <2>4, <2>5, <2>6 DEF Wishes
    <2>13. Known'
      BY <1>d, <2>1, <2>9, <2>10 DEF Known, FilesOf
    <2> QED BY <2>1, <2>8, <2>9, <2>11, <2>12, <2>13
            DEF Truth, Views, Refusals, Marking, Unmarked, Admitted
  <1>2. ASSUME NEW r \in Calls, CallResume(r) PROVE Truth'
    <2>1. /\ r \in Updates /\ pc[r] = "idle" /\ r # TheInstall
          /\ UNCHANGED <<disk, lockFile, profile, missing, target, paths>>
      BY <1>2 DEF CallResume
    <2>2. \A u \in Updates : seen'[u] = IF u = r THEN lockFile ELSE seen[u]
      BY <1>b, <1>2 DEF CallResume
    <2>3. \A u \in Updates : pc'[u] = IF u = r THEN "profile" ELSE pc[u]
      BY <1>2, GotoFacts DEF CallResume
    <2>4. Wanted' = Wanted /\ Foreign(lockFile)' = Foreign(lockFile) /\ Settled' = Settled
      BY <2>1 DEF Wanted, Foreign, Settled, FilesOf
    <2>5. \A u \in Updates : u # r => Foreign(seen[u])' = Foreign(seen[u])
      BY <2>2, <2>4 DEF Foreign
    <2>6. \A p \in Paths : Leftover(p)' = Leftover(p)
      BY <2>1, <2>4 DEF Leftover
    <2>7. \A u \in Updates : u # r => Active(u)' = Active(u)
      BY <2>3 DEF Active
    <2>8. Wishes' /\ Unmarked'
      BY <1>d, <2>1, <2>3, <2>4 DEF Wishes, Unmarked
    <2>9. Views'
      BY <1>d, <2>1, <2>2, <2>4, <2>5, <2>7 DEF Views
    <2>10. Known'
      BY <1>d, <2>1, <2>2, <2>6, <2>7 DEF Known, FilesOf
    <2>11. Refusals' /\ Marking'
      BY <1>d, <2>1, <2>3, <2>4, <2>5, <2>6 DEF Refusals, Marking, Admitted
    <2> QED BY <2>8, <2>9, <2>10, <2>11 DEF Truth
  <1>3. ASSUME NEW r \in Calls, ReadProfile(r) PROVE Truth'
    <2>1. /\ r \in Updates /\ pc[r] = "profile" /\ r # TheInstall
          /\ UNCHANGED <<disk, lockFile, profile, missing, seen, paths>>
      BY <1>3 DEF ReadProfile
    <2>2. \A u \in Updates : target'[u] = IF u = r THEN profile ELSE target[u]
      BY <1>b, <1>3 DEF ReadProfile
    <2>3. \A u \in Updates : pc'[u] = IF u = r THEN pc'[r] ELSE pc[u]
      BY <1>3, GotoFacts DEF ReadProfile
    <2>4. pc'[r] \in {"done", "called"}
      BY <1>3, GotoFacts DEF ReadProfile
    <2>5. Wanted' = Wanted /\ Foreign(lockFile)' = Foreign(lockFile) /\ Settled' = Settled
      BY <2>1, <2>2 DEF Wanted, Foreign, Settled, FilesOf
    <2>6. \A u \in Updates : Foreign(seen[u])' = Foreign(seen[u])
      BY <2>1, <2>5 DEF Foreign
    <2>7. \A p \in Paths : Leftover(p)' = Leftover(p)
      BY <2>1, <2>5 DEF Leftover
    <2>8. \A u \in Updates : Active(u)' => Active(u)
      BY <2>1, <2>3 DEF Active, Ended
    <2>9. Wishes' /\ Unmarked'
      BY <1>d, <2>1, <2>2, <2>3, <2>5 DEF Wishes, Unmarked
    <2>10. Views'
      BY <1>d, <2>1, <2>5, <2>6, <2>8 DEF Views
    <2>11. Known'
      BY <1>d, <2>1, <2>7, <2>8 DEF Known, FilesOf
    <2>12. Refusals' /\ Marking'
      BY <1>d, <2>1, <2>3, <2>4, <2>5, <2>6, <2>7 DEF Refusals, Marking, Admitted
    <2> QED BY <2>9, <2>10, <2>11, <2>12 DEF Truth
  <1>4. ASSUME NEW d \in Calls, CallDiff(d) \/ PrepareDiff(d) \/ PrepareDiffFail(d) \/ CloseDiff(d)
        PROVE  Truth'
    BY <1>4 DEF CallDiff, PrepareDiff, PrepareDiffFail, CloseDiff
  <1>5. ASSUME NEW u \in Calls, Register(u) PROVE Truth'
    <2>1. /\ u \in Updates /\ pc[u] = "called"
          /\ UNCHANGED <<disk, lockFile, profile, missing, locals>>
      BY <1>5 DEF Register
    <2>2. \A v \in Updates : pc'[v] = IF v = u THEN "waiting" ELSE pc[v]
      BY <1>5, GotoFacts DEF Register
    <2> QED BY <2>1, <2>2, TruthKept DEF Active, Admitted, Ended
  <1>6. ASSUME NEW l \in Calls, DropProfile(l) PROVE Truth'
    <2>1. /\ l \in Updates /\ pc[l] = "refused" /\ profile' = None
          /\ UNCHANGED <<disk, lockFile, missing, locals>>
      BY <1>6 DEF DropProfile
    <2>2. \A v \in Updates : pc'[v] = IF v = l THEN "failed" ELSE pc[v]
      BY <1>6, GotoFacts DEF DropProfile
    <2>3. Foreign(seen[l]) /\ Active(l)
      BY <1>d, <2>1 DEF Refusals, Active, Ended
    <2>4. Foreign(lockFile)
      BY <1>d, <2>1, <2>3 DEF Views
    <2> QED BY <2>1, <2>2, <2>4, TruthKept DEF Active, Admitted, Ended
  <1>7. ASSUME NEW m \in Calls, CallDismiss(m) PROVE Truth'
    <2>1. m \notin Updates /\ UNCHANGED <<disk, lockFile, profile, missing, seen, target>>
      BY <1>7 DEF CallDismiss
    <2>2. \A u \in Updates : pc'[u] = pc[u] /\ paths'[u] = paths[u]
      BY <1>b, <1>7, <2>1, GotoFacts DEF CallDismiss
    <2> QED BY <2>1, <2>2, TruthKept DEF Active
  <1>8. ASSUME NEW m \in Calls, WriteDismissal(m) \/ DismissAll(m) PROVE Truth'
    <2>1. m \notin Updates /\ UNCHANGED <<disk, lockFile, profile, missing, locals>>
      BY <1>8 DEF WriteDismissal, DismissAll
    <2>2. \A u \in Updates : pc'[u] = pc[u]
      BY <1>8, <2>1, GotoFacts DEF WriteDismissal, DismissAll
    <2> QED BY <2>1, <2>2, TruthKept DEF Active
  <1>9. ASSUME NEW x \in Calls, RemoveFolder(x) PROVE Truth'
    BY <1>9 DEF RemoveFolder
  <1>10. ASSUME NEW x \in Calls, RemoveFolderFail(x) PROVE Truth'
    <2>1. x \notin Updates /\ UNCHANGED <<disk, lockFile, profile, missing, locals>>
      BY <1>10 DEF RemoveFolderFail
    <2>2. \A u \in Updates : pc'[u] = pc[u]
      BY <1>10, <2>1, GotoFacts DEF RemoveFolderFail
    <2> QED BY <2>1, <2>2, TruthKept DEF Active
  <1>11. ASSUME NEW x \in Calls, CallDelete(x) PROVE Truth'
    <2>1. x \notin Updates /\ UNCHANGED <<disk, lockFile, profile, missing, locals>>
      BY <1>11 DEF CallDelete
    <2>2. \A u \in Updates : pc'[u] = pc[u] \/ (u \in Waiters /\ pc'[u] = "failed")
      BY <1>11, <2>1 DEF CallDelete, AfterThrow
    <2>3. \A u \in Waiters : pc[u] = "waiting"
      BY DEF LockInv, LockDiscipline, Waiters
    <2> QED BY <2>1, <2>2, <2>3, TruthKept DEF Active, Admitted, Ended
  <1>12. ASSUME NEW u \in Calls, Cancel(u) PROVE Truth'
    BY <1>12, TruthKept DEF Cancel, Active
  \* Inside.
  <1>13. ASSUME NEW u \in Calls, Begin(u) PROVE Truth'
    <2>1. u \in Updates /\ pc[u] = "waiting"
      BY <1>13 DEF Begin
    <2>2. CASE u \in aborted \/ ~folder
      <3>1. Throw(u, "failed") /\ profile' = profile /\ disk' = disk
        BY <1>13, <2>2 DEF Begin, AfterThrow
      <3> QED BY <2>1, <3>1, TruthThrow DEF Active, Ended
    <2>3. CASE ~(u \in aborted \/ ~folder)
      <3>1. /\ profile' = target[u] /\ Goto(u, "prepare")
            /\ UNCHANGED <<disk, lockFile, missing, locals>>
        BY <1>13, <2>3 DEF Begin
      <3>2. \A v \in Updates : pc'[v] = IF v = u THEN "prepare" ELSE pc[v]
        BY <3>1, GotoFacts
      <3>3. profile' = Wanted /\ Wanted # None
        BY <1>d, <2>1, <3>1
      <3>4. Wanted' = Wanted /\ Foreign(lockFile)' = Foreign(lockFile) /\ Settled' = Settled
        BY <3>1 DEF Wanted, Foreign, Settled, FilesOf
      <3>5. \A v \in Updates : Foreign(seen[v])' = Foreign(seen[v]) /\ Active(v)' = Active(v)
        BY <2>1, <3>1, <3>2, <3>4 DEF Foreign, Active, Ended
      <3>6. \A p \in Paths : Leftover(p)' = Leftover(p)
        BY <3>1, <3>4 DEF Leftover
      <3>7. Wishes' /\ Unmarked'
        BY <1>d, <2>1, <3>1, <3>2, <3>3, <3>4 DEF Wishes, Unmarked
      <3>8. Views' /\ Known'
        BY <1>d, <3>1, <3>4, <3>5, <3>6 DEF Views, Known, FilesOf
      <3>9. Refusals' /\ Marking'
        BY <1>d, <3>1, <3>2, <3>3, <3>4, <3>5, <3>6 DEF Refusals, Marking, Admitted
      <3> QED BY <3>7, <3>8, <3>9 DEF Truth
    <2> QED BY <2>2, <2>3
  <1>14. ASSUME NEW l \in Calls, Refuse(l) PROVE Truth'
    <2>1. /\ l \in Updates /\ pc[l] = "prepare" /\ OtherUpstream(l)
          /\ Throw(l, "refused") /\ profile' = profile /\ disk' = disk
      BY <1>14 DEF Refuse
    <2>2. Foreign(seen[l])
      BY <1>d, <2>1 DEF OtherUpstream, Foreign
    <2> QED BY <2>1, <2>2, TruthThrow DEF Active, Ended
  <1>15. ASSUME NEW l \in Calls, Prepare(l) PROVE Truth'
    <2>1. /\ l \in Updates /\ pc[l] = "prepare" /\ ~OtherUpstream(l)
          /\ UNCHANGED <<disk, lockFile, profile, missing, seen, target>>
      BY <1>15 DEF Prepare
    <2>2. PICK lost \in Unresolvable(l) : paths' = [paths EXCEPT ![l] = lost]
      BY <1>15 DEF Prepare
    <2>3. \A v \in Updates : pc'[v] = IF v = l THEN "moving" ELSE pc[v]
      BY <1>15, GotoFacts DEF Prepare
    <2>4. \A v \in Updates : paths'[v] = IF v = l THEN lost ELSE paths[v]
      BY <1>b, <2>2
    <2>5. \A p \in lost : Wanted.files[p] # Absent
      BY <1>d, <2>1 DEF Unresolvable
    <2>6. ~Foreign(seen[l])
      BY <1>d, <2>1 DEF OtherUpstream, Foreign
    <2>7. Wanted' = Wanted /\ Foreign(lockFile)' = Foreign(lockFile) /\ Settled' = Settled
      BY <2>1 DEF Wanted, Foreign, Settled, FilesOf
    <2>8. \A v \in Updates : Foreign(seen[v])' = Foreign(seen[v]) /\ Active(v)' = Active(v)
      BY <2>1, <2>3, <2>7 DEF Foreign, Active, Ended
    <2>9. \A p \in Paths : Leftover(p)' = Leftover(p)
      BY <2>1, <2>7 DEF Leftover
    <2>10. Wishes' /\ Unmarked'
      BY <1>d, <2>1, <2>3, <2>7 DEF Wishes, Unmarked
    <2>11. Views' /\ Known'
      BY <1>d, <2>1, <2>7, <2>8, <2>9 DEF Views, Known, FilesOf
    <2>12. Refusals'
      BY <1>d, <2>1, <2>3, <2>8 DEF Refusals
    <2>13. Marking'
      BY <1>d, <2>1, <2>3, <2>4, <2>5, <2>6, <2>7, <2>8, <2>9 DEF Marking, Admitted
    <2> QED BY <2>10, <2>11, <2>12, <2>13 DEF Truth
  <1>16. ASSUME NEW u \in Calls, MoveFiles(u) PROVE Truth'
    <2>1. /\ u \in Updates /\ pc[u] = "moving" /\ disk' \in Moved(u)
          /\ UNCHANGED <<lockFile, profile, locals>>
      BY <1>16 DEF MoveFiles
    <2>2. \A v \in Updates : pc'[v] = IF v = u THEN "moved" ELSE pc[v]
      BY <1>16, GotoFacts DEF MoveFiles
    <2>3. /\ Wanted # None /\ profile # None /\ ~Foreign(lockFile)
          /\ \A p \in Paths : Wanted.files[p] = Absent => disk'[p] = Absent
      BY <1>b, <2>1, MovesClean DEF Admitted
    <2>4. \A v \in Updates :
            /\ Active(v)' => Active(v)
            /\ pc'[v] = "refused" => pc[v] = "refused"
            /\ pc'[v] \in {"prepare"} \cup Admitted => pc[v] \in Admitted
      BY <1>c, <2>1, <2>2 DEF Active, Admitted, Ended
    <2> QED BY <2>1, <2>2, <2>3, <2>4, TruthMoved
  <1>17. ASSUME NEW l \in Calls, WriteLockFile(l) PROVE Truth'
    <2>1. /\ l \in Updates /\ pc[l] = "moved" /\ lockFile' = Wanted
          /\ UNCHANGED <<disk, profile, missing, locals>>
      BY <1>d, <1>17 DEF WriteLockFile
    <2>2. \A v \in Updates : pc'[v] = IF v = l THEN "locked" ELSE pc[v]
      BY <1>17, GotoFacts DEF WriteLockFile
    <2>3. /\ Wanted # None /\ profile # None /\ ~Foreign(lockFile)
          /\ \A p \in Paths : ~Leftover(p)
      BY <1>b, <1>d, <2>1, MovesClean DEF Marking, Admitted
    <2>4. Wanted' = Wanted /\ ~Foreign(lockFile)'
      BY <2>1 DEF Wanted, Foreign
    <2>5. \A v \in Updates : Foreign(seen[v])' = Foreign(seen[v]) /\ Active(v)' = Active(v)
      BY <2>1, <2>2, <2>4 DEF Foreign, Active, Ended
    <2>6. \A p \in Paths : ~Leftover(p)'
      BY <2>1, <2>3, <2>4 DEF Leftover
    <2>7. Wishes' /\ Unmarked' /\ Known'
      BY <1>d, <2>1, <2>2, <2>3, <2>4, <2>6 DEF Wishes, Unmarked, Known
    <2>8. \A v \in Updates : Active(v) => ~Foreign(seen[v])
      BY <1>d, <2>3 DEF Views
    <2>9. Views'
      BY <2>1, <2>3, <2>4, <2>5, <2>8 DEF Views
    <2>10. Refusals' /\ Marking'
      BY <1>d, <2>1, <2>2, <2>3, <2>4, <2>5, <2>6 DEF Refusals, Marking, Admitted
    <2> QED BY <2>7, <2>9, <2>10 DEF Truth
  <1>18. ASSUME NEW u \in Calls, ClearProfile(u) PROVE Truth'
    <2>1. /\ u \in Updates /\ pc[u] = "locked" /\ profile' = None
          /\ missing' = (missing \ Attempted(u)) \cup Lost(u)
          /\ UNCHANGED <<disk, lockFile, locals>>
      BY <1>18 DEF ClearProfile
    <2>2. \A v \in Updates : pc'[v] = IF v = u THEN "reconcile" ELSE pc[v]
      BY <1>18, GotoFacts DEF ClearProfile
    <2>3. /\ target[u] = Wanted /\ Wanted # None /\ lockFile = Wanted
          /\ \A p \in Paths \ paths[u] : Wanted.files[p] \in {disk[p], Absent}
          /\ \A p \in Paths : ~Leftover(p)
          /\ \A p \in paths[u] : Wanted.files[p] # Absent
      BY <1>d, <2>1 DEF InstalledInv, Recorded, Marking, Admitted
    <2>4. ASSUME NEW p \in Paths, p \notin missing'
          PROVE  disk[p] = Wanted.files[p]
      <3>1. CASE p \in paths[u]
        BY <2>1, <2>3, <2>4, <3>1 DEF Lost
      <3>2. CASE p \notin paths[u]
        BY <2>3, <3>2 DEF Leftover
      <3> QED BY <3>1, <3>2
    <2>5. Settled'
      BY <2>1, <2>3, <2>4 DEF Settled, FilesOf
    <2>6. Wanted' = Wanted /\ Foreign(lockFile)' = Foreign(lockFile)
      BY <2>1 DEF Wanted, Foreign
    <2>7. \A v \in Updates : Foreign(seen[v])' = Foreign(seen[v]) /\ Active(v)' = Active(v)
      BY <2>1, <2>2, <2>6 DEF Foreign, Active, Ended
    <2>8. \A p \in Paths : ~Leftover(p)'
      BY <2>1, <2>3, <2>6 DEF Leftover
    <2>9. Wishes' /\ Unmarked' /\ Known'
      BY <1>d, <2>1, <2>2, <2>5, <2>6, <2>8 DEF Wishes, Unmarked, Known
    <2>10. Views' /\ Refusals'
      BY <1>d, <2>1, <2>2, <2>6, <2>7 DEF Views, Refusals
    <2>11. Marking'
      BY <1>c, <2>1, <2>2 DEF Marking, Admitted
    <2> QED BY <2>9, <2>10, <2>11 DEF Truth
  <1>19. ASSUME NEW u \in Calls, ReadUnresolved(u) PROVE Truth'
    <2>1. /\ u \in Updates /\ pc[u] = "reconcile"
          /\ UNCHANGED <<disk, lockFile, profile, missing, seen, target, paths>>
      BY <1>19 DEF ReadUnresolved
    <2>2. \A v \in Updates : pc'[v] = IF v = u THEN "write" ELSE pc[v]
      BY <1>19, GotoFacts DEF ReadUnresolved
    <2> QED BY <2>1, <2>2, TruthKept DEF Active, Admitted, Ended
  <1>20. ASSUME NEW u \in Calls, WriteUnresolved(u) PROVE Truth'
    <2>1. /\ u \in Updates /\ pc[u] = "write"
          /\ UNCHANGED <<disk, lockFile, profile, missing, locals>>
      BY <1>20 DEF WriteUnresolved
    <2>2. \A v \in Updates : pc'[v] = IF v = u THEN "done" ELSE pc[v]
      BY <1>20, GotoFacts DEF WriteUnresolved
    <2> QED BY <2>1, <2>2, TruthKept DEF Active, Admitted, Ended
  <1>21. ASSUME NEW u \in Calls, FailInside(u) PROVE Truth'
    <2>1. /\ u \in Updates /\ pc[u] \in {"prepare", "moving", "moved", "write"}
          /\ Throw(u, "failed") /\ profile' = profile
      BY <1>21 DEF FailInside, AfterThrow
    <2>2. CASE pc[u] # "moving"
      <3>1. disk' = disk
        BY <1>21, <2>2 DEF FailInside
      <3> QED BY <2>1, <3>1, TruthThrow DEF Active, Ended
    <2>3. CASE pc[u] = "moving"
      <3>1. disk' \in Torn(u) /\ UNCHANGED <<lockFile, target, seen, paths>>
        BY <1>21, <2>3 DEF FailInside, Throw, locals
      <3>2. \A v \in Updates : pc'[v] = IF v = u THEN "failed" ELSE pc[v]
        BY <2>1, GotoFacts DEF Throw
      <3>3. /\ Wanted # None /\ profile # None /\ ~Foreign(lockFile)
            /\ \A p \in Paths : Wanted.files[p] = Absent => disk'[p] \in {disk[p], Absent}
        BY <1>b, <2>1, <2>3, <3>1, MovesClean DEF Admitted
      <3>4. \A v \in Updates :
              /\ Active(v)' => Active(v)
              /\ pc'[v] = "refused" => pc[v] = "refused"
              /\ pc'[v] \notin Admitted
              /\ pc'[v] = "prepare" => pc[v] = "prepare"
        BY <1>c, <2>1, <2>3, <3>2 DEF Active, Admitted, Ended
      <3> QED BY <2>1, <3>1, <3>2, <3>3, <3>4, TruthMoved
    <2> QED BY <2>2, <2>3
  \* A crash, also amid the moves.
  <1>22. CASE Crash
    <2>1. UNCHANGED <<lockFile, profile, missing, locals>>
      BY <1>22 DEF Crash
    <2>2. \A c \in Calls : pc'[c] = IF pc[c] \in {"idle"} \cup Ended THEN pc[c] ELSE "crashed"
      BY <1>22 DEF Crash
    <2>3. \A v \in Updates :
            /\ Active(v)' => Active(v)
            /\ pc'[v] # "refused" /\ pc'[v] \notin {"prepare"} \cup Admitted
      BY <2>2 DEF Active, Admitted, Ended
    <2>4. pc'[TheInstall] = "idle" => pc[TheInstall] = "idle"
      BY <2>2
    <2>5. CASE \A u \in Updates : pc[u] # "moving"
      <3>1. disk' = disk
        BY <1>22, <2>5 DEF Crash
      <3> QED BY <2>1, <2>3, <2>4, <3>1, TruthKept
    <2>6. ASSUME NEW u \in Updates, pc[u] = "moving", disk' \in Torn(u)
          PROVE  Truth'
      <3>1. /\ Wanted # None /\ profile # None /\ ~Foreign(lockFile)
            /\ \A p \in Paths : Wanted.files[p] = Absent => disk'[p] \in {disk[p], Absent}
        BY <1>b, <2>6, MovesClean DEF Admitted
      <3> QED BY <2>1, <2>3, <2>4, <3>1, TruthMoved
    <2> QED BY <1>22, <2>5, <2>6 DEF Crash
  <1>23. CASE UNCHANGED vars
    BY <1>23, TruthKept DEF vars, Active
  <1>24. ASSUME NEW c \in Calls, Step(c) PROVE Truth'
    BY <1>24, <1>3, <1>4, <1>5, <1>6, <1>8, <1>9, <1>10, <1>13, <1>14, <1>15, <1>16,
       <1>17, <1>18, <1>19, <1>20, <1>21 DEF Step
  <1>25. ASSUME NEW c \in Calls, User(c) PROVE Truth'
    BY <1>25, <1>1, <1>2, <1>4, <1>7, <1>8, <1>11, <1>12 DEF User
  <1> QED BY <1>22, <1>23, <1>24, <1>25 DEF Next

\* With one install asked for, its resumes, deletes and any failures, aborts and
\* crashes: where no marker asks for a resume, the instance holds exactly the
\* files its instance-lock.json names, but for the unresolved ones.
THEOREM LockFileTrue == OneInstall => (Spec => []LockFileTruthful)
  <1> SUFFICES ASSUME OneInstall PROVE Spec => []LockFileTruthful
    OBVIOUS
  <1>1. GoneInv /\ TruthInv => LockFileTruthful
    <2> SUFFICES ASSUME GoneInv, TruthInv, profile = None, NEW p \in Paths, p \notin missing
                 PROVE  disk[p] = IF lockFile = None THEN Absent ELSE lockFile.files[p]
      BY DEF LockFileTruthful
    <2>1. \A q \in Paths : NoFiles[q] = Absent
      BY DEF NoFiles
    <2>2. CASE removed
      BY <2>1, <2>2 DEF GoneInv
    <2>3. CASE ~removed
      BY <2>1, <2>3 DEF TruthInv, Truth, Unmarked, Settled, FilesOf
    <2> QED BY <2>2, <2>3
  <1>2. Init => TruthInv
    BY TruthInit
  <1>3. TypeInv /\ LockInv /\ InstalledInv /\ TruthInv /\ [Next]_vars => TruthInv'
    BY TruthStep
  <1> QED BY <1>1, <1>2, <1>3, TypeInit, TypeStep, LockInit, LockStep, GoneInit, GoneStep,
             InstalledInit, InstalledStep, PTL DEF Spec
=============================================================================
