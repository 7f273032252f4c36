----------------------------- MODULE FilesDelta -----------------------------
(***************************************************************************)
(* The pure part of an instance update: computeFileUpdates of              *)
(* packages/instance/files_delta.ts, which compares what lies on disk with *)
(* the manifest of the previous install and the manifest of the next one   *)
(* and decides one operation per path.                                     *)
(*                                                                         *)
(* What the disk holds at a path is Absent or a file: its content, and     *)
(* whether its mtime is later than the mtime recorded by the previous      *)
(* install (`oldInstallTime`).                                             *)
(***************************************************************************)
EXTENDS InstanceFiles

CONSTANT
    Digested    \* the contents whose manifest entry carries a hash

ASSUME DigestedAssumption == Digested \subseteq Contents

File == [content : Contents, recent : BOOLEAN]
Disk == [Paths -> File \cup {Absent}]
ContentOf(file) == IF file = Absent THEN Absent ELSE file.content

Operations == {"none", "add", "remove", "keep", "backup-add", "backup-remove"}
Delta == [Paths -> Operations]

\* Is the file newer than, or other than, what the previous install put
\* there?  With an install time only the mtime counts.  Without one the
\* digest of the old entry is compared, and without a digest nothing is
\* known.
Changed(file, oldEntry, timed) ==
    IF timed THEN IF file.recent THEN "yes" ELSE "no"
    ELSE IF oldEntry \in Digested
         THEN IF oldEntry # file.content THEN "yes" ELSE "no"
         ELSE "unknown"

\* An entry without any digest can not be compared and counts as different.
DiffersFromNew(file, newEntry) ==
    newEntry \notin Digested \/ newEntry # file.content

\* Mutant: a dropped file that may have been changed is taken for a replaced one.
DropTakenForReplace(file, oldEntry, newEntry, timed) ==
    CASE oldEntry = Absent /\ newEntry = Absent -> "none"
      [] file = Absent -> IF newEntry # Absent THEN "add" ELSE "none"
      [] OTHER -> IF ~DiffersFromNew(file, newEntry) THEN "keep"
                  ELSE IF Changed(file, oldEntry, timed) = "no" THEN "add"
                  ELSE "backup-add"

OperationOn(file, oldEntry, newEntry, timed) ==
    CASE oldEntry = Absent /\ newEntry = Absent -> "none"
      [] file = Absent /\ newEntry # Absent -> "add"
      [] file = Absent /\ newEntry = Absent -> "none"
      [] OTHER ->
           LET changed == Changed(file, oldEntry, timed)
           IN  IF newEntry = Absent
               THEN IF changed = "yes" THEN "backup-remove" ELSE "remove"
               ELSE IF ~DiffersFromNew(file, newEntry) THEN "keep"
                    ELSE IF changed = "no" THEN "add" ELSE "backup-add"

computeFileUpdates(disk, old, new, timed) ==
    [p \in Paths |-> OperationOn(disk[p], old[p], new[p], timed)]

\* The paths of an update with a given kind of operation.
WithOperation(delta, ops) == {p \in Paths : delta[p] \in ops}
=============================================================================
