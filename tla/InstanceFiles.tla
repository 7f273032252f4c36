----------------------------- MODULE InstanceFiles -----------------------------
(***************************************************************************)
(* What an instance folder holds and what an update of it promises, shared *)
(* by the file transaction, which carries an update out one rename at a    *)
(* time, and by the install service, for which it is one step under the    *)
(* instance lock.                                                          *)
(*                                                                         *)
(* A manifest is a function from paths to the content it wants there, with *)
(* Absent for the paths it does not list.                                  *)
(***************************************************************************)
CONSTANTS
    Paths,      \* the relative paths that may occur in a manifest
    Contents,   \* file contents, told apart only by equality
    Absent      \* no file, or no manifest entry

ASSUME AbsentAssumption == Absent \notin Contents

Manifest == [Paths -> Contents \cup {Absent}]

NoFiles == [p \in Paths |-> Absent]

\* What an update from the manifest entry oldEntry to newEntry leaves where
\* `content` was: the new content; nothing, if only the old manifest listed
\* the path; and what was there, if neither did.
Updated(content, oldEntry, newEntry) ==
    CASE newEntry # Absent -> newEntry
      [] newEntry = Absent /\ oldEntry # Absent -> Absent
      [] OTHER -> content

\* What an update that was cut off, or failed and could not put everything
\* back, may leave there: what neither manifest lists is not touched.
Between(content, oldEntry, newEntry) ==
    IF oldEntry = Absent /\ newEntry = Absent THEN {content}
    ELSE {content, newEntry, Absent}
=============================================================================
