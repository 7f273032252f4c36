---------------------------- MODULE DiagnosisCache ----------------------------
(***************************************************************************)
(* The diagnosis of installed versions while versions are installed:       *)
(* FreshResultCache and InFlightCache (xmcl-runtime/install/               *)
(* DiagnosisCache.ts) as InstallCoordinator uses them.                     *)
(*                                                                         *)
(* A diagnosis computes the checksums of the files of a version.  Calls    *)
(* for one key share a diagnosis that is under way, diagnoses share a      *)
(* checksum that is under way, and results are kept for a while.  Both     *)
(* ends of an install invalidate all of it, but cannot stop what runs.     *)
(***************************************************************************)
EXTENDS Naturals, Sequences, FiniteSets

CONSTANTS
    Keys,      \* what can be diagnosed: a side and a version
    Files,     \* the files they are made of
    Calls,     \* calls of diagnose
    Installs,  \* calls of install, likewise
    Capacity,  \* capacity of the cache
    MaxWrites, \* bound on the writes to a file
    None

ASSUME CallsAssumption == Calls \subseteq Nat /\ Installs \subseteq Nat
ASSUME BoundsAssumption == Capacity \in Nat \ {0} /\ MaxWrites \in Nat
ASSUME NoneAssumption ==
    /\ None \notin Calls /\ None \notin Keys
    /\ None \notin 0..MaxWrites /\ None \notin [Files -> 0..MaxWrites]

VARIABLES
    disk,       \* how often each file was written
    installs,   \* where each install is
    calls,      \* where each call is: the work it awaits, its result
    overlapped, \* calls that wait and that some install has overlapped
    generation, results, recent,  \* FreshResultCache, recent the order of its map
    inFlight,   \* the work that is shared for a key
    work,       \* the run of diagnoseUncached a call has started
    shared,     \* diagnosisChecksums: whose checksum is shared for a file
    checksums   \* the checksum of a file that a work has started

diagnosing == <<generation, results, recent, inFlight, work, shared, checksums>>
vars == <<disk, installs, calls, overlapped, diagnosing>>

NoSum == [pc |-> "none", value |-> None]
NoWork == [pc |-> "none", key |-> None, generation |-> 0,
           awaits |-> [f \in Files |-> None], sums |-> [f \in Files |-> None]]

Init ==
    /\ disk = [f \in Files |-> 0]
    /\ installs = [i \in Installs |-> "new"]
    /\ calls = [c \in Calls |-> [pc |-> "new", work |-> None, value |-> None]]
    /\ overlapped = {} /\ generation = 0
    /\ results = [k \in Keys |-> None] /\ recent = <<>>
    /\ inFlight = [k \in Keys |-> None]
    /\ work = [c \in Calls |-> NoWork]
    /\ shared = [f \in Files |-> None]
    /\ checksums = [c \in Calls |-> [f \in Files |-> NoSum]]

Running == {i \in Installs : installs[i] = "running"}
Without(k) == SelectSeq(recent, LAMBDA j : j # k)

-----------------------------------------------------------------------------
\* FreshResultCache.getOrCreate: a result that is kept, a diagnosis that is
\* under way, or a new one.
Diagnose(c, k) ==
    /\ calls[c].pc = "new" /\ \A d \in Calls : d < c => calls[d].pc # "new"
    /\ IF results[k] # None
         THEN /\ calls' = [calls EXCEPT ![c] = [pc |-> "answered", work |-> None, value |-> results[k]]]
              /\ recent' = Append(Without(k), k)
              /\ UNCHANGED <<overlapped, inFlight, work>>
         ELSE /\ UNCHANGED recent
              /\ overlapped' = overlapped \cup (IF Running = {} THEN {} ELSE {c})
              /\ calls' = [calls EXCEPT ![c] =
                             [pc |-> "waiting", value |-> None,
                              work |-> IF inFlight[k] # None THEN inFlight[k] ELSE c]]
              /\ IF inFlight[k] # None
                   THEN UNCHANGED <<inFlight, work>>
                   ELSE /\ inFlight' = [inFlight EXCEPT ![k] = c]
                        /\ work' = [work EXCEPT ![c] =
                                     [NoWork EXCEPT !.pc = "running", !.key = k,
                                                    !.generation = generation]]
    /\ UNCHANGED <<disk, installs, generation, results, shared, checksums>>

\* The work w awaits the checksum c of f.
Await(w, f, c) == [w EXCEPT !.awaits = [@ EXCEPT ![f] = c]]

\* checksumForDiagnosis: a checksum that is under way, or a new one.
Checksum(c, f) ==
    /\ work[c].pc = "running" /\ work[c].awaits[f] = None /\ work[c].sums[f] = None
    /\ IF shared[f] # None
         THEN /\ work' = [work EXCEPT ![c] = Await(@, f, shared[f])]
              /\ UNCHANGED <<shared, checksums>>
         ELSE /\ work' = [work EXCEPT ![c] = Await(@, f, c)]
              /\ shared' = [shared EXCEPT ![f] = c]
              /\ checksums' = [checksums EXCEPT ![c] = [@ EXCEPT ![f] = [NoSum EXCEPT !.pc = "reading"]]]
    /\ UNCHANGED <<disk, installs, calls, overlapped, generation, results, recent, inFlight>>

\* InFlightCache.getOrCreate, finally: the promises without that of c, unless
\* another has taken its place at x.
Settled(promises, x, c) == IF promises[x] = c THEN [promises EXCEPT ![x] = None] ELSE promises

\* The worker has read the file; its answer comes later.
ReadFile(c, f) ==
    /\ checksums[c][f].pc = "reading"
    /\ checksums' = [checksums EXCEPT ![c] = [@ EXCEPT ![f] = [pc |-> "read", value |-> disk[f]]]]
    /\ UNCHANGED <<disk, installs, calls, overlapped, generation, results, recent, inFlight, work, shared>>

\* The work w has the checksum v of f.
Given(w, f, v) == [Await(w, f, None) EXCEPT !.sums = [@ EXCEPT ![f] = v]]

\* Whoever awaits the checksum has it.
SumDone(c, f) ==
    /\ checksums[c][f].pc = "read"
    /\ checksums' = [checksums EXCEPT ![c] = [@ EXCEPT ![f] = NoSum]]
    /\ shared' = Settled(shared, f, c)
    /\ work' = [d \in Calls |->
                  IF work[d].awaits[f] = c
                    THEN Given(work[d], f, checksums[c][f].value) ELSE work[d]]
    /\ UNCHANGED <<disk, installs, calls, overlapped, generation, results, recent, inFlight>>

\* Mutant: the generation is not compared.
StoreAlways(c) ==
    LET k == work[c].key
        evicted == IF Len(Without(k)) < Capacity THEN {} ELSE {Head(Without(k))}
    IN  /\ results' = [j \in Keys |-> IF j = k THEN work[c].sums
                                      ELSE IF j \in evicted THEN None ELSE results[j]]
        /\ recent' = Append(IF evicted = {} THEN Without(k) ELSE Tail(Without(k)), k)

\* The result is kept if nothing was invalidated meanwhile; the oldest goes.
Store(c) ==
    IF work[c].generation = generation
      THEN LET k == work[c].key
               evicted == IF Len(Without(k)) < Capacity THEN {} ELSE {Head(Without(k))}
           IN  /\ results' = [j \in Keys |-> IF j = k THEN work[c].sums
                                             ELSE IF j \in evicted THEN None ELSE results[j]]
               /\ recent' = Append(IF evicted = {} THEN Without(k) ELSE Tail(Without(k)), k)
      ELSE UNCHANGED <<results, recent>>

\* Whoever waits for the work has its outcome, and the work is over.
Resolve(c, pc, value) ==
    /\ work' = [work EXCEPT ![c] = NoWork]
    /\ overlapped' = {d \in overlapped : calls[d].work # c}
    /\ calls' = [d \in Calls |-> IF calls[d].pc = "waiting" /\ calls[d].work = c
                                   THEN [pc |-> pc, work |-> None, value |-> value] ELSE calls[d]]

\* Mutant: the checksums are not awaited.
WorkDoneEarly(c) ==
    /\ work[c].pc = "running"
    /\ Store(c)
    /\ inFlight' = Settled(inFlight, work[c].key, c)
    /\ Resolve(c, "answered", work[c].sums)
    /\ UNCHANGED <<disk, installs, generation, shared, checksums>>

WorkDone(c) ==
    /\ work[c].pc = "running" /\ (\A f \in Files : work[c].sums[f] # None)
    /\ Store(c)
    /\ inFlight' = Settled(inFlight, work[c].key, c)
    /\ Resolve(c, "answered", work[c].sums)
    /\ UNCHANGED <<disk, installs, generation, shared, checksums>>

\* Mutant: a failed diagnosis stays shared.
WorkFailsShared(c) ==
    /\ work[c].pc = "running"
    /\ Resolve(c, "failed", None)
    /\ UNCHANGED <<disk, installs, generation, results, recent, inFlight, shared, checksums>>

\* A diagnosis fails: a version does not resolve, say.
WorkFails(c) ==
    /\ work[c].pc = "running"
    /\ inFlight' = Settled(inFlight, work[c].key, c)
    /\ Resolve(c, "failed", None)
    /\ UNCHANGED <<disk, installs, generation, results, recent, shared, checksums>>

\* The timer of a result, or the comparison with the time in getOrCreate.
Expire(k) ==
    /\ results[k] # None
    /\ results' = [results EXCEPT ![k] = None] /\ recent' = Without(k)
    /\ UNCHANGED <<disk, installs, calls, overlapped, generation, inFlight, work, shared, checksums>>

-----------------------------------------------------------------------------
Invalidate ==
    /\ generation' = generation + 1
    /\ results' = [k \in Keys |-> None] /\ recent' = <<>>
    /\ inFlight' = [k \in Keys |-> None]
    /\ shared' = [f \in Files |-> None]

InstallBegins(i) ==
    /\ installs[i] = "new" /\ \A j \in Installs : j < i => installs[j] # "new"
    /\ installs' = [installs EXCEPT ![i] = "running"]
    /\ Invalidate
    /\ overlapped' = overlapped \cup {c \in Calls : calls[c].pc = "waiting"}
    /\ UNCHANGED <<disk, calls, work, checksums>>

Write(i, f) ==
    /\ installs[i] = "running" /\ disk[f] < MaxWrites
    /\ disk' = [disk EXCEPT ![f] = @ + 1]
    /\ UNCHANGED <<installs, calls, overlapped, diagnosing>>

InstallEnds(i) ==
    /\ installs[i] = "running" /\ installs' = [installs EXCEPT ![i] = "ended"]
    /\ Invalidate
    /\ UNCHANGED <<disk, calls, overlapped, work, checksums>>

Progress ==
    \E c \in Calls :
      WorkDone(c) \/ \E f \in Files : Checksum(c, f) \/ ReadFile(c, f) \/ SumDone(c, f)

Next ==
    \/ Progress
    \/ \E c \in Calls : WorkFails(c) \/ \E k \in Keys : Diagnose(c, k)
    \/ \E k \in Keys : Expire(k)
    \/ \E i \in Installs :
         InstallBegins(i) \/ InstallEnds(i) \/ \E f \in Files : Write(i, f)

Spec == Init /\ [][Next]_vars
\* The worker answers and the event loop runs.
FairSpec == Spec /\ WF_vars(Progress)
-----------------------------------------------------------------------------
Contents == 0..MaxWrites
Sums == [pc : {"none", "reading", "read"}, value : Contents \cup {None}]

\* Every variable has a value of its kind.
TypeOK ==
    /\ disk \in [Files -> Contents] /\ installs \in [Installs -> {"new", "running", "ended"}]
    /\ calls \in [Calls -> [pc : {"new", "waiting", "answered", "failed"},
                            work : Calls \cup {None}, value : [Files -> Contents] \cup {None}]]
    /\ overlapped \subseteq Calls /\ generation \in Nat
    /\ results \in [Keys -> [Files -> Contents] \cup {None}]
    /\ inFlight \in [Keys -> Calls \cup {None}] /\ shared \in [Files -> Calls \cup {None}]
    /\ work \in [Calls -> [pc : {"none", "running"}, key : Keys \cup {None},
                           generation : Nat, awaits : [Files -> Calls \cup {None}],
                           sums : [Files -> Contents \cup {None}]]]
    /\ checksums \in [Calls -> [Files -> Sums]]

\* A key has one diagnosis under way, not counting those that were invalidated,
\* and it is the shared one.
Current(c) == work[c].pc = "running" /\ work[c].generation = generation
OneDiagnosis == \A c \in Calls : Current(c) => inFlight[work[c].key] = c

\* A call that no install has overlapped is told the state of the files as they
\* are, whatever was being diagnosed or summed when the last install ended.
FreshDiagnosis ==
    [][\A c \in Calls :
         /\ calls[c].pc # "answered" /\ calls'[c].pc = "answered"
         /\ Running = {} /\ c \notin overlapped
         => calls'[c].value = disk]_vars

\* Every call of diagnose is answered.
CallsAnswered == \A c \in Calls : calls[c].pc = "waiting" ~> calls[c].pc # "waiting"
=============================================================================
