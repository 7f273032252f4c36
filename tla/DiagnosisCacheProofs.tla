------------------------- MODULE DiagnosisCacheProofs -------------------------
(***************************************************************************)
(* No stale diagnosis: for any versions, files, calls and installs, a call *)
(* that no install has overlapped is told the files as they are.           *)
(***************************************************************************)
EXTENDS DiagnosisCache, TLAPS

\* What is shared for a key is a diagnosis of it that was not invalidated.
Shares(k) ==
    inFlight[k] # None => Current(inFlight[k]) /\ work[inFlight[k]].key = k

\* A work has a key, and began in a generation that has been.
WorkOK(c) ==
    /\ work[c].pc = "running" => work[c].key # None
    /\ work[c].generation <= generation
    /\ calls[c].pc = "new" => work[c].pc = "none"

\* A call that waits has a work; if no install has overlapped the call, none
\* runs and the work was not invalidated.
WaitOK(c) ==
    calls[c].pc = "waiting" =>
      /\ calls[c].work # None
      /\ c \notin overlapped => Running = {} /\ Current(calls[c].work)

SumFresh(c, f) == checksums[c][f].pc = "read" => checksums[c][f].value = disk[f]

\* What a diagnosis has read or will be given of f is what the file holds.
PartFresh(c, f) ==
    /\ work[c].sums[f] # None => work[c].sums[f] = disk[f]
    /\ work[c].awaits[f] # None => SumFresh(work[c].awaits[f], f)

\* What is kept, shared or under way when no install runs is the truth: an
\* install writes while it runs and forgets all of it when it ends.
KeptFresh == Running = {} => \A k \in Keys : results[k] # None => results[k] = disk
SharedFresh == Running = {} => \A f \in Files : shared[f] # None => SumFresh(shared[f], f)
WorkFresh ==
    Running = {} => \A c \in Calls : Current(c) => \A f \in Files : PartFresh(c, f)

IInv ==
    /\ TypeOK /\ OneDiagnosis
    /\ \A k \in Keys : Shares(k)
    /\ \A c \in Calls : WorkOK(c) /\ WaitOK(c)
    /\ KeptFresh /\ SharedFresh /\ WorkFresh

THEOREM InitInv == Init => IInv
<1> SUFFICES ASSUME Init PROVE IInv
  OBVIOUS
<1>1. TypeOK
  BY BoundsAssumption, NoneAssumption DEF Init, TypeOK, NoWork, NoSum, Contents, Sums
<1>2. \A c \in Calls : work[c].pc = "none" /\ work[c].generation = 0 /\ calls[c].pc = "new"
  BY DEF Init, NoWork
<1>3. generation = 0 /\ \A k \in Keys : inFlight[k] = None /\ results[k] = None
  BY DEF Init
<1>4. \A f \in Files : shared[f] = None
  BY DEF Init
<1> QED
  BY <1>1, <1>2, <1>3, <1>4
  DEF IInv, OneDiagnosis, Current, Shares, WorkOK, WaitOK, KeptFresh, SharedFresh, WorkFresh
-----------------------------------------------------------------------------
CallType == [pc : {"new", "waiting", "answered", "failed"},
             work : Calls \cup {None}, value : [Files -> Contents] \cup {None}]
WorkType == [pc : {"none", "running"}, key : Keys \cup {None}, generation : Nat,
             awaits : [Files -> Calls \cup {None}], sums : [Files -> Contents \cup {None}]]

LEMMA Typed ==
  TypeOK => /\ calls \in [Calls -> CallType] /\ work \in [Calls -> WorkType]
            /\ checksums \in [Calls -> [Files -> Sums]]
  BY DEF TypeOK, CallType, WorkType

LEMMA NoWorkType == NoWork \in WorkType /\ NoSum \in Sums
  BY DEF NoWork, WorkType, NoSum, Sums

\* Awaiting changes nothing else.
LEMMA AwaitIs ==
  ASSUME NEW w \in WorkType, NEW f \in Files, NEW c \in Calls \cup {None}
  PROVE  /\ Await(w, f, c) \in WorkType
         /\ Await(w, f, c).pc = w.pc /\ Await(w, f, c).key = w.key
         /\ Await(w, f, c).generation = w.generation /\ Await(w, f, c).sums = w.sums
         /\ Await(w, f, c).awaits = [w.awaits EXCEPT ![f] = c]
  BY DEF Await, WorkType

\* What SumDone makes of a work that awaits the checksum.
LEMMA GivenIs ==
  ASSUME NEW w \in WorkType, NEW f \in Files, NEW v \in Contents \cup {None}
  PROVE  /\ Given(w, f, v) \in WorkType
         /\ Given(w, f, v).pc = w.pc /\ Given(w, f, v).key = w.key
         /\ Given(w, f, v).generation = w.generation
         /\ Given(w, f, v).awaits = [w.awaits EXCEPT ![f] = None]
         /\ Given(w, f, v).sums = [w.sums EXCEPT ![f] = v]
<1>1. PICK a \in WorkType : a = Await(w, f, None)
  BY AwaitIs
<1>2. a.pc = w.pc /\ a.key = w.key /\ a.generation = w.generation /\ a.sums = w.sums
      /\ a.awaits = [w.awaits EXCEPT ![f] = None]
  BY <1>1, AwaitIs
<1>3. PICK sums \in [Files -> Contents \cup {None}] : sums = [a.sums EXCEPT ![f] = v]
  BY DEF WorkType
<1>4. PICK r : r = Given(w, f, v)
  OBVIOUS
<1>5. r = [a EXCEPT !.sums = sums]
  BY <1>1, <1>3, <1>4 DEF Given
<1>6. /\ r \in WorkType /\ r.pc = a.pc /\ r.key = a.key /\ r.generation = a.generation
      /\ r.awaits = a.awaits /\ r.sums = [a.sums EXCEPT ![f] = v]
  BY <1>3, <1>5 DEF WorkType
<1> QED
  BY <1>2, <1>4, <1>6

\* The work that Diagnose makes.
LEMMA NewIs ==
  ASSUME NEW k \in Keys, NEW g \in Nat
  PROVE  \E w \in WorkType :
           /\ w = [NoWork EXCEPT !.pc = "running", !.key = k, !.generation = g]
           /\ w.pc = "running" /\ w.key = k /\ w.generation = g
           /\ w.awaits = [f \in Files |-> None] /\ w.sums = [f \in Files |-> None]
<1> DEFINE w == [NoWork EXCEPT !.pc = "running", !.key = k, !.generation = g]
<1>1. w \in WorkType /\ w.pc = "running" /\ w.key = k /\ w.generation = g
  BY DEF NoWork, WorkType
<1>2. w.awaits = [f \in Files |-> None] /\ w.sums = [f \in Files |-> None]
  BY DEF NoWork, WorkType
<1> HIDE DEF w
<1>3. w = [NoWork EXCEPT !.pc = "running", !.key = k, !.generation = g]
  BY DEF w
<1> QED
  BY <1>1, <1>2, <1>3

\* A checksum that is set, and no other.
LEMMA SumSet ==
  ASSUME NEW before \in [Calls -> [Files -> Sums]], NEW c \in Calls, NEW f \in Files, NEW r \in Sums
  PROVE  LET after == [before EXCEPT ![c] = [@ EXCEPT ![f] = r]]
         IN  /\ after \in [Calls -> [Files -> Sums]] /\ after[c][f] = r
             /\ \A d \in Calls, g \in Files : d # c \/ g # f => after[d][g] = before[d][g]
<1>1. PICK row \in [Files -> Sums] : row = [before[c] EXCEPT ![f] = r]
  OBVIOUS
<1>2. row[f] = r /\ \A g \in Files \ {f} : row[g] = before[c][g]
  BY <1>1
<1>3. [before EXCEPT ![c] = [@ EXCEPT ![f] = r]] = [before EXCEPT ![c] = row]
  BY <1>1
<1> QED
  BY <1>2, <1>3
-----------------------------------------------------------------------------
LEMMA TypeStep ==
  ASSUME TypeOK, \A c \in Calls : WorkOK(c), [Next]_vars
  PROVE  TypeOK'
<1>a. 0 \in Contents
  BY BoundsAssumption DEF Contents
<1>t. /\ calls \in [Calls -> CallType] /\ work \in [Calls -> WorkType]
      /\ checksums \in [Calls -> [Files -> Sums]]
  BY Typed
<1>q. ASSUME /\ calls' \in [Calls -> CallType] /\ work' \in [Calls -> WorkType]
             /\ checksums' \in [Calls -> [Files -> Sums]]
             /\ disk' \in [Files -> Contents]
             /\ installs' \in [Installs -> {"new", "running", "ended"}]
             /\ overlapped' \subseteq Calls /\ generation' \in Nat
             /\ results' \in [Keys -> [Files -> Contents] \cup {None}]
             /\ inFlight' \in [Keys -> Calls \cup {None}]
             /\ shared' \in [Files -> Calls \cup {None}]
      PROVE  TypeOK'
  BY <1>q DEF TypeOK, CallType, WorkType
<1>p. /\ disk \in [Files -> Contents]
      /\ installs \in [Installs -> {"new", "running", "ended"}]
      /\ overlapped \subseteq Calls /\ generation \in Nat
      /\ results \in [Keys -> [Files -> Contents] \cup {None}]
      /\ inFlight \in [Keys -> Calls \cup {None}]
      /\ shared \in [Files -> Calls \cup {None}]
  BY DEF TypeOK
<1>1. ASSUME NEW c \in Calls, NEW k \in Keys, Diagnose(c, k) PROVE TypeOK'
  <2>1. calls' \in [Calls -> CallType]
    <3>1. ASSUME results[k] # None
          PROVE  [pc |-> "answered", work |-> None, value |-> results[k]] \in CallType
      BY <1>p, <3>1 DEF CallType
    <3>2. PICK w \in Calls : w = IF inFlight[k] # None THEN inFlight[k] ELSE c
      BY <1>p
    <3>3. [pc |-> "waiting", value |-> None, work |-> w] \in CallType
      BY DEF CallType
    <3>4. \/ calls' = [calls EXCEPT ![c] = [pc |-> "answered", work |-> None, value |-> results[k]]]
             /\ results[k] # None
          \/ calls' = [calls EXCEPT ![c] = [pc |-> "waiting", value |-> None, work |-> w]]
      BY <1>1, <3>2 DEF Diagnose
    <3> QED
      BY <1>t, <3>1, <3>3, <3>4
  <2>2. work' \in [Calls -> WorkType]
    <3>1. PICK w \in WorkType :
            /\ w = [NoWork EXCEPT !.pc = "running", !.key = k, !.generation = generation]
            /\ w.pc = "running" /\ w.key = k /\ w.generation = generation
            /\ w.awaits = [f \in Files |-> None] /\ w.sums = [f \in Files |-> None]
      <4>1. generation \in Nat
        BY <1>p
      <4> QED
        BY <4>1, NewIs, ZenonT(60)
    <3>2. work' = [work EXCEPT ![c] = w] \/ work' = work
      BY <1>1, <3>1 DEF Diagnose
    <3> QED
      BY <1>t, <3>2
  <2>3. inFlight' \in [Keys -> Calls \cup {None}] /\ overlapped' \subseteq Calls
    BY <1>1, <1>p DEF Diagnose
  <2> QED
    BY <1>1, <1>p, <1>t, <1>q, <2>1, <2>2, <2>3 DEF Diagnose
<1>2. ASSUME NEW c \in Calls, NEW f \in Files, Checksum(c, f) PROVE TypeOK'
  <2>1. work' \in [Calls -> WorkType]
    <3>1. Await(work[c], f, c) \in WorkType /\ Await(work[c], f, shared[f]) \in WorkType
      BY <1>t, <1>p, AwaitIs
    <3> QED
      BY <1>2, <1>t, <3>1 DEF Checksum
  <2>2. checksums' \in [Calls -> [Files -> Sums]]
    <3>1. PICK r \in Sums : r = [NoSum EXCEPT !.pc = "reading"]
      BY DEF NoSum, Sums
    <3>2. \/ checksums' = [checksums EXCEPT ![c] = [@ EXCEPT ![f] = r]]
          \/ checksums' = checksums
      BY <1>2, <3>1 DEF Checksum
    <3>3. [checksums EXCEPT ![c] = [@ EXCEPT ![f] = r]] \in [Calls -> [Files -> Sums]]
      BY <1>t, SumSet
    <3> QED
      BY <1>t, <3>2, <3>3
  <2>3. shared' \in [Files -> Calls \cup {None}]
    BY <1>2, <1>p DEF Checksum
  <2> QED
    BY <1>2, <1>p, <1>t, <1>q, <2>1, <2>2, <2>3 DEF Checksum
<1>3. ASSUME NEW c \in Calls, NEW f \in Files, ReadFile(c, f) PROVE TypeOK'
  <2>1. [pc |-> "read", value |-> disk[f]] \in Sums
    BY <1>p DEF Sums
  <2>2. PICK r \in Sums : r = [pc |-> "read", value |-> disk[f]]
    BY <2>1
  <2>3. checksums' = [checksums EXCEPT ![c] = [@ EXCEPT ![f] = r]]
    BY <1>3, <2>2 DEF ReadFile
  <2>4. checksums' \in [Calls -> [Files -> Sums]]
    BY <1>t, <2>3, SumSet
  <2> QED
    BY <1>3, <1>p, <1>t, <1>q, <2>4 DEF ReadFile
<1>4. ASSUME NEW c \in Calls, NEW f \in Files, SumDone(c, f) PROVE TypeOK'
  <2>1. checksums' \in [Calls -> [Files -> Sums]]
    <3>1. checksums' = [checksums EXCEPT ![c] = [@ EXCEPT ![f] = NoSum]] /\ NoSum \in Sums
      BY <1>4, NoWorkType DEF SumDone
    <3> QED
      BY <1>t, <3>1, SumSet
  <2>2. work' \in [Calls -> WorkType]
    <3>1. checksums[c][f].value \in Contents \cup {None}
      BY <1>t DEF Sums
    <3>2. ASSUME NEW d \in Calls
          PROVE Given(work[d], f, checksums[c][f].value) \in WorkType
      BY <3>1, <1>t, GivenIs
    <3> QED
      BY <1>4, <1>t, <3>2 DEF SumDone
  <2>3. shared' \in [Files -> Calls \cup {None}]
    BY <1>4, <1>p DEF SumDone, Settled
  <2> QED
    BY <1>4, <1>p, <1>t, <1>q, <2>1, <2>2, <2>3 DEF SumDone
<1>r. ASSUME NEW c \in Calls, NEW pc \in {"answered", "failed"},
             NEW v \in [Files -> Contents] \cup {None}, Resolve(c, pc, v)
      PROVE  /\ calls' \in [Calls -> CallType] /\ work' \in [Calls -> WorkType]
             /\ overlapped' \subseteq Calls
  <2>1. [pc |-> pc, work |-> None, value |-> v] \in CallType
    BY DEF CallType
  <2> QED
    BY <1>r, <1>t, <1>p, <2>1, NoWorkType DEF Resolve
<1>5. ASSUME NEW c \in Calls, WorkDone(c) PROVE TypeOK'
  <2>1. work[c].sums \in [Files -> Contents]
    <3>1. work[c].sums \in [Files -> Contents \cup {None}]
      BY <1>t DEF WorkType
    <3> QED
      BY <1>5, <3>1 DEF WorkDone
  <2>2. /\ calls' \in [Calls -> CallType] /\ work' \in [Calls -> WorkType]
        /\ overlapped' \subseteq Calls
    BY <1>5, <1>r, <2>1 DEF WorkDone
  <2>3. results' \in [Keys -> [Files -> Contents] \cup {None}]
    BY <1>5, <1>p, <2>1 DEF WorkDone, Store
  <2>4. inFlight' \in [Keys -> Calls \cup {None}]
    BY <1>5, <1>p DEF WorkDone, Settled
  <2> QED
    BY <1>5, <1>p, <1>t, <1>q, <2>2, <2>3, <2>4 DEF WorkDone
<1>6. ASSUME NEW c \in Calls, WorkFails(c) PROVE TypeOK'
  <2>1. /\ calls' \in [Calls -> CallType] /\ work' \in [Calls -> WorkType]
        /\ overlapped' \subseteq Calls
    BY <1>6, <1>r DEF WorkFails
  <2>2. inFlight' \in [Keys -> Calls \cup {None}]
    BY <1>6, <1>p DEF WorkFails, Settled
  <2> QED
    BY <1>6, <1>p, <1>t, <1>q, <2>1, <2>2 DEF WorkFails
<1>7. ASSUME NEW k \in Keys, Expire(k) PROVE TypeOK'
  BY <1>7, <1>p, <1>t, <1>q DEF Expire
<1>8. ASSUME NEW i \in Installs, InstallBegins(i) PROVE TypeOK'
  BY <1>8, <1>p, <1>t, <1>q DEF InstallBegins, Invalidate
<1>9. ASSUME NEW i \in Installs, InstallEnds(i) PROVE TypeOK'
  BY <1>9, <1>p, <1>t, <1>q DEF InstallEnds, Invalidate
<1>10. ASSUME NEW i \in Installs, NEW f \in Files, Write(i, f) PROVE TypeOK'
  <2>1. disk[f] + 1 \in Contents
    BY <1>10, <1>p, BoundsAssumption DEF Write, Contents
  <2> QED
    BY <1>10, <1>p, <1>t, <1>q, <2>1 DEF Write, diagnosing
<1>11. CASE UNCHANGED vars
  BY <1>11, <1>p, <1>t, <1>q DEF vars, diagnosing
<1> QED
  BY <1>1, <1>2, <1>3, <1>4, <1>5, <1>6, <1>7, <1>8, <1>9, <1>10, <1>11 DEF Next, Progress
-----------------------------------------------------------------------------
\* Which works are current, for what and who awaits them is the same.
Frame ==
    /\ \A c \in Calls : /\ work'[c].pc = work[c].pc /\ work'[c].key = work[c].key
                        /\ work'[c].generation = work[c].generation
    /\ UNCHANGED <<calls, overlapped, generation, inFlight>>

LEMMA FrameKeeps ==
  ASSUME IInv, Frame, Running' = Running
  PROVE  /\ OneDiagnosis' /\ \A k \in Keys : Shares(k)'
         /\ \A c \in Calls : WorkOK(c)' /\ WaitOK(c)' /\ (Current(c)' <=> Current(c))
<1>1. \A c \in Calls : Current(c)' <=> Current(c)
  BY DEF Frame, Current
<1>2. \A k \in Keys : inFlight[k] \in Calls \cup {None}
  BY DEF IInv, TypeOK
<1>3. OneDiagnosis'
  BY <1>1 DEF Frame, IInv, OneDiagnosis
<1>4. \A k \in Keys : Shares(k)'
  BY <1>1, <1>2 DEF Frame, IInv, Shares
<1>5. \A c \in Calls : WorkOK(c)'
  BY DEF Frame, IInv, WorkOK
<1>6. \A c \in Calls : WaitOK(c)'
  <2>1. \A c \in Calls : calls[c].work \in Calls \cup {None}
    BY DEF IInv, TypeOK
  <2> QED
    BY <1>1, <2>1 DEF Frame, IInv, WaitOK
<1> QED
  BY <1>1, <1>3, <1>4, <1>5, <1>6

LEMMA CacheTyped ==
  ASSUME TypeOK
  PROVE  /\ \A k \in Keys : inFlight[k] \in Calls \cup {None}
         /\ \A f \in Files : shared[f] \in Calls \cup {None}
         /\ \A c \in Calls : calls[c].work \in Calls \cup {None} /\ work[c] \in WorkType
         /\ \A c \in Calls, f \in Files : work[c].awaits[f] \in Calls \cup {None}
  BY DEF TypeOK, WorkType

LEMMA DiagnoseInv ==
  ASSUME IInv, NEW c \in Calls, NEW k \in Keys, Diagnose(c, k), TypeOK'
  PROVE  IInv'
<1>t. /\ calls \in [Calls -> CallType] /\ work \in [Calls -> WorkType] /\ c # None
      /\ inFlight \in [Keys -> Calls \cup {None}]
  BY Typed, NoneAssumption DEF IInv, TypeOK
<1>g. generation \in Nat /\ UNCHANGED <<disk, installs, generation, results, shared, checksums>>
  BY DEF Diagnose, IInv, TypeOK
<1>r. Running' = Running
  BY <1>g DEF Running
<1>n. work[c].pc = "none" /\ ~Current(c)
  BY DEF Diagnose, IInv, WorkOK, Current
<1>1. CASE results[k] # None
  <2>1. /\ calls'[c].pc = "answered" /\ \A d \in Calls \ {c} : calls'[d] = calls[d]
        /\ UNCHANGED <<overlapped, inFlight, work>>
    BY <1>1, <1>t DEF Diagnose
  <2>2. \A d \in Calls : WorkOK(d)' /\ WaitOK(d)'
    BY <2>1, <1>g, <1>r DEF IInv, WorkOK, WaitOK, Current
  <2>3. OneDiagnosis' /\ \A j \in Keys : Shares(j)'
    BY <2>1, <1>g DEF IInv, OneDiagnosis, Shares, Current
  <2> QED
    BY <2>1, <2>2, <2>3, <1>g, <1>r
    DEF IInv, KeptFresh, SharedFresh, WorkFresh, Current, PartFresh, SumFresh
<1>2. CASE results[k] = None /\ inFlight[k] # None
  <2>1. /\ calls'[c].pc = "waiting" /\ calls'[c].work = inFlight[k]
        /\ \A d \in Calls \ {c} : calls'[d] = calls[d]
        /\ overlapped' = overlapped \cup (IF Running = {} THEN {} ELSE {c})
        /\ UNCHANGED <<inFlight, work>>
    BY <1>2, <1>t DEF Diagnose
  <2>2. \A d \in Calls : WorkOK(d)' /\ (Current(d)' <=> Current(d))
    BY <2>1, <1>g DEF IInv, WorkOK, Current
  <2>3. \A d \in Calls \ {c} : WaitOK(d)'
    <3>1. \A d \in Calls : calls[d].work \in Calls \cup {None}
      BY CacheTyped DEF IInv
    <3> QED
      BY <2>1, <2>2, <3>1, <1>r DEF IInv, WaitOK
  <2>4. WaitOK(c)'
    BY <1>2, <2>1, <2>2, <1>r, <1>t DEF IInv, WaitOK, Shares
  <2>5. OneDiagnosis' /\ \A j \in Keys : Shares(j)'
    BY <2>1, <1>g DEF IInv, OneDiagnosis, Shares, Current
  <2> QED
    BY <2>1, <2>2, <2>3, <2>4, <2>5, <1>g, <1>r
    DEF IInv, KeptFresh, SharedFresh, WorkFresh, Current, PartFresh, SumFresh
<1>3. CASE results[k] = None /\ inFlight[k] = None
  <2>1. /\ calls'[c].pc = "waiting" /\ calls'[c].work = c
        /\ \A d \in Calls \ {c} : calls'[d] = calls[d]
        /\ overlapped' = overlapped \cup (IF Running = {} THEN {} ELSE {c})
        /\ inFlight' = [inFlight EXCEPT ![k] = c]
    BY <1>3, <1>t DEF Diagnose
  <2>2. PICK w \in WorkType :
          /\ w = [NoWork EXCEPT !.pc = "running", !.key = k, !.generation = generation]
          /\ w.pc = "running" /\ w.key = k /\ w.generation = generation
          /\ w.awaits = [f \in Files |-> None] /\ w.sums = [f \in Files |-> None]
    BY <1>g, NewIs, ZenonT(60)
  <2>3. work' = [work EXCEPT ![c] = w]
    BY <1>3, <2>2 DEF Diagnose
  <2>4. work'[c] = w /\ \A d \in Calls \ {c} : work'[d] = work[d]
    BY <2>3, <1>t
  <2>5. Current(c)' /\ \A d \in Calls \ {c} : Current(d)' <=> Current(d)
    BY <2>2, <2>4, <1>g DEF Current
  <2>6. \A d \in Calls : WorkOK(d)'
    <3>1. WorkOK(c)'
      BY <2>1, <2>2, <2>4, <1>g, NoneAssumption DEF WorkOK
    <3>2. \A d \in Calls \ {c} : WorkOK(d)'
      BY <2>1, <2>4, <1>g DEF IInv, WorkOK
    <3> QED
      BY <3>1, <3>2
  <2>7. \A d \in Calls : WaitOK(d)'
    <3>1. \A d \in Calls : calls[d].work \in Calls \cup {None}
      BY CacheTyped DEF IInv
    <3> QED
      BY <2>1, <2>5, <3>1, <1>r, <1>n, <1>t DEF IInv, WaitOK
  <2>8. \A j \in Keys : Shares(j)'
    <3>1. Shares(k)'
      BY <2>1, <2>2, <2>4, <2>5, <1>t DEF Shares
    <3>2. ASSUME NEW j \in Keys \ {k} PROVE Shares(j)'
      <4>1. inFlight'[j] = inFlight[j] /\ inFlight[j] \in Calls \cup {None}
        BY <2>1, <1>t
      <4>2. inFlight[j] # None => Current(inFlight[j]) /\ work[inFlight[j]].key = j
        BY DEF IInv, Shares
      <4> QED
        BY <4>1, <4>2, <2>4, <2>5, <1>n DEF Shares
    <3> QED
      BY <3>1, <3>2
  <2>9. OneDiagnosis'
    <3>1. \A d \in Calls \ {c} : Current(d) => work[d].key # k
      BY <1>3, NoneAssumption DEF IInv, OneDiagnosis
    <3>2. \A d \in Calls : Current(d) => work[d].key \in Keys
      BY <1>t DEF WorkType, Current, IInv, WorkOK
    <3>3. ASSUME NEW d \in Calls, Current(d)' PROVE inFlight'[work'[d].key] = d
      <4>1. CASE d = c
        BY <4>1, <2>1, <2>2, <2>4, <1>t
      <4>2. CASE d # c
        <5>1. Current(d) /\ work'[d] = work[d]
          BY <3>3, <4>2, <2>4, <2>5
        <5>2. work[d].key \in Keys \ {k} /\ inFlight[work[d].key] = d
          BY <5>1, <4>2, <3>1, <3>2 DEF IInv, OneDiagnosis
        <5> QED
          BY <5>1, <5>2, <2>1, <1>t
      <4> QED
        BY <4>1, <4>2
    <3> QED
      BY <3>3 DEF OneDiagnosis
  <2>10. WorkFresh'
    <3>1. SUFFICES ASSUME Running = {}, NEW d \in Calls, Current(d)', NEW f \in Files
                   PROVE  PartFresh(d, f)'
      BY <1>r DEF WorkFresh
    <3>2. CASE d = c
      BY <3>2, <2>2, <2>4 DEF PartFresh
    <3>3. CASE d # c
      BY <3>1, <3>3, <2>4, <2>5, <1>g DEF IInv, WorkFresh, PartFresh, SumFresh
    <3> QED
      BY <3>2, <3>3
  <2> QED
    BY <2>6, <2>7, <2>8, <2>9, <2>10, <1>g, <1>r DEF IInv, KeptFresh, SharedFresh, SumFresh
<1> QED
  BY <1>1, <1>2, <1>3

LEMMA ChecksumInv ==
  ASSUME IInv, NEW c \in Calls, NEW f \in Files, Checksum(c, f), TypeOK'
  PROVE  IInv'
<1>t. /\ work \in [Calls -> WorkType] /\ checksums \in [Calls -> [Files -> Sums]]
      /\ shared \in [Files -> Calls \cup {None}] /\ c # None
  BY Typed, NoneAssumption DEF IInv, TypeOK
<1>g. UNCHANGED <<disk, installs, calls, overlapped, generation, results, inFlight>>
  BY DEF Checksum
<1>r. Running' = Running
  BY <1>g DEF Running
\* The checksum that c awaits: one that is shared, or a new one.
<1>0. PICK r \in Sums : r = [NoSum EXCEPT !.pc = "reading"] /\ r.pc = "reading"
  <2>1. [NoSum EXCEPT !.pc = "reading"] = [pc |-> "reading", value |-> None]
    BY DEF NoSum
  <2>2. [pc |-> "reading", value |-> None] \in Sums
    BY DEF Sums
  <2> QED
    BY <2>1, <2>2
<1>1. PICK x \in Calls :
        /\ work' = [work EXCEPT ![c] = Await(@, f, x)]
        /\ \/ x = shared[f] /\ UNCHANGED <<shared, checksums>>
           \/ /\ x = c /\ shared' = [shared EXCEPT ![f] = c]
              /\ checksums' = [checksums EXCEPT ![c] = [@ EXCEPT ![f] = r]]
  <2>1. CASE shared[f] # None
    <3>1. shared[f] \in Calls
      BY <2>1, <1>t
    <3> QED
      BY <2>1, <3>1 DEF Checksum
  <2>2. CASE shared[f] = None
    <3>1. /\ work' = [work EXCEPT ![c] = Await(@, f, c)]
          /\ shared' = [shared EXCEPT ![f] = c]
          /\ checksums' = [checksums EXCEPT ![c] = [@ EXCEPT ![f] = r]]
      BY <2>2, <1>0 DEF Checksum
    <3> WITNESS c \in Calls
    <3> QED
      BY <3>1
  <2> QED
    BY <2>1, <2>2
<1>2. /\ \A d \in Calls : /\ work'[d].pc = work[d].pc /\ work'[d].key = work[d].key
                          /\ work'[d].generation = work[d].generation
                          /\ work'[d].sums = work[d].sums
      /\ \A d \in Calls \ {c} : work'[d] = work[d]
      /\ work'[c].awaits = [work[c].awaits EXCEPT ![f] = x]
  BY <1>1, <1>t, AwaitIs
<1>3. Frame
  BY <1>2, <1>g DEF Frame
<1>4. \A d \in Calls, g \in Files : SumFresh(d, g) => SumFresh(d, g)'
  <2>1. SUFFICES ASSUME NEW d \in Calls, NEW g \in Files, SumFresh(d, g)
                 PROVE  SumFresh(d, g)'
    OBVIOUS
  <2>2. \/ checksums'[d][g] = checksums[d][g]
        \/ checksums'[d][g].pc = "reading"
    <3>1. CASE UNCHANGED checksums
      BY <3>1
    <3>2. CASE checksums' = [checksums EXCEPT ![c] = [@ EXCEPT ![f] = r]]
      <4>1. checksums'[c][f] = r
        BY <3>2, <1>t, SumSet
      <4>2. d # c \/ g # f => checksums'[d][g] = checksums[d][g]
        BY <3>2, <1>t, SumSet
      <4> QED
        BY <4>1, <4>2, <1>0
    <3> QED
      BY <1>1, <3>1, <3>2
  <2> QED
    BY <2>1, <2>2, <1>g DEF SumFresh
<1>5. SharedFresh' /\ (Running = {} => SumFresh(x, f)')
  <2>1. CASE x = shared[f] /\ UNCHANGED <<shared, checksums>>
    <3>1. shared[f] # None
      BY <2>1, NoneAssumption
    <3> QED
      BY <2>1, <3>1, <1>4, <1>r, <1>t DEF IInv, SharedFresh
  <2>2. CASE /\ x = c /\ shared' = [shared EXCEPT ![f] = c]
             /\ checksums' = [checksums EXCEPT ![c] = [@ EXCEPT ![f] = r]]
    <3>1. SumFresh(c, f)'
      BY <1>0, <2>2, <1>t, SumSet DEF SumFresh
    <3> QED
      BY <2>2, <3>1, <1>4, <1>r, <1>t DEF IInv, SharedFresh
  <2> QED
    BY <1>1, <2>1, <2>2
<1>6. WorkFresh'
  <2>1. SUFFICES ASSUME Running = {}, NEW d \in Calls, Current(d), NEW g \in Files
                 PROVE  PartFresh(d, g)'
    BY <1>r, <1>3, FrameKeeps DEF WorkFresh
  <2>2. PartFresh(d, g)
    BY <2>1 DEF IInv, WorkFresh
  <2>3. work[d].awaits[g] \in Calls \cup {None} /\ work[c].awaits \in [Files -> Calls \cup {None}]
    BY <1>t DEF WorkType
  <2>4. work'[d].awaits[g] = work[d].awaits[g] \/ (work'[d].awaits[g] = x /\ g = f)
    BY <1>2, <2>3
  <2> QED
    BY <2>1, <2>2, <2>3, <2>4, <1>2, <1>4, <1>5, <1>g DEF PartFresh
<1> QED
  BY <1>3, <1>5, <1>6, <1>g, <1>r, FrameKeeps DEF IInv, KeptFresh

LEMMA ReadFileInv ==
  ASSUME IInv, NEW c \in Calls, NEW f \in Files, ReadFile(c, f), TypeOK'
  PROVE  IInv'
<1>t. /\ checksums \in [Calls -> [Files -> Sums]]
      /\ \A g \in Files : shared[g] \in Calls \cup {None}
      /\ \A d \in Calls, g \in Files : work[d].awaits[g] \in Calls \cup {None}
  BY Typed, CacheTyped DEF IInv
<1>g. UNCHANGED <<disk, installs, calls, overlapped, generation, results, inFlight, work, shared>>
  BY DEF ReadFile
<1>r. Running' = Running
  BY <1>g DEF Running
<1>1. PICK r \in Sums : r = [pc |-> "read", value |-> disk[f]] /\ r.value = disk[f]
  <2>1. disk[f] \in Contents
    BY DEF IInv, TypeOK
  <2>2. [pc |-> "read", value |-> disk[f]] \in Sums
    BY <2>1 DEF Sums
  <2> QED
    BY <2>2
<1>2. checksums' = [checksums EXCEPT ![c] = [@ EXCEPT ![f] = r]]
  BY <1>1 DEF ReadFile
<1>3. \A d \in Calls, g \in Files : SumFresh(d, g) => SumFresh(d, g)'
  <2>1. ASSUME NEW d \in Calls, NEW g \in Files, SumFresh(d, g) PROVE SumFresh(d, g)'
    <3>1. checksums'[c][f] = r
      BY <1>2, <1>t, SumSet
    <3>2. d # c \/ g # f => checksums'[d][g] = checksums[d][g]
      BY <1>2, <1>t, SumSet
    <3> QED
      BY <2>1, <3>1, <3>2, <1>1, <1>g DEF SumFresh
  <2> QED
    BY <2>1
<1>4. Frame
  BY <1>g DEF Frame
<1>5. SharedFresh'
  BY <1>3, <1>g, <1>r, <1>t DEF IInv, SharedFresh
<1>6. WorkFresh'
  <2>1. SUFFICES ASSUME Running = {}, NEW d \in Calls, Current(d), NEW g \in Files
                 PROVE  PartFresh(d, g)'
    BY <1>r, <1>4, FrameKeeps DEF WorkFresh
  <2> QED
    BY <2>1, <1>3, <1>g, <1>t DEF IInv, WorkFresh, PartFresh
<1> QED
  BY <1>4, <1>5, <1>6, <1>g, <1>r, FrameKeeps DEF IInv, KeptFresh

LEMMA SumDoneInv ==
  ASSUME IInv, NEW c \in Calls, NEW f \in Files, SumDone(c, f), TypeOK'
  PROVE  IInv'
<1>t. /\ checksums \in [Calls -> [Files -> Sums]] /\ work \in [Calls -> WorkType]
      /\ shared \in [Files -> Calls \cup {None}]
      /\ \A d \in Calls, g \in Files : work[d].awaits[g] \in Calls \cup {None}
  BY Typed, CacheTyped DEF IInv, TypeOK
<1>g. UNCHANGED <<disk, installs, calls, overlapped, generation, results, inFlight>>
  BY DEF SumDone
<1>r. Running' = Running
  BY <1>g DEF Running
<1>0. PICK v \in Contents \cup {None} : v = checksums[c][f].value
  BY <1>t DEF Sums
<1>1. \A d \in Calls :
        IF work[d].awaits[f] = c
          THEN /\ work'[d].pc = work[d].pc /\ work'[d].key = work[d].key
               /\ work'[d].generation = work[d].generation
               /\ work'[d].awaits = [work[d].awaits EXCEPT ![f] = None]
               /\ work'[d].sums = [work[d].sums EXCEPT ![f] = v]
          ELSE work'[d] = work[d]
  <2>1. ASSUME NEW d \in Calls, work[d].awaits[f] = c
        PROVE  work'[d] = Given(work[d], f, v)
    BY <2>1, <1>0 DEF SumDone
  <2>2. ASSUME NEW d \in Calls, work[d].awaits[f] # c PROVE work'[d] = work[d]
    BY <2>2 DEF SumDone
  <2>3. ASSUME NEW d \in Calls, work[d].awaits[f] = c
        PROVE  /\ work'[d].pc = work[d].pc /\ work'[d].key = work[d].key
               /\ work'[d].generation = work[d].generation
               /\ work'[d].awaits = [work[d].awaits EXCEPT ![f] = None]
               /\ work'[d].sums = [work[d].sums EXCEPT ![f] = v]
    <3>1. PICK w \in WorkType : w = work[d]
      BY <1>t
    <3>2. /\ Given(w, f, v).pc = w.pc /\ Given(w, f, v).key = w.key
          /\ Given(w, f, v).generation = w.generation
      BY GivenIs, ZenonT(60)
    <3>3. Given(w, f, v).awaits = [w.awaits EXCEPT ![f] = None]
      BY GivenIs, ZenonT(60)
    <3>4. Given(w, f, v).sums = [w.sums EXCEPT ![f] = v]
      BY GivenIs, ZenonT(60)
    <3> QED
      BY <2>1, <2>3, <3>1, <3>2, <3>3, <3>4
  <2> QED
    BY <2>2, <2>3
<1>2. Frame
  BY <1>1, <1>g DEF Frame
<1>3. \A d \in Calls, g \in Files : SumFresh(d, g) => SumFresh(d, g)'
  <2>1. ASSUME NEW d \in Calls, NEW g \in Files, SumFresh(d, g) PROVE SumFresh(d, g)'
    <3>1. checksums' = [checksums EXCEPT ![c] = [@ EXCEPT ![f] = NoSum]] /\ NoSum \in Sums
      BY NoWorkType DEF SumDone
    <3>2. checksums'[c][f] = NoSum /\ NoSum.pc = "none"
      BY <3>1, <1>t, SumSet DEF NoSum
    <3>3. d # c \/ g # f => checksums'[d][g] = checksums[d][g]
      BY <3>1, <1>t, SumSet
    <3> QED
      BY <2>1, <3>2, <3>3, <1>g DEF SumFresh
  <2> QED
    BY <2>1
<1>4. SharedFresh'
  <2>1. \A g \in Files : shared'[g] = shared[g] \/ shared'[g] = None
    BY <1>t DEF SumDone, Settled
  <2> QED
    BY <2>1, <1>3, <1>r, <1>t DEF IInv, SharedFresh
<1>5. WorkFresh'
  <2>1. SUFFICES ASSUME Running = {}, NEW d \in Calls, Current(d), NEW g \in Files
                 PROVE  PartFresh(d, g)'
    BY <1>r, <1>2, FrameKeeps DEF WorkFresh
  <2>2. PartFresh(d, g)
    BY <2>1 DEF IInv, WorkFresh
  <2>3. CASE work[d].awaits[f] = c /\ g = f
    <3>1. v = disk[f]
      BY <2>2, <2>3, <1>0, NoneAssumption DEF PartFresh, SumFresh, SumDone
    <3>2. work'[d].awaits[f] = None /\ work'[d].sums[f] = v
      BY <2>3, <1>1, <1>t, ZenonT(60) DEF WorkType
    <3> QED
      BY <2>3, <3>1, <3>2, <1>g DEF PartFresh
  <2>4. CASE ~(work[d].awaits[f] = c /\ g = f)
    <3>1. work'[d].awaits[g] = work[d].awaits[g] /\ work'[d].sums[g] = work[d].sums[g]
      BY <2>4, <1>1, <1>t DEF WorkType
    <3> QED
      BY <2>2, <3>1, <1>3, <1>g, <1>t DEF PartFresh
  <2> QED
    BY <2>3, <2>4
<1> QED
  BY <1>2, <1>4, <1>5, <1>g, <1>r, FrameKeeps DEF IInv, KeptFresh
-----------------------------------------------------------------------------
\* The end of a work, whatever its outcome.
Ends(c) ==
    /\ work[c].pc = "running" /\ work' = [work EXCEPT ![c] = NoWork]
    /\ inFlight' = Settled(inFlight, work[c].key, c)
    /\ overlapped' = {d \in overlapped : calls[d].work # c}
    /\ \A d \in Calls : /\ calls'[d].pc = "waiting" =>
                             calls'[d] = calls[d] /\ calls[d].work # c
                        /\ calls'[d].pc = "new" => calls[d].pc = "new"
    /\ UNCHANGED <<disk, installs, generation, shared, checksums>>

LEMMA EndsKeeps ==
  ASSUME IInv, NEW c \in Calls, Ends(c), TypeOK'
  PROVE  /\ OneDiagnosis' /\ \A k \in Keys : Shares(k)'
         /\ \A d \in Calls : WorkOK(d)' /\ WaitOK(d)'
         /\ SharedFresh' /\ WorkFresh'
<1>t. /\ inFlight \in [Keys -> Calls \cup {None}] /\ work \in [Calls -> WorkType]
      /\ \A d \in Calls : calls[d].work \in Calls \cup {None} /\ work[d].key \in Keys \cup {None}
      /\ generation \in Nat /\ c # None
      /\ \A d \in Calls, g \in Files : work[d].awaits[g] \in Calls \cup {None}
  BY Typed, CacheTyped, NoneAssumption DEF IInv, TypeOK, WorkType
<1>r. Running' = Running
  BY DEF Ends, Running
<1>1. /\ \A d \in Calls \ {c} : work'[d] = work[d]
      /\ work'[c].pc = "none" /\ work'[c].generation = 0
  BY <1>t DEF Ends, NoWork
<1>2. \A d \in Calls : Current(d)' <=> Current(d) /\ d # c
  BY <1>1 DEF Current, Ends
<1>k. work[c].key \in Keys
  BY <1>t DEF IInv, WorkOK, Ends
<1>3. \A k \in Keys : inFlight'[k] = IF inFlight[k] = c THEN None ELSE inFlight[k]
  <2>1. \A k \in Keys : inFlight[k] = c => k = work[c].key
    BY <1>t DEF IInv, Shares
  <2> QED
    BY <2>1, <1>t, <1>k DEF Ends, Settled
<1>4. OneDiagnosis'
  <2>1. ASSUME NEW d \in Calls, Current(d)' PROVE inFlight'[work'[d].key] = d
    <3>1. Current(d) /\ d # c /\ work'[d] = work[d]
      BY <2>1, <1>1, <1>2
    <3>2. work[d].key \in Keys /\ inFlight[work[d].key] = d
      BY <3>1, <1>t DEF IInv, OneDiagnosis, WorkOK, Current
    <3> QED
      BY <3>1, <3>2, <1>3
  <2> QED
    BY <2>1 DEF OneDiagnosis
<1>5. \A k \in Keys : Shares(k)'
  <2>1. SUFFICES ASSUME NEW k \in Keys, inFlight'[k] # None PROVE Shares(k)'
    BY DEF Shares
  <2>2. PICK e \in Calls \ {c} : e = inFlight[k] /\ e = inFlight'[k]
    BY <2>1, <1>3, <1>t
  <2>3. Current(e) /\ work[e].key = k
    BY <2>2, NoneAssumption DEF IInv, Shares
  <2>4. Current(e)' /\ work'[e].key = k
    BY <2>3, <1>1, <1>2
  <2> QED
    BY <2>2, <2>4 DEF Shares
<1>6. \A d \in Calls : WorkOK(d)'
  BY <1>1, <1>t DEF IInv, WorkOK, Ends
<1>7. \A d \in Calls : WaitOK(d)'
  <2>1. ASSUME NEW d \in Calls, calls'[d].pc = "waiting"
        PROVE  d \notin overlapped' => Running' = {} /\ Current(calls[d].work)'
    <3>1. calls[d].work # c /\ calls'[d] = calls[d]
      BY <2>1 DEF Ends
    <3>2. d \notin overlapped' => d \notin overlapped
      BY <3>1 DEF Ends
    <3>3. WaitOK(d) /\ calls[d].work \in Calls \cup {None}
      BY <1>t DEF IInv
    <3>4. calls[d].work \in Calls /\ (d \notin overlapped => Current(calls[d].work))
      BY <2>1, <3>1, <3>3 DEF WaitOK
    <3>5. Current(calls[d].work) => Current(calls[d].work)'
      BY <3>1, <3>4, <1>1 DEF Current, Ends
    <3> QED
      BY <2>1, <3>1, <3>2, <3>3, <3>4, <3>5, <1>r DEF WaitOK
  <2>2. ASSUME NEW d \in Calls, calls'[d].pc = "waiting"
        PROVE  calls'[d] = calls[d] /\ calls'[d].work # None
    BY <2>2 DEF Ends, IInv, WaitOK
  <2> QED
    BY <2>1, <2>2 DEF WaitOK, Current
<1>8. SharedFresh'
  BY <1>r DEF IInv, SharedFresh, SumFresh, Ends
<1>9. WorkFresh'
  BY <1>1, <1>2, <1>r DEF IInv, WorkFresh, PartFresh, SumFresh, Ends
<1> QED
  BY <1>4, <1>5, <1>6, <1>7, <1>8, <1>9

LEMMA WorkDoneInv ==
  ASSUME IInv, NEW c \in Calls, WorkDone(c), TypeOK'
  PROVE  IInv'
<1>1. Ends(c)
  <2>1. \A d \in Calls : calls'[d] = IF calls[d].pc = "waiting" /\ calls[d].work = c
                                       THEN [pc |-> "answered", work |-> None, value |-> work[c].sums]
                                       ELSE calls[d]
    BY DEF WorkDone, Resolve
  <2>2. \A v : [pc |-> "answered", work |-> None, value |-> v].pc = "answered"
    OBVIOUS
  <2>3. \A d \in Calls : /\ calls'[d].pc = "waiting" => calls'[d] = calls[d] /\ ~(calls[d].pc = "waiting" /\ calls[d].work = c)
                         /\ calls'[d].pc = "new" => calls[d].pc = "new"
    BY <2>1
  <2> QED
    BY <2>3 DEF Ends, WorkDone, Resolve
<1>r. Running' = Running
  BY <1>1 DEF Ends, Running
\* What is stored is the truth, if no install runs.
<1>2. KeptFresh'
  <2>1. SUFFICES ASSUME Running = {}, NEW k \in Keys, results'[k] # None
                 PROVE  results'[k] = disk
    BY <1>1, <1>r DEF KeptFresh, Ends
  <2>2. CASE results'[k] = results[k]
    BY <2>1, <2>2 DEF IInv, KeptFresh
  <2>3. CASE results'[k] # results[k]
    <3>1. Current(c) /\ results'[k] = work[c].sums
      BY <2>1, <2>3 DEF WorkDone, Store, Current
    <3>2. \A f \in Files : work[c].sums[f] = disk[f]
      BY <2>1, <3>1 DEF IInv, WorkFresh, PartFresh, WorkDone
    <3>3. work[c].sums \in [Files -> Contents \cup {None}] /\ disk \in [Files -> Contents]
      BY DEF IInv, TypeOK
    <3> QED
      BY <3>1, <3>2, <3>3
  <2> QED
    BY <2>2, <2>3
<1> QED
  BY <1>1, <1>2, EndsKeeps DEF IInv

LEMMA WorkFailsInv ==
  ASSUME IInv, NEW c \in Calls, WorkFails(c), TypeOK'
  PROVE  IInv'
<1>1. Ends(c)
  <2>1. \A d \in Calls : calls'[d] = IF calls[d].pc = "waiting" /\ calls[d].work = c
                                       THEN [pc |-> "failed", work |-> None, value |-> None]
                                       ELSE calls[d]
    BY DEF WorkFails, Resolve
  <2>2. \A d \in Calls : /\ calls'[d].pc = "waiting" => calls'[d] = calls[d] /\ ~(calls[d].pc = "waiting" /\ calls[d].work = c)
                         /\ calls'[d].pc = "new" => calls[d].pc = "new"
    BY <2>1
  <2> QED
    BY <2>2 DEF Ends, WorkFails, Resolve
<1>2. KeptFresh'
  BY <1>1 DEF IInv, KeptFresh, Ends, Running, WorkFails
<1> QED
  BY <1>1, <1>2, EndsKeeps DEF IInv

\* An install that begins runs: nothing has to be true.
LEMMA InstallBeginsInv ==
  ASSUME IInv, NEW i \in Installs, InstallBegins(i), TypeOK'
  PROVE  IInv'
<1>t. /\ generation \in Nat /\ \A c \in Calls : work[c].generation \in Nat
      /\ installs \in [Installs -> {"new", "running", "ended"}]
  BY DEF IInv, TypeOK
<1>1. Running' # {}
  BY <1>t DEF InstallBegins, Running
<1>2. KeptFresh' /\ SharedFresh' /\ WorkFresh'
  BY <1>1 DEF KeptFresh, SharedFresh, WorkFresh
<1>3. \A c \in Calls : ~Current(c)'
  BY <1>t DEF IInv, WorkOK, Current, InstallBegins, Invalidate
<1>4. OneDiagnosis' /\ \A k \in Keys : Shares(k)'
  BY <1>3 DEF OneDiagnosis, Shares, InstallBegins, Invalidate
<1>5. \A c \in Calls : WorkOK(c)'
  BY <1>t DEF IInv, WorkOK, InstallBegins, Invalidate
<1>6. \A c \in Calls : WaitOK(c)'
  BY DEF IInv, WaitOK, InstallBegins
<1> QED
  BY <1>2, <1>4, <1>5, <1>6 DEF IInv

\* An install that ends forgets all that is kept or shared, and what is under
\* way is not current any more.
LEMMA InstallEndsInv ==
  ASSUME IInv, NEW i \in Installs, InstallEnds(i), TypeOK'
  PROVE  IInv'
<1>t. generation \in Nat /\ \A c \in Calls : work[c].generation \in Nat
  BY DEF IInv, TypeOK
<1>1. Running # {}
  BY DEF InstallEnds, Running
<1>3. \A c \in Calls : ~Current(c)'
  BY <1>t DEF IInv, WorkOK, Current, InstallEnds, Invalidate
<1>2. KeptFresh' /\ SharedFresh' /\ WorkFresh'
  BY <1>3 DEF KeptFresh, SharedFresh, WorkFresh, InstallEnds, Invalidate
<1>4. OneDiagnosis' /\ \A k \in Keys : Shares(k)'
  BY <1>3 DEF OneDiagnosis, Shares, InstallEnds, Invalidate
<1>5. \A c \in Calls : WorkOK(c)'
  BY <1>t DEF IInv, WorkOK, InstallEnds, Invalidate
<1>6. \A c \in Calls : WaitOK(c)'
  BY <1>1 DEF IInv, WaitOK, InstallEnds
<1> QED
  BY <1>2, <1>4, <1>5, <1>6 DEF IInv

THEOREM StepInv == IInv /\ [Next]_vars => IInv'
<1> SUFFICES ASSUME IInv, [Next]_vars PROVE IInv'
  OBVIOUS
<1>0. TypeOK'
  BY TypeStep DEF IInv
<1>1. ASSUME NEW k \in Keys, Expire(k) PROVE IInv'
  <2>1. Frame /\ Running' = Running /\ UNCHANGED <<disk, work, shared, checksums>>
    BY <1>1 DEF Expire, Frame, Running
  <2>2. KeptFresh'
    <3>1. \A j \in Keys : results'[j] = results[j] \/ results'[j] = None
      BY <1>1 DEF Expire, IInv, TypeOK
    <3> QED
      BY <2>1, <3>1 DEF IInv, KeptFresh
  <2>3. SharedFresh' /\ WorkFresh'
    BY <2>1 DEF IInv, SharedFresh, WorkFresh, PartFresh, SumFresh, Frame, Current
  <2> QED
    BY <1>0, <2>1, <2>2, <2>3, FrameKeeps DEF IInv
<1>2. ASSUME NEW i \in Installs, NEW f \in Files, Write(i, f) PROVE IInv'
  <2>1. Frame /\ Running' = Running /\ Running # {}
    BY <1>2 DEF Write, diagnosing, Frame, Running
  <2>2. KeptFresh' /\ SharedFresh' /\ WorkFresh'
    BY <2>1 DEF KeptFresh, SharedFresh, WorkFresh
  <2> QED
    BY <1>0, <2>1, <2>2, FrameKeeps DEF IInv
<1>3. CASE UNCHANGED vars
  <2>1. Frame /\ Running' = Running /\ UNCHANGED vars
    BY <1>3 DEF vars, diagnosing, Frame, Running
  <2>2. KeptFresh' /\ SharedFresh' /\ WorkFresh'
    BY <2>1 DEF IInv, KeptFresh, SharedFresh, WorkFresh, PartFresh, SumFresh, Current, vars, diagnosing
  <2> QED
    BY <1>0, <2>1, <2>2, FrameKeeps DEF IInv
<1> QED
  BY <1>0, <1>1, <1>2, <1>3, DiagnoseInv, ChecksumInv, ReadFileInv, SumDoneInv, WorkDoneInv,
     WorkFailsInv, InstallBeginsInv, InstallEndsInv
  DEF Next, Progress

THEOREM Invariance == Spec => []IInv
<1>1. Init => IInv
  BY InitInv
<1>2. IInv /\ [Next]_vars => IInv'
  BY StepInv
<1> QED
  BY <1>1, <1>2, PTL DEF Spec

\* Every variable has a value of its kind: of the results and diagnoses that
\* FreshResultCache and InFlightCache hold, too.
THEOREM TypeCorrect == Spec => []TypeOK
<1>1. IInv => TypeOK
  BY DEF IInv
<1> QED
  BY <1>1, Invariance, PTL

\* A diagnosis that was not invalidated is the one that InFlightCache shares.
THEOREM Shared == Spec => []OneDiagnosis
<1>1. IInv => OneDiagnosis
  BY DEF IInv
<1> QED
  BY <1>1, Invariance, PTL

\* diagnose tells a call that no install has overlapped the files as they are.
THEOREM NeverStale == Spec => FreshDiagnosis
<1> DEFINE Fresh == \A c \in Calls :
                      /\ calls[c].pc # "answered" /\ calls'[c].pc = "answered"
                      /\ Running = {} /\ c \notin overlapped
                      => calls'[c].value = disk
<1>1. IInv /\ [Next]_vars => [Fresh]_vars
  <2> SUFFICES ASSUME IInv, Next, NEW c \in Calls,
                      calls[c].pc # "answered", calls'[c].pc = "answered",
                      Running = {}, c \notin overlapped
               PROVE  calls'[c].value = disk
    OBVIOUS
  <2>1. ASSUME NEW d \in Calls, NEW k \in Keys, Diagnose(d, k) PROVE calls'[c].value = disk
    <3>1. calls \in [Calls -> CallType]
      BY Typed DEF IInv
    <3>2. results[k] # None /\ c = d
      BY <2>1, <3>1 DEF Diagnose
    <3>3. calls'[c].value = results[k]
      BY <2>1, <3>1, <3>2 DEF Diagnose
    <3> QED
      BY <3>2, <3>3 DEF IInv, KeptFresh
  <2>2. ASSUME NEW d \in Calls, WorkDone(d) PROVE calls'[c].value = disk
    <3>1. calls'[c] = IF calls[c].pc = "waiting" /\ calls[c].work = d
                        THEN [pc |-> "answered", work |-> None, value |-> work[d].sums]
                        ELSE calls[c]
      BY <2>2 DEF WorkDone, Resolve
    <3>2. calls[c].pc = "waiting" /\ calls[c].work = d /\ calls'[c].value = work[d].sums
      BY <3>1
    <3>3. Current(d)
      BY <3>2 DEF IInv, WaitOK
    <3>4. \A f \in Files : work[d].sums[f] = disk[f]
      BY <2>2, <3>3 DEF IInv, WorkFresh, PartFresh, WorkDone
    <3>5. work[d].sums \in [Files -> Contents \cup {None}] /\ disk \in [Files -> Contents]
      BY DEF IInv, TypeOK
    <3> QED
      BY <3>2, <3>4, <3>5
  <2>3. ASSUME NEW d \in Calls, WorkFails(d) PROVE FALSE
    <3>1. calls'[c] = IF calls[c].pc = "waiting" /\ calls[c].work = d
                        THEN [pc |-> "failed", work |-> None, value |-> None]
                        ELSE calls[c]
      BY <2>3 DEF WorkFails, Resolve
    <3> QED
      BY <3>1
  <2>4. CASE UNCHANGED calls
    BY <2>4
  <2> QED
    BY <2>1, <2>2, <2>3, <2>4
    DEF Next, Progress, Checksum, ReadFile, SumDone, Expire, InstallBegins, InstallEnds, Write
<1> QED
  BY <1>1, Invariance, PTL DEF Spec, FreshDiagnosis
=============================================================================
