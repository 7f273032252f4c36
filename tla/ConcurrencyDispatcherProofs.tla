--------------------- MODULE ConcurrencyDispatcherProofs ---------------------
(***************************************************************************)
(* The counter and the queue of ConcurrencyDispatcher, for any number of   *)
(* requests and any setting: no permit leaks, no slot idles while someone  *)
(* waits, the client is closed when all have ended, and the dispatcher     *)
(* implements the abstract limiter.                                        *)
(***************************************************************************)
EXTENDS ConcurrencyDispatcher, FiniteSetTheorems, TLAPS

\* The queue holds the waiting requests, each of them once.
QueueMatches ==
    /\ \A r \in Requests : state[r] = "queued" <=> \E n \in DOMAIN queue : queue[n] = r
    /\ \A m, n \in DOMAIN queue : queue[m] = queue[n] => m = n

\* Once the waiters for idleness are resolved nothing runs or waits.
IdleIsEmpty == closing \in {"idle", "closed"} => active = 0 /\ queue = <<>>

IInv == TypeOK /\ PermitsMatch /\ QueueMatches /\ FullWhileQueued /\ IdleIsEmpty

LEMMA ConcurrencyType ==
    ASSUME TypeOK
    PROVE  Concurrency \in Nat /\ Concurrency >= 1
BY SettingsAssumption DEF TypeOK, Concurrency, AtLeastOne

\* What splicing one place out of a queue leaves: the others, in order.
LEMMA Splice ==
    ASSUME NEW q \in Seq(Requests), NEW n \in DOMAIN q
    PROVE  /\ Spliced(q, n) \in Seq(Requests)
           /\ Len(Spliced(q, n)) = Len(q) - 1
           /\ \A k \in 1..(Len(q) - 1) :
                Spliced(q, n)[k] = IF k < n THEN q[k] ELSE q[k + 1]
<1> DEFINE a == SubSeq(q, 1, n - 1)
           b == SubSeq(q, n + 1, Len(q))
<1>1. n \in 1..Len(q) /\ Len(q) \in Nat
  OBVIOUS
<1>2. a \in Seq(Requests) /\ Len(a) = n - 1 /\ \A k \in 1..(n - 1) : a[k] = q[k]
  BY <1>1
<1>3. /\ b \in Seq(Requests) /\ Len(b) = Len(q) - n
      /\ \A k \in 1..(Len(q) - n) : b[k] = q[n + k]
  BY <1>1
<1> HIDE DEF a, b
<1>4. Spliced(q, n) = a \o b
  BY DEF Spliced, a, b
<1>5. /\ a \o b \in Seq(Requests) /\ Len(a \o b) = Len(q) - 1
      /\ \A k \in 1..(Len(q) - 1) : (a \o b)[k] = IF k < n THEN a[k] ELSE b[k - (n - 1)]
  <2>1. a \o b \in Seq(Requests)
    BY <1>2, <1>3
  <2>2. Len(a \o b) = Len(q) - 1
    BY <1>1, <1>2, <1>3
  <2>3. ASSUME NEW k \in 1..(Len(q) - 1)
        PROVE  (a \o b)[k] = IF k < n THEN a[k] ELSE b[k - (n - 1)]
    BY <1>1, <1>2, <1>3, SMTT(60)
  <2>4. QED BY <2>1, <2>2, <2>3
<1>6. ASSUME NEW k \in 1..(Len(q) - 1)
      PROVE  (a \o b)[k] = IF k < n THEN q[k] ELSE q[k + 1]
  <2>1. CASE k < n
    BY <2>1, <1>1, <1>2, <1>5
  <2>2. CASE ~(k < n)
    <3>1. k - (n - 1) \in 1..(Len(q) - n) /\ n + (k - (n - 1)) = k + 1
      BY <2>2, <1>1
    <3>2. QED BY <2>2, <3>1, <1>1, <1>3, <1>5
  <2>3. QED BY <2>1, <2>2
<1>7. QED BY <1>4, <1>5, <1>6

\* A request that takes or gives back a permit changes their number by one.
LEMMA OneMore ==
    ASSUME TypeOK, NEW r \in Requests, state[r] # "active", Goto(r, "active")
    PROVE  Cardinality(Running') = Cardinality(Running) + 1
<1>1. IsFiniteSet(Running)
  BY RequestsAssumption, FS_Subset DEF Running
<1>2. Running' = Running \cup {r} /\ r \notin Running
  BY DEF TypeOK, Goto, Running
<1>3. QED BY <1>1, <1>2, FS_AddElement

LEMMA OneLess ==
    ASSUME TypeOK, NEW r \in Requests, state[r] = "active", Goto(r, "done")
    PROVE  Cardinality(Running') = Cardinality(Running) - 1 /\ Cardinality(Running) > 0
<1>1. IsFiniteSet(Running)
  BY RequestsAssumption, FS_Subset DEF Running
<1>2. Running' = Running \ {r} /\ r \in Running
  BY DEF TypeOK, Goto, Running
<1>3. Cardinality(Running) \in Nat /\ Cardinality(Running) # 0
  BY <1>1, <1>2, FS_CardinalityType, FS_EmptySet
<1>4. QED BY <1>1, <1>2, <1>3, FS_RemoveElement

LEMMA SameNumber ==
    ASSUME TypeOK, NEW r \in Requests, state[r] # "active",
           NEW s \in States \ {"active"}, Goto(r, s)
    PROVE  Running' = Running
BY DEF TypeOK, Goto, Running

\* The queue after a request joins it, leaves its head, or leaves it anywhere.
LEMMA QueueJoined ==
    ASSUME TypeOK, QueueMatches, NEW r \in Requests, state[r] = "new",
           Goto(r, "queued"), queue' = Append(queue, r)
    PROVE  queue' \in Seq(Requests) /\ QueueMatches'
<1>1. queue \in Seq(Requests) /\ queue' \in Seq(Requests) /\ Len(queue') = Len(queue) + 1
  BY DEF TypeOK
<1>2. /\ \A n \in 1..Len(queue) : queue'[n] = queue[n] /\ queue'[n] # r
      /\ queue'[Len(queue) + 1] = r
  BY <1>1 DEF QueueMatches
<1>3. DOMAIN queue = 1..Len(queue) /\ DOMAIN queue' = 1..(Len(queue) + 1) /\ Len(queue) \in Nat
  BY <1>1
<1>4. \A q \in Requests : state'[q] = "queued" <=> \E n \in DOMAIN queue' : queue'[n] = q
  BY <1>2, <1>3 DEF QueueMatches, TypeOK, Goto
<1>5. \A m, n \in DOMAIN queue' : queue'[m] = queue'[n] => m = n
  BY <1>2, <1>3 DEF QueueMatches
<1>6. QED BY <1>1, <1>4, <1>5 DEF QueueMatches

LEMMA QueueLeft ==
    ASSUME TypeOK, QueueMatches, NEW n \in DOMAIN queue,
           queue' \in Seq(Requests), Len(queue') = Len(queue) - 1,
           \A k \in 1..(Len(queue) - 1) :
             queue'[k] = IF k < n THEN queue[k] ELSE queue[k + 1],
           NEW s \in States \ {"queued"}, Goto(queue[n], s)
    PROVE  QueueMatches'
<1>1. /\ queue \in Seq(Requests) /\ Len(queue) \in Nat /\ n \in 1..Len(queue)
      /\ DOMAIN queue = 1..Len(queue)
  BY DEF TypeOK
<1>2. /\ queue' \in Seq(Requests) /\ Len(queue') = Len(queue) - 1
      /\ \A k \in 1..(Len(queue) - 1) : queue'[k] = IF k < n THEN queue[k] ELSE queue[k + 1]
  OBVIOUS
<1>3. DOMAIN queue' = 1..(Len(queue) - 1)
  BY <1>1, <1>2
<1>4. ASSUME NEW q \in Requests
      PROVE  state'[q] = "queued" <=> \E k \in DOMAIN queue' : queue'[k] = q
  <2>1. CASE q = queue[n]
    <3>1. state'[q] # "queued"
      BY <2>1 DEF TypeOK, Goto
    <3>2. ASSUME NEW k \in DOMAIN queue', queue'[k] = q PROVE FALSE
      BY <2>1, <3>2, <1>1, <1>2, <1>3, SMTT(60) DEF QueueMatches
    <3>3. QED BY <3>1, <3>2
  <2>2. CASE q # queue[n]
    <3>1. state'[q] = state[q]
      BY <2>2 DEF TypeOK, Goto
    <3>2. ASSUME state[q] = "queued" PROVE \E k \in DOMAIN queue' : queue'[k] = q
      <4>1. PICK m \in DOMAIN queue : queue[m] = q
        BY <3>2 DEF QueueMatches
      <4>2. CASE m < n
        BY <4>1, <4>2, <1>1, <1>2, <1>3
      <4>3. CASE m > n
        <5>1. m - 1 \in 1..(Len(queue) - 1) /\ ~(m - 1 < n) /\ (m - 1) + 1 = m
          BY <4>3, <1>1
        <5>2. QED BY <4>1, <5>1, <1>2, <1>3
      <4>4. QED BY <4>1, <4>2, <4>3, <2>2, <1>1
    <3>3. ASSUME NEW k \in DOMAIN queue', queue'[k] = q PROVE state[q] = "queued"
      <4>1. CASE k < n
        BY <3>3, <4>1, <1>1, <1>2, <1>3 DEF QueueMatches
      <4>2. CASE ~(k < n)
        <5>1. k + 1 \in DOMAIN queue /\ queue[k + 1] = q
          BY <3>3, <4>2, <1>1, <1>2, <1>3
        <5>2. QED BY <5>1 DEF QueueMatches
      <4>3. QED BY <4>1, <4>2
    <3>4. QED BY <3>1, <3>2, <3>3
  <2>3. QED BY <2>1, <2>2
<1>5. ASSUME NEW k \in DOMAIN queue', NEW m \in DOMAIN queue', queue'[k] = queue'[m]
      PROVE  k = m
  <2> DEFINE from(i) == IF i < n THEN i ELSE i + 1
  <2>1. /\ from(k) \in DOMAIN queue /\ queue'[k] = queue[from(k)]
        /\ from(m) \in DOMAIN queue /\ queue'[m] = queue[from(m)]
    BY <1>1, <1>2, <1>3
  <2> HIDE DEF from
  <2>2. from(k) = from(m)
    BY <1>5, <2>1 DEF QueueMatches
  <2> USE DEF from
  <2>3. QED BY <2>2, <1>1, <1>3
<1>6. QED BY <1>4, <1>5 DEF QueueMatches
-----------------------------------------------------------------------------
LEMMA InitInv == Init => IInv
<1> SUFFICES ASSUME Init PROVE IInv
  OBVIOUS
<1>1. TypeOK
  <2>1. state \in [Requests -> States] /\ queue \in Seq(Requests)
    BY DEF Init, States
  <2>2. QED BY <2>1 DEF Init, TypeOK
<1>2. Running = {} /\ Cardinality(Running) = 0
  BY FS_EmptySet DEF Init, Running
<1>3. PermitsMatch /\ FullWhileQueued /\ IdleIsEmpty
  BY <1>2 DEF Init, PermitsMatch, FullWhileQueued, IdleIsEmpty
<1>4. QueueMatches
  BY DEF Init, QueueMatches
<1>5. QED BY <1>1, <1>3, <1>4 DEF IInv

\* The actions that take and give back permits, one lemma each.
LEMMA DispatchInv == ASSUME IInv, NEW r \in Requests, Dispatch(r) PROVE IInv'
<1> USE DEF IInv
<1>0. r \in Requests /\ state[r] = "new" /\ closing = "no" /\ state \in [Requests -> States]
  BY DEF Dispatch, TypeOK
<1>1. CASE active < Concurrency /\ Start(r) /\ UNCHANGED queue
  <2>1. TypeOK'
    BY <1>0, <1>1 DEF Dispatch, Start, Goto, TypeOK, States
  <2>2. PermitsMatch'
    BY <1>0, <1>1, OneMore DEF Start, PermitsMatch
  <2>3. QueueMatches'
    BY <1>0, <1>1 DEF Start, Goto, QueueMatches
  <2>4. FullWhileQueued' /\ IdleIsEmpty'
    BY <1>0, <1>1, ConcurrencyType DEF Dispatch, Start, FullWhileQueued, IdleIsEmpty, TypeOK, Concurrency
  <2>5. QED BY <2>1, <2>2, <2>3, <2>4
<1>2. CASE /\ active >= Concurrency /\ queue' = Append(queue, r)
           /\ Goto(r, "queued") /\ UNCHANGED active
  <2>1. queue' \in Seq(Requests) /\ QueueMatches'
    BY <1>0, <1>2, QueueJoined
  <2>2. TypeOK'
    BY <1>0, <1>2, <2>1 DEF Dispatch, Goto, TypeOK, States
  <2>3. Running' = Running
    BY <1>0, <1>2, SameNumber DEF States
  <2>4. PermitsMatch' /\ IdleIsEmpty'
    BY <1>0, <1>2, <2>3 DEF Dispatch, PermitsMatch, IdleIsEmpty
  <2>5. FullWhileQueued'
    BY <1>2, ConcurrencyType DEF Dispatch, FullWhileQueued, TypeOK, Concurrency
  <2>6. QED BY <2>1, <2>2, <2>4, <2>5
<1>3. CASE active >= Concurrency /\ Goto(r, "dropped") /\ UNCHANGED <<active, queue>>
  <2>1. TypeOK'
    BY <1>0, <1>3 DEF Dispatch, Goto, TypeOK, States
  <2>2. Running' = Running
    BY <1>0, <1>3, SameNumber DEF States
  <2>3. QueueMatches'
    BY <1>0, <1>3 DEF Goto, QueueMatches
  <2>4. PermitsMatch' /\ IdleIsEmpty' /\ FullWhileQueued'
    BY <1>0, <1>3, <2>2 DEF Dispatch, PermitsMatch, IdleIsEmpty, FullWhileQueued, Concurrency
  <2>5. QED BY <2>1, <2>3, <2>4
<1>4. QED BY <1>1, <1>2, <1>3 DEF Dispatch

LEMMA AbortInv == ASSUME IInv, NEW r \in Requests, Abort(r) PROVE IInv'
<1> USE DEF IInv
<1>0. r \in Requests /\ state[r] = "queued" /\ state \in [Requests -> States]
  BY DEF Abort, TypeOK
<1>1. PICK n \in DOMAIN queue : queue[n] = r /\ queue' = Spliced(queue, n)
  BY DEF Abort
<1>2. /\ queue' \in Seq(Requests) /\ Len(queue') = Len(queue) - 1
      /\ \A k \in 1..(Len(queue) - 1) : queue'[k] = IF k < n THEN queue[k] ELSE queue[k + 1]
  BY <1>1, Splice DEF TypeOK
<1>3. QueueMatches'
  BY <1>1, <1>2, QueueLeft DEF Abort, States
<1>4. TypeOK'
  BY <1>0, <1>2 DEF Abort, ResolveIdle, Goto, TypeOK, States
<1>5. Running' = Running
  BY <1>0, SameNumber DEF Abort, States
<1>6. queue # <<>>
  BY <1>1 DEF TypeOK
<1>7. PermitsMatch' /\ IdleIsEmpty' /\ FullWhileQueued'
  BY <1>5, <1>6 DEF Abort, ResolveIdle, PermitsMatch, IdleIsEmpty, FullWhileQueued, Concurrency
<1>8. QED BY <1>3, <1>4, <1>7

LEMMA SettleInv == ASSUME IInv, NEW r \in Requests, Settle(r) PROVE IInv'
<1> USE DEF IInv
<1>0. r \in Requests /\ state[r] = "active" /\ state \in [Requests -> States]
  BY DEF Settle, TypeOK
<1>1. Cardinality(Running') = Cardinality(Running) - 1 /\ Cardinality(Running) > 0
  BY <1>0, OneLess DEF Settle
<1>2. PermitsMatch' /\ active > 0
  BY <1>1 DEF Settle, PermitsMatch
<1>3. TypeOK'
  BY <1>0, <1>2 DEF Settle, Goto, TypeOK, States
<1>4. QueueMatches'
  BY <1>0 DEF Settle, Goto, QueueMatches
<1>5. IdleIsEmpty' /\ FullWhileQueued'
  BY <1>2 DEF Settle, IdleIsEmpty, FullWhileQueued, TypeOK
<1>6. QED BY <1>2, <1>3, <1>4, <1>5

LEMMA DrainInv == ASSUME IInv, Drain PROVE IInv'
<1> USE DEF IInv
<1>1. /\ queue \in Seq(Requests) /\ Len(queue) \in Nat /\ 1 \in DOMAIN queue
      /\ Head(queue) = queue[1] /\ queue[1] \in Requests
  BY DEF Drain, TypeOK
<1>2. /\ queue' \in Seq(Requests) /\ Len(queue') = Len(queue) - 1
      /\ \A k \in 1..(Len(queue) - 1) : queue'[k] = IF k < 1 THEN queue[k] ELSE queue[k + 1]
  BY <1>1 DEF Drain
<1>3. Goto(queue[1], "active") /\ state[queue[1]] = "queued"
  BY <1>1 DEF Drain, Start, QueueMatches
<1>4. QueueMatches'
  BY <1>1, <1>2, <1>3, QueueLeft DEF States
<1>5. TypeOK'
  BY <1>1, <1>2, <1>3 DEF Drain, Start, Goto, TypeOK, States
<1>6. PermitsMatch'
  BY <1>1, <1>3, OneMore DEF Drain, Start, PermitsMatch
<1>7. IdleIsEmpty' /\ FullWhileQueued'
  BY DEF Drain, Start, IdleIsEmpty, FullWhileQueued
<1>8. QED BY <1>4, <1>5, <1>6, <1>7

\* The actions that leave the requests, the counter and the queue alone.
LEMMA OtherInv ==
    ASSUME IInv, DrainEnd \/ ChangeSetting \/ Close \/ CloseClient \/ UNCHANGED vars
    PROVE  IInv'
<1> USE DEF IInv
<1>1. UNCHANGED <<active, queue, state>>
  BY DEF DrainEnd, ChangeSetting, Close, CloseClient, vars
<1>2. Running' = Running /\ PermitsMatch' /\ QueueMatches'
  BY <1>1 DEF Running, PermitsMatch, QueueMatches
<1>3. Concurrency \in Nat /\ Concurrency >= 1
  BY ConcurrencyType
<1>4. CASE DrainEnd
  <2> closing' \in {"no", "waiting", "idle", "closed"}
    <3>1. closing' = "idle" \/ closing' = closing
      BY <1>4 DEF DrainEnd, ResolveIdle
    <3>2. QED BY <3>1 DEF TypeOK
  <2>1. TypeOK' /\ Concurrency' = Concurrency
    <3>1. Concurrency' = Concurrency /\ setting' = setting
      BY <1>4 DEF DrainEnd, Concurrency
    <3>2. drains' \in Nat /\ raised' \in BOOLEAN
      <4>1. drains > 0 /\ drains' = drains - 1 /\ raised' = FALSE
        BY <1>4 DEF DrainEnd
      <4>2. drains \in Nat
        BY DEF TypeOK
      <4>3. drains' \in Nat
        BY <4>1, <4>2
      <4>4. raised' \in BOOLEAN
        BY <4>1
      <4>5. QED BY <4>3, <4>4
    <3>3. QED BY <1>1, <3>1, <3>2 DEF TypeOK
  <2>2. IdleIsEmpty'
    BY <1>4 DEF DrainEnd, ResolveIdle, IdleIsEmpty
  <2>3. FullWhileQueued'
    BY <1>3, <1>4, <2>1 DEF DrainEnd, FullWhileQueued, TypeOK
  <2>4. QED BY <1>2, <2>1, <2>2, <2>3
<1>5. CASE ChangeSetting
  <2>1. PICK s \in Settings : setting' = s /\ raised' = (raised \/ AtLeastOne(s) > Concurrency)
    BY <1>5 DEF ChangeSetting
  <2>2. Concurrency' = AtLeastOne(s) /\ AtLeastOne(s) \in Nat
    BY <2>1, SettingsAssumption DEF Concurrency, AtLeastOne
  <2>3. raised' \in BOOLEAN /\ (raised' <=> raised \/ AtLeastOne(s) > Concurrency)
    BY <2>1 DEF TypeOK
  <2>4. QED
    BY <1>2, <1>3, <1>5, <2>1, <2>2, <2>3 DEF ChangeSetting, TypeOK, FullWhileQueued, IdleIsEmpty
<1>6. CASE Close
  BY <1>2, <1>6 DEF Close, TypeOK, FullWhileQueued, IdleIsEmpty, Concurrency
<1>7. CASE CloseClient
  BY <1>2, <1>7 DEF CloseClient, TypeOK, FullWhileQueued, IdleIsEmpty, Concurrency
<1>8. CASE UNCHANGED vars
  BY <1>2, <1>8 DEF vars, TypeOK, FullWhileQueued, IdleIsEmpty, Concurrency
<1>9. QED BY <1>4, <1>5, <1>6, <1>7, <1>8

LEMMA StepInv == IInv /\ [Next]_vars => IInv'
BY DispatchInv, AbortInv, SettleInv, DrainInv, OtherInv DEF Next, SettleAgain

LEMMA Invariance == Spec => []IInv
BY InitInv, StepInv, PTL DEF Spec

\* TypeOK, for every set of requests and every setting: the counters never
\* fall below zero.
THEOREM DispatcherTypeCorrect == Spec => []TypeOK
BY Invariance, PTL DEF IInv

\* PermitsMatch: #active is the number of requests in flight.
THEOREM NoPermitLeaks == Spec => []PermitsMatch
BY Invariance, PTL DEF IInv

\* FullWhileQueued: whoever waits waits for a request in flight.
THEOREM NoIdleSlot == Spec => []FullWhileQueued
BY Invariance, PTL DEF IInv

LEMMA EmptyWhenIdle ==
    ASSUME IInv, closing \in {"idle", "closed"}
    PROVE  Running = {} /\ Waiting = {}
<1>1. active = 0 /\ queue = <<>>
  BY DEF IInv, IdleIsEmpty
<1>2. Waiting = {}
  BY <1>1 DEF IInv, QueueMatches, Waiting
<1>3. IsFiniteSet(Running)
  BY RequestsAssumption, FS_Subset DEF Running
<1>4. Running = {}
  BY <1>1, <1>3, FS_EmptySet DEF IInv, PermitsMatch
<1>5. QED BY <1>2, <1>4

\* ClosedWhenIdle: no request is cut off by closing the dispatcher.
THEOREM CloseCutsNobodyOff == Spec => []ClosedWhenIdle
<1>1. IInv => ClosedWhenIdle
  BY EmptyWhenIdle DEF ClosedWhenIdle
<1>2. QED BY <1>1, Invariance, PTL
-----------------------------------------------------------------------------
LEMMA InitMaps == Init => Limiter!Init
BY SettingsAssumption DEF Init, Limiter!Init, Concurrency

\* The abstract module's notion of cardinality is the one used here.
LEMMA SameCardinality == \A S : Limiter!Cardinality(S) = Cardinality(S)
BY Zenon DEF Limiter!Cardinality, Cardinality

LEMMA StepMaps == IInv /\ IInv' /\ [Next]_vars => [Limiter!Next]_Limiter!vars
<1> SUFFICES ASSUME IInv, IInv', [Next]_vars PROVE [Limiter!Next]_Limiter!vars
  OBVIOUS
<1>0. /\ Limiter!Running = Running /\ Limiter!Waiting = Waiting
      /\ active = Limiter!Cardinality(Running) /\ active \in Nat
      /\ state \in [Requests -> States]
  BY SameCardinality DEF Limiter!Running, Limiter!Waiting, Running, Waiting, IInv, PermitsMatch, TypeOK
<1>1. ASSUME NEW r \in Requests, Dispatch(r) PROVE Limiter!Next
  <2>1. state[r] = "new" /\ closing = "no" /\ UNCHANGED <<Concurrency, closing>>
    BY <1>1 DEF Dispatch, Concurrency
  <2>2. \/ active < Concurrency /\ Goto(r, "active")
        \/ active >= Concurrency /\ (Goto(r, "queued") \/ Goto(r, "dropped"))
    BY <1>1 DEF Dispatch, Start
  <2>3. Limiter!Run(r) \/ Limiter!Arrive(r)
    BY <1>0, <2>1, <2>2 DEF Limiter!Run, Limiter!Arrive, Limiter!Enter, Goto
  <2>4. QED BY <2>3 DEF Limiter!Next
<1>2. ASSUME NEW r \in Requests, Abort(r) \/ Settle(r) PROVE Limiter!Next
  <2>1. /\ \/ state[r] = "active" /\ Goto(r, "done")
           \/ state[r] = "queued" /\ Goto(r, "dropped")
        /\ UNCHANGED Concurrency
    BY <1>2 DEF Abort, Settle, Concurrency
  <2>2. UNCHANGED <<closing = "no", closing = "closed">>
    BY <1>2 DEF Abort, Settle, ResolveIdle
  <2>3. Limiter!Leave(r)
    BY <2>1, <2>2 DEF Limiter!Leave, Limiter!Enter, Goto
  <2>4. QED BY <2>3 DEF Limiter!Next
<1>3. CASE Drain
  <2>1. Head(queue) \in Requests /\ state[Head(queue)] = "queued"
    BY <1>3 DEF Drain, IInv, TypeOK, QueueMatches
  <2>2. Limiter!Run(Head(queue))
    BY <1>0, <1>3, <2>1 DEF Drain, Start, Goto, Concurrency, Limiter!Run, Limiter!Enter
  <2>3. QED BY <2>1, <2>2 DEF Limiter!Next
<1>4. CASE DrainEnd
  BY <1>4 DEF DrainEnd, ResolveIdle, Concurrency, Limiter!vars
<1>5. CASE ChangeSetting
  BY <1>5 DEF ChangeSetting, Concurrency, Limiter!Change, Limiter!Next
<1>6. CASE Close
  BY <1>6 DEF Close, Concurrency, Limiter!Shut, Limiter!Next
<1>7. CASE CloseClient
  <2>1. Running = {} /\ Waiting = {}
    BY <1>7, EmptyWhenIdle DEF CloseClient
  <2>2. QED
    BY <1>0, <1>7, <2>1 DEF CloseClient, Concurrency, Limiter!Stop, Limiter!Next
<1>8. CASE UNCHANGED vars
  BY <1>8 DEF vars, Concurrency, Limiter!vars
<1>9. QED BY <1>1, <1>2, <1>3, <1>4, <1>5, <1>6, <1>7, <1>8 DEF Next, SettleAgain

\* The counter, the queue and the loops on the stack implement the limiter:
\* what a caller sees is a set of requests of which at most the limit are let
\* in, wherever a callback cuts in.
THEOREM DispatcherLimits == Spec => ImplementsLimiter
<1>1. Init => Limiter!Init
  BY InitMaps
<1>2. IInv /\ IInv' /\ [Next]_vars => [Limiter!Next]_Limiter!vars
  BY StepMaps
<1>3. QED BY <1>1, <1>2, Invariance, PTL DEF Spec, ImplementsLimiter, Limiter!Spec
=============================================================================
