---------------------------- MODULE GameLaunchProofs ----------------------------
(***************************************************************************)
(* For any number of launches, of records kept and of troubles: no log is  *)
(* kept that another tracked game may have written, records and prunes do  *)
(* not overwrite each other, and no save waits in vain.                    *)
(***************************************************************************)
EXTENDS GameLaunch, FiniteSetTheorems, SequenceTheorems, TLAPS

With(j) == {q \in JobQueues : \E i \in 1..Len(q) : q[i] = j}
Queued(l, j) == jobs[l] \in With(j)

\* What launch() has not come to: nobody listens to the game yet.
Early(l) ==
    /\ step[l] = "none" <=> l > started
    /\ step[l] = "none" => game[l] = "none" /\ exit[l] = "no"
    /\ game[l] = "running" /\ step[l] # "dead" => exit[l] = "no"
    /\ step[l] \notin {"attached", "dead"} =>
         window[l] # "seen" /\ exit[l] \in {"no", "lost"} /\ jobs[l] = <<>>

\* A tracked game runs, or its exit was lost.
TrackedRuns ==
    \A l \in tracked :
        \/ exit[l] = "no" /\ game[l] = "running" /\ step[l] \notin {"none", "dead"}
        \/ exit[l] = "lost"

\* A launch whose log passes is alone, and will stay so: it is not tracked.
LogAlone ==
    /\ \A l \in log : l \notin ambiguous /\ exit[l] \notin {"no", "lost"}
    /\ \A l \in Launches : archive[l] # None => l \in log
    /\ \A l, m \in Launches : <<l, m>> \in met => l \in ambiguous

\* The operation under way is the first; complete is there while the handler
\* waits for it.
InTurn(l) ==
    /\ \A j \in Jobs : held[l][j] # None => Turn(l, j)
    /\ Queued(l, "complete") => exit[l] = "completing"
    /\ Queued(l, "ready") => window[l] = "seen"

\* The record on the disk, and the one an operation will write, know that the
\* game was ready if markReady has been there.
Shown(l) == window[l] = "seen" /\ ~Queued(l, "ready")
ReadyTrue(l) ==
    l \notin failed =>
        /\ history[l] # None => (history[l].ready <=> Shown(l))
        /\ \A j \in Jobs : held[l][j] # None => (held[l][j].record.ready <=> Shown(l))

\* ... and that it has ended if complete has been there.
StateTrue(l) ==
    (l \notin failed /\ exit[l] \in {"report", "reported"}) =>
        /\ history[l] # None => history[l].state = "exited"
        /\ held[l]["ready"] # None => held[l]["ready"].record.state = "exited"

\* A doomed record has Kept newer ones.
DoomedOld ==
    \A l \in Launches : \A d \in doomed[l] : Cardinality(Newer(d)) >= Kept

IInv ==
    /\ TypeOK
    /\ \A l \in Launches : Early(l)
    /\ TrackedRuns
    /\ LogAlone
    /\ SavesFlushed
    /\ \A l \in Launches : InTurn(l)
    /\ \A l \in Launches : ReadyTrue(l)
    /\ \A l \in Launches : StateTrue(l)
    /\ DoomedOld
-----------------------------------------------------------------------------
(***************************************************************************)
(* Queues of operations                                                    *)
(***************************************************************************)

\* The five queues, one by one.
LEMMA QueueCases ==
    /\ <<>> \notin With("ready") /\ <<>> \notin With("complete")
    /\ <<"ready">> \in With("ready") /\ <<"ready">> \notin With("complete")
    /\ <<"complete">> \notin With("ready") /\ <<"complete">> \in With("complete")
    /\ <<"ready", "complete">> \in With("ready") /\ <<"ready", "complete">> \in With("complete")
    /\ <<"complete", "ready">> \in With("ready") /\ <<"complete", "ready">> \in With("complete")
<1>1. Len(<<>>) = 0
  OBVIOUS
<1>2. \A a \in Jobs : Len(<<a>>) = 1 /\ <<a>>[1] = a
  OBVIOUS
<1>3. \A a, b \in Jobs : Len(<<a, b>>) = 2 /\ <<a, b>>[1] = a /\ <<a, b>>[2] = b
  OBVIOUS
<1>4. "ready" \in Jobs /\ "complete" \in Jobs
  BY DEF Jobs
<1>5. <<>> \notin With("ready") /\ <<>> \notin With("complete")
  BY <1>1 DEF With
<1>6. <<"ready">> \in With("ready") /\ <<"ready">> \notin With("complete")
  BY <1>2, <1>4 DEF With, JobQueues
<1>7. <<"complete">> \notin With("ready") /\ <<"complete">> \in With("complete")
  BY <1>2, <1>4 DEF With, JobQueues
<1>8. <<"ready", "complete">> \in With("ready") /\ <<"ready", "complete">> \in With("complete")
  BY <1>3, <1>4 DEF With, JobQueues
<1>9. <<"complete", "ready">> \in With("ready") /\ <<"complete", "ready">> \in With("complete")
  BY <1>3, <1>4 DEF With, JobQueues
<1> QED
  BY <1>5, <1>6, <1>7, <1>8, <1>9

\* One operation after another.
LEMMA AppendPair ==
    ASSUME NEW a \in Jobs, NEW b \in Jobs
    PROVE  Append(<<a>>, b) = <<a, b>>
<1>1. <<a>> \in Seq(Jobs) /\ <<a, b>> \in Seq(Jobs) /\ Len(<<a>>) = 1 /\ Len(<<a, b>>) = 2
  OBVIOUS
<1>2. Append(<<a>>, b) \in Seq(Jobs) /\ Len(Append(<<a>>, b)) = 2
  BY <1>1
<1>3. Append(<<a>>, b)[1] = a /\ Append(<<a>>, b)[2] = b
  BY <1>1
<1>4. <<a, b>>[1] = a /\ <<a, b>>[2] = b
  OBVIOUS
<1>5. 1..2 = {1, 2}
  OBVIOUS
<1>6. \A i \in 1..Len(Append(<<a>>, b)) : Append(<<a>>, b)[i] = <<a, b>>[i]
  BY <1>2, <1>3, <1>4, <1>5, Zenon
<1>7. Len(Append(<<a>>, b)) = Len(<<a, b>>)
  BY <1>1, <1>2, Zenon
<1> QED
  BY <1>1, <1>2, <1>6, <1>7, SeqEqual, Zenon

\* An operation that comes last.
LEMMA QueueAppend ==
    ASSUME NEW q \in JobQueues, NEW j \in Jobs, q \notin With(j)
    PROVE  /\ Append(q, j) \in JobQueues
           /\ Append(q, j) \in With(j)
           /\ \A i \in Jobs : i # j => (Append(q, j) \in With(i) <=> q \in With(i))
           /\ Append(q, j) # <<>>
           /\ q # <<>> => Head(Append(q, j)) = Head(q)
<1>1. CASE q = <<>>
  BY <1>1, QueueCases DEF JobQueues, Jobs
<1>2. CASE q = <<"ready">>
  <2>1. j = "complete"
    BY <1>2, QueueCases DEF Jobs
  <2>2. Append(<<"ready">>, "complete") = <<"ready", "complete">>
    BY AppendPair DEF Jobs
  <2>3. Head(<<"ready", "complete">>) = Head(<<"ready">>)
    OBVIOUS
  <2>4. <<"ready", "complete">> # <<>>
    OBVIOUS
  <2>5. <<"ready", "complete">> \in JobQueues
    BY DEF JobQueues
  <2>6. \A i \in Jobs : i # "complete" => i = "ready"
    BY DEF Jobs
  <2>7. Append(q, j) = <<"ready", "complete">>
    BY <1>2, <2>1, <2>2, Zenon
  <2>8. Append(q, j) \in With(j) /\ Append(q, j) \in With("ready") /\ q \in With("ready")
    BY <1>2, <2>1, <2>7, QueueCases, Zenon
  <2> QED
    BY <1>2, <2>1, <2>3, <2>4, <2>5, <2>6, <2>7, <2>8
<1>3. CASE q = <<"complete">>
  <2>1. j = "ready"
    BY <1>3, QueueCases DEF Jobs
  <2>2. Append(<<"complete">>, "ready") = <<"complete", "ready">>
    BY AppendPair DEF Jobs
  <2>3. Head(<<"complete", "ready">>) = Head(<<"complete">>)
    OBVIOUS
  <2>4. <<"complete", "ready">> # <<>>
    OBVIOUS
  <2>5. <<"complete", "ready">> \in JobQueues
    BY DEF JobQueues
  <2>6. \A i \in Jobs : i # "ready" => i = "complete"
    BY DEF Jobs
  <2>7. Append(q, j) = <<"complete", "ready">>
    BY <1>3, <2>1, <2>2, Zenon
  <2>8. Append(q, j) \in With(j) /\ Append(q, j) \in With("complete") /\ q \in With("complete")
    BY <1>3, <2>1, <2>7, QueueCases, Zenon
  <2> QED
    BY <1>3, <2>1, <2>3, <2>4, <2>5, <2>6, <2>7, <2>8
<1>4. CASE q \in {<<"ready", "complete">>, <<"complete", "ready">>}
  <2>1. q \in With("ready") /\ q \in With("complete")
    BY <1>4, QueueCases
  <2> QED
    BY <2>1 DEF Jobs
<1> QED
  BY <1>1, <1>2, <1>3, <1>4 DEF JobQueues

\* The first operation, and the queue without it.
LEMMA QueueTail ==
    ASSUME NEW q \in JobQueues, q # <<>>
    PROVE  /\ Head(q) \in Jobs
           /\ Tail(q) \in JobQueues
           /\ q \in With(Head(q))
           /\ Tail(q) \notin With(Head(q))
           /\ \A i \in Jobs : i # Head(q) => (Tail(q) \in With(i) <=> q \in With(i))
<1>1. CASE q = <<"ready">>
  <2>1. Head(q) = "ready" /\ Tail(q) = <<>>
    BY <1>1
  <2> QED
    BY <1>1, <2>1, QueueCases DEF JobQueues, Jobs
<1>2. CASE q = <<"complete">>
  <2>1. Head(q) = "complete" /\ Tail(q) = <<>>
    BY <1>2
  <2> QED
    BY <1>2, <2>1, QueueCases DEF JobQueues, Jobs
<1>3. CASE q = <<"ready", "complete">>
  <2>1. Head(q) = "ready" /\ Tail(q) = <<"complete">>
    BY <1>3
  <2> QED
    BY <1>3, <2>1, QueueCases DEF JobQueues, Jobs
<1>4. CASE q = <<"complete", "ready">>
  <2>1. Head(q) = "complete" /\ Tail(q) = <<"ready">>
    BY <1>4
  <2> QED
    BY <1>4, <2>1, QueueCases DEF JobQueues, Jobs
<1> QED
  BY <1>1, <1>2, <1>3, <1>4 DEF JobQueues
-----------------------------------------------------------------------------
THEOREM InitInv == Init => IInv
<1> SUFFICES ASSUME Init PROVE IInv
  OBVIOUS
<1>1. TypeOK
  <2>1. latest \in [of : Launches \union {None}, age : 0..MaxLaunches]
    <3>1. latest = [of |-> None, age |-> 0] /\ 0 \in 0..MaxLaunches
      BY BoundsAssumption DEF Init
    <3> QED
      BY <3>1
  <2>2. held \in [Launches -> [Jobs -> Held \union {None}]]
    BY DEF Init
  <2>3. jobs \in [Launches -> JobQueues]
    BY DEF Init, JobQueues
  <2>4. started \in 0..MaxLaunches /\ troubles \in 0..MaxTroubles
    BY BoundsAssumption DEF Init
  <2>7. pending \in BOOLEAN
    BY Zenon DEF Init
  <2>5. /\ tracked \in SUBSET (1..started) /\ ambiguous \in SUBSET (1..started)
        /\ log \in SUBSET Launches /\ failed \in SUBSET Launches
        /\ met \in SUBSET (Launches \X Launches)
    BY DEF Init
  <2>6. /\ game \in [Launches -> {"none", "running", "exited"}]
        /\ window \in [Launches -> {"no", "seen", "missed"}]
        /\ step \in [Launches -> {"none", "write", "list", "prune", "attach", "attached", "dead"}]
        /\ doomed \in [Launches -> SUBSET Launches]
        /\ exit \in [Launches -> {"no", "lost", "resolve", "completing", "report", "reported", "cut"}]
        /\ history \in [Launches -> Records \union {None}]
        /\ archive \in [Launches -> Launches \union {None}]
    BY DEF Init
  <2> QED
    BY <2>1, <2>2, <2>3, <2>4, <2>5, <2>6, <2>7, Zenon DEF TypeOK
<1>2. \A l \in Launches : Early(l)
  BY DEF Init, Early, Launches
<1>3. TrackedRuns /\ LogAlone /\ SavesFlushed
  BY DEF Init, TrackedRuns, LogAlone, SavesFlushed
<1>4. \A l \in Launches : InTurn(l)
  BY QueueCases DEF Init, InTurn, Queued
<1>5. \A l \in Launches : ReadyTrue(l) /\ StateTrue(l)
  BY DEF Init, ReadyTrue, StateTrue, Shown, Jobs
<1>6. DoomedOld
  BY DEF Init, DoomedOld
<1> QED
  BY <1>1, <1>2, <1>3, <1>4, <1>5, <1>6 DEF IInv

\* The actions, one by one, to be cited where each of them has its case.
LEMMA ActionCases ==
    ASSUME Next
    PROVE  \/ Spawn
           \/ SaveChanged
           \/ Restart
           \/ \E l \in Launches :
                \/ BeginWrite(l) \/ BeginFails(l) \/ PruneList(l)
                \/ (\E d \in doomed[l] : PruneRemove(l, d))
                \/ (\E d \in doomed[l] : PruneFails(l, d))
                \/ Attach(l) \/ Kill(l) \/ GameLog(l) \/ WindowReady(l) \/ GameExit(l)
                \/ Resolve(l) \/ JobCopy(l) \/ Report(l)
                \/ (\E j \in Jobs : JobRead(l, j))
                \/ (\E j \in Jobs : JobWrite(l, j))
                \/ (\E j \in Jobs : JobFails(l, j))
<1> QED
  BY Zenon DEF Next, Handler

LEMMA TypeStep ==
    ASSUME IInv, Next
    PROVE  TypeOK'
<1> USE DEF TypeOK, worldVars, processVars, beginVars, jobVars, exitVars, diskVars, Trouble
<1>0. TypeOK /\ (\A l \in Launches : Early(l)) /\ \A l \in Launches : InTurn(l)
  BY DEF IInv
<1>1. ASSUME Spawn PROVE TypeOK'
  <2>1. started + 1 \in Launches /\ started' = started + 1 /\ 1..started \subseteq 1..started'
    BY <1>0, <1>1, BoundsAssumption DEF Spawn, Launches
  <2>2. tracked' \in SUBSET (1..started')
    BY <1>0, <1>1, <2>1 DEF Spawn, Launches
  <2>3. ambiguous' \in SUBSET (1..started')
    BY <1>0, <1>1, <2>1 DEF Spawn, NowAmbiguous, Launches
  <2>4. 1..started \subseteq Launches
    BY <1>0, BoundsAssumption DEF Launches
  <2>5. met' \in SUBSET (Launches \X Launches)
    BY <1>0, <1>1, <2>1, <2>4 DEF Spawn
  <2>6. started' \in 0..MaxLaunches
    BY <2>1, BoundsAssumption DEF Launches
  <2> QED
    BY <1>0, <1>1, <2>1, <2>2, <2>3, <2>5, <2>6 DEF Spawn
<1>2. ASSUME SaveChanged PROVE TypeOK'
  BY <1>0, <1>2 DEF SaveChanged
<1>3. ASSUME Restart PROVE TypeOK'
  <2>1. jobs' \in [Launches -> JobQueues]
    BY <1>3 DEF Restart, JobQueues
  <2>2. step' \in [Launches -> {"none", "write", "list", "prune", "attach", "attached", "dead"}]
    BY <1>3 DEF Restart
  <2>3. exit' \in [Launches -> {"no", "lost", "resolve", "completing", "report", "reported", "cut"}]
    BY <1>0, <1>3 DEF Restart
  <2>4. held' \in [Launches -> [Jobs -> Held \union {None}]]
    BY <1>3 DEF Restart
  <2>5. troubles' \in 0..MaxTroubles /\ failed' \in SUBSET Launches
    BY <1>0, <1>3, BoundsAssumption DEF Restart
  <2> QED
    BY <1>0, <1>3, <2>1, <2>2, <2>3, <2>4, <2>5 DEF Restart
<1>4. ASSUME NEW l \in Launches, BeginWrite(l) PROVE TypeOK'
  BY <1>0, <1>4 DEF BeginWrite, Records
<1>5. ASSUME NEW l \in Launches, BeginFails(l) PROVE TypeOK'
  BY <1>0, <1>5, BoundsAssumption DEF BeginFails
<1>6. ASSUME NEW l \in Launches, PruneList(l) PROVE TypeOK'
  BY <1>0, <1>6 DEF PruneList, Outdated, Recorded
<1>7. ASSUME NEW l \in Launches, NEW d \in doomed[l], PruneRemove(l, d) PROVE TypeOK'
  BY <1>0, <1>7 DEF PruneRemove
<1>8. ASSUME NEW l \in Launches, NEW d \in doomed[l], PruneFails(l, d) PROVE TypeOK'
  BY <1>0, <1>8, BoundsAssumption DEF PruneFails
<1>9. ASSUME NEW l \in Launches, Attach(l) PROVE TypeOK'
  BY <1>0, <1>9 DEF Attach
<1>10. ASSUME NEW l \in Launches, Kill(l) PROVE TypeOK'
  BY <1>0, <1>10 DEF Kill
<1>11. ASSUME NEW l \in Launches, GameLog(l) PROVE TypeOK'
  BY <1>0, <1>11 DEF GameLog
<1>12. ASSUME NEW l \in Launches, WindowReady(l) PROVE TypeOK'
  <2>1. ~Queued(l, "ready") /\ jobs[l] \in JobQueues
    BY <1>0, <1>12 DEF WindowReady, InTurn
  <2>2. Append(jobs[l], "ready") \in JobQueues
    BY <2>1, QueueAppend DEF Queued, Jobs
  <2>3. jobs' \in [Launches -> JobQueues] /\ window' \in [Launches -> {"no", "seen", "missed"}]
    <3>0. jobs \in [Launches -> JobQueues] /\ window \in [Launches -> {"no", "seen", "missed"}]
      BY <1>0
    <3>1. CASE step[l] = "attached"
      <4>1. window' = [window EXCEPT ![l] = "seen"] /\ jobs' = [jobs EXCEPT ![l] = Append(@, "ready")]
        BY <1>12, <3>1 DEF WindowReady
      <4>2. PICK q \in JobQueues : q = Append(jobs[l], "ready")
        BY <2>2
      <4>3. jobs' = [jobs EXCEPT ![l] = q]
        BY <4>1, <4>2, Zenon
      <4> QED
        BY <3>0, <4>1, <4>3
    <3>2. CASE step[l] # "attached"
      BY <1>0, <1>12, <3>2 DEF WindowReady
    <3> QED
      BY <3>1, <3>2
  <2> QED
    BY <1>0, <1>12, <2>2, <2>3 DEF WindowReady
<1>13. ASSUME NEW l \in Launches, GameExit(l) PROVE TypeOK'
  BY <1>0, <1>13 DEF GameExit, ExitSeen
<1>14. ASSUME NEW l \in Launches, Resolve(l) PROVE TypeOK'
  <2>1. ~Queued(l, "complete") /\ jobs[l] \in JobQueues
    BY <1>0, <1>14 DEF Resolve, InTurn
  <2>2. Append(jobs[l], "complete") \in JobQueues
    BY <2>1, QueueAppend DEF Queued, Jobs
  <2> QED
    BY <1>0, <1>14, <2>2 DEF Resolve
<1>15. ASSUME NEW l \in Launches, JobCopy(l) PROVE TypeOK'
  <2>1. PICK h \in Held : h = held[l]["complete"]
    BY <1>0, <1>15 DEF JobCopy, Jobs
  <2>2. [h EXCEPT !.copied = TRUE] \in Held
    BY <2>1 DEF Held
  <2>3. held' = [held EXCEPT ![l] = [@ EXCEPT !["complete"] = [h EXCEPT !.copied = TRUE]]]
    BY <1>15, <2>1 DEF JobCopy
  <2>4. held' \in [Launches -> [Jobs -> Held \union {None}]]
    BY <1>0, <2>2, <2>3 DEF Jobs
  <2> QED
    BY <1>0, <1>15, <2>4 DEF JobCopy
<1>16. ASSUME NEW l \in Launches, Report(l) PROVE TypeOK'
  BY <1>0, <1>16 DEF Report
<1>17. ASSUME NEW l \in Launches, NEW j \in Jobs, jobs[l] # <<>>, Ended(l, j)
       PROVE  /\ jobs' \in [Launches -> JobQueues]
              /\ held' \in [Launches -> [Jobs -> Held \union {None}]]
              /\ exit' \in [Launches -> {"no", "lost", "resolve", "completing", "report", "reported", "cut"}]
  <2>1. Tail(jobs[l]) \in JobQueues
    BY <1>0, <1>17, QueueTail
  <2>2. AfterJob(l, j) \in {"no", "lost", "resolve", "completing", "report", "reported", "cut"}
    BY <1>0 DEF AfterJob
  <2> QED
    BY <1>0, <1>17, <2>1, <2>2 DEF Ended
<1>18. ASSUME NEW l \in Launches, NEW j \in Jobs, JobRead(l, j) PROVE TypeOK'
  <2>1. CASE history[l] = None
    BY <1>0, <1>17, <1>18, <2>1 DEF JobRead, Turn
  <2>2. CASE history[l] # None
    <3>1. [record |-> history[l], copied |-> j = "ready"] \in Held
      BY <1>0, <2>2 DEF Held
    <3>2. PICK h \in Held : h = [record |-> history[l], copied |-> j = "ready"]
      BY <3>1
    <3>3. held' = [held EXCEPT ![l] = [@ EXCEPT ![j] = h]]
      BY <1>18, <2>2, <3>2 DEF JobRead
    <3>4. held' \in [Launches -> [Jobs -> Held \union {None}]]
      BY <1>0, <3>3
    <3> QED
      BY <1>0, <1>18, <2>2, <3>4 DEF JobRead
  <2> QED
    BY <2>1, <2>2
<1>19. ASSUME NEW l \in Launches, NEW j \in Jobs, JobWrite(l, j) PROVE TypeOK'
  <2>1. PICK h \in Held : h = held[l][j]
    BY <1>0, <1>19 DEF JobWrite
  <2>2. Changed(j, h.record) \in Records
    BY <2>1 DEF Changed, Held, Records
  <2>3. jobs[l] # <<>>
    BY <1>0, <1>19 DEF JobWrite, InTurn, Turn
  <2> QED
    BY <1>0, <1>17, <1>19, <2>1, <2>2, <2>3 DEF JobWrite
<1>20. ASSUME NEW l \in Launches, NEW j \in Jobs, JobFails(l, j) PROVE TypeOK'
  <2>1. jobs[l] # <<>>
    BY <1>0, <1>20 DEF JobFails, InTurn, Turn
  <2> QED
    BY <1>0, <1>17, <1>20, <2>1, BoundsAssumption DEF JobFails
<1> QED
  BY ActionCases, <1>1, <1>2, <1>3, <1>4, <1>5, <1>6, <1>7, <1>8, <1>9, <1>10, <1>11,
     <1>12, <1>13, <1>14, <1>15, <1>16, <1>18, <1>19, <1>20, Zenon
-----------------------------------------------------------------------------
(***************************************************************************)
(* What the actions do to a launch                                         *)
(***************************************************************************)

\* An operation that reads, writes or fails is the first of its queue.
LEMMA JobTurn ==
    ASSUME IInv, NEW l \in Launches, NEW j \in Jobs,
           JobRead(l, j) \/ JobWrite(l, j) \/ JobFails(l, j)
    PROVE  Turn(l, j)
  BY Zenon DEF IInv, InTurn, JobRead, JobWrite, JobFails

\* The end of an operation: nothing is held, the others stay in the queue, and
\* complete lets the handler go on, which was waiting for it.
LEMMA EndedMoves ==
    ASSUME IInv, NEW l \in Launches, NEW j \in Jobs, Turn(l, j), Ended(l, j)
    PROVE  /\ \A m \in Launches :
                m # l => exit'[m] = exit[m] /\ jobs'[m] = jobs[m] /\ held'[m] = held[m]
           /\ j = "complete" => exit'[l] = "report" /\ exit[l] = "completing"
           /\ j # "complete" => exit'[l] = exit[l]
           /\ jobs'[l] \notin With(j) /\ Queued(l, j)
           /\ \A i \in Jobs : i # j => (jobs'[l] \in With(i) <=> Queued(l, i))
           /\ \A i \in Jobs : held'[l][i] = None
<1>1. /\ jobs \in [Launches -> JobQueues]
      /\ held \in [Launches -> [Jobs -> Held \union {None}]]
      /\ DOMAIN exit = Launches
  BY DEF IInv, TypeOK
<1>2. InTurn(l)
  BY DEF IInv
<1>3. jobs[l] \in JobQueues /\ jobs[l] # <<>> /\ Head(jobs[l]) = j
  BY <1>1 DEF Turn
<1>4. /\ Queued(l, j) /\ Tail(jobs[l]) \notin With(j)
      /\ \A i \in Jobs : i # j => (Tail(jobs[l]) \in With(i) <=> Queued(l, i))
  BY <1>3, QueueTail DEF Queued
<1>5. jobs' = [jobs EXCEPT ![l] = Tail(@)] /\ exit' = [exit EXCEPT ![l] = AfterJob(l, j)]
  BY DEF Ended
<1>6. jobs'[l] = Tail(jobs[l]) /\ \A m \in Launches : m # l => jobs'[m] = jobs[m]
  BY <1>1, <1>5, Zenon
<1>7. exit'[l] = AfterJob(l, j) /\ \A m \in Launches : m # l => exit'[m] = exit[m]
  BY <1>1, <1>5, Zenon
<1>8. \A m \in Launches : m # l => held'[m] = held[m]
  BY <1>1 DEF Ended
<1>9. held'[l] = [held[l] EXCEPT ![j] = None]
  BY <1>1 DEF Ended
<1>10. \A i \in Jobs : i # j => held[l][i] = None
  BY <1>2, <1>3 DEF InTurn, Turn
<1>11. held[l] \in [Jobs -> Held \union {None}]
  BY <1>1
<1>12. \A i \in Jobs : held'[l][i] = None
  BY <1>9, <1>10, <1>11
<1>13. j = "complete" => exit[l] = "completing"
  BY <1>2, <1>4 DEF InTurn
<1> QED
  BY <1>4, <1>6, <1>7, <1>8, <1>12, <1>13 DEF AfterJob

LEMMA EarlyStep ==
    ASSUME IInv, Next
    PROVE  \A m \in Launches : Early(m)'
<1> USE DEF Early, worldVars, processVars, beginVars, jobVars, exitVars, diskVars
<1>0. \A m \in Launches : Early(m)
  BY DEF IInv
<1>A. /\ DOMAIN step = Launches /\ DOMAIN game = Launches /\ DOMAIN window = Launches
      /\ DOMAIN exit = Launches /\ DOMAIN jobs = Launches /\ started \in Nat
      /\ Launches \subseteq Nat
  BY BoundsAssumption DEF IInv, TypeOK, Launches
<1>1. ASSUME Spawn PROVE \A m \in Launches : Early(m)'
  BY <1>0, <1>A, <1>1 DEF Spawn
<1>2. ASSUME SaveChanged PROVE \A m \in Launches : Early(m)'
  BY <1>0, <1>2 DEF SaveChanged
<1>3. ASSUME Restart PROVE \A m \in Launches : Early(m)'
  BY <1>0, <1>3 DEF Restart
<1>4. ASSUME NEW l \in Launches, BeginWrite(l) PROVE \A m \in Launches : Early(m)'
  BY <1>0, <1>A, <1>4 DEF BeginWrite
<1>5. ASSUME NEW l \in Launches, BeginFails(l) PROVE \A m \in Launches : Early(m)'
  BY <1>0, <1>A, <1>5 DEF BeginFails
<1>6. ASSUME NEW l \in Launches, PruneList(l) PROVE \A m \in Launches : Early(m)'
  BY <1>0, <1>A, <1>6 DEF PruneList
<1>7. ASSUME NEW l \in Launches, NEW d \in doomed[l], PruneRemove(l, d)
      PROVE  \A m \in Launches : Early(m)'
  BY <1>0, <1>7 DEF PruneRemove
<1>8. ASSUME NEW l \in Launches, NEW d \in doomed[l], PruneFails(l, d)
      PROVE  \A m \in Launches : Early(m)'
  BY <1>0, <1>A, <1>8 DEF PruneFails
<1>9. ASSUME NEW l \in Launches, Attach(l) PROVE \A m \in Launches : Early(m)'
  BY <1>0, <1>A, <1>9 DEF Attach
<1>10. ASSUME NEW l \in Launches, Kill(l) \/ GameLog(l) \/ JobCopy(l)
       PROVE  \A m \in Launches : Early(m)'
  BY <1>0, <1>10 DEF Kill, GameLog, JobCopy
<1>11. ASSUME NEW l \in Launches, WindowReady(l) PROVE \A m \in Launches : Early(m)'
  BY <1>0, <1>A, <1>11 DEF WindowReady
<1>12. ASSUME NEW l \in Launches, GameExit(l) PROVE \A m \in Launches : Early(m)'
  BY <1>0, <1>A, <1>12 DEF GameExit, ExitSeen
<1>13. ASSUME NEW l \in Launches, Resolve(l) \/ Report(l) PROVE \A m \in Launches : Early(m)'
  BY <1>0, <1>A, <1>13 DEF Resolve, Report
<1>14. ASSUME NEW l \in Launches, NEW j \in Jobs, Turn(l, j), Ended(l, j),
              UNCHANGED <<started, worldVars, step>>
       PROVE  \A m \in Launches : Early(m)'
  <2>1. step[l] \in {"attached", "dead"}
    BY <1>0, <1>14 DEF Turn
  <2> QED
    BY <1>0, <1>14, <2>1, EndedMoves
<1>15. ASSUME NEW l \in Launches, NEW j \in Jobs, JobRead(l, j) \/ JobWrite(l, j) \/ JobFails(l, j)
       PROVE  \A m \in Launches : Early(m)'
  <2>1. Turn(l, j)
    BY <1>15, JobTurn
  <2>2. CASE Ended(l, j)
    BY <1>14, <1>15, <2>1, <2>2 DEF JobRead, JobWrite, JobFails
  <2>3. CASE JobRead(l, j) /\ UNCHANGED <<jobs, exit>>
    BY <1>0, <2>3 DEF JobRead
  <2> QED
    BY <1>15, <2>2, <2>3 DEF JobRead, JobWrite, JobFails
<1> QED
  BY ActionCases, <1>1, <1>2, <1>3, <1>4, <1>5, <1>6, <1>7, <1>8, <1>9, <1>10, <1>11,
     <1>12, <1>13, <1>15, Zenon
-----------------------------------------------------------------------------
\* launch() goes on: the launch stays one that was begun.
LEMMA BeginMoves ==
    ASSUME IInv, NEW l \in Launches,
           BeginWrite(l) \/ BeginFails(l) \/ PruneList(l) \/ Attach(l)
           \/ \E d \in doomed[l] : PruneFails(l, d)
    PROVE  \A m \in Launches :
             step[m] \notin {"none", "dead"} => step'[m] \notin {"none", "dead"}
<1>1. DOMAIN step = Launches
  BY DEF IInv, TypeOK
<1>2. CASE BeginWrite(l) \/ BeginFails(l) \/ PruneList(l) \/ Attach(l)
  BY <1>1, <1>2 DEF BeginWrite, BeginFails, PruneList, Attach
<1>3. CASE \E d \in doomed[l] : PruneFails(l, d)
  <2>1. step' = [step EXCEPT ![l] = IF @ = "prune" THEN "attach" ELSE @]
    BY <1>3 DEF PruneFails
  <2> QED
    BY <1>1, <2>1
<1> QED
  BY <1>2, <1>3

LEMMA TrackedStep ==
    ASSUME IInv, Next
    PROVE  TrackedRuns'
<1> USE DEF TrackedRuns, worldVars, processVars, beginVars, jobVars, exitVars, diskVars
<1>0. TrackedRuns /\ \A m \in Launches : Early(m)
  BY DEF IInv
<1>A. /\ DOMAIN step = Launches /\ DOMAIN game = Launches /\ DOMAIN exit = Launches
      /\ tracked \subseteq 1..started /\ 1..started \subseteq Launches /\ started \in Nat
  BY BoundsAssumption DEF IInv, TypeOK, Launches
<1>1. ASSUME Spawn PROVE TrackedRuns'
  <2>1. PICK l \in Launches : l = started + 1
    BY <1>1 DEF Spawn
  <2>2. l \notin 1..started /\ exit[l] = "no"
    BY <1>0, <1>A, <2>1 DEF Early
  <2>3. /\ game' = [game EXCEPT ![l] = "running"] /\ step' = [step EXCEPT ![l] = "write"]
        /\ tracked' = tracked \union {l} /\ exit' = exit
    BY <1>1, <2>1 DEF Spawn
  <2> QED
    BY <1>0, <1>A, <2>2, <2>3
<1>2. ASSUME SaveChanged PROVE TrackedRuns'
  BY <1>0, <1>2 DEF SaveChanged
<1>3. ASSUME Restart PROVE TrackedRuns'
  BY <1>3 DEF Restart
<1>4. ASSUME NEW l \in Launches,
             BeginWrite(l) \/ BeginFails(l) \/ PruneList(l) \/ Attach(l)
             \/ \E d \in doomed[l] : PruneFails(l, d)
      PROVE  TrackedRuns'
  <2>1. tracked' = tracked /\ exit' = exit /\ game' = game
    BY <1>4 DEF BeginWrite, BeginFails, PruneList, Attach, PruneFails
  <2>2. \A m \in Launches :
          step[m] \notin {"none", "dead"} => step'[m] \notin {"none", "dead"}
    BY <1>4, BeginMoves
  <2> QED
    BY <1>0, <1>A, <2>1, <2>2
<1>5. ASSUME NEW l \in Launches, \E d \in doomed[l] : PruneRemove(l, d) PROVE TrackedRuns'
  BY <1>0, <1>5 DEF PruneRemove
<1>6. ASSUME NEW l \in Launches, Kill(l) PROVE TrackedRuns'
  BY <1>0, <1>6 DEF Kill
<1>7. ASSUME NEW l \in Launches, GameLog(l) \/ WindowReady(l) \/ JobCopy(l) PROVE TrackedRuns'
  BY <1>0, <1>7 DEF GameLog, WindowReady, JobCopy
<1>8. ASSUME NEW l \in Launches, GameExit(l) PROVE TrackedRuns'
  BY <1>0, <1>A, <1>8 DEF GameExit, ExitSeen
<1>9. ASSUME NEW l \in Launches, Resolve(l) \/ Report(l) PROVE TrackedRuns'
  BY <1>0, <1>A, <1>9 DEF Resolve, Report
<1>10. ASSUME NEW l \in Launches, NEW j \in Jobs, JobRead(l, j) \/ JobWrite(l, j) \/ JobFails(l, j)
       PROVE  TrackedRuns'
  <2>1. UNCHANGED <<tracked, game, step>>
    BY <1>10 DEF JobRead, JobWrite, JobFails
  <2>2. CASE Ended(l, j)
    BY <1>0, <1>A, <1>10, <2>1, <2>2, JobTurn, EndedMoves
  <2>3. CASE UNCHANGED exit
    BY <1>0, <2>1, <2>3
  <2> QED
    BY <1>10, <2>2, <2>3 DEF JobRead, JobWrite, JobFails
<1> QED
  BY ActionCases, <1>1, <1>2, <1>3, <1>4, <1>5, <1>6, <1>7, <1>8, <1>9, <1>10, Zenon

LEMMA LogStep ==
    ASSUME IInv, Next
    PROVE  LogAlone'
<1> USE DEF LogAlone, worldVars, processVars, beginVars, jobVars, exitVars, diskVars
<1>0. LogAlone /\ TrackedRuns /\ \A m \in Launches : Early(m)
  BY DEF IInv
<1>A. /\ DOMAIN exit = Launches /\ DOMAIN archive = Launches /\ log \subseteq Launches
      /\ tracked \subseteq 1..started /\ 1..started \subseteq Launches /\ started \in Nat
  BY BoundsAssumption DEF IInv, TypeOK, Launches
<1>1. ASSUME Spawn PROVE LogAlone'
  <2>1. PICK l \in Launches : l = started + 1
    BY <1>1 DEF Spawn
  <2>2. exit[l] = "no"
    BY <1>0, <1>A, <2>1 DEF Early
  <2>3. \A m \in tracked \union {l} : m \notin log
    BY <1>0, <2>2 DEF TrackedRuns
  <2>4. /\ met' = met \union ({l} \X tracked) \union (tracked \X {l})
        /\ ambiguous' = ambiguous \union NowAmbiguous(l)
        /\ UNCHANGED <<exit, archive, log>>
    BY <1>1, <2>1 DEF Spawn
  <2>5. NowAmbiguous(l) \subseteq tracked \union {l}
    BY DEF NowAmbiguous
  <2>6. \A m, n \in Launches :
          <<m, n>> \in met' => <<m, n>> \in met \/ m \in NowAmbiguous(l)
    BY <2>4 DEF NowAmbiguous
  <2> QED
    BY <1>0, <2>3, <2>4, <2>5, <2>6
<1>2. ASSUME SaveChanged PROVE LogAlone'
  BY <1>0, <1>2 DEF SaveChanged
<1>3. ASSUME Restart PROVE LogAlone'
  BY <1>0, <1>A, <1>3 DEF Restart
<1>4. ASSUME NEW l \in Launches,
             \/ BeginWrite(l) \/ BeginFails(l) \/ PruneList(l) \/ Attach(l)
             \/ Kill(l) \/ GameLog(l) \/ WindowReady(l)
             \/ \E d \in doomed[l] : PruneFails(l, d)
      PROVE  LogAlone'
  <2>1. UNCHANGED <<log, ambiguous, exit, archive, met>>
    BY <1>4 DEF BeginWrite, BeginFails, PruneList, Attach, PruneFails, Kill, GameLog, WindowReady
  <2> QED
    BY <1>0, <2>1
<1>5. ASSUME NEW l \in Launches, \E d \in doomed[l] : PruneRemove(l, d) PROVE LogAlone'
  BY <1>0, <1>A, <1>5 DEF PruneRemove
<1>6. ASSUME NEW l \in Launches, GameExit(l) PROVE LogAlone'
  <2>1. CASE step[l] = "dead"
    BY <1>0, <1>6, <2>1 DEF GameExit
  <2>2. CASE step[l] = "attached"
    BY <1>0, <1>A, <1>6, <2>2 DEF GameExit, ExitSeen
  <2>3. CASE step[l] \notin {"dead", "attached"}
    <3>1. l \notin log
      BY <1>0, <2>3 DEF Early
    <3> QED
      BY <1>0, <1>A, <1>6, <2>3, <3>1 DEF GameExit, ExitSeen
  <2> QED
    BY <2>1, <2>2, <2>3
<1>7. ASSUME NEW l \in Launches, Resolve(l) PROVE LogAlone'
  BY <1>0, <1>A, <1>7 DEF Resolve
<1>8. ASSUME NEW l \in Launches, JobCopy(l) PROVE LogAlone'
  BY <1>0, <1>A, <1>8 DEF JobCopy
<1>9. ASSUME NEW l \in Launches, Report(l) PROVE LogAlone'
  BY <1>0, <1>A, <1>9 DEF Report
<1>10. ASSUME NEW l \in Launches, NEW j \in Jobs, JobRead(l, j) \/ JobWrite(l, j) \/ JobFails(l, j)
       PROVE  LogAlone'
  <2>1. UNCHANGED <<log, ambiguous, archive, met>>
    BY <1>10 DEF JobRead, JobWrite, JobFails
  <2>2. CASE Ended(l, j)
    <3>1. \A m \in Launches : exit'[m] \in {exit[m], "report"}
      BY <1>10, <2>2, JobTurn, EndedMoves
    <3> QED
      BY <1>0, <1>A, <2>1, <3>1
  <2>3. CASE UNCHANGED exit
    BY <1>0, <2>1, <2>3
  <2> QED
    BY <1>10, <2>2, <2>3 DEF JobRead, JobWrite, JobFails
<1> QED
  BY ActionCases, <1>1, <1>2, <1>3, <1>4, <1>5, <1>6, <1>7, <1>8, <1>9, <1>10, Zenon

\* A game whose exit is still to be reported, or was lost.
Awaited(l) ==
    \/ game[l] = "running" /\ step[l] \notin {"none", "dead"}
    \/ exit[l] \in {"lost", "resolve", "completing", "report"}

LEMMA SavesStep ==
    ASSUME IInv, Next
    PROVE  SavesFlushed'
<1> USE DEF worldVars, processVars, beginVars, jobVars, exitVars, diskVars
<1>0. TrackedRuns /\ \A m \in Launches : Early(m)
  BY DEF IInv
<1>A. /\ DOMAIN step = Launches /\ DOMAIN game = Launches /\ DOMAIN exit = Launches
      /\ tracked \subseteq Launches /\ started \in Nat
  BY BoundsAssumption DEF IInv, TypeOK, Launches
<1>B. pending => \E m \in Launches : Awaited(m)
  BY DEF IInv, SavesFlushed, Awaited
<1>C. ASSUME pending' = pending, \A m \in Launches : Awaited(m) => Awaited(m)' PROVE SavesFlushed'
  BY <1>B, <1>C DEF SavesFlushed, Awaited
<1>1. ASSUME Spawn PROVE SavesFlushed'
  <2>1. PICK l \in Launches : l = started + 1
    BY <1>1 DEF Spawn
  <2>2. \A m \in Launches : Awaited(m) => Awaited(m)'
    BY <1>A, <1>1, <2>1 DEF Spawn, Awaited
  <2> QED
    BY <1>1, <1>C, <2>2 DEF Spawn
<1>2. ASSUME SaveChanged PROVE SavesFlushed'
  <2>1. PICK l \in tracked : TRUE
    BY <1>2 DEF SaveChanged
  <2>2. l \in Launches /\ Awaited(l)
    BY <1>0, <1>A, <2>1 DEF TrackedRuns, Awaited
  <2>3. Awaited(l)'
    BY <1>2, <2>2 DEF SaveChanged, Awaited
  <2> QED
    BY <2>2, <2>3 DEF SavesFlushed, Awaited
<1>3. ASSUME Restart PROVE SavesFlushed'
  BY <1>3 DEF Restart, SavesFlushed
<1>4. ASSUME NEW l \in Launches,
             BeginWrite(l) \/ BeginFails(l) \/ PruneList(l) \/ Attach(l)
             \/ \E d \in doomed[l] : PruneFails(l, d)
      PROVE  SavesFlushed'
  <2>1. pending' = pending /\ exit' = exit /\ game' = game
    BY <1>4 DEF BeginWrite, BeginFails, PruneList, Attach, PruneFails
  <2>2. \A m \in Launches :
          step[m] \notin {"none", "dead"} => step'[m] \notin {"none", "dead"}
    BY <1>4, BeginMoves
  <2>3. \A m \in Launches : Awaited(m) => Awaited(m)'
    BY <1>A, <2>1, <2>2 DEF Awaited
  <2> QED
    BY <1>C, <2>1, <2>3
<1>5. ASSUME NEW l \in Launches,
             \/ Kill(l) \/ GameLog(l) \/ WindowReady(l) \/ JobCopy(l)
             \/ \E d \in doomed[l] : PruneRemove(l, d)
      PROVE  SavesFlushed'
  <2>1. UNCHANGED <<pending, exit, game, step>>
    BY <1>5 DEF Kill, GameLog, WindowReady, JobCopy, PruneRemove
  <2> QED
    BY <1>C, <2>1 DEF Awaited
<1>6. ASSUME NEW l \in Launches, GameExit(l) PROVE SavesFlushed'
  <2>1. \A m \in Launches : Awaited(m) => Awaited(m)'
    BY <1>0, <1>A, <1>6 DEF GameExit, ExitSeen, Awaited
  <2> QED
    BY <1>6, <1>C, <2>1 DEF GameExit
<1>7. ASSUME NEW l \in Launches, Resolve(l) PROVE SavesFlushed'
  <2>1. \A m \in Launches : Awaited(m) => Awaited(m)'
    BY <1>A, <1>7 DEF Resolve, Awaited
  <2> QED
    BY <1>7, <1>C, <2>1 DEF Resolve
<1>8. ASSUME NEW l \in Launches, Report(l) PROVE SavesFlushed'
  BY <1>8 DEF Report, SavesFlushed
<1>9. ASSUME NEW l \in Launches, NEW j \in Jobs, JobRead(l, j) \/ JobWrite(l, j) \/ JobFails(l, j)
      PROVE  SavesFlushed'
  <2>1. UNCHANGED <<pending, game, step>>
    BY <1>9 DEF JobRead, JobWrite, JobFails
  <2>2. CASE Ended(l, j)
    <3>1. \A m \in Launches : exit'[m] \in {exit[m], "report"}
      BY <1>9, <2>2, JobTurn, EndedMoves
    <3>2. \A m \in Launches : Awaited(m) => Awaited(m)'
      BY <2>1, <3>1 DEF Awaited
    <3> QED
      BY <1>C, <2>1, <3>2
  <2>3. CASE UNCHANGED exit
    BY <1>C, <2>1, <2>3 DEF Awaited
  <2> QED
    BY <1>9, <2>2, <2>3 DEF JobRead, JobWrite, JobFails
<1> QED
  BY ActionCases, <1>1, <1>2, <1>3, <1>4, <1>5, <1>6, <1>7, <1>8, <1>9, Zenon
-----------------------------------------------------------------------------
(***************************************************************************)
(* The operations of the store                                             *)
(***************************************************************************)

\* What most actions leave alone.
Quiet == UNCHANGED <<window, exit, jobs, held, failed, history>>

LEMMA QuietKeeps ==
    ASSUME IInv, Quiet
    PROVE  \A m \in Launches : InTurn(m)' /\ ReadyTrue(m)' /\ StateTrue(m)'
  BY DEF IInv, Quiet, InTurn, Turn, Queued, ReadyTrue, Shown, StateTrue

LEMMA QuietActions ==
    ASSUME \/ Spawn \/ SaveChanged
           \/ \E l \in Launches :
                \/ BeginFails(l) \/ PruneList(l) \/ Attach(l) \/ Kill(l) \/ GameLog(l)
                \/ \E d \in doomed[l] : PruneFails(l, d)
    PROVE  Quiet
  BY DEF Quiet, Spawn, SaveChanged, BeginFails, PruneList, Attach, Kill, GameLog, PruneFails,
         worldVars, processVars, beginVars, jobVars, exitVars, diskVars

LEMMA InTurnStep ==
    ASSUME IInv, Next
    PROVE  \A m \in Launches : InTurn(m)'
<1> USE DEF worldVars, processVars, beginVars, jobVars, exitVars, diskVars
<1>0. \A m \in Launches : InTurn(m) /\ Early(m)
  BY DEF IInv
<1>A. /\ DOMAIN exit = Launches /\ DOMAIN window = Launches
      /\ jobs \in [Launches -> JobQueues]
      /\ held \in [Launches -> [Jobs -> Held \union {None}]]
  BY DEF IInv, TypeOK
<1>1. CASE Quiet
  BY <1>1, QuietKeeps
<1>2. ASSUME Restart PROVE \A m \in Launches : InTurn(m)'
  BY <1>2, QueueCases DEF Restart, InTurn, Queued, Jobs
<1>3. ASSUME UNCHANGED <<window, exit, jobs, held>> PROVE \A m \in Launches : InTurn(m)'
  BY <1>0, <1>3 DEF InTurn, Turn, Queued
<1>4. ASSUME NEW l \in Launches, BeginWrite(l) \/ \E d \in doomed[l] : PruneRemove(l, d)
      PROVE  \A m \in Launches : InTurn(m)'
  BY <1>3, <1>4 DEF BeginWrite, PruneRemove
<1>5. ASSUME NEW l \in Launches, GameExit(l) PROVE \A m \in Launches : InTurn(m)'
  <2>1. UNCHANGED <<window, jobs, held>>
    BY <1>5 DEF GameExit
  <2>2. \A m \in Launches : exit'[m] = exit[m] \/ exit[m] = "no"
    BY <1>0, <1>A, <1>5 DEF GameExit, Early
  <2>3. \A m \in Launches : exit[m] = "completing" => exit'[m] = "completing"
    BY <2>2
  <2> QED
    BY <1>0, <2>1, <2>3 DEF InTurn, Turn, Queued
<1>6. ASSUME NEW l \in Launches, NEW j \in Jobs, ~Queued(l, j),
             jobs' = [jobs EXCEPT ![l] = Append(@, j)], held' = held,
             \A m \in Launches : m # l => exit'[m] = exit[m] /\ window'[m] = window[m],
             j = "complete" => exit'[l] = "completing" /\ window'[l] = window[l],
             j = "ready" => window'[l] = "seen" /\ exit'[l] = exit[l]
      PROVE  \A m \in Launches : InTurn(m)'
  <2>1. \A m \in Launches : m # l => jobs'[m] = jobs[m]
    BY <1>A, <1>6
  <2>2. jobs'[l] = Append(jobs[l], j) /\ jobs[l] \in JobQueues
    BY <1>A, <1>6
  <2>3. /\ \A i \in Jobs : i # j => (Append(jobs[l], j) \in With(i) <=> jobs[l] \in With(i))
        /\ Append(jobs[l], j) # <<>>
        /\ jobs[l] # <<>> => Head(Append(jobs[l], j)) = Head(jobs[l])
    BY <1>6, <2>2, QueueAppend DEF Queued
  <2>4. \A i \in Jobs : Turn(l, i) => Turn(l, i)'
    BY <2>2, <2>3 DEF Turn
  <2>5. \A m \in Launches : m # l => InTurn(m)'
    BY <1>0, <1>6, <2>1 DEF InTurn, Turn, Queued
  <2>6. InTurn(l)'
    <3>1. \A i \in Jobs : held'[l][i] # None => Turn(l, i)'
      BY <1>0, <1>6, <2>4 DEF InTurn
    <3>2. j = "ready" \/ j = "complete"
      BY DEF Jobs
    <3>3. CASE j = "ready"
      BY <1>0, <1>6, <2>2, <2>3, <3>1, <3>3 DEF InTurn, Queued, Jobs
    <3>4. CASE j = "complete"
      BY <1>0, <1>6, <2>2, <2>3, <3>1, <3>4 DEF InTurn, Queued, Jobs
    <3> QED
      BY <3>2, <3>3, <3>4
  <2> QED
    BY <2>5, <2>6
<1>7. ASSUME NEW l \in Launches, WindowReady(l) PROVE \A m \in Launches : InTurn(m)'
  <2>0. ~Queued(l, "ready") /\ "ready" \in Jobs /\ "ready" # "complete"
    BY <1>0, <1>7 DEF WindowReady, InTurn, Jobs
  <2>1. CASE step[l] = "attached"
    BY <1>A, <1>6, <1>7, <2>0, <2>1 DEF WindowReady
  <2>2. CASE step[l] # "attached"
    <3>1. UNCHANGED <<exit, jobs, held>> /\ window[l] = "no"
      BY <1>7, <2>2 DEF WindowReady
    <3>2. \A m \in Launches : m # l => window'[m] = window[m]
      BY <1>A, <1>7, <2>2 DEF WindowReady
    <3> QED
      BY <1>0, <3>1, <3>2 DEF InTurn, Turn, Queued
  <2> QED
    BY <2>1, <2>2
<1>8. ASSUME NEW l \in Launches, Resolve(l) PROVE \A m \in Launches : InTurn(m)'
  <2>0. ~Queued(l, "complete") /\ "complete" \in Jobs /\ "ready" # "complete"
    BY <1>0, <1>8 DEF Resolve, InTurn, Jobs
  <2>1. /\ jobs' = [jobs EXCEPT ![l] = Append(@, "complete")] /\ held' = held
        /\ window' = window /\ exit' = [exit EXCEPT ![l] = "completing"]
    BY <1>8 DEF Resolve
  <2> QED
    BY <1>A, <1>6, <2>0, <2>1
<1>9. ASSUME NEW l \in Launches, Report(l) PROVE \A m \in Launches : InTurn(m)'
  BY <1>0, <1>A, <1>9 DEF Report, InTurn, Turn, Queued
<1>10. ASSUME NEW l \in Launches, JobCopy(l) PROVE \A m \in Launches : InTurn(m)'
  <2>1. UNCHANGED <<window, exit, jobs>> /\ held[l]["complete"] # None
    BY <1>10 DEF JobCopy
  <2>2. PICK h \in Held : held' = [held EXCEPT ![l] = [@ EXCEPT !["complete"] = h]]
    <3>1. held[l]["complete"] \in Held
      BY <1>A, <2>1 DEF Jobs
    <3>2. [held[l]["complete"] EXCEPT !.copied = TRUE] \in Held
      BY <3>1 DEF Held
    <3> QED
      BY <1>10, <3>2 DEF JobCopy
  <2>3. \A m \in Launches : \A i \in Jobs : held'[m][i] # None => held[m][i] # None
    BY <1>A, <2>1, <2>2
  <2> QED
    BY <1>0, <2>1, <2>3 DEF InTurn, Turn, Queued
<1>11. ASSUME NEW l \in Launches, NEW j \in Jobs, Turn(l, j), Ended(l, j), UNCHANGED window
       PROVE  \A m \in Launches : InTurn(m)'
  <2>1. \A m \in Launches : m # l => InTurn(m)'
    BY <1>0, <1>11, EndedMoves DEF InTurn, Turn, Queued
  <2>2. InTurn(l)'
    <3>1. \A i \in Jobs : held'[l][i] = None
      BY <1>11, EndedMoves
    <3>2. j = "ready" \/ j = "complete"
      BY DEF Jobs
    <3>3. CASE j = "ready"
      BY <1>0, <1>11, <3>1, <3>3, EndedMoves DEF InTurn, Queued, Jobs
    <3>4. CASE j = "complete"
      BY <1>0, <1>11, <3>1, <3>4, EndedMoves DEF InTurn, Queued, Jobs
    <3> QED
      BY <3>2, <3>3, <3>4
  <2> QED
    BY <2>1, <2>2
<1>12. ASSUME NEW l \in Launches, NEW j \in Jobs, JobRead(l, j) \/ JobWrite(l, j) \/ JobFails(l, j)
       PROVE  \A m \in Launches : InTurn(m)'
  <2>1. Turn(l, j) /\ UNCHANGED window
    BY <1>12, JobTurn DEF JobRead, JobWrite, JobFails
  <2>2. CASE Ended(l, j)
    BY <1>11, <2>1, <2>2
  <2>3. CASE JobRead(l, j) /\ history[l] # None
    <3>1. UNCHANGED <<jobs, exit>>
      BY <2>3 DEF JobRead
    <3>2. \A m \in Launches : \A i \in Jobs :
            held'[m][i] # None => held[m][i] # None \/ (m = l /\ i = j)
      BY <1>A, <2>3 DEF JobRead
    <3>3. \A m \in Launches : \A i \in Jobs : Turn(m, i)' <=> Turn(m, i)
      BY <3>1 DEF Turn
    <3> QED
      BY <1>0, <2>1, <3>1, <3>2, <3>3 DEF InTurn, Queued
  <2> QED
    BY <1>12, <2>2, <2>3 DEF JobRead, JobWrite, JobFails
<1> QED
  BY ActionCases, QuietActions, <1>1, <1>2, <1>4, <1>5, <1>7, <1>8, <1>9, <1>10, <1>12, Zenon

\* What a job takes up and writes is a record; the other launches keep theirs.
LEMMA JobRecords ==
    ASSUME IInv, NEW l \in Launches, NEW j \in Jobs
    PROVE  /\ JobRead(l, j) /\ history[l] # None =>
                /\ held'[l][j].record = history[l]
                /\ \A i \in Jobs : i # j => held'[l][i] = held[l][i]
                /\ \A m \in Launches : m # l => held'[m] = held[m]
           /\ JobWrite(l, j) =>
                /\ history'[l] = Changed(j, held[l][j].record)
                /\ held[l][j].record \in Records
                /\ \A m \in Launches : m # l => history'[m] = history[m]
<1>1. /\ held \in [Launches -> [Jobs -> Held \union {None}]]
      /\ history \in [Launches -> Records \union {None}]
  BY DEF IInv, TypeOK
<1>2. ASSUME JobRead(l, j), history[l] # None
      PROVE  /\ held'[l][j].record = history[l]
             /\ \A i \in Jobs : i # j => held'[l][i] = held[l][i]
             /\ \A m \in Launches : m # l => held'[m] = held[m]
  <2>1. PICK h : h = [record |-> history[l], copied |-> j = "ready"]
    OBVIOUS
  <2>2. held' = [held EXCEPT ![l] = [@ EXCEPT ![j] = h]]
    BY <1>2, <2>1 DEF JobRead
  <2>3. h.record = history[l]
    BY <2>1
  <2>4. held[l] \in [Jobs -> Held \union {None}] /\ held'[l] = [held[l] EXCEPT ![j] = h]
    BY <1>1, <2>2
  <2>5. held'[l][j] = h /\ \A i \in Jobs : i # j => held'[l][i] = held[l][i]
    BY <2>4
  <2>6. \A m \in Launches : m # l => held'[m] = held[m]
    BY <1>1, <2>2
  <2> QED
    BY <2>3, <2>5, <2>6
<1>3. ASSUME JobWrite(l, j)
      PROVE  /\ history'[l] = Changed(j, held[l][j].record)
             /\ held[l][j].record \in Records
             /\ \A m \in Launches : m # l => history'[m] = history[m]
  <2>1. history' = [history EXCEPT ![l] = Changed(j, held[l][j].record)]
    BY <1>3 DEF JobWrite
  <2>2. held[l][j] \in Held
    BY <1>1, <1>3 DEF JobWrite
  <2> QED
    BY <1>1, <2>1, <2>2 DEF Held
<1> QED
  BY <1>2, <1>3

LEMMA CopyRecords ==
    ASSUME IInv, NEW l \in Launches, JobCopy(l)
    PROVE  \A m \in Launches : \A i \in Jobs :
             held'[m][i] # None => held[m][i] # None /\ held'[m][i].record = held[m][i].record
<1>1. held \in [Launches -> [Jobs -> Held \union {None}]] /\ "complete" \in Jobs
  BY DEF IInv, TypeOK, Jobs
<1>2. PICK g \in Held : g = held[l]["complete"]
  BY <1>1 DEF JobCopy
<1>3. PICK h : h = [g EXCEPT !.copied = TRUE]
  OBVIOUS
<1>4. h.record = g.record
  BY <1>3 DEF Held
<1>5. held' = [held EXCEPT ![l] = [@ EXCEPT !["complete"] = h]] /\ held[l]["complete"] # None
  BY <1>2, <1>3 DEF JobCopy
<1>6. \A m \in Launches : m # l => held'[m] = held[m]
  BY <1>1, <1>5
<1>7. held[l] \in [Jobs -> Held \union {None}] /\ held'[l] = [held[l] EXCEPT !["complete"] = h]
  BY <1>1, <1>5
<1>8. held'[l]["complete"] = h /\ \A i \in Jobs : i # "complete" => held'[l][i] = held[l][i]
  BY <1>1, <1>7
<1> QED
  BY <1>2, <1>4, <1>5, <1>6, <1>8

LEMMA ReadyStep ==
    ASSUME IInv, Next
    PROVE  \A m \in Launches : ReadyTrue(m)'
<1> USE DEF worldVars, processVars, beginVars, jobVars, exitVars, diskVars
<1>0. \A m \in Launches : InTurn(m) /\ Early(m) /\ ReadyTrue(m)
  BY DEF IInv
<1>A. /\ DOMAIN window = Launches
      /\ jobs \in [Launches -> JobQueues]
      /\ history \in [Launches -> Records \union {None}]
      /\ failed \subseteq Launches
  BY DEF IInv, TypeOK
<1>1. CASE Quiet
  BY <1>1, QuietKeeps
<1>2. ASSUME Restart PROVE \A m \in Launches : ReadyTrue(m)'
  <2>1. TAKE m \in Launches
  <2>2. CASE jobs[m] = <<>>
    <3>1. ~Queued(m, "ready") /\ ~Queued(m, "ready")'
      BY <1>2, <2>2, QueueCases DEF Restart, Queued
    <3> QED
      BY <1>0, <1>2, <3>1 DEF Restart, ReadyTrue, Shown
  <2>3. CASE jobs[m] # <<>>
    BY <1>2, <2>3 DEF Restart, ReadyTrue
  <2> QED
    BY <2>2, <2>3
<1>3. ASSUME NEW l \in Launches, BeginWrite(l) PROVE \A m \in Launches : ReadyTrue(m)'
  <2>1. window[l] # "seen" /\ jobs[l] = <<>>
    BY <1>0, <1>3 DEF BeginWrite, Early
  <2>2. \A i \in Jobs : held[l][i] = None
    BY <1>0, <2>1 DEF InTurn, Turn
  <2>3. UNCHANGED <<window, jobs, held, failed>>
    BY <1>3 DEF BeginWrite
  <2>4. /\ history'[l] = [state |-> "running", ready |-> FALSE]
        /\ \A m \in Launches : m # l => history'[m] = history[m]
    BY <1>A, <1>3 DEF BeginWrite
  <2>5. ~(history'[l].ready)
    BY <2>4
  <2> QED
    BY <1>0, <2>1, <2>2, <2>3, <2>4, <2>5 DEF ReadyTrue, Shown, Queued
<1>4. ASSUME NEW l \in Launches, NEW d \in doomed[l], PruneRemove(l, d)
      PROVE  \A m \in Launches : ReadyTrue(m)'
  <2>1. UNCHANGED <<window, jobs, held, failed>>
    BY <1>4 DEF PruneRemove
  <2>2. \A m \in Launches : history'[m] \in {history[m], None}
    BY <1>A, <1>4 DEF PruneRemove
  <2> QED
    BY <1>0, <2>1, <2>2 DEF ReadyTrue, Shown, Queued
<1>5. ASSUME NEW l \in Launches, WindowReady(l) PROVE \A m \in Launches : ReadyTrue(m)'
  <2>0. UNCHANGED <<held, history, failed>> /\ window[l] = "no"
    BY <1>5 DEF WindowReady
  <2>1. \A m \in Launches : m # l => window'[m] = window[m] /\ jobs'[m] = jobs[m]
    BY <1>A, <1>5 DEF WindowReady
  <2>2. ~Shown(l)
    BY <2>0 DEF Shown
  <2>3. ~Shown(l)'
    <3>1. CASE step[l] = "attached"
      <4>1. jobs[l] \in JobQueues /\ jobs[l] \notin With("ready") /\ "ready" \in Jobs
        BY <1>0, <1>A, <2>0 DEF InTurn, Queued, Jobs
      <4>2. jobs'[l] = Append(jobs[l], "ready")
        BY <1>A, <1>5, <3>1 DEF WindowReady
      <4> QED
        BY <4>1, <4>2, QueueAppend DEF Shown, Queued
    <3>2. CASE step[l] # "attached"
      BY <1>A, <1>5, <3>2 DEF WindowReady, Shown
    <3> QED
      BY <3>1, <3>2
  <2>4. \A m \in Launches : Shown(m)' <=> Shown(m)
    BY <2>1, <2>2, <2>3 DEF Shown, Queued
  <2> QED
    BY <1>0, <2>0, <2>4 DEF ReadyTrue
<1>6. ASSUME NEW l \in Launches, GameExit(l) \/ Report(l)
      PROVE  \A m \in Launches : ReadyTrue(m)'
  BY <1>0, <1>6 DEF GameExit, Report, ReadyTrue, Shown, Queued
<1>7. ASSUME NEW l \in Launches, Resolve(l) PROVE \A m \in Launches : ReadyTrue(m)'
  <2>1. UNCHANGED <<window, held, history, failed>>
    BY <1>7 DEF Resolve
  <2>2. jobs[l] \in JobQueues /\ jobs[l] \notin With("complete")
    BY <1>0, <1>A, <1>7 DEF Resolve, InTurn, Queued
  <2>3. /\ jobs'[l] = Append(jobs[l], "complete")
        /\ \A m \in Launches : m # l => jobs'[m] = jobs[m]
    BY <1>A, <1>7 DEF Resolve
  <2>4. Append(jobs[l], "complete") \in With("ready") <=> jobs[l] \in With("ready")
    BY <2>2, QueueAppend DEF Jobs
  <2>5. \A m \in Launches : Shown(m)' <=> Shown(m)
    BY <2>1, <2>3, <2>4 DEF Shown, Queued
  <2> QED
    BY <1>0, <2>1, <2>5 DEF ReadyTrue
<1>8. ASSUME NEW l \in Launches, JobCopy(l) PROVE \A m \in Launches : ReadyTrue(m)'
  <2>1. UNCHANGED <<window, jobs, history, failed>>
    BY <1>8 DEF JobCopy
  <2> QED
    BY <1>0, <1>8, <2>1, CopyRecords DEF ReadyTrue, Shown, Queued
<1>9. ASSUME NEW l \in Launches, NEW j \in Jobs, JobRead(l, j) \/ JobWrite(l, j) \/ JobFails(l, j)
      PROVE  \A m \in Launches : ReadyTrue(m)'
  <2>0. Turn(l, j) /\ UNCHANGED window
    BY <1>9, JobTurn DEF JobRead, JobWrite, JobFails
  <2>1. CASE JobRead(l, j) /\ history[l] # None
    <3>1. UNCHANGED <<window, jobs, history, failed>>
      BY <2>1 DEF JobRead
    <3> QED
      BY <1>0, <2>1, <3>1, JobRecords DEF ReadyTrue, Shown, Queued
  <2>2. CASE JobRead(l, j) /\ history[l] = None
    <3>1. Ended(l, j) /\ UNCHANGED <<history, failed>>
      BY <2>2 DEF JobRead
    <3> QED
      BY <1>0, <2>0, <2>2, <3>1, EndedMoves DEF ReadyTrue, Shown, Queued
  <2>3. CASE JobWrite(l, j)
    <3>1. Ended(l, j) /\ UNCHANGED failed /\ held[l][j] # None
      BY <2>3 DEF JobWrite
    <3>2. \A m \in Launches : m # l => ReadyTrue(m)'
      BY <1>0, <2>0, <2>3, <3>1, EndedMoves, JobRecords DEF ReadyTrue, Shown, Queued
    <3>3. history'[l] = Changed(j, held[l][j].record) /\ held[l][j].record \in Records
      BY <2>3, JobRecords
    <3>4. l \notin failed => (history'[l].ready <=> Shown(l)')
      <4>1. CASE j = "ready"
        <5>1. Shown(l)'
          BY <1>0, <2>0, <3>1, <4>1, EndedMoves DEF InTurn, Shown, Queued
        <5>2. history'[l].ready
          BY <3>3, <4>1 DEF Changed, Records
        <5> QED
          BY <5>1, <5>2
      <4>2. CASE j = "complete"
        <5>1. Shown(l)' <=> Shown(l)
          BY <2>0, <3>1, <4>2, EndedMoves DEF Shown, Queued, Jobs
        <5>2. history'[l].ready = held[l][j].record.ready
          BY <3>3, <4>2 DEF Changed, Records
        <5>3. l \notin failed => (held[l][j].record.ready <=> Shown(l))
          BY <1>0, <3>1 DEF ReadyTrue
        <5> QED
          BY <5>1, <5>2, <5>3
      <4> QED
        BY <4>1, <4>2 DEF Jobs
    <3>5. ReadyTrue(l)'
      BY <2>0, <3>1, <3>4, EndedMoves DEF ReadyTrue
    <3> QED
      BY <3>2, <3>5
  <2>4. CASE JobFails(l, j)
    <3>1. Ended(l, j) /\ UNCHANGED history /\ failed' = failed \union {l}
      BY <2>4 DEF JobFails
    <3> QED
      BY <1>0, <2>0, <3>1, EndedMoves DEF ReadyTrue, Shown, Queued
  <2> QED
    BY <1>9, <2>1, <2>2, <2>3, <2>4
<1> QED
  BY ActionCases, QuietActions, <1>1, <1>2, <1>3, <1>4, <1>5, <1>6, <1>7, <1>8, <1>9, Zenon

LEMMA StateStep ==
    ASSUME IInv, Next
    PROVE  \A m \in Launches : StateTrue(m)'
<1> USE DEF worldVars, processVars, beginVars, jobVars, exitVars, diskVars
<1>0. \A m \in Launches : InTurn(m) /\ Early(m) /\ StateTrue(m)
  BY DEF IInv
<1>A. /\ DOMAIN exit = Launches
      /\ history \in [Launches -> Records \union {None}]
      /\ "ready" \in Jobs /\ "complete" \in Jobs
  BY DEF IInv, TypeOK, Jobs
<1>1. CASE Quiet
  BY <1>1, QuietKeeps
<1>2. ASSUME Restart PROVE \A m \in Launches : StateTrue(m)'
  <2>1. \A m \in Launches : held'[m]["ready"] = None
    BY <1>2, <1>A DEF Restart
  <2>2. \A m \in Launches : exit'[m] \in {"report", "reported"} => exit'[m] = exit[m]
    BY <1>2 DEF Restart
  <2>3. history' = history /\ failed \subseteq failed'
    BY <1>2 DEF Restart
  <2> QED
    BY <1>0, <2>1, <2>2, <2>3 DEF StateTrue
<1>3. ASSUME NEW l \in Launches, BeginWrite(l) PROVE \A m \in Launches : StateTrue(m)'
  <2>1. exit[l] \in {"no", "lost"}
    BY <1>0, <1>3 DEF BeginWrite, Early
  <2>2. /\ UNCHANGED <<exit, held, failed>>
        /\ \A m \in Launches : m # l => history'[m] = history[m]
    BY <1>A, <1>3 DEF BeginWrite
  <2> QED
    BY <1>0, <2>1, <2>2 DEF StateTrue
<1>4. ASSUME NEW l \in Launches, NEW d \in doomed[l], PruneRemove(l, d)
      PROVE  \A m \in Launches : StateTrue(m)'
  <2>1. UNCHANGED <<exit, held, failed>>
    BY <1>4 DEF PruneRemove
  <2>2. \A m \in Launches : history'[m] \in {history[m], None}
    BY <1>A, <1>4 DEF PruneRemove
  <2> QED
    BY <1>0, <2>1, <2>2 DEF StateTrue
<1>5. ASSUME NEW l \in Launches, WindowReady(l) PROVE \A m \in Launches : StateTrue(m)'
  BY <1>0, <1>5 DEF WindowReady, StateTrue
<1>6. ASSUME NEW l \in Launches, GameExit(l) PROVE \A m \in Launches : StateTrue(m)'
  <2>1. UNCHANGED <<held, failed, history>>
    BY <1>6 DEF GameExit
  <2>2. \A m \in Launches : exit'[m] \in {exit[m], "resolve", "lost"}
    BY <1>A, <1>6 DEF GameExit, ExitSeen
  <2> QED
    BY <1>0, <2>1, <2>2 DEF StateTrue
<1>7. ASSUME NEW l \in Launches, Resolve(l) \/ Report(l)
      PROVE  \A m \in Launches : StateTrue(m)'
  <2>1. UNCHANGED <<held, failed, history>>
    BY <1>7 DEF Resolve, Report
  <2>2. \A m \in Launches :
          exit'[m] \in {"report", "reported"} => exit[m] \in {"report", "reported"}
    BY <1>A, <1>7 DEF Resolve, Report
  <2> QED
    BY <1>0, <2>1, <2>2 DEF StateTrue
<1>8. ASSUME NEW l \in Launches, JobCopy(l) PROVE \A m \in Launches : StateTrue(m)'
  <2>1. UNCHANGED <<exit, history, failed>>
    BY <1>8 DEF JobCopy
  <2> QED
    BY <1>0, <1>8, <1>A, <2>1, CopyRecords DEF StateTrue
<1>9. ASSUME NEW l \in Launches, NEW j \in Jobs, JobRead(l, j) \/ JobWrite(l, j) \/ JobFails(l, j)
      PROVE  \A m \in Launches : StateTrue(m)'
  <2>0. Turn(l, j)
    BY <1>9, JobTurn
  <2>1. CASE JobRead(l, j) /\ history[l] # None
    <3>1. UNCHANGED <<exit, history, failed>>
      BY <2>1 DEF JobRead
    <3>2. \A m \in Launches : m # l => StateTrue(m)'
      BY <1>0, <1>A, <2>1, <3>1, JobRecords DEF StateTrue
    <3>3. held'[l]["ready"] = held[l]["ready"] \/ held'[l]["ready"].record = history[l]
      BY <1>A, <2>1, JobRecords
    <3> QED
      BY <1>0, <2>1, <3>1, <3>2, <3>3 DEF StateTrue
  <2>2. CASE JobRead(l, j) /\ history[l] = None
    <3>1. Ended(l, j) /\ UNCHANGED <<history, failed>>
      BY <2>2 DEF JobRead
    <3> QED
      BY <1>0, <1>A, <2>0, <2>2, <3>1, EndedMoves DEF StateTrue
  <2>3. CASE JobWrite(l, j)
    <3>1. Ended(l, j) /\ UNCHANGED failed /\ held[l][j] # None
      BY <2>3 DEF JobWrite
    <3>2. \A m \in Launches : m # l => StateTrue(m)'
      BY <1>0, <1>A, <2>0, <2>3, <3>1, EndedMoves, JobRecords DEF StateTrue
    <3>3. history'[l] = Changed(j, held[l][j].record) /\ held[l][j].record \in Records
      BY <2>3, JobRecords
    <3>4. CASE j = "complete"
      <4>1. history'[l].state = "exited"
        BY <3>3, <3>4 DEF Changed, Records
      <4>2. held'[l]["ready"] = None
        BY <1>A, <2>0, <3>1, EndedMoves
      <4> QED
        BY <3>2, <4>1, <4>2 DEF StateTrue
    <3>5. CASE j = "ready"
      <4>1. history'[l].state = held[l]["ready"].record.state
        BY <3>3, <3>5 DEF Changed, Records
      <4>2. held'[l]["ready"] = None /\ exit'[l] = exit[l]
        BY <1>A, <2>0, <3>1, <3>5, EndedMoves
      <4> QED
        BY <1>0, <3>1, <3>2, <3>5, <4>1, <4>2 DEF StateTrue
    <3> QED
      BY <3>4, <3>5 DEF Jobs
  <2>4. CASE JobFails(l, j)
    <3>1. Ended(l, j) /\ UNCHANGED history /\ failed' = failed \union {l}
      BY <2>4 DEF JobFails
    <3> QED
      BY <1>0, <1>A, <2>0, <3>1, EndedMoves DEF StateTrue
  <2> QED
    BY <1>9, <2>1, <2>2, <2>3, <2>4
<1> QED
  BY ActionCases, QuietActions, <1>1, <1>2, <1>3, <1>4, <1>5, <1>6, <1>7, <1>8, <1>9, Zenon
-----------------------------------------------------------------------------
(***************************************************************************)
(* Pruning                                                                 *)
(***************************************************************************)

LEMMA FiniteNewer ==
    ASSUME NEW S \in SUBSET Launches
    PROVE  IsFiniteSet(S) /\ Cardinality(S) \in Nat
<1>1. IsFiniteSet(Launches)
  BY BoundsAssumption, FS_Interval DEF Launches
<1> QED
  BY <1>1, FS_Subset, FS_CardinalityType

\* The newer records of d are as many as before, or more, if no record is
\* removed but d and those older than it.
LEMMA NewerGrows ==
    ASSUME NEW S \in SUBSET Launches, NEW T \in SUBSET Launches, S \subseteq T,
           Cardinality(S) >= Kept
    PROVE  Cardinality(T) >= Kept
<1>1. IsFiniteSet(T) /\ Cardinality(T) \in Nat /\ Cardinality(S) \in Nat
  BY FiniteNewer
<1>2. Cardinality(S) <= Cardinality(T)
  BY <1>1, FS_Subset
<1> QED
  BY <1>1, <1>2, BoundsAssumption

\* Only PruneRemove takes a record away, and it takes a doomed one.
LEMMA Removals ==
    ASSUME IInv, Next, NEW d \in Launches, history[d] # None, history'[d] = None
    PROVE  \E l \in Launches : d \in doomed[l] /\ PruneRemove(l, d)
<1> USE DEF worldVars, processVars, beginVars, jobVars, exitVars, diskVars
<1>0. history \in [Launches -> Records \union {None}] /\ None \notin Records
  BY NoneAssumption DEF IInv, TypeOK
<1>1. CASE history' = history
  BY <1>1
<1>2. ASSUME NEW l \in Launches, BeginWrite(l) PROVE FALSE
  <2>1. [state |-> "running", ready |-> FALSE] \in Records
    BY DEF Records
  <2> QED
    BY <1>0, <1>2, <2>1 DEF BeginWrite
<1>3. ASSUME NEW l \in Launches, NEW e \in doomed[l], PruneRemove(l, e)
      PROVE  d = e
  BY <1>0, <1>3 DEF PruneRemove
<1>4. ASSUME NEW l \in Launches, NEW j \in Jobs, JobWrite(l, j) PROVE FALSE
  <2>1. PICK r \in Records : r = held[l][j].record
    BY <1>4, JobRecords
  <2>2. Changed(j, r) \in Records
    BY DEF Changed, Records
  <2>3. history'[l] = Changed(j, r) /\ \A m \in Launches : m # l => history'[m] = history[m]
    BY <1>4, <2>1, JobRecords
  <2> QED
    BY <1>0, <2>2, <2>3
<1>5. ASSUME NEW l \in Launches,
             \/ BeginFails(l) \/ PruneList(l) \/ Attach(l) \/ Kill(l) \/ GameLog(l)
             \/ WindowReady(l) \/ GameExit(l) \/ Resolve(l) \/ JobCopy(l) \/ Report(l)
             \/ (\E e \in doomed[l] : PruneFails(l, e))
             \/ (\E j \in Jobs : JobRead(l, j) \/ JobFails(l, j))
      PROVE  history' = history
  BY <1>5 DEF BeginFails, PruneList, Attach, Kill, GameLog, WindowReady, GameExit, Resolve, JobCopy,
     Report, PruneFails, JobRead, JobFails
<1>6. ASSUME Spawn \/ SaveChanged \/ Restart PROVE history' = history
  BY <1>6 DEF Spawn, SaveChanged, Restart
<1> QED
  BY ActionCases, <1>1, <1>2, <1>3, <1>4, <1>5, <1>6, Zenon

LEMMA DoomedStep ==
    ASSUME IInv, Next
    PROVE  DoomedOld'
<1> USE DEF worldVars, processVars, beginVars, jobVars, exitVars, diskVars
<1>0. DoomedOld /\ doomed \in [Launches -> SUBSET Launches]
  BY DEF IInv, TypeOK
<1>A. \A d \in Launches : Newer(d) \in SUBSET Launches /\ Newer(d)' \in SUBSET Launches
  BY DEF Newer, Recorded
<1>1. ASSUME NEW e \in Launches, Cardinality(Newer(e)) >= Kept
      PROVE  Cardinality(Newer(e)') >= Kept
  <2>1. CASE Newer(e) \subseteq Newer(e)'
    BY <1>1, <1>A, <2>1, NewerGrows
  <2>2. CASE ~(Newer(e) \subseteq Newer(e)')
    <3>1. PICK d \in Launches : d > e /\ history[d] # None /\ history'[d] = None
      BY <2>2 DEF Newer, Recorded
    <3>2. PICK l \in Launches : d \in doomed[l] /\ PruneRemove(l, d)
      BY <3>1, Removals
    <3>3. Cardinality(Newer(d)) >= Kept
      BY <1>0, <3>2 DEF DoomedOld
    <3>4. \A m \in Launches : m # d => history'[m] = history[m]
      BY <3>2 DEF IInv, TypeOK, PruneRemove
    <3>5. Newer(d) \subseteq Newer(e)'
      BY <3>1, <3>4 DEF Newer, Recorded, Launches
    <3> QED
      BY <1>A, <3>3, <3>5, NewerGrows
  <2> QED
    BY <2>1, <2>2
<1>2. CASE \A l \in Launches : doomed'[l] \subseteq doomed[l]
  BY <1>0, <1>1, <1>2 DEF DoomedOld
<1>3. ASSUME NEW l \in Launches, PruneList(l) PROVE DoomedOld'
  <2>1. doomed' = [doomed EXCEPT ![l] = Outdated]
    BY <1>3 DEF PruneList
  <2>2. \A d \in Outdated : d \in Launches /\ Cardinality(Newer(d)) >= Kept
    BY DEF Outdated, Recorded
  <2>3. \A m \in Launches : \A d \in doomed'[m] :
          d \in Launches /\ Cardinality(Newer(d)) >= Kept
    BY <1>0, <2>1, <2>2 DEF DoomedOld
  <2> QED
    BY <1>1, <2>3 DEF DoomedOld
<1>4. ASSUME NEW l \in Launches, NEW d \in doomed[l], PruneRemove(l, d) \/ PruneFails(l, d)
      PROVE  \A m \in Launches : doomed'[m] \subseteq doomed[m]
  BY <1>0, <1>4 DEF PruneRemove, PruneFails
<1>5. ASSUME NEW l \in Launches,
             \/ BeginWrite(l) \/ BeginFails(l) \/ Attach(l) \/ Kill(l) \/ GameLog(l)
             \/ WindowReady(l) \/ GameExit(l) \/ Resolve(l) \/ JobCopy(l) \/ Report(l)
             \/ (\E j \in Jobs : JobRead(l, j) \/ JobWrite(l, j) \/ JobFails(l, j))
      PROVE  doomed' = doomed
  BY <1>5 DEF BeginWrite, BeginFails, Attach, Kill, GameLog, WindowReady, GameExit, Resolve, JobCopy,
     Report, JobRead, JobWrite, JobFails
<1>6. ASSUME Spawn \/ SaveChanged PROVE doomed' = doomed
  BY <1>6 DEF Spawn, SaveChanged
<1>7. ASSUME Restart PROVE \A m \in Launches : doomed'[m] \subseteq doomed[m]
  BY <1>7 DEF Restart
<1> QED
  BY ActionCases, <1>2, <1>3, <1>4, <1>5, <1>6, <1>7, Zenon
-----------------------------------------------------------------------------
(***************************************************************************)
(* The theorems                                                            *)
(***************************************************************************)

LEMMA StutterInv ==
    ASSUME IInv, UNCHANGED vars
    PROVE  IInv'
<1> USE DEF vars, worldVars, processVars, beginVars, jobVars, exitVars, diskVars
<1>1. TypeOK'
  BY DEF IInv, TypeOK
<1>2. (\A l \in Launches : Early(l)') /\ TrackedRuns' /\ LogAlone' /\ SavesFlushed'
  BY DEF IInv, Early, TrackedRuns, LogAlone, SavesFlushed
<1>3. \A l \in Launches : InTurn(l)' /\ ReadyTrue(l)' /\ StateTrue(l)'
  BY QuietKeeps DEF Quiet
<1>4. DoomedOld'
  BY DEF IInv, DoomedOld, Newer, Recorded
<1> QED
  BY <1>1, <1>2, <1>3, <1>4 DEF IInv

\* The inductive invariant: which game is listened to and tracked, whose log
\* passes, which operation has its turn, what the records know, which of them
\* are doomed.
THEOREM Invariance == Spec => []IInv
<1>1. Init => IInv
  BY InitInv
<1>2. IInv /\ [Next]_vars => IInv'
  <2> SUFFICES ASSUME IInv, [Next]_vars PROVE IInv'
    OBVIOUS
  <2>1. CASE Next
    BY <2>1, TypeStep, EarlyStep, TrackedStep, LogStep, SavesStep, InTurnStep, ReadyStep, StateStep,
       DoomedStep, Zenon DEF IInv
  <2>2. CASE UNCHANGED vars
    BY <2>2, StutterInv
  <2> QED
    BY <2>1, <2>2
<1> QED
  BY <1>1, <1>2, PTL DEF Spec

\* Every variable keeps its type, whatever operations are queued and cut off.
THEOREM TypeCorrect == Spec => []TypeOK
<1>1. IInv => TypeOK
  BY DEF IInv
<1> QED
  BY <1>1, Invariance, PTL

\* The log that is kept for a launch is not that of a game that was tracked at
\* the same time: gameLogAmbiguous is set on both before either is archived.
THEOREM LogsOwn == Spec => []OwnGameLog
<1>1. IInv => OwnGameLog
  <2> SUFFICES ASSUME IInv, NEW l \in Launches, NEW m \in Launches, archive[l] = m, <<l, m>> \in met
               PROVE  FALSE
    BY DEF OwnGameLog
  <2>1. archive[l] # None
    BY NoneAssumption DEF Launches
  <2> QED
    BY <2>1 DEF IInv, LogAlone
<1> QED
  BY <1>1, Invariance, PTL

\* What LaunchHistoryStore.update is for: once the exit is reported and nothing
\* is queued, the record is complete.
THEOREM RecordsTrue == Spec => []RecordTrue
<1>1. IInv => RecordTrue
  <2> SUFFICES ASSUME IInv, NEW l \in Launches, exit[l] = "reported", jobs[l] = <<>>,
                      history[l] # None, l \notin failed
               PROVE  history[l] = [state |-> "exited", ready |-> window[l] = "seen"]
    BY DEF RecordTrue
  <2>1. history[l] \in Records
    BY DEF IInv, TypeOK
  <2>2. history[l].state = "exited"
    BY DEF IInv, StateTrue
  <2>3. history[l].ready <=> window[l] = "seen"
    BY QueueCases DEF IInv, ReadyTrue, Shown, Queued
  <2>4. history[l].ready = (window[l] = "seen")
    BY <2>1, <2>3 DEF Records
  <2> QED
    BY <2>1, <2>2, <2>4 DEF Records
<1> QED
  BY <1>1, Invariance, PTL

\* No save waits in vain, unless the exit of a game was lost.
THEOREM SavesAwaited == Spec => []SavesFlushed
<1>1. IInv => SavesFlushed
  BY DEF IInv
<1> QED
  BY <1>1, Invariance, PTL

\* A record is removed only if Kept newer ones are there, although the prunes
\* of several launches work on lists of their own, and records come back.
THEOREM NewestKept == Spec => HistoryKept
<1>1. ASSUME IInv, [Next]_vars
      PROVE  [\A l \in Recorded : history'[l] = None => Cardinality(Newer(l)) >= Kept]_vars
  <2>1. CASE Next
    <3> SUFFICES ASSUME NEW l \in Recorded, history'[l] = None
                 PROVE  Cardinality(Newer(l)) >= Kept
      OBVIOUS
    <3>1. l \in Launches /\ history[l] # None
      BY DEF Recorded
    <3>2. PICK m \in Launches : l \in doomed[m]
      BY <2>1, <1>1, <3>1, Removals
    <3> QED
      BY <1>1, <3>2 DEF IInv, DoomedOld
  <2>2. CASE UNCHANGED vars
    BY <2>2
  <2> QED
    BY <1>1, <2>1, <2>2
<1> QED
  BY <1>1, Invariance, PTL DEF Spec, HistoryKept
=============================================================================
