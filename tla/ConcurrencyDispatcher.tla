------------------------ MODULE ConcurrencyDispatcher ------------------------
(***************************************************************************)
(* The gate all downloads pass on their way to the HTTP client             *)
(* (packages/file-transfer/concurrency_dispatcher.ts): a counter of        *)
(* requests in flight, a queue of the others, and a limit that is read     *)
(* from the settings anew each time.                                       *)
(*                                                                         *)
(* Everything runs on one thread, but the handlers are called in the midst *)
(* of a release, and the HTTP client may settle a request before its       *)
(* dispatch returns.  A release that is still draining the queue is        *)
(* therefore a frame of the call stack, counted in drains; between two     *)
(* rounds of its loop any callback may dispatch, abort, settle or close.   *)
(* A dispatch that throws counts as one that settles at once: its release  *)
(* has drained the queue when the exception cuts off the outer loop, so    *)
(* that loop would end there anyway.                                       *)
(***************************************************************************)
EXTENDS Integers, FiniteSets, Sequences

CONSTANTS
    Requests,  \* the requests dispatched
    Settings   \* what getConcurrency may return

ASSUME RequestsAssumption == IsFiniteSet(Requests)
ASSUME SettingsAssumption == Settings \subseteq Int /\ Settings # {}

VARIABLES
    setting,  \* what getConcurrency returns
    active,   \* #active
    queue,    \* #queue
    state,    \* where each request stands
    closing,  \* how far #close has come
    drains,   \* the #drain loops on the call stack
    raised    \* ghost: the limit went up since the last loop ended

vars == <<setting, active, queue, state, closing, drains, raised>>

States == {"new", "queued", "active", "done", "dropped"}

AtLeastOne(n) == IF n < 1 THEN 1 ELSE n

\* Mutant: the limit is taken as it comes.
ConcurrencyOfAnySize == setting

Concurrency == AtLeastOne(setting)

\* queue.splice(n, 1)
Spliced(q, n) == SubSeq(q, 1, n - 1) \o SubSeq(q, n + 1, Len(q))

Goto(r, s) == state' = [state EXCEPT ![r] = s]

\* resolveIdle, with the counter and the queue as a step leaves them.
ResolveIdle(running, waiting) ==
    closing' = IF closing = "waiting" /\ running = 0 /\ waiting = <<>>
                 THEN "idle" ELSE closing
-----------------------------------------------------------------------------
Init ==
    /\ setting \in Settings
    /\ active = 0 /\ queue = <<>>
    /\ state = [r \in Requests |-> "new"]
    /\ closing = "no" /\ drains = 0 /\ raised = FALSE

\* The private #dispatch: the request takes a permit and goes to the client.
Start(r) ==
    /\ active' = active + 1
    /\ Goto(r, "active")

\* A caller hands over a request.  One that has to wait while its signal is
\* aborted is answered with an error and never queued.
Dispatch(r) ==
    /\ closing = "no" /\ state[r] = "new"
    /\ \/ active < Concurrency /\ Start(r) /\ UNCHANGED queue
       \/ /\ active >= Concurrency
          /\ queue' = Append(queue, r)
          /\ Goto(r, "queued")
          /\ UNCHANGED active
       \/ active >= Concurrency /\ Goto(r, "dropped") /\ UNCHANGED <<active, queue>>
    /\ UNCHANGED <<setting, closing, drains, raised>>

\* Mutant: an aborted request returns a permit it never had.
AbortWithRelease(r) ==
    /\ state[r] = "queued"
    /\ \E n \in DOMAIN queue : queue[n] = r /\ queue' = Spliced(queue, n)
    /\ Goto(r, "dropped")
    /\ active' = active - 1
    /\ ResolveIdle(active', queue')
    /\ UNCHANGED <<setting, drains, raised>>

\* The abort listener of a queued request.
Abort(r) ==
    /\ state[r] = "queued"
    /\ \E n \in DOMAIN queue : queue[n] = r /\ queue' = Spliced(queue, n)
    /\ Goto(r, "dropped")
    /\ ResolveIdle(active, queue')
    /\ UNCHANGED <<setting, active, drains, raised>>

\* Mutant: only a request that succeeds drains the queue.
SettleWithoutDrain(r) ==
    /\ state[r] = "active"
    /\ Goto(r, "done")
    /\ active' = active - 1
    /\ \/ drains' = drains + 1
       \/ UNCHANGED drains
    /\ UNCHANGED <<setting, queue, closing, raised>>

\* The client calls the last handler of a request: it completes, fails or is
\* upgraded.  release gives the permit back and begins to drain the queue.
Settle(r) ==
    /\ state[r] = "active"
    /\ Goto(r, "done")
    /\ active' = active - 1
    /\ drains' = drains + 1
    /\ UNCHANGED <<setting, queue, closing, raised>>

\* Mutant: the permit is released by every final callback.
ReleaseTwice(r) ==
    /\ state[r] = "done"
    /\ active' = active - 1
    /\ drains' = drains + 1
    /\ UNCHANGED <<setting, queue, state, closing, raised>>

\* The client calls another final handler of the same request: an error
\* after an upgrade, or both spellings of one event.  It finds released set.
SettleAgain(r) == state[r] = "done" /\ UNCHANGED vars

\* Mutant: one request too many.
DrainPastLimit ==
    /\ drains > 0 /\ active <= Concurrency /\ queue # <<>>
    /\ Start(Head(queue))
    /\ queue' = Tail(queue)
    /\ UNCHANGED <<setting, closing, drains, raised>>

\* A round of the loop in #drain.
Drain ==
    /\ drains > 0 /\ active < Concurrency /\ queue # <<>>
    /\ Start(Head(queue))
    /\ queue' = Tail(queue)
    /\ UNCHANGED <<setting, closing, drains, raised>>

\* The loop ends, and release resolves the waiters for idleness.
DrainEnd ==
    /\ drains > 0
    /\ active >= Concurrency \/ queue = <<>>
    /\ drains' = drains - 1
    /\ raised' = FALSE
    /\ ResolveIdle(active, queue)
    /\ UNCHANGED <<setting, active, queue, state>>

\* The user changes the setting.  Nothing is drained for it.
ChangeSetting ==
    /\ drains = 0
    /\ \E s \in Settings \ {setting} :
        /\ setting' = s
        /\ raised' = (raised \/ AtLeastOne(s) > Concurrency)
    /\ UNCHANGED <<active, queue, state, closing, drains>>

Close ==
    /\ closing = "no"
    /\ closing' = IF active = 0 /\ queue = <<>> THEN "idle" ELSE "waiting"
    /\ UNCHANGED <<setting, active, queue, state, drains, raised>>

\* The continuation of #waitForIdle closes the client underneath.
CloseClient ==
    /\ closing = "idle" /\ drains = 0
    /\ closing' = "closed"
    /\ UNCHANGED <<setting, active, queue, state, drains, raised>>

Next ==
    \/ \E r \in Requests : Dispatch(r) \/ Abort(r) \/ Settle(r) \/ SettleAgain(r)
    \/ Drain \/ DrainEnd \/ ChangeSetting \/ Close \/ CloseClient

\* Every request in flight settles, for the client has timeouts; a loop on
\* the stack and a resolved promise are run to their end.
Fairness ==
    /\ \A r \in Requests : WF_vars(Settle(r))
    /\ WF_vars(Drain \/ DrainEnd) /\ WF_vars(CloseClient)

Spec == Init /\ [][Next]_vars
FairSpec == Spec /\ Fairness
-----------------------------------------------------------------------------
Running == {r \in Requests : state[r] = "active"}
Waiting == {r \in Requests : state[r] = "queued"}

\* Every variable has a value of its kind; the counter of #active and the
\* number of loops never go below zero.
TypeOK ==
    /\ setting \in Settings /\ active \in Nat /\ drains \in Nat
    /\ queue \in Seq(Requests)
    /\ state \in [Requests -> States]
    /\ closing \in {"no", "waiting", "idle", "closed"}
    /\ raised \in BOOLEAN

\* #active is the number of requests in flight: over dispatches, aborts,
\* errors and repeated callbacks no permit leaks and none is given back twice.
PermitsMatch == active = Cardinality(Running)

\* A request waits only while the limit is used up (the queue is drained only
\* by a release, so a limit the user has raised since is not: then someone at
\* least is in flight, whose release will drain).
FullWhileQueued ==
    drains = 0 /\ queue # <<>> =>
        /\ active > 0
        /\ raised \/ active >= Concurrency

\* The client is closed only when every request handed over has ended.
ClosedWhenIdle == closing = "closed" => Running \cup Waiting = {}

\* Nobody waits for ever, and whoever closes the dispatcher gets it closed.
EveryoneServed ==
    /\ \A r \in Requests : state[r] = "queued" ~> state[r] # "queued"
    /\ closing = "waiting" ~> closing = "closed"

Limiter == INSTANCE RequestLimiter WITH
    Limits <- {AtLeastOne(s) : s \in Settings}, limit <- Concurrency,
    phase <- state, open <- (closing = "no"), stopped <- (closing = "closed")

\* The counter and the queue implement the abstract limiter.
ImplementsLimiter == Limiter!Spec
=============================================================================
