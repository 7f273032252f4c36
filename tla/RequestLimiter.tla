---------------------------- MODULE RequestLimiter ----------------------------
(***************************************************************************)
(* What callers of ConcurrencyDispatcher are promised, with no counter and *)
(* no queue: a request waits only while as many requests as the limit      *)
(* allows are running, it runs only below the limit, and the dispatcher    *)
(* underneath is stopped only when nobody waits or runs.                   *)
(***************************************************************************)
EXTENDS Integers, FiniteSets

CONSTANTS Requests, Limits

VARIABLES limit, phase, open, stopped

vars == <<limit, phase, open, stopped>>

Running == {r \in Requests : phase[r] = "active"}
Waiting == {r \in Requests : phase[r] = "queued"}

Enter(r, p) == phase' = [phase EXCEPT ![r] = p]

Init ==
    /\ limit \in Limits
    /\ phase = [r \in Requests |-> "new"]
    /\ open = TRUE /\ stopped = FALSE

\* A request arrives at a full dispatcher; it waits, or is dropped when its
\* signal is aborted.
Arrive(r) ==
    /\ phase[r] = "new" /\ open /\ Cardinality(Running) >= limit
    /\ \/ Enter(r, "queued")
       \/ Enter(r, "dropped")
    /\ UNCHANGED <<limit, open, stopped>>

Run(r) ==
    /\ \/ phase[r] = "new" /\ open
       \/ phase[r] = "queued"
    /\ Cardinality(Running) < limit
    /\ Enter(r, "active")
    /\ UNCHANGED <<limit, open, stopped>>

Leave(r) ==
    /\ \/ phase[r] = "active" /\ Enter(r, "done")
       \/ phase[r] = "queued" /\ Enter(r, "dropped")
    /\ UNCHANGED <<limit, open, stopped>>

Change ==
    /\ limit' \in Limits
    /\ UNCHANGED <<phase, open, stopped>>

Shut ==
    /\ open' = FALSE
    /\ UNCHANGED <<limit, phase, stopped>>

Stop ==
    /\ ~open /\ Waiting = {} /\ Running = {}
    /\ stopped' = TRUE
    /\ UNCHANGED <<limit, phase, open>>

Next ==
    \/ \E r \in Requests : Arrive(r) \/ Run(r) \/ Leave(r)
    \/ Change \/ Shut \/ Stop

Spec == Init /\ [][Next]_vars
=============================================================================
