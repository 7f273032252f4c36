----------------------------- MODULE SharedStates -----------------------------
(***************************************************************************)
(* One shared state of the main process and its copies in the windows:     *)
(* ServiceStateManager and ServiceStateContainer (xmcl-runtime/service),   *)
(* the preload (xmcl-electron-app/preload/service.ts) and useState         *)
(* (xmcl-keystone-ui/src/composables/syncableState.ts).                    *)
(*                                                                         *)
(* A window fetches the state by a service call.  The main process makes a *)
(* container for it, whose factory opens watchers and the like, and tracks *)
(* the window.  A window that does not need the state any more sends       *)
(* unref; when the last window is untracked the container is destroyed.    *)
(* Fetches are aborted while they are under way, windows are closed, and   *)
(* the copies in a window are reused or collected.                         *)
(***************************************************************************)
EXTENDS Naturals, Sequences, FiniteSets

CONSTANTS
    Clients,     \* the windows
    MaxFetches,  \* bound on the fetches
    None

ASSUME MaxFetchesAssumption == MaxFetches \in Nat \ {0}
ASSUME NoneAssumption == None \notin Nat

\* The runs of mutate() in useState, in the order they start.  Each makes at
\* most one container, which is named by it.
Fetches == 1..MaxFetches
Containers == Fetches

ContainerType ==
    [phase : {"none", "pending", "ready", "failed"}, live : BOOLEAN, destroyed : BOOLEAN,
     clients : SUBSET Clients]
FetchType ==
    [client : Clients \cup {None},
     pc : {"new", "sent", "revalidating", "awaiting", "answered", "rejected", "using", "over"},
     aborted : BOOLEAN, container : Containers \cup {None}, copy : Fetches \cup {None}]

VARIABLES
    registry,    \* main: the container registered under the id of the state
    containers,  \* main: every container there has been
    fetches,     \* the fetches, wherever they are
    toMain,      \* calls and unrefs on their way from a window
    states,      \* preload: the copy a window has listed
    alive,       \* copies that are not collected, each named by its fetch
    finalizers,  \* collected copies whose callback has not run
    gone         \* windows that are closed

vars == <<registry, containers, fetches, toMain, states, alive, finalizers, gone>>

Init ==
    /\ registry = None
    /\ containers = [c \in Containers |->
                       [phase |-> "none", live |-> FALSE, destroyed |-> FALSE, clients |-> {}]]
    /\ fetches = [f \in Fetches |->
                    [client |-> None, pc |-> "new", aborted |-> FALSE, container |-> None, copy |-> None]]
    /\ toMain = [k \in Clients |-> <<>>]
    /\ states = [k \in Clients |-> None]
    /\ alive = {} /\ finalizers = {} /\ gone = {}

Client(f) == fetches[f].client
Over(f) == [fetches[f] EXCEPT !.pc = "over", !.aborted = FALSE, !.container = None, !.copy = None]

Send(k, message) == toMain' = [toMain EXCEPT ![k] = Append(@, message)]
Unref == 0  \* a message that is not the call of a fetch
-----------------------------------------------------------------------------
(***************************************************************************)
(* The container.                                                          *)
(***************************************************************************)

\* Mutant: destroy runs again when a destroyed container loses a late client.
UnregisteredAgain(cs, r) == IF cs # {} THEN None ELSE r

\* Mutant: a destroyed container stays registered.
UnregisteredNever(cs, r) == r

\* destroy of the containers cs, at most once for each: what is registered
\* after r.
Unregistered(cs, r) == IF r \in cs /\ ~containers[r].destroyed THEN None ELSE r

\* Mutant: the container of the last client is kept.
UntrackedKept(c, k) == [containers[c] EXCEPT !.clients = @ \ {k}]

\* untrack: with the last client the container is destroyed and its disposer
\* called.
Untracked(c, k) ==
    LET x == [containers[c] EXCEPT !.clients = @ \ {k}] IN
    IF k \in containers[c].clients /\ x.clients = {}
      THEN [x EXCEPT !.destroyed = TRUE, !.live = FALSE] ELSE x

\* untrack in some of the containers.
UntrackIn(cs, k) ==
    /\ containers' = [c \in Containers |-> IF c \in cs THEN Untracked(c, k) ELSE containers[c]]
    /\ registry' = Unregistered({c \in cs : containers[c].clients = {k}}, registry)

\* The factory has made the state, with the resources it lives on, or failed.
FactoryDone(c) ==
    /\ containers[c].phase = "pending"
    /\ \/ containers' = [containers EXCEPT ![c] = [@ EXCEPT !.phase = "ready", !.live = TRUE]]
       \/ containers' = [containers EXCEPT ![c] = [@ EXCEPT !.phase = "failed"]]
    /\ UNCHANGED <<registry, fetches, toMain, states, alive, finalizers, gone>>
-----------------------------------------------------------------------------
(***************************************************************************)
(* The main process.                                                       *)
(***************************************************************************)

\* The service returns registerOrGet: it revalidates the container there is,
\* or makes one.
HandleCall(k) ==
    /\ toMain[k] # <<>> /\ Head(toMain[k]) # Unref
    /\ toMain' = [toMain EXCEPT ![k] = Tail(@)]
    /\ LET f == Head(toMain[k]) IN
       /\ fetches[f].pc = "sent"
       /\ IF registry # None
            THEN /\ fetches' = [fetches EXCEPT ![f] = [@ EXCEPT !.pc = "revalidating",
                                                             !.container = registry]]
                 /\ UNCHANGED <<registry, containers>>
            ELSE /\ fetches' = [fetches EXCEPT ![f] = [@ EXCEPT !.pc = "awaiting", !.container = f]]
                 /\ containers' = [containers EXCEPT ![f] = [@ EXCEPT !.phase = "pending"]]
                 /\ registry' = f
    /\ UNCHANGED <<states, alive, finalizers, gone>>

Revalidated(f) ==
    /\ fetches[f].pc = "revalidating"
    /\ fetches' = [fetches EXCEPT ![f] = [@ EXCEPT !.pc = "awaiting"]]
    /\ UNCHANGED <<registry, containers, toMain, states, alive, finalizers, gone>>

\* Mutant: an error of the factory does not settle the promise.
AnswerReadyOnly(f) ==
    /\ fetches[f].pc = "awaiting"
    /\ LET c == fetches[f].container IN
       /\ containers[c].phase = "ready"
       /\ containers' = [containers EXCEPT ![c].clients = @ \cup {Client(f)}]
    /\ fetches' = [fetches EXCEPT ![f] = IF Client(f) \in gone THEN Over(f)
                                        ELSE [@ EXCEPT !.pc = "answered", !.container = None]]
    /\ UNCHANGED <<registry, toMain, states, alive, finalizers, gone>>

\* The promise of the container settles, be it destroyed by now: the state is
\* serialized and the client tracked, be it closed by now, or the error is
\* returned.
Answer(f) ==
    /\ fetches[f].pc = "awaiting"
    /\ LET c == fetches[f].container
           Reply(pc) == [fetches EXCEPT ![f] = IF Client(f) \in gone THEN Over(f)
                                               ELSE [@ EXCEPT !.pc = pc, !.container = None]]
       IN  \/ /\ containers[c].phase = "ready"
              /\ containers' = [containers EXCEPT ![c].clients = @ \cup {Client(f)}]
              /\ fetches' = Reply("answered")
           \/ /\ containers[c].phase = "failed"
              /\ fetches' = Reply("rejected")
              /\ UNCHANGED containers
    /\ UNCHANGED <<registry, toMain, states, alive, finalizers, gone>>

HandleUnref(k) ==
    /\ toMain[k] # <<>> /\ Head(toMain[k]) = Unref
    /\ toMain' = [toMain EXCEPT ![k] = Tail(@)]
    /\ UntrackIn({registry} \ {None}, k)
    /\ UNCHANGED <<fetches, states, alive, finalizers, gone>>

\* An operation on the state (a change on disk, a refresh) untracks a window
\* that was closed before it was tracked.
Operate(c) ==
    /\ \E k \in containers[c].clients \cap gone : UntrackIn({c}, k)
    /\ UNCHANGED <<fetches, toMain, states, alive, finalizers, gone>>
-----------------------------------------------------------------------------
(***************************************************************************)
(* A window.                                                               *)
(***************************************************************************)

\* mutate: the state is fetched.
Start(f, k) ==
    /\ fetches[f].pc = "new" /\ k \notin gone
    /\ \A g \in 1..(f - 1) : fetches[g].pc # "new"
    /\ fetches' = [fetches EXCEPT ![f] = [@ EXCEPT !.pc = "sent", !.client = k]]
    /\ Send(k, f)
    /\ UNCHANGED <<registry, containers, states, alive, finalizers, gone>>

\* The cleanup of mutate: a state in use is released, a fetch under way will
\* release it on arrival.
Abort(f) ==
    /\ fetches[f].pc \notin {"new", "over"} /\ ~fetches[f].aborted /\ Client(f) \notin gone
    /\ IF fetches[f].pc = "using"
         THEN /\ fetches' = [fetches EXCEPT ![f] = Over(f)]
              /\ Send(Client(f), Unref)
         ELSE /\ fetches' = [fetches EXCEPT ![f] = [@ EXCEPT !.aborted = TRUE]]
              /\ UNCHANGED toMain
    /\ UNCHANGED <<registry, containers, states, alive, finalizers, gone>>

\* Mutant: a fetch that was aborted does not release what it gets.
ReceiveUnreleased(f) ==
    /\ fetches[f].pc = "answered" /\ Client(f) \notin gone
    /\ LET k == Client(f)
           copy == IF states[k] \in alive THEN states[k] ELSE f
       IN  /\ states' = [states EXCEPT ![k] = copy]
           /\ alive' = alive \cup {copy}
           /\ fetches' = [fetches EXCEPT ![f] = IF fetches[f].aborted THEN Over(f)
                                               ELSE [@ EXCEPT !.pc = "using", !.copy = copy]]
           /\ UNCHANGED toMain
    /\ UNCHANGED <<registry, containers, finalizers, gone>>

\* The answer: the copy the window still has is reused.
Receive(f) ==
    /\ fetches[f].pc = "answered" /\ Client(f) \notin gone
    /\ LET k == Client(f)
           copy == IF states[k] \in alive THEN states[k] ELSE f
       IN  /\ states' = [states EXCEPT ![k] = copy]
           /\ alive' = alive \cup {copy}
           /\ IF fetches[f].aborted
                THEN fetches' = [fetches EXCEPT ![f] = Over(f)] /\ Send(k, Unref)
                ELSE /\ fetches' = [fetches EXCEPT ![f] = [@ EXCEPT !.pc = "using", !.copy = copy]]
                     /\ UNCHANGED toMain
    /\ UNCHANGED <<registry, containers, finalizers, gone>>

ReceiveError(f) ==
    /\ fetches[f].pc = "rejected"
    /\ fetches' = [fetches EXCEPT ![f] = Over(f)]
    /\ UNCHANGED <<registry, containers, toMain, states, alive, finalizers, gone>>

\* A copy nobody uses is collected; its finalizer runs later.
Collect(o) ==
    /\ o \in alive /\ \A f \in Fetches : fetches[f].copy # o
    /\ alive' = alive \ {o} /\ finalizers' = finalizers \cup {o}
    /\ UNCHANGED <<registry, containers, fetches, toMain, states, gone>>

\* The callback of the FinalizationRegistry knows the id only.
Finalize(o) ==
    /\ o \in finalizers /\ finalizers' = finalizers \ {o}
    /\ states' = [states EXCEPT ![Client(o)] = None]
    /\ Send(Client(o), Unref)
    /\ UNCHANGED <<registry, containers, fetches, alive, gone>>

\* A window is closed, which untracks it wherever it is tracked.  Its calls go
\* on in the main process.
CloseWindow(k) ==
    /\ k \notin gone /\ gone' = gone \cup {k}
    /\ UntrackIn({c \in Containers : k \in containers[c].clients}, k)
    /\ toMain' = [toMain EXCEPT ![k] = <<>>]
    /\ states' = [states EXCEPT ![k] = None]
    /\ alive' = {o \in alive : Client(o) # k}
    /\ finalizers' = {o \in finalizers : Client(o) # k}
    /\ fetches' = [f \in Fetches |->
                     IF Client(f) # k \/ fetches[f].pc \in {"revalidating", "awaiting"}
                       THEN fetches[f] ELSE Over(f)]

Main ==
    \/ \E c \in Containers : FactoryDone(c)
    \/ \E k \in Clients : HandleCall(k) \/ HandleUnref(k)
    \/ \E f \in Fetches : Revalidated(f) \/ Answer(f)

Window(k) ==
    \/ \E f \in Fetches : Client(f) = k /\ (Receive(f) \/ ReceiveError(f))
    \/ \E o \in finalizers : Client(o) = k /\ Finalize(o)

Next ==
    \/ Main
    \/ \E k \in Clients : Window(k) \/ CloseWindow(k)
    \/ \E f \in Fetches : Abort(f) \/ Collect(f) \/ \E k \in Clients : Start(f, k)
    \/ \E c \in Containers : Operate(c)

\* While any of the event loops has something to do, or a factory or
\* revalidation has yet to settle, one of them goes on.  Nothing makes anybody
\* operate on the state.
Fairness == WF_vars(Main \/ \E k \in Clients : Window(k))

Spec == Init /\ [][Next]_vars
FairSpec == Spec /\ Fairness
-----------------------------------------------------------------------------
\* Every variable has a value of its kind; what is registered was made, and is
\* not destroyed.
TypeOK ==
    /\ registry \in Containers \cup {None}
    /\ registry # None => containers[registry].phase # "none" /\ ~containers[registry].destroyed
    /\ containers \in [Containers -> ContainerType]
    /\ fetches \in [Fetches -> FetchType]
    /\ toMain \in [Clients -> Seq(Fetches \cup {Unref})]
    /\ states \in [Clients -> Fetches \cup {None}]
    /\ alive \subseteq Fetches /\ finalizers \subseteq Fetches /\ gone \subseteq Clients

\* However late a window is tracked or untracked, only the registered container
\* has its watchers open: no two of them ever watch for the same state.
LiveRegistered ==
    \A c \in Containers : containers[c].live => registry = c /\ ~containers[c].destroyed

\* A container has its watchers open only for a tracked window or for a call
\* that will track one.
LiveUsed ==
    \A c \in Containers : containers[c].live =>
        \/ containers[c].clients # {}
        \/ \E f \in Fetches : fetches[f].container = c

Waiting(f) == fetches[f].pc \in {"sent", "revalidating", "awaiting", "answered", "rejected"}

\* Every fetch is answered, also when the container it waits for is destroyed,
\* fails, or is replaced.
FetchesEnd == \A f \in Fetches : Waiting(f) ~> fetches[f].pc \in {"using", "over"}

Idle == \A f \in Fetches : fetches[f].pc \in {"new", "over"}

\* When no window uses the state any more its watchers are closed.  The
\* exception: a window that was closed before its call was answered is tracked
\* nevertheless, and the watchers stay open for it until an operation on the
\* state happens to find it closed.
ReleasedWhenIdle ==
    Idle ~> (~Idle \/ \A c \in Containers : containers[c].live => containers[c].clients \cap gone # {})

\* "When there is no client connected, the state tracking code will be
\* disposed": and not before.  A window that uses the state is tracked.
UsersTracked ==
    \A f \in Fetches : fetches[f].pc = "using" =>
        registry # None /\ Client(f) \in containers[registry].clients
=============================================================================
