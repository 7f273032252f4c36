-------------------------- MODULE SharedStatesProofs --------------------------
(***************************************************************************)
(* The life of the containers of SharedStates, for any windows and any     *)
(* number of fetches: only the registered container is live, and it is     *)
(* live for somebody.                                                      *)
(***************************************************************************)
EXTENDS SharedStates, TLAPS

\* Some call waits for the container.
Awaited(c) == \E f \in Fetches : fetches[f].container = c

\* A call knows its container until it is answered, and only so long.
CallsMatch ==
    \A f \in Fetches :
      fetches[f].pc \in {"revalidating", "awaiting"} <=> fetches[f].container # None

\* A fetch makes its container when it is handled.
NotMadeYet ==
    \A f \in Fetches : fetches[f].pc \in {"new", "sent"} => containers[f].phase = "none"

\* A fetch that was started has its window.
ClientsKnown == \A f \in Fetches : fetches[f].pc # "new" => fetches[f].client \in Clients

\* What a container is in each phase of its factory.
PhaseOK(c) ==
    /\ containers[c].live \/ containers[c].clients # {} => containers[c].phase = "ready"
    /\ containers[c].phase = "pending" =>
         registry = c /\ ~containers[c].destroyed /\ Awaited(c)
    /\ containers[c].phase = "none" => ~containers[c].destroyed

\* What steps do that are not about the registration: they make no container
\* and finish none, at most destroy one that has no client left, ...
ContainersKept ==
    \A c \in Containers :
      /\ containers'[c].phase = containers[c].phase
      /\ containers[c].phase # "ready" =>
           containers'[c] = containers[c] /\ (registry = c => registry' = c)
      /\ containers'[c].clients # {} => containers[c].clients # {}
      /\ containers'[c].live =>
           /\ containers[c].live /\ registry' = c /\ ~containers'[c].destroyed
           /\ containers[c].clients # {} => containers'[c].clients # {}

\* ... and neither begin nor answer a call.
FetchesKept ==
    \A f \in Fetches :
      /\ fetches'[f].container = fetches[f].container
      /\ fetches'[f].pc \in {"revalidating", "awaiting"}
           <=> fetches[f].pc \in {"revalidating", "awaiting"}
      /\ fetches'[f].pc \in {"new", "sent"} => fetches[f].pc \in {"new", "sent"}
      /\ fetches'[f].pc # "new" => fetches'[f].client \in Clients

IInv ==
    /\ TypeOK /\ CallsMatch /\ NotMadeYet /\ ClientsKnown
    /\ \A c \in Containers : PhaseOK(c)
    /\ LiveRegistered /\ LiveUsed

LEMMA Ranges == Containers = Fetches /\ Fetches \subseteq Nat /\ None \notin Fetches
  BY MaxFetchesAssumption, NoneAssumption DEF Containers, Fetches

THEOREM InitInv == Init => IInv
<1> SUFFICES ASSUME Init PROVE IInv
  OBVIOUS
<1>1. /\ containers \in [Containers -> ContainerType]
      /\ fetches \in [Fetches -> FetchType]
  BY DEF Init, ContainerType, FetchType
<1>2. toMain \in [Clients -> Seq(Fetches \cup {Unref})]
  BY DEF Init
<1>3. TypeOK
  BY <1>1, <1>2 DEF Init, TypeOK
<1>4. QED
  BY <1>3, Ranges DEF Init, IInv, CallsMatch, NotMadeYet, ClientsKnown, PhaseOK, LiveRegistered, LiveUsed
-----------------------------------------------------------------------------
\* Two containers with the same fields are the same.
LEMMA SameContainer ==
    ASSUME NEW x \in ContainerType, NEW y \in ContainerType,
           x.phase = y.phase, x.live = y.live, x.destroyed = y.destroyed, x.clients = y.clients
    PROVE  x = y
BY DEF ContainerType

\* untrack in one container.
LEMMA UntrackedFields ==
    ASSUME TypeOK, NEW c \in Containers, NEW k
    PROVE  /\ Untracked(c, k) \in ContainerType
           /\ Untracked(c, k).phase = containers[c].phase
           /\ Untracked(c, k).clients = containers[c].clients \ {k}
           /\ containers[c].clients = {k} => ~Untracked(c, k).live
           /\ containers[c].clients # {k} =>
                /\ Untracked(c, k).live = containers[c].live
                /\ Untracked(c, k).destroyed = containers[c].destroyed
<1> DEFINE old == containers[c]
           x == [old EXCEPT !.clients = @ \ {k}]
           y == [x EXCEPT !.destroyed = TRUE, !.live = FALSE]
<1>1. old \in ContainerType
  BY DEF TypeOK
<1>2. Untracked(c, k) = IF k \in old.clients /\ x.clients = {} THEN y ELSE x
  BY DEF Untracked
<1> HIDE DEF old
<1>3. /\ x \in ContainerType /\ x.phase = old.phase /\ x.clients = old.clients \ {k}
      /\ x.live = old.live /\ x.destroyed = old.destroyed
  BY <1>1 DEF ContainerType
<1> HIDE DEF x
<1>4. /\ y \in ContainerType /\ y.phase = x.phase /\ y.clients = x.clients /\ y.live = FALSE
  BY <1>3 DEF ContainerType
<1> HIDE DEF y
<1>5. CASE old.clients = {k}
  <2>1. Untracked(c, k) = y
    BY <1>2, <1>3, <1>5
  <2>2. QED
    BY <2>1, <1>3, <1>4, <1>5 DEF old
<1>6. CASE old.clients # {k}
  <2>1. Untracked(c, k) = x
    BY <1>2, <1>3, <1>6
  <2>2. QED
    BY <2>1, <1>3, <1>6 DEF old
<1>7. QED
  BY <1>5, <1>6

\* Untracking a window, in whichever containers, destroys the ones that it
\* leaves without a client and no other.
LEMMA Untrack ==
    ASSUME IInv, NEW cs \in SUBSET Containers, NEW k \in Clients, UntrackIn(cs, k)
    PROVE  /\ containers' \in [Containers -> ContainerType]
           /\ registry' \in {registry, None}
           /\ registry' # None => /\ containers'[registry'].phase # "none"
                                  /\ ~containers'[registry'].destroyed
           /\ ContainersKept
<1>0. TypeOK
  BY DEF IInv
<1> USE Ranges
<1>1. containers' = [c \in Containers |-> IF c \in cs THEN Untracked(c, k) ELSE containers[c]]
  BY DEF UntrackIn
<1>2. ASSUME NEW c \in Containers
      PROVE  containers[c] \in ContainerType
  BY <1>0 DEF TypeOK
<1>3. ASSUME NEW c \in Containers
      PROVE  /\ containers'[c] \in ContainerType
             /\ containers'[c].phase = containers[c].phase
             /\ containers'[c].clients # {} => containers[c].clients # {}
             /\ c \in cs /\ containers[c].clients = {k} =>
                  ~containers'[c].live
             /\ ~(c \in cs /\ containers[c].clients = {k}) =>
                  /\ containers'[c].live = containers[c].live
                  /\ containers'[c].destroyed = containers[c].destroyed
                  /\ containers[c].clients # {} => containers'[c].clients # {}
             /\ containers[c].clients = {} => containers'[c] = containers[c]
  <2>1. CASE c \notin cs
    <3>1. containers'[c] = containers[c]
      BY <1>1, <2>1
    <3>2. QED BY <3>1, <2>1, <1>2
  <2>2. CASE c \in cs /\ containers[c].clients = {k}
    <3>1. containers'[c] = Untracked(c, k) /\ containers[c].clients # {}
      BY <1>1, <2>2
    <3>2. QED BY <3>1, <2>2, <1>0, UntrackedFields
  <2>3. CASE c \in cs /\ containers[c].clients # {k}
    <3>1. containers'[c] = Untracked(c, k)
      BY <1>1, <2>3
    <3>2. containers[c].clients = {} => containers'[c].clients = containers[c].clients
      BY <3>1, <1>0, UntrackedFields
    <3>3. containers[c].clients = {} => containers'[c] = containers[c]
      <4>1. /\ containers'[c] \in ContainerType
            /\ containers'[c].phase = containers[c].phase
            /\ containers'[c].live = containers[c].live
            /\ containers'[c].destroyed = containers[c].destroyed
        BY <3>1, <2>3, <1>0, UntrackedFields
      <4>2. QED
        BY <4>1, <3>2, <1>2, SameContainer
    <3>4. QED BY <3>1, <3>3, <2>3, <1>0, UntrackedFields
  <2>4. QED BY <2>1, <2>2, <2>3
<1>4. containers' \in [Containers -> ContainerType]
  BY <1>1, <1>3
<1>5. registry' = IF /\ registry \in cs /\ containers[registry].clients = {k}
                     /\ ~containers[registry].destroyed
                    THEN None ELSE registry
  BY DEF UntrackIn, Unregistered
<1>6. registry # None => /\ registry \in Containers /\ containers[registry].phase # "none"
                         /\ ~containers[registry].destroyed
  BY <1>0 DEF TypeOK
<1>7. registry' \in {registry, None}
  BY <1>5
<1>8. registry' # None => /\ containers'[registry'].phase # "none"
                          /\ ~containers'[registry'].destroyed
  BY <1>3, <1>5, <1>6
<1>9. ASSUME NEW c \in Containers
      PROVE  /\ containers[c].phase # "ready" =>
                  containers'[c] = containers[c] /\ (registry = c => registry' = c)
             /\ containers'[c].live =>
                  /\ containers[c].live /\ registry' = c /\ ~containers'[c].destroyed
                  /\ containers[c].clients # {} => containers'[c].clients # {}
  <2>1. PhaseOK(c) /\ (containers[c].live => registry = c /\ ~containers[c].destroyed)
    BY DEF IInv, LiveRegistered
  <2>2. containers[c].phase # "ready" => containers[c].clients = {}
    BY <2>1 DEF PhaseOK
  <2>3. QED
    BY <2>1, <2>2, <1>3, <1>5
<1>10. QED
  BY <1>3, <1>4, <1>7, <1>8, <1>9 DEF ContainersKept

\* Such steps preserve the invariant.
LEMMA Kept ==
    ASSUME IInv, TypeOK', ContainersKept, FetchesKept
    PROVE  IInv'
<1> USE Ranges
<1>1. CallsMatch'
  BY DEF IInv, CallsMatch, FetchesKept
<1>2. NotMadeYet'
  BY DEF IInv, NotMadeYet, FetchesKept, ContainersKept
<1>3. ASSUME NEW c \in Containers
      PROVE  Awaited(c)' <=> Awaited(c)
  BY DEF Awaited, FetchesKept
<1>4. ASSUME NEW c \in Containers
      PROVE  PhaseOK(c)'
  BY <1>3 DEF IInv, PhaseOK, ContainersKept
<1>5. LiveRegistered'
  BY DEF ContainersKept, LiveRegistered
<1>6. LiveUsed'
  BY <1>3 DEF IInv, ContainersKept, LiveUsed, Awaited
<1>7. ClientsKnown'
  BY DEF ClientsKnown, FetchesKept
<1>8. QED
  BY <1>1, <1>2, <1>4, <1>5, <1>6, <1>7 DEF IInv

LEMMA SameContainers ==
    ASSUME IInv, UNCHANGED <<registry, containers>>
    PROVE  ContainersKept
BY DEF IInv, ContainersKept, LiveRegistered

\* A step that changes one fetch.
LEMMA OneFetch ==
    ASSUME TypeOK, NEW f \in Fetches, NEW r \in FetchType,
           fetches' = [fetches EXCEPT ![f] = r]
    PROVE  /\ fetches' \in [Fetches -> FetchType]
           /\ fetches'[f] = r
           /\ \A g \in Fetches : g # f => fetches'[g] = fetches[g]
BY DEF TypeOK

\* ... and neither begins nor answers a call by it.
LEMMA OneFetchKept ==
    ASSUME IInv, NEW f \in Fetches, NEW r \in FetchType,
           fetches' = [fetches EXCEPT ![f] = r],
           r.container = fetches[f].container,
           r.pc \in {"revalidating", "awaiting"}
             <=> fetches[f].pc \in {"revalidating", "awaiting"},
           r.pc \in {"new", "sent"} => fetches[f].pc \in {"new", "sent"},
           r.pc # "new" => r.client \in Clients
    PROVE  FetchesKept
BY OneFetch DEF IInv, ClientsKnown, FetchesKept

LEMMA OverType ==
    ASSUME TypeOK, NEW f \in Fetches
    PROVE  /\ Over(f) \in FetchType
           /\ Over(f).container = None /\ Over(f).pc = "over"
           /\ Over(f).client = fetches[f].client
BY ZenonT(60) DEF TypeOK, Over, FetchType

\* A fetch that is not a call any more is over without a change of the calls.
LEMMA OverKept ==
    ASSUME IInv, NEW f \in Fetches,
           fetches[f].pc \notin {"new", "revalidating", "awaiting"},
           fetches' = [fetches EXCEPT ![f] = Over(f)]
    PROVE  FetchesKept
<1>1. fetches[f].container = None /\ fetches[f].client \in Clients
  BY DEF IInv, CallsMatch, ClientsKnown
<1>2. QED
  BY <1>1, OverType, OneFetchKept DEF IInv

LEMMA SendType ==
    ASSUME TypeOK, NEW k, NEW m \in Fetches \cup {Unref}, Send(k, m)
    PROVE  toMain' \in [Clients -> Seq(Fetches \cup {Unref})]
<1> DEFINE S == Fetches \cup {Unref}
<1>1. toMain \in [Clients -> Seq(S)] /\ m \in S
  BY DEF TypeOK
<1>2. toMain' = [toMain EXCEPT ![k] = Append(@, m)]
  BY DEF Send
<1> HIDE DEF S
<1>3. ASSUME NEW j \in Clients PROVE toMain'[j] \in Seq(S)
  <2>1. CASE j = k
    BY <1>1, <1>2, <2>1
  <2>2. CASE j # k
    BY <1>1, <1>2, <2>2
  <2>3. QED BY <2>1, <2>2
<1>4. toMain' \in [Clients -> Seq(S)]
  BY <1>1, <1>2, <1>3
<1>5. QED
  BY <1>4 DEF S
-----------------------------------------------------------------------------
LEMMA RevalidatedInv ==
    ASSUME IInv, NEW f \in Fetches, Revalidated(f)
    PROVE  IInv'
<1> DEFINE r == [fetches[f] EXCEPT !.pc = "awaiting"]
<1>0. TypeOK
  BY DEF IInv
<1>1. /\ r \in FetchType /\ r.pc = "awaiting"
      /\ r.container = fetches[f].container /\ r.client = fetches[f].client
  BY <1>0 DEF TypeOK, FetchType
<1>2. fetches' = [fetches EXCEPT ![f] = r] /\ fetches[f].pc = "revalidating"
  BY DEF Revalidated
<1> HIDE DEF r
<1>3. FetchesKept
  BY <1>1, <1>2, OneFetchKept DEF IInv, ClientsKnown
<1>4. TypeOK'
  BY <1>1, <1>2, OneFetch, <1>0 DEF TypeOK, Revalidated
<1>5. QED
  BY <1>3, <1>4, SameContainers, Kept DEF Revalidated

LEMMA StartInv ==
    ASSUME IInv, NEW f \in Fetches, NEW k \in Clients, Start(f, k)
    PROVE  IInv'
<1> DEFINE r == [fetches[f] EXCEPT !.pc = "sent", !.client = k]
<1>0. TypeOK
  BY DEF IInv
<1>1. /\ r \in FetchType /\ r.pc = "sent" /\ r.client = k
      /\ r.container = fetches[f].container
  BY <1>0 DEF TypeOK, FetchType
<1>2. fetches' = [fetches EXCEPT ![f] = r] /\ fetches[f].pc = "new"
  BY DEF Start
<1> HIDE DEF r
<1>3. FetchesKept
  BY <1>1, <1>2, OneFetchKept, <1>0
<1>4. TypeOK'
  BY <1>1, <1>2, OneFetch, SendType, Ranges, <1>0 DEF TypeOK, Start
<1>5. QED
  BY <1>3, <1>4, SameContainers, Kept DEF Start

LEMMA AbortInv ==
    ASSUME IInv, NEW f \in Fetches, Abort(f)
    PROVE  IInv'
<1>0. TypeOK
  BY DEF IInv
<1>1. CASE fetches[f].pc = "using"
  <2>1. fetches' = [fetches EXCEPT ![f] = Over(f)] /\ Send(Client(f), Unref)
    BY <1>1 DEF Abort
  <2>2. FetchesKept
    BY <1>1, <2>1, OverKept
  <2>3. toMain' \in [Clients -> Seq(Fetches \cup {Unref})]
    BY <2>1, <1>0, SendType
  <2>4. TypeOK'
    BY <2>1, <2>3, OverType, OneFetch, <1>0 DEF TypeOK, Abort
  <2>5. QED
    BY <2>2, <2>4, SameContainers, Kept DEF Abort
<1>2. CASE fetches[f].pc # "using"
  <2> DEFINE r == [fetches[f] EXCEPT !.aborted = TRUE]
  <2>1. /\ r \in FetchType /\ r.pc = fetches[f].pc
        /\ r.container = fetches[f].container /\ r.client = fetches[f].client
    BY <1>0 DEF TypeOK, FetchType
  <2>2. fetches' = [fetches EXCEPT ![f] = r]
    BY <1>2 DEF Abort
  <2> HIDE DEF r
  <2>3. FetchesKept
    BY <2>1, <2>2, OneFetchKept DEF IInv, ClientsKnown
  <2>4. TypeOK'
    BY <1>2, <2>1, <2>2, OneFetch, <1>0 DEF TypeOK, Abort
  <2>5. QED
    BY <2>3, <2>4, SameContainers, Kept DEF Abort
<1>3. QED BY <1>1, <1>2

LEMMA ReceiveInv ==
    ASSUME IInv, NEW f \in Fetches, Receive(f)
    PROVE  IInv'
<1>0. TypeOK
  BY DEF IInv
<1> DEFINE k == Client(f)
           copy == IF states[k] \in alive THEN states[k] ELSE f
           r == [fetches[f] EXCEPT !.pc = "using", !.copy = copy]
<1>1. /\ copy \in Fetches /\ alive' = alive \cup {copy}
      /\ states' = [states EXCEPT ![k] = copy]
      /\ fetches[f].pc = "answered"
  BY <1>0 DEF Receive, TypeOK
<1>2. \/ fetches' = [fetches EXCEPT ![f] = Over(f)] /\ Send(k, Unref)
      \/ fetches' = [fetches EXCEPT ![f] = r] /\ UNCHANGED toMain
  BY DEF Receive
<1>3. /\ alive' \subseteq Fetches
      /\ states' \in [Clients -> Fetches \cup {None}]
      /\ toMain' \in [Clients -> Seq(Fetches \cup {Unref})]
  BY <1>0, <1>1, <1>2, SendType DEF TypeOK
<1> HIDE DEF copy
<1>4. /\ r \in FetchType /\ r.pc = "using"
      /\ r.container = fetches[f].container /\ r.client = fetches[f].client
  BY <1>0, <1>1 DEF TypeOK, FetchType
<1> HIDE DEF r
<1>5. FetchesKept
  <2>1. CASE fetches' = [fetches EXCEPT ![f] = Over(f)]
    BY <2>1, <1>1, OverKept
  <2>2. CASE fetches' = [fetches EXCEPT ![f] = r]
    BY <2>2, <1>1, <1>4, OneFetchKept DEF IInv, ClientsKnown
  <2>3. QED BY <1>2, <2>1, <2>2
<1>6. fetches' \in [Fetches -> FetchType]
  BY <1>0, <1>2, <1>4, OverType, OneFetch
<1>7. TypeOK'
  BY <1>0, <1>3, <1>6 DEF TypeOK, Receive
<1>8. QED
  BY <1>5, <1>7, SameContainers, Kept DEF Receive

LEMMA ReceiveErrorInv ==
    ASSUME IInv, NEW f \in Fetches, ReceiveError(f)
    PROVE  IInv'
<1>0. TypeOK
  BY DEF IInv
<1>1. fetches' = [fetches EXCEPT ![f] = Over(f)] /\ fetches[f].pc = "rejected"
  BY DEF ReceiveError
<1>2. FetchesKept
  BY <1>1, OverKept
<1>3. TypeOK'
  BY <1>0, <1>1, OverType, OneFetch DEF TypeOK, ReceiveError
<1>4. QED
  BY <1>2, <1>3, SameContainers, Kept DEF ReceiveError

LEMMA CopiesInv ==
    ASSUME IInv, NEW o \in Fetches, Collect(o) \/ Finalize(o)
    PROVE  IInv'
<1>0. TypeOK
  BY DEF IInv
<1>1. UNCHANGED <<registry, containers, fetches, gone>>
  BY DEF Collect, Finalize
<1>2. FetchesKept
  BY <1>1 DEF IInv, ClientsKnown, FetchesKept
<1>3. toMain' \in [Clients -> Seq(Fetches \cup {Unref})]
  <2>1. CASE Collect(o)
    BY <1>0, <2>1 DEF TypeOK, Collect
  <2>2. CASE Finalize(o)
    BY <1>0, <2>2, SendType DEF Finalize
  <2>3. QED BY <2>1, <2>2
<1>4. /\ states' \in [Clients -> Fetches \cup {None}]
      /\ alive' \subseteq Fetches /\ finalizers' \subseteq Fetches
  BY <1>0 DEF TypeOK, Collect, Finalize
<1>5. TypeOK'
  BY <1>0, <1>1, <1>3, <1>4 DEF TypeOK
<1>6. QED
  BY <1>1, <1>2, <1>5, SameContainers, Kept

LEMMA HandleUnrefInv ==
    ASSUME IInv, NEW k \in Clients, HandleUnref(k)
    PROVE  IInv'
<1>0. TypeOK
  BY DEF IInv
<1> DEFINE cs == {registry} \ {None}
<1>1. cs \in SUBSET Containers
  BY <1>0 DEF TypeOK
<1>2. UntrackIn(cs, k)
  BY DEF HandleUnref
<1> HIDE DEF cs
<1>3. FetchesKept
  BY DEF HandleUnref, IInv, ClientsKnown, FetchesKept
<1>4. toMain' \in [Clients -> Seq(Fetches \cup {Unref})]
  <2> DEFINE S == Fetches \cup {Unref}
  <2>1. toMain \in [Clients -> Seq(S)]
    BY <1>0 DEF TypeOK
  <2>2. toMain[k] # <<>> /\ toMain' = [toMain EXCEPT ![k] = Tail(@)]
    BY DEF HandleUnref
  <2> HIDE DEF S
  <2>3. Tail(toMain[k]) \in Seq(S)
    BY <2>1, <2>2
  <2>4. toMain' \in [Clients -> Seq(S)]
    BY <2>1, <2>2, <2>3
  <2>5. QED BY <2>4 DEF S
<1>5. TypeOK'
  BY <1>0, <1>1, <1>2, <1>4, Untrack DEF TypeOK, HandleUnref
<1>6. QED
  BY <1>1, <1>2, <1>3, <1>5, Untrack, Kept

LEMMA OperateInv ==
    ASSUME IInv, NEW c \in Containers, Operate(c)
    PROVE  IInv'
<1>0. TypeOK
  BY DEF IInv
<1>1. PICK k \in containers[c].clients \cap gone : UntrackIn({c}, k)
  BY DEF Operate
<1>2. k \in Clients /\ {c} \in SUBSET Containers
  BY <1>0 DEF TypeOK
<1>3. FetchesKept
  BY DEF Operate, IInv, ClientsKnown, FetchesKept
<1>4. TypeOK'
  BY <1>0, <1>1, <1>2, Untrack DEF TypeOK, Operate
<1>5. QED
  BY <1>1, <1>2, <1>3, <1>4, Untrack, Kept

LEMMA CloseWindowInv ==
    ASSUME IInv, NEW k \in Clients, CloseWindow(k)
    PROVE  IInv'
<1>0. TypeOK
  BY DEF IInv
<1> DEFINE cs == {c \in Containers : k \in containers[c].clients}
<1>1. cs \in SUBSET Containers
  OBVIOUS
<1>2. UntrackIn(cs, k)
  BY DEF CloseWindow
<1> HIDE DEF cs
<1>3. fetches' = [f \in Fetches |->
                    IF Client(f) # k \/ fetches[f].pc \in {"revalidating", "awaiting"}
                      THEN fetches[f] ELSE Over(f)]
  BY DEF CloseWindow
<1>4. FetchesKept
  <2> SUFFICES ASSUME NEW f \in Fetches
               PROVE  /\ fetches'[f].container = fetches[f].container
                      /\ fetches'[f].pc \in {"revalidating", "awaiting"}
                           <=> fetches[f].pc \in {"revalidating", "awaiting"}
                      /\ fetches'[f].pc \in {"new", "sent"} => fetches[f].pc \in {"new", "sent"}
                      /\ fetches'[f].pc # "new" => fetches'[f].client \in Clients
    BY DEF FetchesKept
  <2>1. CASE fetches'[f] = fetches[f]
    BY <2>1 DEF IInv, ClientsKnown
  <2>2. CASE /\ fetches'[f] = Over(f) /\ Client(f) = k
             /\ fetches[f].pc \notin {"revalidating", "awaiting"}
    <3>1. fetches[f].container = None
      BY <2>2 DEF IInv, CallsMatch
    <3>2. QED BY <2>2, <3>1, <1>0, OverType DEF Client
  <2>3. QED BY <1>3, <2>1, <2>2
<1>5. fetches' \in [Fetches -> FetchType]
  <2>1. \A f \in Fetches : fetches[f] \in FetchType /\ Over(f) \in FetchType
    BY <1>0, OverType DEF TypeOK
  <2>2. QED BY <1>3, <2>1
<1>6. toMain' \in [Clients -> Seq(Fetches \cup {Unref})]
  <2> DEFINE S == Fetches \cup {Unref}
  <2>1. toMain \in [Clients -> Seq(S)] /\ toMain' = [toMain EXCEPT ![k] = <<>>]
    BY <1>0 DEF TypeOK, CloseWindow
  <2> HIDE DEF S
  <2>2. toMain' \in [Clients -> Seq(S)]
    BY <2>1
  <2>3. QED BY <2>2 DEF S
<1>7. /\ states' \in [Clients -> Fetches \cup {None}]
      /\ alive' \subseteq Fetches /\ finalizers' \subseteq Fetches /\ gone' \subseteq Clients
  BY <1>0 DEF TypeOK, CloseWindow
<1>8. TypeOK'
  BY <1>0, <1>1, <1>2, <1>5, <1>6, <1>7, Untrack DEF TypeOK
<1>9. QED
  BY <1>1, <1>2, <1>4, <1>8, Untrack, Kept
-----------------------------------------------------------------------------
\* The factory of a container that is registered and awaited makes it live.
LEMMA FactoryDoneInv ==
    ASSUME IInv, NEW c \in Containers, FactoryDone(c)
    PROVE  IInv'
<1>0. TypeOK
  BY DEF IInv
<1>1. containers[c].phase = "pending" /\ containers[c] \in ContainerType
  BY <1>0 DEF FactoryDone, TypeOK
<1>2. /\ registry = c /\ ~containers[c].destroyed /\ Awaited(c)
      /\ ~containers[c].live /\ containers[c].clients = {}
  BY <1>1 DEF IInv, PhaseOK
<1> DEFINE r == [containers[c] EXCEPT !.phase = "ready", !.live = TRUE]
           e == [containers[c] EXCEPT !.phase = "failed"]
<1>3. /\ r \in ContainerType /\ r.phase = "ready"
      /\ r.destroyed = containers[c].destroyed /\ r.clients = containers[c].clients
  BY <1>1 DEF ContainerType
<1>4. /\ e \in ContainerType /\ e.phase = "failed" /\ e.live = containers[c].live
      /\ e.destroyed = containers[c].destroyed /\ e.clients = containers[c].clients
  BY <1>1 DEF ContainerType
<1>5. PICK x \in {r, e} : containers' = [containers EXCEPT ![c] = x]
  BY DEF FactoryDone
<1> HIDE DEF r, e
<1>6. /\ x \in ContainerType /\ x.phase \in {"ready", "failed"}
      /\ ~x.destroyed /\ x.clients = {} /\ (x.live => x.phase = "ready")
  BY <1>2, <1>3, <1>4, <1>5
<1>7. /\ containers' \in [Containers -> ContainerType]
      /\ containers'[c] = x
      /\ \A d \in Containers : d # c => containers'[d] = containers[d]
  BY <1>0, <1>5, <1>6 DEF TypeOK
<1>8. UNCHANGED <<registry, fetches, toMain, states, alive, finalizers, gone>>
  BY DEF FactoryDone
<1>9. TypeOK'
  BY <1>0, <1>2, <1>6, <1>7, <1>8 DEF TypeOK
<1>10. CallsMatch'
  BY <1>8 DEF IInv, CallsMatch
<1>11. NotMadeYet'
  BY <1>1, <1>7, <1>8, Ranges DEF IInv, NotMadeYet
<1>16. ClientsKnown'
  BY <1>8 DEF IInv, ClientsKnown
<1>12. ASSUME NEW d \in Containers PROVE PhaseOK(d)'
  BY <1>6, <1>7, <1>8 DEF IInv, PhaseOK, Awaited
<1>13. LiveRegistered'
  BY <1>2, <1>6, <1>7, <1>8 DEF IInv, LiveRegistered
<1>14. LiveUsed'
  BY <1>2, <1>7, <1>8 DEF IInv, LiveUsed, Awaited
<1>15. QED
  BY <1>9, <1>10, <1>11, <1>12, <1>13, <1>14, <1>16 DEF IInv

\* A container is made when none is registered, so that no other is live.
LEMMA HandleCallInv ==
    ASSUME IInv, NEW k \in Clients, HandleCall(k)
    PROVE  IInv'
<1>0. TypeOK
  BY DEF IInv
<1> DEFINE S == Fetches \cup {Unref}
<1>1. PICK f \in Fetches : f = Head(toMain[k]) /\ fetches[f].pc = "sent"
  <2>1. toMain[k] \in Seq(S) /\ toMain[k] # <<>>
    BY <1>0 DEF TypeOK, HandleCall
  <2> HIDE DEF S
  <2>2. Head(toMain[k]) \in S
    BY <2>1
  <2>3. QED BY <2>2 DEF S, HandleCall
<1>2. toMain' \in [Clients -> Seq(S)]
  <2>1. toMain \in [Clients -> Seq(S)]
    BY <1>0 DEF TypeOK
  <2>2. toMain[k] # <<>> /\ toMain' = [toMain EXCEPT ![k] = Tail(@)]
    BY DEF HandleCall
  <2> HIDE DEF S
  <2>3. Tail(toMain[k]) \in Seq(S)
    BY <2>1, <2>2
  <2>4. QED BY <2>1, <2>2, <2>3
<1>3. fetches[f] \in FetchType /\ containers[f].phase = "none" /\ containers[f] \in ContainerType
  BY <1>0, <1>1, Ranges DEF TypeOK, IInv, NotMadeYet
<1>4. UNCHANGED <<states, alive, finalizers, gone>>
  BY DEF HandleCall
<1>5. CASE registry # None
  <2> DEFINE r == [fetches[f] EXCEPT !.pc = "revalidating", !.container = registry]
  <2>1. /\ fetches' = [fetches EXCEPT ![f] = r]
        /\ UNCHANGED <<registry, containers>>
    BY <1>1, <1>5 DEF HandleCall
  <2>2. registry \in Containers
    BY <1>0, <1>5 DEF TypeOK
  <2>3. /\ r \in FetchType /\ r.pc = "revalidating" /\ r.container = registry
        /\ r.client = fetches[f].client
    BY <1>3, <2>2 DEF FetchType
  <2> HIDE DEF r
  <2>4. /\ fetches' \in [Fetches -> FetchType]
        /\ fetches'[f] = r
        /\ \A g \in Fetches : g # f => fetches'[g] = fetches[g]
    BY <1>0, <1>1, <2>1, <2>3, OneFetch
  <2>5. TypeOK'
    BY <1>0, <1>2, <1>4, <2>1, <2>4 DEF TypeOK
  <2>6. CallsMatch'
    BY <1>5, <2>3, <2>4 DEF IInv, CallsMatch
  <2>7. NotMadeYet'
    BY <2>1, <2>3, <2>4 DEF IInv, NotMadeYet
  <2>8. fetches[f].container = None
    BY <1>1 DEF IInv, CallsMatch
  <2>9. ASSUME NEW c \in Containers, Awaited(c) PROVE Awaited(c)'
    BY <2>4, <2>8, <2>9, <1>1, Ranges DEF Awaited
  <2>10. ASSUME NEW c \in Containers PROVE PhaseOK(c)'
    BY <2>1, <2>9 DEF IInv, PhaseOK
  <2>11. LiveRegistered'
    BY <2>1 DEF IInv, LiveRegistered
  <2>12. LiveUsed'
    BY <2>1, <2>9 DEF IInv, LiveUsed, Awaited
  <2>13. ClientsKnown'
    BY <1>1, <2>3, <2>4 DEF IInv, ClientsKnown
  <2>14. QED
    BY <2>5, <2>6, <2>7, <2>10, <2>11, <2>12, <2>13 DEF IInv
<1>6. CASE registry = None
  <2> DEFINE r == [fetches[f] EXCEPT !.pc = "awaiting", !.container = f]
             x == [containers[f] EXCEPT !.phase = "pending"]
  <2>1. /\ fetches' = [fetches EXCEPT ![f] = r]
        /\ containers' = [containers EXCEPT ![f] = x]
        /\ registry' = f
    BY <1>1, <1>6 DEF HandleCall
  <2>2. /\ r \in FetchType /\ r.pc = "awaiting" /\ r.container = f
        /\ r.client = fetches[f].client
    BY <1>1, <1>3, Ranges DEF FetchType
  <2>3. /\ x \in ContainerType /\ x.phase = "pending" /\ x.live = containers[f].live
        /\ x.clients = containers[f].clients /\ x.destroyed = containers[f].destroyed
    BY <1>3 DEF ContainerType
  <2> HIDE DEF r, x
  <2>4. /\ fetches' \in [Fetches -> FetchType]
        /\ fetches'[f] = r
        /\ \A g \in Fetches : g # f => fetches'[g] = fetches[g]
    BY <1>0, <1>1, <2>1, <2>2, OneFetch
  <2>5. /\ containers' \in [Containers -> ContainerType]
        /\ containers'[f] = x
        /\ \A d \in Containers : d # f => containers'[d] = containers[d]
    BY <1>0, <1>1, <2>1, <2>3, Ranges DEF TypeOK
  <2>6. /\ ~containers[f].live /\ containers[f].clients = {} /\ ~containers[f].destroyed
    BY <1>1, <1>3, Ranges DEF IInv, PhaseOK
  <2>7. \A c \in Containers : ~containers[c].live /\ containers[c].phase # "pending"
    BY <1>6, Ranges DEF IInv, LiveRegistered, PhaseOK
  <2>8. TypeOK'
    BY <1>0, <1>1, <1>2, <1>4, <2>1, <2>3, <2>4, <2>5, <2>6, Ranges DEF TypeOK
  <2>9. CallsMatch'
    BY <1>1, <2>2, <2>4, Ranges, ZenonT(60) DEF IInv, CallsMatch
  <2>10. NotMadeYet'
    BY <2>2, <2>4, <2>5, Ranges DEF IInv, NotMadeYet
  <2>11. Awaited(f)'
    BY <1>1, <2>2, <2>4 DEF Awaited
  <2>12. ASSUME NEW c \in Containers PROVE PhaseOK(c)'
    <3>1. CASE c = f
      BY <3>1, <2>1, <2>3, <2>5, <2>6, <2>11 DEF PhaseOK
    <3>2. CASE c # f
      BY <3>2, <2>5, <2>7 DEF IInv, PhaseOK
    <3>3. QED BY <3>1, <3>2
  <2>13. LiveRegistered' /\ LiveUsed'
    BY <2>3, <2>5, <2>6, <2>7 DEF LiveRegistered, LiveUsed
  <2>14. ClientsKnown'
    BY <1>1, <2>2, <2>4 DEF IInv, ClientsKnown
  <2>15. QED
    BY <2>8, <2>9, <2>10, <2>12, <2>13, <2>14 DEF IInv
<1>7. QED BY <1>5, <1>6

\* A container is live when a call that waited for it is answered, because of
\* the call; then because of its client.
LEMMA AnswerInv ==
    ASSUME IInv, NEW f \in Fetches, Answer(f)
    PROVE  IInv'
<1>0. TypeOK
  BY DEF IInv
<1>1. PICK c \in Containers :
        fetches[f].container = c /\ fetches[f].pc = "awaiting" /\ fetches[f] \in FetchType
  <2>1. fetches[f].pc = "awaiting" /\ fetches[f] \in FetchType
    BY <1>0 DEF Answer, TypeOK
  <2>2. fetches[f].container # None
    BY <2>1 DEF IInv, CallsMatch
  <2>3. QED BY <2>1, <2>2 DEF FetchType
<1> DEFINE k == fetches[f].client
<1>2. PICK r \in {Over(f), [fetches[f] EXCEPT !.pc = "answered", !.container = None],
                  [fetches[f] EXCEPT !.pc = "rejected", !.container = None]} :
        fetches' = [fetches EXCEPT ![f] = r]
  BY DEF Answer
<1>3. /\ r \in FetchType /\ r.pc \in {"over", "answered", "rejected"}
      /\ r.container = None
      /\ r.client = k
  <2>1. CASE r = Over(f)
    BY <2>1, <1>0, OverType
  <2>2. CASE r = [fetches[f] EXCEPT !.pc = "answered", !.container = None]
    BY <2>2, <1>1 DEF FetchType
  <2>3. CASE r = [fetches[f] EXCEPT !.pc = "rejected", !.container = None]
    BY <2>3, <1>1 DEF FetchType
  <2>4. QED BY <1>2, <2>1, <2>2, <2>3
<1>4. /\ fetches' \in [Fetches -> FetchType]
      /\ fetches'[f] = r
      /\ \A g \in Fetches : g # f => fetches'[g] = fetches[g]
  BY <1>0, <1>2, <1>3, OneFetch
<1>5. CallsMatch'
  BY <1>3, <1>4 DEF IInv, CallsMatch
<1>6. ASSUME NEW d \in Containers, d # c, Awaited(d) PROVE Awaited(d)'
  BY <1>1, <1>4, <1>6 DEF Awaited
<1>7. UNCHANGED <<registry, toMain, states, alive, finalizers, gone>>
  BY DEF Answer
<1>8. k \in Clients /\ containers[c] \in ContainerType /\ PhaseOK(c)
  BY <1>0, <1>1 DEF IInv, ClientsKnown, TypeOK
<1>9. ClientsKnown'
  BY <1>3, <1>4, <1>8 DEF IInv, ClientsKnown
<1>10. CASE /\ containers[c].phase = "ready"
            /\ containers' = [containers EXCEPT ![c].clients = @ \cup {k}]
  <2> DEFINE x == [containers[c] EXCEPT !.clients = @ \cup {k}]
  <2>1. /\ x \in ContainerType /\ x.phase = "ready" /\ x.live = containers[c].live
        /\ x.clients = containers[c].clients \cup {k} /\ x.destroyed = containers[c].destroyed
    BY <1>8, <1>10 DEF ContainerType
  <2>2. containers' = [containers EXCEPT ![c] = x]
    BY <1>10
  <2> HIDE DEF x
  <2>3. /\ containers' \in [Containers -> ContainerType]
        /\ containers'[c] = x
        /\ \A d \in Containers : d # c => containers'[d] = containers[d]
    BY <1>0, <2>1, <2>2 DEF TypeOK
  <2>4. TypeOK'
    BY <1>0, <1>4, <1>7, <2>1, <2>3 DEF TypeOK
  <2>5. NotMadeYet'
    BY <1>3, <1>4, <1>10, <2>1, <2>3, Ranges DEF IInv, NotMadeYet
  <2>6. ASSUME NEW d \in Containers PROVE PhaseOK(d)'
    <3>1. CASE d = c
      BY <3>1, <2>1, <2>3 DEF PhaseOK
    <3>2. CASE d # c
      BY <3>2, <1>6, <1>7, <2>3 DEF IInv, PhaseOK
    <3>3. QED BY <3>1, <3>2
  <2>7. LiveRegistered'
    BY <1>7, <2>1, <2>3 DEF IInv, LiveRegistered
  <2>8. LiveUsed'
    BY <1>6, <2>1, <2>3 DEF IInv, LiveUsed, Awaited
  <2>9. QED
    BY <1>5, <1>9, <2>4, <2>5, <2>6, <2>7, <2>8 DEF IInv
<1>11. CASE containers[c].phase = "failed" /\ UNCHANGED containers
  <2>1. TypeOK'
    BY <1>0, <1>4, <1>7, <1>11 DEF TypeOK
  <2>2. NotMadeYet'
    BY <1>3, <1>4, <1>11 DEF IInv, NotMadeYet
  <2>3. ASSUME NEW d \in Containers PROVE PhaseOK(d)'
    <3>1. CASE d = c
      BY <3>1, <1>7, <1>8, <1>11 DEF PhaseOK
    <3>2. CASE d # c
      BY <3>2, <1>6, <1>7, <1>11 DEF IInv, PhaseOK
    <3>3. QED BY <3>1, <3>2
  <2>4. LiveRegistered'
    BY <1>7, <1>11 DEF IInv, LiveRegistered
  <2>5. ~containers[c].live
    BY <1>8, <1>11 DEF PhaseOK
  <2>6. LiveUsed'
    BY <1>6, <1>11, <2>5 DEF IInv, LiveUsed, Awaited
  <2>7. QED
    BY <1>5, <1>9, <2>1, <2>2, <2>3, <2>4, <2>6 DEF IInv
<1>12. QED
  BY <1>1, <1>10, <1>11 DEF Answer, Client
-----------------------------------------------------------------------------
\* The invariant holds in every reachable state, for any number of windows and
\* fetches.
THEOREM Invariance == Spec => []IInv
<1>1. IInv /\ [Next]_vars => IInv'
  <2> SUFFICES ASSUME IInv, [Next]_vars PROVE IInv'
    OBVIOUS
  <2>1. CASE Main
    <3>1. ASSUME NEW c \in Containers, FactoryDone(c) PROVE IInv'
      BY <3>1, FactoryDoneInv
    <3>2. ASSUME NEW k \in Clients, HandleCall(k) \/ HandleUnref(k) PROVE IInv'
      BY <3>2, HandleCallInv, HandleUnrefInv
    <3>3. ASSUME NEW f \in Fetches, Revalidated(f) \/ Answer(f) PROVE IInv'
      BY <3>3, RevalidatedInv, AnswerInv
    <3>4. QED
      BY <2>1, <3>1, <3>2, <3>3 DEF Main
  <2>2. ASSUME NEW k \in Clients, Window(k) PROVE IInv'
    <3>1. ASSUME NEW o \in finalizers, Finalize(o) PROVE IInv'
      BY <3>1, CopiesInv DEF IInv, TypeOK
    <3>2. QED
      BY <2>2, <3>1, ReceiveInv, ReceiveErrorInv DEF Window
  <2>3. ASSUME NEW k \in Clients, CloseWindow(k) PROVE IInv'
    BY <2>3, CloseWindowInv
  <2>4. ASSUME NEW f \in Fetches, Abort(f) \/ Collect(f) PROVE IInv'
    BY <2>4, AbortInv, CopiesInv
  <2>5. ASSUME NEW f \in Fetches, NEW k \in Clients, Start(f, k) PROVE IInv'
    BY <2>5, StartInv
  <2>6. ASSUME NEW c \in Containers, Operate(c) PROVE IInv'
    BY <2>6, OperateInv
  <2>7. CASE UNCHANGED vars
    BY <2>7 DEF vars, IInv, TypeOK, CallsMatch, NotMadeYet, ClientsKnown, PhaseOK, Awaited,
                LiveRegistered, LiveUsed
  <2>8. QED
    BY <2>1, <2>2, <2>3, <2>4, <2>5, <2>6, <2>7 DEF Next
<1>2. QED
  BY <1>1, InitInv, PTL DEF Spec

\* Every variable keeps its type, and no destroyed container is registered.
THEOREM TypeCorrect == Spec => []TypeOK
<1>1. IInv => TypeOK
  BY DEF IInv
<1>2. QED
  BY <1>1, Invariance, PTL

\* Two containers never watch for one state: a destroyed container that is
\* tracked late cannot unregister its successor, nor be live itself.
THEOREM OnlyRegisteredLive == Spec => []LiveRegistered
<1>1. IInv => LiveRegistered
  BY DEF IInv
<1>2. QED
  BY <1>1, Invariance, PTL

\* Watchers are open only for a tracked window or a call that will track one.
THEOREM NoOrphanedWatchers == Spec => []LiveUsed
<1>1. IInv => LiveUsed
  BY DEF IInv
<1>2. QED
  BY <1>1, Invariance, PTL
=============================================================================
