----------------------------- MODULE TogetherPeers -----------------------------
(***************************************************************************)
(* The peer connections of the master of a multiplayer room                *)
(* (packages/multiplayer-core/lib: room.ts, multiplayer.ts, peer.ts).      *)
(*                                                                         *)
(* The signaling server tells the master who is in the room and passes     *)
(* descriptions on.  The master offers a connection to every member,       *)
(* keeps it when the member comes back under another peer id, replaces it  *)
(* when it breaks and drops it when the member stays away.  The server,    *)
(* the members and the network are external: members come and go, answer   *)
(* an offer more than once (as their candidates come in), connections      *)
(* break, the master's own socket is lost and restored.                    *)
(***************************************************************************)
EXTENDS Integers, Sequences, FiniteSetsExt

CONSTANTS
    Accounts,     \* the other accounts
    MaxIds,       \* bound on the peer ids of an account
    MaxVisits,    \* bound on how often accounts come, all told
    MaxSessions,  \* bound on the peers that are created
    MaxRetries,   \* replacements of a broken peer before the member is removed
    MaxBreaks,    \* bound on connections that break though both ends live
    MaxLosses,    \* bound on the losses of the master's socket
    MaxAnswers,   \* bound on the answers members send
    None

ASSUME BoundsAssumption ==
    {MaxIds, MaxVisits, MaxSessions, MaxRetries, MaxBreaks, MaxLosses, MaxAnswers} \subseteq Nat

\* A peer id belongs to an account; a member who rejoins gets another one.
PeerIds == Accounts \X (1..MaxIds)
Owner(id) == id[1]
Sessions == 1..MaxSessions

ASSUME AccountsAssumption == IsFiniteSet(Accounts)
ASSUME NoneAssumption == None \notin PeerIds \cup Nat

\* Under which peer id each account is in the room.
Places == {f \in [Accounts -> PeerIds \cup {None}] :
             \A a \in Accounts : f[a] # None => Owner(f[a]) = a}

VARIABLES
    present,   \* server: the peer id under which an account is in the room
    revision,  \* server: the revision of the room
    holds,     \* members: the sessions whose offers the account's client has
    inbox,     \* what the server has sent over the current socket
    room,      \* TogetherRoom: its socket, what it knows, its grace timers
    glue,      \* createTogetherMultiplayer: peers, roomPeers, retries, timers
    budget     \* what may still go wrong

vars == <<present, revision, holds, inbox, room, glue, budget>>

Broken == {"disconnected", "failed"}
Gone == [open |-> FALSE, remote |-> None, initiator |-> FALSE, gathering |-> FALSE,
         answered |-> FALSE, spoilt |-> FALSE, conn |-> "new", metadata |-> FALSE,
         timer |-> FALSE]

Init ==
    /\ present = [a \in Accounts |-> None] /\ revision = 1
    /\ holds = [a \in Accounts |-> {}]
    /\ inbox = <<>>
    /\ room = [socket |-> "open", hasSnapshot |-> TRUE, revision |-> 1,
               members |-> [a \in Accounts |-> None],
               pendingDrops |-> [a \in Accounts |-> None]]
    /\ glue = [peers |-> [s \in Sessions |-> Gone], created |-> 0,
               roomPeers |-> [id \in PeerIds |-> None],
               retries |-> [id \in PeerIds |-> 0],
               timers |-> [id \in PeerIds |-> None]]
    /\ budget = [visits |-> MaxVisits, breaks |-> MaxBreaks, losses |-> MaxLosses, answers |-> MaxAnswers]

Listed(id) == room.members[Owner(id)] = id
-----------------------------------------------------------------------------
(***************************************************************************)
(* Peers and the callbacks of the room.  Each operator takes and returns   *)
(* the state of the glue, so that a handler can run several of them.       *)
(***************************************************************************)

\* Mutant: closing a peer leaves it in roomPeers.
ClosedButListed(g, s) == [g EXCEPT !.peers[s] = Gone]

\* TogetherPeer.close, dropPeer: the peer is gone, and from roomPeers too.
Closed(g, s) ==
    [g EXCEPT !.peers[s] = Gone,
              !.roomPeers = [id \in PeerIds |-> IF @[id] = s THEN None ELSE @[id]]]

\* createPeer
Created(g, s, id, initiator) ==
    [g EXCEPT !.peers[s] = [Gone EXCEPT !.open = TRUE, !.remote = id,
                                        !.initiator = initiator, !.gathering = initiator],
              !.roomPeers[id] = s]

Offered(g, id) ==
    [Created(g, g.created + 1, id, TRUE) EXCEPT !.created = g.created + 1]

\* callbacks.initiate: an open peer is reused.
Initiated(g, id) == IF g.roomPeers[id] # None THEN g ELSE Offered(g, id)

\* callbacks.drop, for one id after the other
Dropped(g, ids) ==
    LET closed == {g.roomPeers[id] : id \in ids} \ {None} IN
    [g EXCEPT !.peers = [s \in Sessions |-> IF s \in closed THEN Gone ELSE @[s]],
              !.roomPeers = [id \in PeerIds |-> IF @[id] \in closed THEN None ELSE @[id]],
              !.retries = [id \in PeerIds |-> IF id \in ids THEN 0 ELSE @[id]],
              !.timers = [id \in PeerIds |-> IF id \in ids THEN None ELSE @[id]]]

\* callbacks.remap
Remapped(g, old, id) ==
    LET h == [g EXCEPT !.timers[old] = None, !.retries[old] = 0,
                       !.retries[id] = IF g.retries[old] > 0 THEN g.retries[old] ELSE @]
        s == g.roomPeers[old]
        r == g.roomPeers[id]
        k == IF r # None /\ r # s THEN Closed(h, r) ELSE h
    IN  IF s = None THEN h
        ELSE [k EXCEPT !.roomPeers[old] = None, !.roomPeers[id] = s, !.peers[s].remote = id]

\* retryRoomPeer applies to the initiator's peer that roomPeers names.
CanRetry(s) ==
    /\ room.socket # "closed"
    /\ LET p == glue.peers[s] IN p.open /\ p.initiator /\ glue.roomPeers[p.remote] = s

\* Mutant: one replacement too many.
MustRemoveLate(id) == glue.retries[id] > MaxRetries

MustRemove(id) == glue.retries[id] + 1 > MaxRetries

\* retryRoomPeer: the peer is closed; a new one takes its place, or the member
\* is removed when there have been too many.
Retried(s) ==
    LET id == glue.peers[s].remote
        h == [Closed(glue, s) EXCEPT !.timers[id] = None]
    IN  IF MustRemove(id) THEN [h EXCEPT !.retries[id] = 0]
        ELSE [Offered(h, id) EXCEPT !.retries[id] = @ + 1]

\* The server hears of a removal when the socket is open.
RemovedByMaster(s) ==
    LET id == glue.peers[s].remote IN
    IF MustRemove(id) /\ Listed(id) /\ room.socket = "open" /\ present[Owner(id)] = id
      THEN /\ present' = [present EXCEPT ![Owner(id)] = None]
           /\ revision' = revision + 1
           /\ inbox' = Append(inbox, [type |-> "state", revision |-> revision + 1,
                                      members |-> [present EXCEPT ![Owner(id)] = None]])
      ELSE UNCHANGED <<present, revision, inbox>>

Retry(s) ==
    /\ glue' = Retried(s) /\ glue'.created <= MaxSessions
    /\ RemovedByMaster(s)
-----------------------------------------------------------------------------
(***************************************************************************)
(* The room.                                                               *)
(***************************************************************************)

\* An account's part of a new state of the room: a member who is back keeps
\* his peer, a member who is missing may stay away for a while.
Seen(g, a, id) ==
    LET pending == room.pendingDrops[a]
        old == room.members[a]
        h == IF pending # None /\ id # None /\ pending # id THEN Remapped(g, pending, id) ELSE g
        k == IF old # None /\ id # None /\ old # id THEN Remapped(h, old, id) ELSE h
    IN  IF id = None THEN g ELSE Initiated(k, id)

AllSeen(g, members) == FoldSet(LAMBDA a, h : Seen(h, a, members[a]), g, Accounts)

\* Mutant: only a member who is back under another id stops his timer.
PendingWhenRemapped(a, id) ==
    CASE room.pendingDrops[a] # None -> IF id \in {None, room.pendingDrops[a]}
                                          THEN room.pendingDrops[a] ELSE None
      [] room.pendingDrops[a] = None -> IF id = None THEN room.members[a] ELSE None

\* The grace timer of an account: stopped by his return, started when he is
\* missing, and left alone while he stays away.
Pending(a, id) ==
    IF id # None THEN None
    ELSE IF room.pendingDrops[a] # None THEN room.pendingDrops[a]
    ELSE room.members[a]

\* Mutant: any state of the room is applied.
OutdatedNever(m) == FALSE

Outdated(m) == m.revision <= room.revision

\* applyState
ApplyState ==
    /\ room.socket = "open" /\ inbox # <<>> /\ Head(inbox).type = "state"
    /\ inbox' = Tail(inbox)
    /\ LET m == Head(inbox) IN
       IF Outdated(m) THEN UNCHANGED <<room, glue>>
       ELSE /\ room' = [room EXCEPT !.hasSnapshot = TRUE, !.revision = m.revision,
                                    !.members = m.members,
                                    !.pendingDrops =
                                        [a \in Accounts |-> Pending(a, m.members[a])]]
            /\ glue' = AllSeen(glue, m.members)
            /\ glue'.created <= MaxSessions
    /\ UNCHANGED <<present, revision, holds, budget>>

\* What applying an answer makes of a peer.  The description is taken and gives
\* the connection its other end, or not; and when it or one of its candidates
\* cannot be applied the attempt of the peer ends in failure (spoilt), while the
\* peer stays.  An answer to a peer that offers nothing is never taken.
Answered(p) ==
    IF p.initiator
      THEN {[p EXCEPT !.answered = TRUE], [p EXCEPT !.spoilt = TRUE],
            [p EXCEPT !.answered = TRUE, !.spoilt = TRUE]}
      ELSE {p}

\* An answer arrives.  For a session that was closed a peer is created anew,
\* which takes the place of the one the member has now.
ApplyAnswer ==
    /\ room.socket = "open" /\ inbox # <<>> /\ Head(inbox).type = "answer"
    /\ room.hasSnapshot /\ Listed(Head(inbox).sender)
    /\ inbox' = Tail(inbox)
    /\ LET m == Head(inbox) IN
       IF glue.peers[m.session].open
         THEN \E p \in Answered(glue.peers[m.session]) :
                glue' = [glue EXCEPT !.roomPeers[m.sender] = m.session,
                                     !.peers[m.session] = p]
         ELSE glue' = Created(glue, m.session, m.sender, FALSE)
    /\ UNCHANGED <<present, revision, holds, room, budget>>

\* The timer of a member who has stayed away.
GraceEnds(a) ==
    /\ room.pendingDrops[a] # None
    /\ room' = [room EXCEPT !.pendingDrops[a] = None]
    /\ glue' = Dropped(glue, {room.pendingDrops[a]})
    /\ UNCHANGED <<present, revision, holds, inbox, budget>>

\* The socket is lost, with all that was on its way.
LoseSocket ==
    /\ room.socket = "open" /\ budget.losses > 0
    /\ room' = [room EXCEPT !.socket = "down"] /\ inbox' = <<>>
    /\ budget' = [budget EXCEPT !.losses = @ - 1]
    /\ UNCHANGED <<present, revision, holds, glue>>

\* restore: a new socket; what is known of the room is outdated.
Restore ==
    /\ room.socket = "down"
    /\ room' = [room EXCEPT !.socket = "open", !.hasSnapshot = FALSE, !.revision = -1]
    /\ inbox' = <<[type |-> "state", revision |-> revision, members |-> present]>>
    /\ UNCHANGED <<present, revision, holds, glue, budget>>

\* closePeers
Closing ==
    ({room.members[a] : a \in Accounts} \cup {room.pendingDrops[a] : a \in Accounts}) \ {None}

\* fail or quit
CloseRoom ==
    /\ room.socket # "closed"
    /\ room' = [room EXCEPT !.socket = "closed", !.pendingDrops = [a \in Accounts |-> None]]
    /\ glue' = Dropped(glue, Closing)
    /\ inbox' = <<>>
    /\ UNCHANGED <<present, revision, holds, budget>>
-----------------------------------------------------------------------------
(***************************************************************************)
(* A peer of the master.                                                   *)
(***************************************************************************)
Peer(s) == glue.peers[s]
SetPeer(s, p) == glue' = [glue EXCEPT !.peers[s] = p]

\* The other end of the connection is alive.
Linked(s) == Peer(s).answered /\ s \in holds[Owner(Peer(s).remote)]

\* onDescription, while candidates are gathered and, the last time, after it.
\* A description that cannot be sent is lost.
Publish(s) ==
    /\ Peer(s).open /\ Peer(s).gathering
    /\ \E more \in BOOLEAN : SetPeer(s, [Peer(s) EXCEPT !.gathering = more])
    /\ LET id == Peer(s).remote IN
       holds' = IF /\ room.socket = "open" /\ room.hasSnapshot
                   /\ Listed(id) /\ present[Owner(id)] = id
                  THEN [holds EXCEPT ![Owner(id)] = @ \cup {s}] ELSE holds
    /\ <<holds, glue>>' # <<holds, glue>>
    /\ UNCHANGED <<present, revision, inbox, room, budget>>

\* onState, connected: without a metadata channel yet a timer runs for it.
Connected(g, s) ==
    LET p == g.peers[s] IN
    [g EXCEPT !.timers[p.remote] = None,
              !.retries[p.remote] = IF p.metadata THEN 0 ELSE @,
              !.peers[s].timer = ~p.metadata]

Connect(s) ==
    /\ Peer(s).open /\ Linked(s) /\ Peer(s).conn \in {"new", "disconnected"}
    /\ glue' = Connected([glue EXCEPT !.peers[s].conn = "connected"], s)
    /\ UNCHANGED <<present, revision, holds, inbox, room, budget>>

MetadataOpens(s) ==
    /\ Peer(s).open /\ Linked(s) /\ Peer(s).conn = "connected" /\ ~Peer(s).metadata
    /\ glue' = Connected([glue EXCEPT !.peers[s].metadata = TRUE], s)
    /\ UNCHANGED <<present, revision, holds, inbox, room, budget>>

\* The timer ends: the peer is replaced, or closed if it is not in use.  A peer
\* whose attempt has ended in failure is left as it is.
MetadataTimeout(s) ==
    /\ Peer(s).open /\ Peer(s).timer
    /\ \/ ~Peer(s).spoilt /\ CanRetry(s) /\ Retry(s)
       \/ /\ ~Peer(s).spoilt /\ ~CanRetry(s)
          /\ glue' = Closed(glue, s)
          /\ UNCHANGED <<present, revision, inbox>>
       \/ /\ Peer(s).spoilt
          /\ SetPeer(s, [Peer(s) EXCEPT !.timer = FALSE])
          /\ UNCHANGED <<present, revision, inbox>>
    /\ UNCHANGED <<holds, room, budget>>

\* A connection breaks because its other end is gone, or for no such reason.
Breaks(s) ==
    IF Linked(s) THEN budget.breaks > 0 /\ budget' = [budget EXCEPT !.breaks = @ - 1]
    ELSE UNCHANGED budget

Disconnect(s) ==
    /\ Peer(s).open /\ Peer(s).conn = "connected" /\ Breaks(s)
    /\ LET id == Peer(s).remote IN
       glue' = [glue EXCEPT !.peers[s].conn = "disconnected",
                            !.timers[id] = IF @ = None THEN s ELSE @]
    /\ UNCHANGED <<present, revision, holds, inbox, room>>

\* Five seconds later.
ReconnectTimeout(id) ==
    /\ glue.timers[id] # None
    /\ LET s == glue.timers[id] IN
       IF Peer(s).open /\ Peer(s).conn = "disconnected" /\ CanRetry(s) THEN Retry(s)
       ELSE glue' = [glue EXCEPT !.timers[id] = None] /\ UNCHANGED <<present, revision, inbox>>
    /\ UNCHANGED <<holds, room, budget>>

\* Mutant: a failed peer is left to its timer.
FailPeerKept(s) ==
    /\ Peer(s).open /\ Peer(s).answered /\ Peer(s).conn # "failed" /\ Breaks(s)
    /\ SetPeer(s, [Peer(s) EXCEPT !.conn = "failed", !.timer = FALSE])
    /\ UNCHANGED <<present, revision, inbox, holds, room>>

\* onState, failed
FailPeer(s) ==
    /\ Peer(s).open /\ Peer(s).answered /\ Peer(s).conn # "failed" /\ Breaks(s)
    /\ IF CanRetry(s) THEN Retry(s)
       ELSE /\ SetPeer(s, [Peer(s) EXCEPT !.conn = "failed", !.timer = FALSE])
            /\ UNCHANGED <<present, revision, inbox>>
    /\ UNCHANGED <<holds, room>>
-----------------------------------------------------------------------------
(***************************************************************************)
(* The server and the members.                                             *)
(***************************************************************************)

\* The room changes.  The master hears of it over an open socket.
Change(members) ==
    /\ present' = members /\ revision' = revision + 1
    /\ inbox' = IF room.socket = "open"
                  THEN Append(inbox, [type |-> "state", revision |-> revision + 1,
                                      members |-> members])
                  ELSE inbox
    /\ UNCHANGED <<room, glue>>

\* A member loses his socket, or his program ends and its connections with it.
Leave(a) ==
    /\ present[a] # None
    /\ holds' \in {holds, [holds EXCEPT ![a] = {}]}
    /\ Change([present EXCEPT ![a] = None])
    /\ UNCHANGED budget

\* He comes, or comes back under the same peer id or another; the server may
\* not have noticed that he was away.
Enter(a) ==
    /\ budget.visits > 0 /\ budget' = [budget EXCEPT !.visits = @ - 1]
    /\ holds' \in {holds, [holds EXCEPT ![a] = {}]}
    /\ \E id \in PeerIds :
        /\ Owner(id) = a /\ present[a] # id
        /\ Change([present EXCEPT ![a] = id])

\* He answers an offer, and again when he has more candidates.
Answer(a) ==
    /\ present[a] # None /\ room.socket = "open" /\ budget.answers > 0
    /\ \E s \in holds[a] :
        inbox' = Append(inbox, [type |-> "answer", sender |-> present[a], session |-> s])
    /\ budget' = [budget EXCEPT !.answers = @ - 1]
    /\ UNCHANGED <<present, revision, holds, room, glue>>

\* A state of the room overtakes the one sent before it.
Overtake ==
    /\ \E i \in 1..(Len(inbox) - 1) :
        /\ inbox[i].type = "state" /\ inbox[i + 1].type = "state"
        /\ inbox[i].revision < inbox[i + 1].revision
        /\ inbox' = [inbox EXCEPT ![i] = inbox[i + 1], ![i + 1] = inbox[i]]
    /\ UNCHANGED <<present, revision, holds, room, glue, budget>>

RoomStep == ApplyState \/ ApplyAnswer \/ Restore \/ \E a \in Accounts : GraceEnds(a)

PeerStep(s) ==
    \/ Connect(s) \/ MetadataOpens(s) \/ MetadataTimeout(s)
    \/ Disconnect(s) \/ FailPeer(s)

Next ==
    \/ RoomStep \/ LoseSocket \/ CloseRoom \/ Overtake
    \/ \E s \in Sessions : PeerStep(s) \/ Publish(s)
    \/ \E id \in PeerIds : ReconnectTimeout(id)
    \/ \E a \in Accounts : Leave(a) \/ Enter(a) \/ Answer(a)

\* A connection that is being made or has lost its other end comes to a
\* result, and timers fire.  One that is up need not do anything: its metadata
\* channel may never open, and it may never break.
Due(s) == Peer(s).conn = "connected" /\ Linked(s) => Peer(s).timer
Fairness == \A s \in Sessions : WF_vars(Due(s) /\ PeerStep(s))

Spec == Init /\ [][Next]_vars
FairSpec == Spec /\ Fairness
-----------------------------------------------------------------------------
RoomType ==
    [socket : {"open", "down", "closed"}, hasSnapshot : BOOLEAN, revision : Int,
     members : Places, pendingDrops : Places]

PeerType ==
    [open : BOOLEAN, remote : PeerIds \cup {None}, initiator : BOOLEAN, gathering : BOOLEAN,
     answered : BOOLEAN, spoilt : BOOLEAN, conn : {"new", "connected"} \cup Broken,
     metadata : BOOLEAN, timer : BOOLEAN]

GlueType ==
    [peers : [Sessions -> PeerType], created : 0..MaxSessions,
     roomPeers : [PeerIds -> Sessions \cup {None}],
     retries : [PeerIds -> 0..MaxRetries],
     timers : [PeerIds -> Sessions \cup {None}]]

Message ==
    [type : {"state"}, revision : Nat, members : Places]
      \cup [type : {"answer"}, sender : PeerIds, session : Sessions]

BudgetType == [visits : Nat, breaks : Nat, losses : Nat, answers : Nat]

\* Every variable has a value of its kind; a peer is replaced MaxRetries times
\* at most before a metadata channel opens.
TypeOK ==
    /\ present \in Places /\ revision \in Nat
    /\ holds \in [Accounts -> SUBSET Sessions]
    /\ inbox \in Seq(Message)
    /\ room \in RoomType /\ glue \in GlueType /\ budget \in BudgetType

\* Whatever is lost, overtaken or restored: the master knows who is in the room
\* when nothing is on its way, and never takes a member for a stranger (which
\* would fail the room).
InStep ==
    room.socket = "open" =>
        /\ inbox = <<>> => room.hasSnapshot /\ room.members = present
        /\ inbox # <<>> /\ Head(inbox).type = "answer" =>
             room.hasSnapshot /\ Listed(Head(inbox).sender)

\* Whatever ids he comes back under and whatever states are passed over: no grace
\* timer runs for an account that is in the room.
GraceSpares ==
    \A a \in Accounts : room.pendingDrops[a] # None => room.members[a] = None

\* roomPeers names open peers only (a closed one would be reused and its member
\* never be offered a connection again), and peers of members or of those whose
\* grace timer runs, so that closing the room closes every one of them.
RoomPeersTrue ==
    \A id \in PeerIds : glue.roomPeers[id] # None =>
        /\ Peer(glue.roomPeers[id]).open
        /\ room.socket # "closed" /\ id \in Closing

InUse(s) == Peer(s).open /\ glue.roomPeers[Peer(s).remote] = s
Negotiating(s) == InUse(s) /\ Peer(s).answered /\ Peer(s).conn # "failed"

\* Its attempt had ended in failure when the timer of the metadata channel did.
GivenUp(s) == Peer(s).conn = "connected" /\ Peer(s).spoilt /\ ~Peer(s).timer

\* A peer that was answered is not left half open, whatever breaks: it gets a
\* metadata channel, is closed (and replaced), or roomPeers has another one.
\* There is one exception: when an answer could not be applied the timer passes
\* the peer over, and it may stay connected without a channel for ever.
PeersSettle ==
    \A s \in Sessions :
        Negotiating(s) ~> (\/ ~InUse(s) \/ GivenUp(s)
                           \/ Peer(s).conn = "connected" /\ Peer(s).metadata)

\* "replaces a failed room peer while the local user is master": no failed peer
\* of a member stays.
FailedPeerReplaced ==
    \A s \in Sessions :
        Peer(s).open /\ Peer(s).conn = "failed" /\ room.socket # "closed" =>
            ~Listed(Peer(s).remote)
=============================================================================
