------------------------- MODULE TogetherPeersProofs -------------------------
(***************************************************************************)
(* For any accounts, peer ids and bounds: the master knows who is in the   *)
(* room, no grace timer runs for an account that is, and its list of room  *)
(* peers names open peers, each of a member or of one who may come back.   *)
(***************************************************************************)
EXTENDS TogetherPeers, FiniteSetTheorems, SequenceTheorems, TLAPS

\* An open peer is somebody's.
Remotes == \A s \in Sessions : glue.peers[s].open => glue.peers[s].remote # None

\* The state a room in state r has reached after the first n messages of q
\* puts account a under id.
Knows(r, q, n, a, id) ==
    \/ /\ r.members[a] = id
       /\ \A k \in 1..n : q[k].type = "state" => q[k].revision <= r.revision
    \/ \E j \in 1..n :
        /\ q[j].type = "state" /\ q[j].revision > r.revision /\ q[j].members[a] = id
        /\ \A k \in 1..n : q[k].type = "state" => q[k].revision <= q[j].revision

\* States have revisions of their own, and none from the future.
Ordered(r, q, rev) ==
    /\ r.revision <= rev
    /\ \A j \in 1..Len(q) : q[j].type = "state" => q[j].revision <= rev
    /\ \A j, k \in 1..Len(q) :
        j # k /\ q[j].type = "state" /\ q[k].type = "state" => q[j].revision # q[k].revision

\* What is on its way leads to where the server is, and past the member who
\* answers when his answer is reached.
Leads(r, q, members) ==
    /\ \A a \in Accounts : Knows(r, q, Len(q), a, members[a])
    /\ \A n \in 1..Len(q) : q[n].type = "answer" =>
         Knows(r, q, n - 1, Owner(q[n].sender), q[n].sender)
    /\ ~r.hasSnapshot => q # <<>> /\ q[1].type = "state" /\ r.revision = -1

Revisions == Ordered(room, inbox, revision)
Foreseen == room.socket = "open" => Leads(room, inbox, present)

IInv == TypeOK /\ Remotes /\ Revisions /\ Foreseen /\ GraceSpares /\ RoomPeersTrue

\* The parts of it that are about the room, and about the glue.
RoomPart ==
    /\ present \in Places /\ revision \in Nat /\ inbox \in Seq(Message) /\ room \in RoomType
    /\ Revisions /\ Foreseen /\ GraceSpares

GluePart == glue \in GlueType /\ Remotes /\ RoomPeersTrue

RestPart == holds \in [Accounts -> SUBSET Sessions] /\ budget \in BudgetType
-----------------------------------------------------------------------------
(***************************************************************************)
(* The operators of the glue.  While a state of the room is applied there  *)
(* may be more sessions than the bound allows, so these lemmas are about a *)
(* wider type.                                                             *)
(***************************************************************************)

Wide ==
    [peers : [Sessions -> PeerType], created : Nat,
     roomPeers : [PeerIds -> Nat \cup {None}],
     retries : [PeerIds -> 0..MaxRetries],
     timers : [PeerIds -> Sessions \cup {None}]]

\* Whom room peers may be of, that they are open, and that every open peer is
\* somebody's.
Sound(g, ids) ==
    /\ \A s \in Sessions : g.peers[s].open => g.peers[s].remote # None
    /\ \A id \in PeerIds : g.roomPeers[id] # None =>
         /\ id \in ids
         /\ g.roomPeers[id] \in Sessions \cup 1..g.created
         /\ g.roomPeers[id] \in Sessions => g.peers[g.roomPeers[id]].open

LEMMA Values ==
    /\ MaxSessions \in Nat /\ MaxRetries \in Nat /\ Sessions \subseteq Nat
    /\ None \notin PeerIds /\ None \notin Nat /\ None \notin Sessions
    /\ Gone \in PeerType /\ ~Gone.open
<1>1. MaxSessions \in Nat /\ MaxRetries \in Nat
  BY BoundsAssumption
<1>2. Sessions \subseteq Nat
  BY <1>1 DEF Sessions
<1>3. Gone \in PeerType /\ ~Gone.open
  BY DEF Gone, PeerType
<1> QED
  BY <1>1, <1>2, <1>3, NoneAssumption

LEMMA ClosedIs ==
    ASSUME NEW g \in Wide, NEW s
    PROVE  /\ Closed(g, s) \in Wide
           /\ Closed(g, s).created = g.created /\ Closed(g, s).retries = g.retries
           /\ Closed(g, s).timers = g.timers
           /\ \A t \in Sessions : Closed(g, s).peers[t] = IF t = s THEN Gone ELSE g.peers[t]
           /\ \A id \in PeerIds : Closed(g, s).roomPeers[id] =
                IF g.roomPeers[id] = s THEN None ELSE g.roomPeers[id]
<1> DEFINE pp == [g.peers EXCEPT ![s] = Gone]
           rp == [id \in PeerIds |-> IF g.roomPeers[id] = s THEN None ELSE g.roomPeers[id]]
<1>1. /\ pp \in [Sessions -> PeerType]
      /\ \A t \in Sessions : pp[t] = IF t = s THEN Gone ELSE g.peers[t]
  BY Values DEF Wide
<1>2. rp \in [PeerIds -> Nat \cup {None}]
  BY DEF Wide
<1>3. Closed(g, s) = [g EXCEPT !.peers = pp, !.roomPeers = rp]
  BY DEF Closed, Wide
<1>4. \A id \in PeerIds : rp[id] = IF g.roomPeers[id] = s THEN None ELSE g.roomPeers[id]
  OBVIOUS
<1> HIDE DEF pp, rp
<1> QED
  BY <1>1, <1>2, <1>3, <1>4 DEF Wide

LEMMA ClosedSound ==
    ASSUME NEW g \in Wide, NEW s, s # None, NEW ids, Sound(g, ids)
    PROVE  Closed(g, s) \in Wide /\ Sound(Closed(g, s), ids)
<1> DEFINE h == Closed(g, s)
<1>1. /\ h \in Wide /\ h.created = g.created
      /\ \A t \in Sessions : h.peers[t] = IF t = s THEN Gone ELSE g.peers[t]
      /\ \A id \in PeerIds : h.roomPeers[id] = IF g.roomPeers[id] = s THEN None ELSE g.roomPeers[id]
  BY ClosedIs
<1> HIDE DEF h
<1>2. \A t \in Sessions : h.peers[t].open => h.peers[t].remote # None
  BY <1>1, Values DEF Sound
<1>3. ASSUME NEW id \in PeerIds, h.roomPeers[id] # None
      PROVE  /\ id \in ids /\ h.roomPeers[id] \in Sessions \cup 1..h.created
             /\ h.roomPeers[id] \in Sessions => h.peers[h.roomPeers[id]].open
  <2>1. g.roomPeers[id] # s /\ h.roomPeers[id] = g.roomPeers[id] /\ g.roomPeers[id] # None
    BY <1>1, <1>3
  <2> QED
    BY <1>1, <2>1 DEF Sound
<1>4. Sound(h, ids)
  BY <1>2, <1>3 DEF Sound
<1> QED
  BY <1>1, <1>4 DEF h

LEMMA CreatedIs ==
    ASSUME NEW g \in Wide, NEW s \in Nat, NEW id \in PeerIds, NEW i \in BOOLEAN
    PROVE  /\ Created(g, s, id, i) \in Wide
           /\ Created(g, s, id, i).created = g.created
           /\ Created(g, s, id, i).retries = g.retries
           /\ Created(g, s, id, i).timers = g.timers
           /\ \A t \in Sessions :
                IF t = s THEN /\ Created(g, s, id, i).peers[t].open
                              /\ Created(g, s, id, i).peers[t].remote = id
                ELSE Created(g, s, id, i).peers[t] = g.peers[t]
           /\ Created(g, s, id, i).roomPeers = [g.roomPeers EXCEPT ![id] = s]
<1> DEFINE new == [Gone EXCEPT !.open = TRUE, !.remote = id, !.initiator = i, !.gathering = i]
           pp == [g.peers EXCEPT ![s] = new]
           rp == [g.roomPeers EXCEPT ![id] = s]
<1>1. new \in PeerType /\ new.open /\ new.remote = id
  BY DEF Gone, PeerType
<1>2. Created(g, s, id, i) = [g EXCEPT !.peers = pp, !.roomPeers = rp]
  BY DEF Created, Wide
<1> HIDE DEF new
<1>3. /\ pp \in [Sessions -> PeerType]
      /\ \A t \in Sessions : pp[t] = IF t = s THEN new ELSE g.peers[t]
  BY <1>1 DEF Wide
<1>4. rp \in [PeerIds -> Nat \cup {None}]
  BY DEF Wide
<1> HIDE DEF pp, rp
<1> DEFINE h == Created(g, s, id, i)
<1>5. /\ h \in Wide /\ h.created = g.created /\ h.retries = g.retries
      /\ h.timers = g.timers /\ h.peers = pp /\ h.roomPeers = rp
  BY <1>2, <1>3, <1>4 DEF Wide
<1> HIDE DEF h
<1>6. \A t \in Sessions : IF t = s THEN h.peers[t].open /\ h.peers[t].remote = id
                           ELSE h.peers[t] = g.peers[t]
  BY <1>1, <1>3, <1>5
<1> QED
  BY <1>5, <1>6 DEF h, rp

LEMMA CreatedSound ==
    ASSUME NEW g \in Wide, NEW s \in Nat, NEW id \in PeerIds, NEW i \in BOOLEAN,
           NEW ids, Sound(g, ids), id \in ids, s \in Sessions \cup 1..g.created
    PROVE  /\ Created(g, s, id, i) \in Wide /\ Sound(Created(g, s, id, i), ids)
           /\ Created(g, s, id, i).created = g.created
<1> DEFINE h == Created(g, s, id, i)
<1>1. /\ h \in Wide /\ h.created = g.created
      /\ \A t \in Sessions : IF t = s THEN h.peers[t].open /\ h.peers[t].remote = id
                             ELSE h.peers[t] = g.peers[t]
      /\ h.roomPeers = [g.roomPeers EXCEPT ![id] = s]
  BY CreatedIs, SMTT(60)
<1> HIDE DEF h
<1>2. \A x \in PeerIds : h.roomPeers[x] = IF x = id THEN s ELSE g.roomPeers[x]
  BY <1>1 DEF Wide
<1>3. \A t \in Sessions : h.peers[t].open => h.peers[t].remote # None
  BY <1>1, Values DEF Sound
<1>4. ASSUME NEW x \in PeerIds, h.roomPeers[x] # None
      PROVE  /\ x \in ids /\ h.roomPeers[x] \in Sessions \cup 1..h.created
             /\ h.roomPeers[x] \in Sessions => h.peers[h.roomPeers[x]].open
  <2>1. CASE x = id
    BY <2>1, <1>1, <1>2
  <2>2. CASE x # id
    <3>1. h.roomPeers[x] = g.roomPeers[x] /\ g.roomPeers[x] # None
      BY <2>2, <1>2, <1>4
    <3>2. \A t \in Sessions : g.peers[t].open => h.peers[t].open
      BY <1>1
    <3> QED
      BY <3>1, <3>2, <1>1 DEF Sound
  <2> QED
    BY <2>1, <2>2
<1>5. Sound(h, ids)
  BY <1>3, <1>4 DEF Sound
<1> QED
  BY <1>1, <1>5 DEF h

LEMMA OfferedSound ==
    ASSUME NEW g \in Wide, NEW id \in PeerIds, NEW ids, Sound(g, ids), id \in ids
    PROVE  /\ Offered(g, id) \in Wide /\ Sound(Offered(g, id), ids)
           /\ Offered(g, id).created = g.created + 1 /\ Offered(g, id).retries = g.retries
<1> DEFINE n == g.created + 1
           h == Created(g, n, id, TRUE)
           o == [h EXCEPT !.created = n]
<1>1. n \in Nat /\ g.created \in Nat
  BY DEF Wide
<1>2. /\ h \in Wide /\ h.created = g.created /\ h.retries = g.retries
      /\ \A t \in Sessions : IF t = n THEN h.peers[t].open /\ h.peers[t].remote = id
                             ELSE h.peers[t] = g.peers[t]
      /\ h.roomPeers = [g.roomPeers EXCEPT ![id] = n]
  <2> HIDE DEF n
  <2>1. n \in Nat /\ TRUE \in BOOLEAN
    BY <1>1
  <2>2. ASSUME NEW i \in BOOLEAN
        PROVE  LET c == Created(g, n, id, i) IN
               /\ c \in Wide /\ c.created = g.created /\ c.retries = g.retries
               /\ \A t \in Sessions : IF t = n THEN c.peers[t].open /\ c.peers[t].remote = id
                                      ELSE c.peers[t] = g.peers[t]
               /\ c.roomPeers = [g.roomPeers EXCEPT ![id] = n]
    BY <2>1, CreatedIs
  <2> QED
    BY <2>1, <2>2, Zenon
<1>3. Offered(g, id) = o
  BY DEF Offered
<1> HIDE DEF h
<1>4. /\ o \in Wide /\ o.created = n /\ o.retries = g.retries
      /\ o.peers = h.peers /\ o.roomPeers = h.roomPeers
  BY <1>1, <1>2 DEF Wide
<1> HIDE DEF o
<1>5. \A x \in PeerIds : o.roomPeers[x] = IF x = id THEN n ELSE g.roomPeers[x]
  BY <1>2, <1>4 DEF Wide
<1>6. n \in 1..o.created /\ 1..g.created \subseteq 1..o.created
  BY <1>1, <1>4
<1> HIDE DEF n
<1>7. Sound(o, ids)
  <2>1. \A s \in Sessions : o.peers[s].open => o.peers[s].remote # None
    BY <1>2, <1>4, Values DEF Sound
  <2>2. ASSUME NEW x \in PeerIds, o.roomPeers[x] # None
        PROVE  /\ x \in ids /\ o.roomPeers[x] \in Sessions \cup 1..o.created
               /\ o.roomPeers[x] \in Sessions => o.peers[o.roomPeers[x]].open
    <3>1. CASE x = id
      BY <3>1, <1>2, <1>4, <1>5, <1>6
    <3>2. CASE x # id
      BY <2>2, <3>2, <1>2, <1>4, <1>5, <1>6 DEF Sound
    <3> QED
      BY <3>1, <3>2
  <2> QED
    BY <2>1, <2>2 DEF Sound
<1> QED
  BY <1>3, <1>4, <1>7 DEF n

\* No peer and no timer of someone who is not known any more is left.
LEMMA DroppedSound ==
    ASSUME NEW g \in Wide, NEW D, NEW ids, Sound(g, ids)
    PROVE  /\ Dropped(g, D) \in Wide /\ Sound(Dropped(g, D), ids \ D)
           /\ Dropped(g, D).created = g.created
<1> DEFINE C == {g.roomPeers[id] : id \in D} \ {None}
           pp == [s \in Sessions |-> IF s \in C THEN Gone ELSE g.peers[s]]
           rp == [id \in PeerIds |-> IF g.roomPeers[id] \in C THEN None ELSE g.roomPeers[id]]
           rt == [id \in PeerIds |-> IF id \in D THEN 0 ELSE g.retries[id]]
           tm == [id \in PeerIds |-> IF id \in D THEN None ELSE g.timers[id]]
           h == [g EXCEPT !.peers = pp, !.roomPeers = rp, !.retries = rt, !.timers = tm]
<1>1. Dropped(g, D) = h
  BY DEF Dropped, Wide
<1>2. /\ pp \in [Sessions -> PeerType]
      /\ \A s \in Sessions : pp[s] = IF s \in C THEN Gone ELSE g.peers[s]
  <2> HIDE DEF C
  <2> QED
    BY Values DEF Wide
<1>3. /\ rp \in [PeerIds -> Nat \cup {None}]
      /\ \A id \in PeerIds : rp[id] = IF g.roomPeers[id] \in C THEN None ELSE g.roomPeers[id]
  <2> HIDE DEF C
  <2> QED
    BY DEF Wide
<1>4. rt \in [PeerIds -> 0..MaxRetries]
  BY Values DEF Wide
<1>5. tm \in [PeerIds -> Sessions \cup {None}]
  BY DEF Wide
<1>6. \A id \in D : g.roomPeers[id] # None => g.roomPeers[id] \in C
  OBVIOUS
<1> HIDE DEF C, pp, rp, rt, tm
<1>7. h \in Wide /\ h.created = g.created /\ h.peers = pp /\ h.roomPeers = rp
  BY <1>2, <1>3, <1>4, <1>5 DEF Wide
<1> HIDE DEF h
<1>8. \A s \in Sessions : h.peers[s].open => h.peers[s].remote # None
  BY <1>2, <1>7, Values DEF Sound
<1>9. ASSUME NEW x \in PeerIds, h.roomPeers[x] # None
      PROVE  /\ x \in ids \ D /\ h.roomPeers[x] \in Sessions \cup 1..h.created
             /\ h.roomPeers[x] \in Sessions => h.peers[h.roomPeers[x]].open
  <2>1. g.roomPeers[x] \notin C /\ h.roomPeers[x] = g.roomPeers[x] /\ g.roomPeers[x] # None
    BY <1>3, <1>7, <1>9
  <2>2. x \notin D
    BY <2>1, <1>6
  <2> QED
    BY <1>2, <1>7, <2>1, <2>2 DEF Sound
<1> QED
  BY <1>1, <1>7, <1>8, <1>9 DEF Sound

LEMMA InitiatedSound ==
    ASSUME NEW g \in Wide, NEW id \in PeerIds, NEW ids, Sound(g, ids), id \in ids
    PROVE  /\ Initiated(g, id) \in Wide /\ Sound(Initiated(g, id), ids)
           /\ Initiated(g, id).created >= g.created
<1>1. g.created \in Nat
  BY DEF Wide
<1> QED
  BY <1>1, OfferedSound DEF Initiated

\* A peer moves from one peer id to another.
LEMMA RemappedSound ==
    ASSUME NEW g \in Wide, NEW old \in PeerIds, NEW id \in PeerIds, old # id,
           NEW ids, Sound(g, ids)
    PROVE  /\ Remapped(g, old, id) \in Wide
           /\ Sound(Remapped(g, old, id), (ids \ {old}) \cup {id})
           /\ Remapped(g, old, id).created = g.created
<1> DEFINE tm == [g.timers EXCEPT ![old] = None]
           rt == [g.retries EXCEPT ![old] = 0,
                    ![id] = IF g.retries[old] > 0 THEN g.retries[old] ELSE g.retries[id]]
           h == [g EXCEPT !.timers = tm, !.retries = rt]
           s == g.roomPeers[old]
           r == g.roomPeers[id]
           k == IF r # None /\ r # s THEN Closed(h, r) ELSE h
           pp == [k.peers EXCEPT ![s].remote = id]
           rp == [k.roomPeers EXCEPT ![old] = None, ![id] = s]
           m == [k EXCEPT !.roomPeers = rp, !.peers = pp]
           h1 == [g EXCEPT !.timers[old] = None, !.retries[old] = 0,
                    !.retries[id] = IF g.retries[old] > 0 THEN g.retries[old] ELSE @]
<1>0. h1 = h
  BY DEF Wide
<1>1. Remapped(g, old, id) = IF s = None THEN h ELSE m
  <2> DEFINE k1 == IF r # None /\ r # s THEN Closed(h1, r) ELSE h1
  <2>1. Remapped(g, old, id) = IF s = None THEN h1 ELSE
          [k1 EXCEPT !.roomPeers[old] = None, !.roomPeers[id] = s, !.peers[s].remote = id]
    BY Zenon DEF Remapped
  <2>2. k1 = k
    BY <1>0
  <2>3. [k EXCEPT !.roomPeers[old] = None, !.roomPeers[id] = s, !.peers[s].remote = id] = m
    <3> HIDE DEF k
    <3> QED
      OBVIOUS
  <2> HIDE DEF k1, k, h, h1
  <2> QED
    BY <1>0, <2>1, <2>2, <2>3
<1>2. tm \in [PeerIds -> Sessions \cup {None}] /\ rt \in [PeerIds -> 0..MaxRetries]
  <2>1. g.retries \in [PeerIds -> 0..MaxRetries] /\ g.timers \in [PeerIds -> Sessions \cup {None}]
    BY DEF Wide
  <2>2. 0 \in 0..MaxRetries
    BY Values
  <2> QED
    BY <2>1, <2>2
<1> HIDE DEF tm, rt
<1>3. /\ h \in Wide /\ h.created = g.created /\ h.peers = g.peers
      /\ h.roomPeers = g.roomPeers
  BY <1>2 DEF Wide
<1> HIDE DEF h
<1>4. Sound(h, ids)
  BY <1>3 DEF Sound
<1>5. CASE s = None
  <2>1. Sound(h, (ids \ {old}) \cup {id})
    BY <1>3, <1>4, <1>5 DEF Sound
  <2> QED
    BY <1>1, <1>3, <1>5, <2>1
<1>6. CASE s # None
  <2>1. /\ k \in Wide /\ Sound(k, ids) /\ k.created = g.created
        /\ k.roomPeers[old] = s
    BY <1>3, <1>4, ClosedIs, ClosedSound
  <2>2. s \in Sessions => k.peers[s].open
    BY <1>6, <2>1 DEF Sound
  <2>3. \A x \in PeerIds \ {old, id} : k.roomPeers[x] # None => x \in ids
    BY <2>1 DEF Sound
  <2>4. s \in Nat /\ s \in Sessions \cup 1..g.created
    BY <1>3, <1>4, <1>6 DEF Sound, Wide
  <2> HIDE DEF k, s
  <2>5. rp \in [PeerIds -> Nat \cup {None}]
    BY <2>1, <2>4 DEF Wide
  <2>6. /\ pp \in [Sessions -> PeerType]
        /\ \A t \in Sessions : /\ pp[t].open = k.peers[t].open
                               /\ pp[t].remote = IF t = s THEN id ELSE k.peers[t].remote
    <3>1. k.peers \in [Sessions -> PeerType]
      BY <2>1 DEF Wide
    <3>2. \A t \in Sessions : pp[t] = IF t = s THEN [k.peers[t] EXCEPT !.remote = id] ELSE k.peers[t]
      BY <3>1
    <3>3. DOMAIN pp = Sessions /\ pp = [t \in Sessions |-> pp[t]]
      BY <3>1
    <3>4. ASSUME NEW p \in PeerType
          PROVE  /\ [p EXCEPT !.remote = id] \in PeerType
                 /\ [p EXCEPT !.remote = id].open = p.open
                 /\ [p EXCEPT !.remote = id].remote = id
      BY DEF PeerType
    <3> HIDE DEF pp
    <3>5. ASSUME NEW t \in Sessions
          PROVE  /\ pp[t] \in PeerType /\ pp[t].open = k.peers[t].open
                 /\ pp[t].remote = IF t = s THEN id ELSE k.peers[t].remote
      <4>1. k.peers[t] \in PeerType
        BY <3>1
      <4>2. CASE t = s
        <5>1. pp[t] = [k.peers[t] EXCEPT !.remote = id]
          BY <3>2, <4>2
        <5>2. /\ [k.peers[t] EXCEPT !.remote = id] \in PeerType
              /\ [k.peers[t] EXCEPT !.remote = id].open = k.peers[t].open
              /\ [k.peers[t] EXCEPT !.remote = id].remote = id
          BY <3>4, <4>1, Zenon
        <5> QED
          BY <4>2, <5>1, <5>2, Zenon
      <4>3. CASE t # s
        BY <3>2, <4>1, <4>3, Zenon
      <4> QED
        BY <4>2, <4>3
    <3>6. [t \in Sessions |-> pp[t]] \in [Sessions -> PeerType]
      BY <3>5
    <3>7. pp \in [Sessions -> PeerType]
      BY <3>3, <3>6, Zenon
    <3> QED
      BY <3>5, <3>7
  <2>7. \A x \in PeerIds : rp[x] = IF x = id THEN s ELSE IF x = old THEN None ELSE k.roomPeers[x]
    BY <2>1 DEF Wide
  <2> HIDE DEF pp, rp
  <2>8. m \in Wide /\ m.created = g.created /\ m.peers = pp /\ m.roomPeers = rp
    BY <2>1, <2>5, <2>6 DEF Wide
  <2> HIDE DEF m
  <2>9. \A t \in Sessions : m.peers[t].open => m.peers[t].remote # None
    BY <2>1, <2>6, <2>8, Values DEF Sound
  <2>10. ASSUME NEW x \in PeerIds, m.roomPeers[x] # None
         PROVE  /\ x \in (ids \ {old}) \cup {id}
                /\ m.roomPeers[x] \in Sessions \cup 1..m.created
                /\ m.roomPeers[x] \in Sessions => m.peers[m.roomPeers[x]].open
    <3>1. CASE x = id
      BY <3>1, <2>2, <2>4, <2>6, <2>7, <2>8
    <3>2. CASE x # id
      <4>1. x # old /\ m.roomPeers[x] = k.roomPeers[x]
        BY <2>7, <2>8, <2>10, <3>2
      <4> QED
        BY <4>1, <2>1, <2>6, <2>8, <2>10 DEF Sound
    <3> QED
      BY <3>1, <3>2
  <2>11. Sound(m, (ids \ {old}) \cup {id})
    BY <2>9, <2>10 DEF Sound
  <2> QED
    BY <1>1, <1>6, <2>8, <2>11
<1> QED
  BY <1>5, <1>6

LEMMA SoundFor ==
    ASSUME NEW g, NEW ids, NEW more, Sound(g, ids), \A id \in PeerIds : id \in ids => id \in more
    PROVE  Sound(g, more)
  BY DEF Sound

LEMMA SeenSound ==
    ASSUME room \in RoomType, NEW g \in Wide, NEW a \in Accounts, NEW id \in PeerIds,
           NEW ids, Sound(g, ids)
    PROVE  /\ Seen(g, a, id) \in Wide
           /\ Sound(Seen(g, a, id), (ids \ {room.pendingDrops[a], room.members[a]}) \cup {id})
<1> DEFINE pending == room.pendingDrops[a]
           old == room.members[a]
           h == IF pending # None /\ id # None /\ pending # id THEN Remapped(g, pending, id) ELSE g
           k == IF old # None /\ id # None /\ old # id THEN Remapped(h, old, id) ELSE h
<1>1. pending \in PeerIds \cup {None} /\ old \in PeerIds \cup {None} /\ id # None
  BY Values DEF RoomType, Places
<1>2. Seen(g, a, id) = Initiated(k, id)
  BY <1>1 DEF Seen
<1>3. h \in Wide /\ Sound(h, (ids \ {pending}) \cup {id})
  <2> HIDE DEF pending, old
  <2>1. CASE pending # None /\ pending # id
    BY <1>1, <2>1, RemappedSound
  <2>2. CASE ~(pending # None /\ pending # id)
    <3>1. \A x \in PeerIds : x \in ids => x \in (ids \ {pending}) \cup {id}
      BY <2>2, Values
    <3> QED
      BY <2>2, <3>1, SoundFor
  <2> QED
    BY <2>1, <2>2
<1> HIDE DEF h
<1>4. k \in Wide /\ Sound(k, (((ids \ {pending}) \cup {id}) \ {old}) \cup {id})
  <2> HIDE DEF pending, old
  <2> DEFINE I == (ids \ {pending}) \cup {id}
  <2>1. CASE old # None /\ old # id
    BY <1>1, <1>3, <2>1, RemappedSound
  <2>2. CASE ~(old # None /\ old # id)
    <3>1. \A x \in PeerIds : x \in I => x \in (I \ {old}) \cup {id}
      BY <2>2, Values
    <3> HIDE DEF I
    <3>2. Sound(h, (I \ {old}) \cup {id})
      BY <1>3, <3>1, SoundFor DEF I
    <3> QED
      BY <1>3, <2>2, <3>2 DEF I
  <2> QED
    BY <2>1, <2>2
<1> HIDE DEF k
<1>5. Sound(k, (ids \ {pending, old}) \cup {id})
  BY <1>4, SoundFor
<1> QED
  BY <1>2, <1>4, <1>5, InitiatedSound
-----------------------------------------------------------------------------
(***************************************************************************)
(* AllSeen lets one account after the other be seen, in an order that is   *)
(* left open.  What holds of each part of the accounts is shown from a     *)
(* least part for which it would not.                                      *)
(***************************************************************************)

First(s) == CHOOSE x \in s : TRUE

\* f is the glue after any part of T has been seen.
SeenBy(f, g, members, T) ==
    f = [s \in SUBSET T |->
           IF s = {} THEN g ELSE Seen(f[s \ {First(s)}], First(s), members[First(s)])]

LEMMA Least ==
    ASSUME NEW S, IsFiniteSet(S), NEW T \in SUBSET SUBSET S, T # {}
    PROVE  \E x \in T : \A y \in T : y \subseteq x => y = x
<1>1. IsWellFoundedOn(StrictSubsetOrdering(S), SUBSET S)
  BY FS_StrictSubsetOrderingWellFounded, FS_FiniteSubsetsOfFinite
<1>2. PICK x \in T : \A y \in T : ~(<<y, x>> \in StrictSubsetOrdering(S))
  BY <1>1, WFMin
<1> QED
  BY <1>2 DEF StrictSubsetOrdering

LEMMA FirstIn ==
    ASSUME NEW s, s # {}
    PROVE  First(s) \in s /\ s \ {First(s)} \subseteq s /\ s \ {First(s)} # s
<1>1. First(s) \in s
  BY DEF First
<1> QED
  BY <1>1

LEMMA SeenOnce ==
    ASSUME NEW f, NEW h, NEW g, NEW members, NEW A \in SUBSET Accounts, NEW B \in SUBSET Accounts,
           SeenBy(f, g, members, A), SeenBy(h, g, members, B), NEW s \in SUBSET (A \cap B)
    PROVE  f[s] = h[s]
<1> DEFINE D == {t \in SUBSET (A \cap B) : f[t] # h[t]}
<1>1. SUFFICES ASSUME D # {} PROVE FALSE
  OBVIOUS
<1>2. PICK t \in D : \A y \in D : y \subseteq t => y = t
  <2>1. D \in SUBSET SUBSET Accounts
    OBVIOUS
  <2> HIDE DEF D
  <2> QED
    BY <1>1, <2>1, Least, AccountsAssumption
<1> DEFINE u == t \ {First(t)}
<1>3. /\ f[t] = IF t = {} THEN g ELSE Seen(f[u], First(t), members[First(t)])
      /\ h[t] = IF t = {} THEN g ELSE Seen(h[u], First(t), members[First(t)])
  BY DEF SeenBy
<1>4. t # {} /\ f[t] # h[t] /\ t \subseteq A \cap B
  BY <1>3
<1>5. u \subseteq t /\ u # t
  BY <1>4, FirstIn
<1>6. f[u] = h[u]
  BY <1>2, <1>4, <1>5
<1> QED
  BY <1>3, <1>4, <1>6

LEMMA SeenExists ==
    ASSUME NEW g, NEW members, NEW T \in SUBSET Accounts
    PROVE  \E f : SeenBy(f, g, members, T)
<1> DEFINE D == {t \in SUBSET Accounts : ~ \E f : SeenBy(f, g, members, t)}
<1>1. SUFFICES ASSUME D # {} PROVE FALSE
  OBVIOUS
<1>2. PICK t \in D : \A y \in D : y \subseteq t => y = t
  <2>1. D \in SUBSET SUBSET Accounts
    OBVIOUS
  <2> HIDE DEF D
  <2> QED
    BY <1>1, <2>1, Least, AccountsAssumption
<1> DEFINE F(s) == CHOOSE f : SeenBy(f, g, members, s)
           Rest(s) == s \ {First(s)}
           f == [s \in SUBSET t |->
                   IF s = {} THEN g
                   ELSE Seen(F(Rest(s))[Rest(s)], First(s), members[First(s)])]
<1>3. ASSUME NEW s \in SUBSET t, s # {}
      PROVE  Rest(s) \in SUBSET t /\ Rest(s) # t /\ Rest(s) \subseteq s
  BY <1>3, FirstIn
<1>4. ASSUME NEW s \in SUBSET t, s # t
      PROVE  SeenBy(F(s), g, members, s)
  BY <1>2, <1>4
<1> HIDE DEF F
<1>5. ASSUME NEW u \in SUBSET t, u # t
      PROVE  F(u)[u] = f[u]
  <2>1. F(u)[u] = IF u = {} THEN g ELSE Seen(F(u)[Rest(u)], First(u), members[First(u)])
    BY <1>4, <1>5 DEF SeenBy
  <2>2. CASE u # {}
    <3>1. Rest(u) \in SUBSET t /\ Rest(u) # t /\ Rest(u) \subseteq u
      BY <1>3, <2>2
    <3>2. SeenBy(F(u), g, members, u) /\ SeenBy(F(Rest(u)), g, members, Rest(u))
      BY <1>4, <1>5, <3>1
    <3>3. F(u)[Rest(u)] = F(Rest(u))[Rest(u)]
      <4>1. t \in SUBSET Accounts
        OBVIOUS
      <4>2. u \in SUBSET Accounts /\ Rest(u) \in SUBSET Accounts
            /\ Rest(u) \in SUBSET (u \cap Rest(u))
        BY <3>1, <4>1
      <4> HIDE DEF Rest
      <4> QED
        BY <3>2, <4>2, SeenOnce
    <3> QED
      BY <2>1, <2>2, <3>3
  <2> QED
    BY <2>1, <2>2
<1>6. ASSUME NEW s \in SUBSET t
      PROVE  f[s] = IF s = {} THEN g ELSE Seen(f[Rest(s)], First(s), members[First(s)])
  <2>1. CASE s # {}
    <3>1. F(Rest(s))[Rest(s)] = f[Rest(s)]
      BY <1>3, <1>5, <2>1
    <3>2. f[s] = Seen(F(Rest(s))[Rest(s)], First(s), members[First(s)])
      BY <2>1
    <3> HIDE DEF f
    <3> QED
      BY <2>1, <3>1, <3>2
  <2> QED
    BY <2>1
<1>7. f = [s \in SUBSET t |-> f[s]]
  OBVIOUS
<1> HIDE DEF f
<1>8. SeenBy(f, g, members, t)
  BY <1>6, <1>7 DEF SeenBy
<1> QED
  BY <1>2, <1>8

LEMMA AllSeenIs ==
    ASSUME NEW g, NEW members
    PROVE  \E f : SeenBy(f, g, members, Accounts) /\ AllSeen(g, members) = f[Accounts]
<1> DEFINE f == CHOOSE f : SeenBy(f, g, members, Accounts)
<1>1. SeenBy(f, g, members, Accounts)
  BY SeenExists
<1>2. AllSeen(g, members) = f[Accounts]
  BY DEF AllSeen, FoldSet, MapThenFoldSet, SeenBy, First
<1> QED
  BY <1>1, <1>2

\* Whom room peers may be of once the accounts in S have been seen.
Allowed(S, members) ==
    {id \in PeerIds :
       IF Owner(id) \in S /\ members[Owner(id)] # None THEN id = members[Owner(id)]
       ELSE id \in {room.members[Owner(id)], room.pendingDrops[Owner(id)]}}

LEMMA AllSeenSound ==
    ASSUME room \in RoomType, NEW g \in Wide, NEW members \in Places,
           Sound(g, Allowed({}, members))
    PROVE  /\ AllSeen(g, members) \in Wide
           /\ Sound(AllSeen(g, members), Allowed(Accounts, members))
<1>1. PICK f : SeenBy(f, g, members, Accounts) /\ AllSeen(g, members) = f[Accounts]
  BY AllSeenIs
<1> DEFINE D == {t \in SUBSET Accounts : ~(f[t] \in Wide /\ Sound(f[t], Allowed(t, members)))}
<1>2. SUFFICES ASSUME D # {} PROVE FALSE
  BY <1>1
<1>3. PICK t \in D : \A y \in D : y \subseteq t => y = t
  <2>1. D \in SUBSET SUBSET Accounts
    OBVIOUS
  <2> HIDE DEF D
  <2> QED
    BY <1>2, <2>1, Least, AccountsAssumption
<1> DEFINE x == First(t)
           u == t \ {x}
           id == members[x]
<1>4. f[t] = IF t = {} THEN g ELSE Seen(f[u], x, id)
  BY <1>1 DEF SeenBy
<1>5. t # {}
  BY <1>4
<1>6. x \in t /\ u \subseteq t /\ u # t /\ x \in Accounts
  BY <1>5, FirstIn
<1>7. f[u] \in Wide /\ Sound(f[u], Allowed(u, members))
  BY <1>3, <1>6
<1>8. id \in PeerIds \cup {None} /\ (id # None => Owner(id) = x)
  BY <1>6 DEF Places
<1>9. t = u \cup {x} /\ x \notin u
  BY <1>6
<1>10. ~(f[t] \in Wide /\ Sound(f[t], Allowed(t, members)))
  OBVIOUS
<1> HIDE DEF x, u, D, id
<1>11. CASE id = None
  <2>1. f[t] = f[u]
    BY <1>4, <1>5, <1>11 DEF Seen
  <2>2. \A y \in PeerIds : y \in Allowed(u, members) => y \in Allowed(t, members)
    BY <1>9, <1>11 DEF Allowed, id
  <2> QED
    BY <1>7, <1>10, <2>1, <2>2, SoundFor
<1>12. CASE id # None
  <2> DEFINE A == (Allowed(u, members) \ {room.pendingDrops[x], room.members[x]}) \cup {id}
  <2>1. f[t] \in Wide /\ Sound(f[t], A)
    BY <1>4, <1>5, <1>6, <1>7, <1>8, <1>12, SeenSound
  <2>2. \A y \in PeerIds : y \in A => y \in Allowed(t, members)
    <3>1. id \in Allowed(t, members)
      BY <1>8, <1>9, <1>12 DEF Allowed, id
    <3>2. ASSUME NEW y \in Allowed(u, members), y \notin {room.pendingDrops[x], room.members[x]}
          PROVE  y \in Allowed(t, members)
      BY <1>9, <3>2 DEF Allowed
    <3> QED
      BY <3>1, <3>2
  <2> QED
    BY <1>10, <2>1, <2>2, SoundFor
<1> QED
  BY <1>11, <1>12
-----------------------------------------------------------------------------
(***************************************************************************)
(* What is on its way to the master.                                       *)
(***************************************************************************)

State(rev, members) == [type |-> "state", revision |-> rev, members |-> members]
Reply(id, s) == [type |-> "answer", sender |-> id, session |-> s]

LEMMA Messages ==
    /\ \A m \in Message :
         \/ m.type = "state" /\ m.revision \in Nat /\ m.members \in Places
         \/ m.type = "answer" /\ m.sender \in PeerIds /\ m.session \in Sessions
    /\ \A rev \in Nat : \A members \in Places :
         State(rev, members) \in Message /\ State(rev, members).type = "state"
    /\ \A id \in PeerIds : \A s \in Sessions :
         Reply(id, s) \in Message /\ Reply(id, s).type = "answer"
<1>1. ASSUME NEW m \in Message
      PROVE  \/ m.type = "state" /\ m.revision \in Nat /\ m.members \in Places
             \/ m.type = "answer" /\ m.sender \in PeerIds /\ m.session \in Sessions
  <2>1. CASE m \in [type : {"state"}, revision : Nat, members : Places]
    BY <2>1
  <2>2. CASE m \in [type : {"answer"}, sender : PeerIds, session : Sessions]
    BY <2>2
  <2> QED
    BY <2>1, <2>2 DEF Message
<1>2. ASSUME NEW rev \in Nat, NEW members \in Places
      PROVE  State(rev, members) \in Message /\ State(rev, members).type = "state"
  BY DEF Message, State
<1>3. ASSUME NEW id \in PeerIds, NEW s \in Sessions
      PROVE  Reply(id, s) \in Message /\ Reply(id, s).type = "answer"
  BY DEF Message, Reply
<1> QED
  BY <1>1, <1>2, <1>3

\* A state the server has just reached is the last one.
LEMMA StateSent ==
    ASSUME NEW r \in RoomType, NEW q \in Seq(Message), NEW rev \in Nat,
           Ordered(r, q, rev), NEW members \in Places
    PROVE  LET p == Append(q, State(rev + 1, members)) IN
           /\ p \in Seq(Message) /\ Ordered(r, p, rev + 1)
           /\ \A before : Leads(r, q, before) => Leads(r, p, members)
<1> DEFINE m == State(rev + 1, members)
           p == Append(q, m)
           n == Len(q)
<1>1. m \in Message /\ m.type = "state" /\ m.revision = rev + 1 /\ m.members = members
  BY Messages DEF State
<1> HIDE DEF m
<1>2. /\ p \in Seq(Message) /\ Len(p) = n + 1 /\ p[n + 1] = m /\ n \in Nat
      /\ \A k \in 1..n : p[k] = q[k]
  BY <1>1
<1> HIDE DEF p, n
<1>3. r.revision \in Int /\ r.revision < rev + 1
  BY DEF Ordered, RoomType
<1>4. \A k \in 1..n : q[k].type = "state" => q[k].revision \in Nat /\ q[k].revision <= rev
  BY Messages DEF Ordered, n
<1>5. Ordered(r, p, rev + 1)
  <2>1. \A j \in 1..Len(p) : p[j].type = "state" => p[j].revision <= rev + 1
    BY <1>1, <1>2, <1>4
  <2>2. ASSUME NEW j \in 1..Len(p), NEW k \in 1..Len(p), j # k,
               p[j].type = "state", p[k].type = "state"
        PROVE  p[j].revision # p[k].revision
    <3>1. CASE j \in 1..n /\ k \in 1..n
      BY <2>2, <3>1, <1>2 DEF Ordered, n
    <3>2. CASE j = n + 1 /\ k \in 1..n
      BY <2>2, <3>2, <1>1, <1>2, <1>4
    <3>3. CASE k = n + 1 /\ j \in 1..n
      BY <2>2, <3>3, <1>1, <1>2, <1>4
    <3> QED
      BY <2>2, <3>1, <3>2, <3>3, <1>2
  <2> QED
    BY <1>3, <2>1, <2>2 DEF Ordered
<1>6. ASSUME NEW before, Leads(r, q, before)
      PROVE  Leads(r, p, members)
  <2>1. ASSUME NEW a \in Accounts PROVE Knows(r, p, Len(p), a, members[a])
    BY <1>1, <1>2, <1>3, <1>4 DEF Knows
  <2>2. ASSUME NEW i \in 1..Len(p), p[i].type = "answer"
        PROVE  Knows(r, p, i - 1, Owner(p[i].sender), p[i].sender)
    <3>1. i \in 1..n /\ p[i] = q[i]
      BY <1>1, <1>2, <2>2
    <3>2. Knows(r, q, i - 1, Owner(p[i].sender), p[i].sender)
      BY <1>6, <2>2, <3>1 DEF Leads, n
    <3>3. \A k \in 1..(i - 1) : p[k] = q[k]
      BY <1>2, <3>1
    <3> QED
      BY <3>2, <3>3 DEF Knows
  <2>3. ~r.hasSnapshot => p # <<>> /\ p[1].type = "state" /\ r.revision = -1
    <3>1. q # <<>> => p[1] = q[1]
      BY <1>2 DEF n
    <3>2. p # <<>>
      BY <1>2
    <3> QED
      BY <1>6, <3>1, <3>2 DEF Leads
  <2> QED
    BY <2>1, <2>2, <2>3 DEF Leads
<1> QED
  BY <1>2, <1>5, <1>6 DEF p, m

LEMMA ReplySent ==
    ASSUME NEW r \in RoomType, NEW q \in Seq(Message), NEW rev \in Nat, Ordered(r, q, rev),
           NEW members \in Places, Leads(r, q, members),
           NEW a \in Accounts, members[a] # None, NEW s \in Sessions
    PROVE  LET p == Append(q, Reply(members[a], s)) IN
           p \in Seq(Message) /\ Ordered(r, p, rev) /\ Leads(r, p, members)
<1> DEFINE m == Reply(members[a], s)
           p == Append(q, m)
           n == Len(q)
<1>1. members[a] \in PeerIds /\ Owner(members[a]) = a
  BY DEF Places
<1>2. m \in Message /\ m.type = "answer" /\ m.sender = members[a] /\ m.type # "state"
  BY <1>1, Messages DEF Reply
<1> HIDE DEF m
<1>3. /\ p \in Seq(Message) /\ Len(p) = n + 1 /\ p[n + 1] = m /\ n \in Nat
      /\ \A k \in 1..n : p[k] = q[k]
  BY <1>2
<1> HIDE DEF p, n
<1>4. \A k \in 1..(n + 1) : p[k].type = "state" => k \in 1..n /\ p[k] = q[k]
  BY <1>2, <1>3
<1>5. Ordered(r, p, rev)
  BY <1>3, <1>4 DEF Ordered, n
<1>6. ASSUME NEW i \in 0..n, NEW b, NEW id, Knows(r, q, i, b, id)
      PROVE  Knows(r, p, i, b, id)
  BY <1>3, <1>6 DEF Knows
<1>7. \A b \in Accounts : Knows(r, p, n, b, members[b])
  BY <1>3, <1>6 DEF Leads, n
<1>8. \A b \in Accounts : Knows(r, p, n + 1, b, members[b])
  BY <1>3, <1>4, <1>7 DEF Knows
<1>9. ASSUME NEW i \in 1..(n + 1), p[i].type = "answer"
      PROVE  Knows(r, p, i - 1, Owner(p[i].sender), p[i].sender)
  <2>1. CASE i = n + 1
    BY <2>1, <1>1, <1>2, <1>3, <1>7
  <2>2. CASE i \in 1..n
    <3>1. Knows(r, q, i - 1, Owner(p[i].sender), p[i].sender) /\ i - 1 \in 0..n
      BY <2>2, <1>3, <1>9 DEF Leads, n
    <3> QED
      BY <3>1, <1>6
  <2> QED
    BY <2>1, <2>2, <1>3
<1>10. ~r.hasSnapshot => p # <<>> /\ p[1].type = "state" /\ r.revision = -1
  <2>1. q # <<>> => p[1] = q[1]
    BY <1>3 DEF n
  <2>2. p # <<>>
    BY <1>3
  <2> QED
    BY <2>1, <2>2 DEF Leads
<1> QED
  BY <1>3, <1>5, <1>8, <1>9, <1>10 DEF Leads, p, m

LEMMA TailIs ==
    ASSUME NEW q \in Seq(Message), q # <<>>
    PROVE  /\ Tail(q) \in Seq(Message) /\ Len(Tail(q)) = Len(q) - 1
           /\ \A k \in 1..(Len(q) - 1) : Tail(q)[k] = q[k + 1]
           /\ Head(q) = q[1] /\ Len(q) \in Nat /\ 1 \in 1..Len(q)
  OBVIOUS

LEMMA OrderedTail ==
    ASSUME NEW r, NEW q \in Seq(Message), NEW rev, Ordered(r, q, rev), q # <<>>
    PROVE  Ordered(r, Tail(q), rev)
<1> DEFINE p == Tail(q)
           n == Len(q)
<1>1. /\ Len(p) = n - 1 /\ n \in Nat
      /\ \A k \in 1..(n - 1) : p[k] = q[k + 1] /\ k + 1 \in 1..n
  BY TailIs
<1> HIDE DEF p, n
<1>2. \A j \in 1..Len(p) : p[j].type = "state" => p[j].revision <= rev
  BY <1>1 DEF Ordered, n
<1>3. \A j, k \in 1..Len(p) :
        j # k /\ p[j].type = "state" /\ p[k].type = "state" => p[j].revision # p[k].revision
  BY <1>1 DEF Ordered, n
<1> QED
  BY <1>2, <1>3 DEF Ordered, p

\* The first message is handled: what the master knows after n messages he
\* knows after n - 1 of those that are left.  r is the room before, t after it.
Handled(r, t, m) ==
    IF m.type = "state" /\ m.revision > r.revision
      THEN t.revision = m.revision /\ t.members = m.members
      ELSE t.revision = r.revision /\ t.members = r.members

LEMMA KnowsTail ==
    ASSUME NEW r, NEW t, NEW q \in Seq(Message), NEW rev, Ordered(r, q, rev), q # <<>>,
           r.revision \in Int, Handled(r, t, q[1]),
           NEW n \in 1..Len(q), NEW a, NEW id, Knows(r, q, n, a, id)
    PROVE  Knows(t, Tail(q), n - 1, a, id)
<1> DEFINE p == Tail(q)
<1>1. \A k \in 1..(n - 1) : p[k] = q[k + 1] /\ k + 1 \in 1..n
  BY TailIs
<1>2. n \in Nat /\ n >= 1 /\ n - 1 \in Nat /\ 1 \in 1..n /\ 1..n \subseteq 1..Len(q)
  BY TailIs
<1>3. \A k \in 1..n : q[k].type = "state" => q[k].revision \in Nat
  BY <1>2, Messages
<1> HIDE DEF p
<1>4. CASE /\ r.members[a] = id
           /\ \A k \in 1..n : q[k].type = "state" => q[k].revision <= r.revision
  <2>1. ~(q[1].type = "state" /\ q[1].revision > r.revision)
    BY <1>2, <1>3, <1>4
  <2>2. t.revision = r.revision /\ t.members = r.members
    BY <2>1 DEF Handled
  <2>3. \A k \in 1..(n - 1) : p[k].type = "state" => p[k].revision <= t.revision
    BY <1>1, <1>4, <2>2
  <2> QED
    BY <1>4, <2>2, <2>3 DEF Knows, p
<1>5. ASSUME NEW j \in 1..n, q[j].type = "state", q[j].revision > r.revision, q[j].members[a] = id,
             \A k \in 1..n : q[k].type = "state" => q[k].revision <= q[j].revision
      PROVE  Knows(t, p, n - 1, a, id)
  <2>1. CASE j = 1
    <3>1. t.revision = q[1].revision /\ t.members[a] = id
      BY <1>5, <2>1 DEF Handled
    <3>2. \A k \in 1..(n - 1) : p[k].type = "state" => p[k].revision <= t.revision
      BY <1>1, <1>5, <2>1, <3>1
    <3> QED
      BY <3>1, <3>2 DEF Knows
  <2>2. CASE j # 1
    <3>1. j - 1 \in 1..(n - 1) /\ p[j - 1] = q[j]
      BY <1>1, <1>2, <2>2
    <3>2. q[j].revision > t.revision
      <4>1. CASE q[1].type = "state" /\ q[1].revision > r.revision
        <5>1. q[1].revision <= q[j].revision /\ q[1].revision # q[j].revision
          BY <1>2, <1>5, <2>2, <4>1 DEF Ordered
        <5> QED
          BY <1>2, <1>3, <1>5, <4>1, <5>1 DEF Handled
      <4>2. CASE ~(q[1].type = "state" /\ q[1].revision > r.revision)
        BY <1>5, <4>2 DEF Handled
      <4> QED
        BY <4>1, <4>2
    <3>3. \A k \in 1..(n - 1) : p[k].type = "state" => p[k].revision <= p[j - 1].revision
      BY <1>1, <1>5, <3>1
    <3> QED
      BY <1>5, <3>1, <3>2, <3>3 DEF Knows
  <2> QED
    BY <2>1, <2>2
<1> QED
  BY <1>4, <1>5 DEF Knows, p

LEMMA LeadsTail ==
    ASSUME NEW r \in RoomType, NEW t, NEW q \in Seq(Message), NEW rev, Ordered(r, q, rev),
           q # <<>>, NEW members, Leads(r, q, members), Handled(r, t, q[1]), t.hasSnapshot
    PROVE  Leads(t, Tail(q), members)
<1> DEFINE p == Tail(q)
           n == Len(q)
<1>1. /\ Len(p) = n - 1 /\ n \in Nat /\ n \in 1..n
      /\ \A k \in 1..(n - 1) : p[k] = q[k + 1] /\ k + 1 \in 1..n
  BY TailIs
<1>2. r.revision \in Int
  BY DEF RoomType
<1> HIDE DEF p, n
<1>3. ASSUME NEW a \in Accounts PROVE Knows(t, p, Len(p), a, members[a])
  <2>1. Knows(r, q, n, a, members[a])
    BY DEF Leads, n
  <2> QED
    BY <1>1, <1>2, <2>1, KnowsTail DEF p, n
<1>4. ASSUME NEW i \in 1..Len(p), p[i].type = "answer"
      PROVE  Knows(t, p, i - 1, Owner(p[i].sender), p[i].sender)
  <2>1. p[i] = q[i + 1] /\ i + 1 \in 1..n /\ (i + 1) - 1 = i /\ i \in 1..n
    BY <1>1
  <2>2. Knows(r, q, i, Owner(p[i].sender), p[i].sender)
    BY <1>4, <2>1 DEF Leads, n
  <2> QED
    BY <1>2, <2>1, <2>2, KnowsTail DEF p, n
<1> QED
  BY <1>3, <1>4 DEF Leads, p

Swap(q, i) == [q EXCEPT ![i] = q[i + 1], ![i + 1] = q[i]]

LEMMA Swapped ==
    ASSUME NEW r, NEW q \in Seq(Message), NEW rev, NEW members, Ordered(r, q, rev),
           NEW i \in 1..(Len(q) - 1), q[i].type = "state", q[i + 1].type = "state"
    PROVE  /\ Swap(q, i) \in Seq(Message) /\ Ordered(r, Swap(q, i), rev)
           /\ Leads(r, q, members) => Leads(r, Swap(q, i), members)
<1> DEFINE p == Swap(q, i)
           n == Len(q)
           x(k) == IF k = i THEN i + 1 ELSE IF k = i + 1 THEN i ELSE k
<1>1. /\ n \in Nat /\ i \in 1..n /\ i + 1 \in 1..n
      /\ \A k \in 1..n : x(k) \in 1..n /\ x(x(k)) = k
  OBVIOUS
<1>2. /\ p \in Seq(Message) /\ Len(p) = n
      /\ \A k \in 1..n : p[k] = q[x(k)]
  BY <1>1 DEF Swap
<1>3. \A m \in 0..n : m # i => \A k \in 1..m : x(k) \in 1..m
  OBVIOUS
<1>4. \A k \in 1..n : p[k].type = q[k].type
  BY <1>2
<1>5. \A k \in 1..n : p[k].type # "state" => p[k] = q[k]
  BY <1>1, <1>2
<1> HIDE DEF p, n, x
<1>6. Ordered(r, p, rev)
  <2>1. \A j \in 1..n : p[j].type = "state" => p[j].revision <= rev
    BY <1>1, <1>2 DEF Ordered, n
  <2>2. ASSUME NEW j \in 1..n, NEW k \in 1..n, j # k, p[j].type = "state", p[k].type = "state"
        PROVE  p[j].revision # p[k].revision
    <3>1. x(j) \in 1..n /\ x(k) \in 1..n /\ x(j) # x(k) /\ p[j] = q[x(j)] /\ p[k] = q[x(k)]
      BY <1>1, <1>2, <2>2
    <3> QED
      BY <2>2, <3>1 DEF Ordered, n
  <2> QED
    BY <1>2, <2>1, <2>2 DEF Ordered, n
<1>7. ASSUME NEW m \in 0..n, m # i, NEW a, NEW id, Knows(r, q, m, a, id)
      PROVE  Knows(r, p, m, a, id)
  <2>0. \A k \in 1..m : x(k) \in 1..m /\ k \in 1..n /\ x(k) \in 1..n /\ p[k] = q[x(k)] /\ x(x(k)) = k
    <3>1. \A k \in 1..m : k \in 1..n
      BY <1>1
    <3>2. \A k \in 1..m : x(k) \in 1..m
      BY <1>3, <1>7
    <3> QED
      BY <1>1, <1>2, <3>1, <3>2
  <2>1. CASE /\ r.members[a] = id
             /\ \A k \in 1..m : q[k].type = "state" => q[k].revision <= r.revision
    BY <2>0, <2>1 DEF Knows
  <2>2. ASSUME NEW j \in 1..m, q[j].type = "state", q[j].revision > r.revision,
               q[j].members[a] = id,
               \A k \in 1..m : q[k].type = "state" => q[k].revision <= q[j].revision
        PROVE  Knows(r, p, m, a, id)
    <3>1. x(j) \in 1..m /\ p[x(j)] = q[j]
      BY <2>0
    <3>2. \A k \in 1..m : p[k].type = "state" => p[k].revision <= q[j].revision
      BY <2>0, <2>2
    <3> QED
      BY <2>2, <3>1, <3>2 DEF Knows
  <2> QED
    BY <1>7, <2>1, <2>2 DEF Knows
<1>8. ASSUME Leads(r, q, members) PROVE Leads(r, p, members)
  <2>1. ASSUME NEW a \in Accounts PROVE Knows(r, p, Len(p), a, members[a])
    <3>1. Knows(r, q, n, a, members[a])
      BY <1>8 DEF Leads, n
    <3>2. n \in 0..n /\ n # i
      BY <1>1
    <3> QED
      BY <1>2, <1>7, <3>1, <3>2
  <2>2. ASSUME NEW k \in 1..Len(p), p[k].type = "answer"
        PROVE  Knows(r, p, k - 1, Owner(p[k].sender), p[k].sender)
    <3>1. k \in 1..n /\ p[k] = q[k] /\ q[k].type = "answer"
      BY <1>2, <1>5, <2>2
    <3>2. k - 1 \in 0..n /\ k - 1 # i
      <4>1. k # i + 1
        BY <3>1
      <4> QED
        BY <1>1, <3>1, <4>1
    <3>3. Knows(r, q, k - 1, Owner(q[k].sender), q[k].sender)
      BY <1>8, <3>1 DEF Leads, n
    <3> QED
      BY <1>7, <3>1, <3>2, <3>3
  <2>3. ~r.hasSnapshot => p # <<>> /\ p[1].type = "state" /\ r.revision = -1
    BY <1>1, <1>2, <1>4, <1>8 DEF Leads, n
  <2> QED
    BY <2>1, <2>2, <2>3 DEF Leads
<1> QED
  BY <1>2, <1>6, <1>8 DEF p
-----------------------------------------------------------------------------
(***************************************************************************)
(* The room's part of a step.                                              *)
(***************************************************************************)

LEMMA RoomUnchanged ==
    ASSUME RoomPart, UNCHANGED <<present, revision, inbox, room>>
    PROVE  RoomPart'
  BY DEF RoomPart, Revisions, Foreseen, GraceSpares

\* The server's room has changed, whether or not the master hears of it.
LEMMA RoomChanged ==
    ASSUME RoomPart, UNCHANGED room, NEW members \in Places, present' = members,
           revision' = revision + 1,
           inbox' = IF room.socket = "open" THEN Append(inbox, State(revision + 1, members))
                    ELSE inbox
    PROVE  RoomPart'
<1>1. members \in Places /\ revision + 1 \in Nat /\ room.revision \in Int
  BY DEF RoomPart, RoomType
<1>2. GraceSpares'
  BY DEF RoomPart, GraceSpares
<1>3. CASE room.socket = "open"
  <2>1. LET p == Append(inbox, State(revision + 1, members)) IN
        /\ p \in Seq(Message) /\ Ordered(room, p, revision + 1)
        /\ Leads(room, p, members)
    BY <1>3, StateSent DEF RoomPart, Revisions, Foreseen
  <2> QED
    BY <1>1, <1>2, <1>3, <2>1 DEF RoomPart, Revisions, Foreseen
<1>4. CASE room.socket # "open"
  <2>1. Ordered(room, inbox, revision)
    BY DEF RoomPart, Revisions
  <2>2. \A k \in 1..Len(inbox) : inbox[k].type = "state" => inbox[k].revision \in Nat
    BY Messages DEF RoomPart
  <2>3. Ordered(room, inbox, revision + 1)
    BY <1>1, <2>1, <2>2 DEF Ordered, RoomPart
  <2> QED
    BY <1>1, <1>2, <1>4, <2>3 DEF RoomPart, Revisions, Foreseen
<1> QED
  BY <1>3, <1>4

LEMMA RoomRetry ==
    ASSUME RoomPart, NEW s, RemovedByMaster(s), UNCHANGED room
    PROVE  RoomPart'
<1> DEFINE a == Owner(glue.peers[s].remote)
           members == [present EXCEPT ![a] = None]
<1>1. CASE UNCHANGED <<present, revision, inbox>>
  BY <1>1, RoomUnchanged
<1>2. CASE ~UNCHANGED <<present, revision, inbox>>
  <2>1. /\ room.socket = "open" /\ present' = members /\ revision' = revision + 1
        /\ inbox' = Append(inbox, State(revision + 1, members))
    BY <1>2 DEF RemovedByMaster, State
  <2>2. members \in Places
    BY DEF RoomPart, Places
  <2> HIDE DEF members
  <2> QED
    BY <2>1, <2>2, RoomChanged
<1> QED
  BY <1>1, <1>2

LEMMA RoomApplyState ==
    ASSUME RoomPart, ApplyState
    PROVE  RoomPart'
<1> DEFINE m == Head(inbox)
<1>1. /\ inbox \in Seq(Message) /\ inbox # <<>> /\ m = inbox[1] /\ m \in Message
      /\ m.type = "state" /\ m.revision \in Nat /\ m.members \in Places
      /\ 1 \in 1..Len(inbox)
  BY TailIs, Messages DEF RoomPart, ApplyState
<1>2. /\ Ordered(room, inbox, revision) /\ room \in RoomType /\ room.revision \in Int
      /\ Leads(room, inbox, present) /\ room.socket = "open" /\ revision \in Nat
      /\ present \in Places
  BY DEF RoomPart, RoomType, Revisions, Foreseen, ApplyState
<1>3. inbox' = Tail(inbox) /\ present' = present /\ revision' = revision
  BY DEF ApplyState
<1>4. Tail(inbox) \in Seq(Message) /\ Ordered(room, Tail(inbox), revision)
  BY <1>1, <1>2, TailIs, OrderedTail
<1> HIDE DEF m
<1>5. CASE Outdated(m)
  <2>1. room' = room
    BY <1>5 DEF ApplyState, m
  <2>2. m.revision <= room.revision
    BY <1>5 DEF Outdated
  <2>3. room.hasSnapshot
    BY <1>1, <1>2, <2>2 DEF Leads
  <2>4. Handled(room, room, inbox[1])
    BY <1>1, <1>2, <2>2 DEF Handled
  <2>5. Leads(room, Tail(inbox), present)
    BY <1>1, <1>2, <2>3, <2>4, LeadsTail
  <2> QED
    BY <1>2, <1>3, <1>4, <2>1, <2>5 DEF RoomPart, Revisions, Foreseen, GraceSpares
<1>6. CASE ~Outdated(m)
  <2> DEFINE drops == [a \in Accounts |-> Pending(a, m.members[a])]
             new == [room EXCEPT !.hasSnapshot = TRUE, !.revision = m.revision,
                                 !.members = m.members, !.pendingDrops = drops]
  <2>1. room' = new
    BY <1>6 DEF ApplyState, m
  <2>2. m.revision > room.revision
    BY <1>1, <1>2, <1>6 DEF Outdated
  <2>3. /\ drops \in Places
        /\ \A a \in Accounts : drops[a] # None => m.members[a] = None
    BY <1>1, <1>2 DEF Pending, Places, RoomType
  <2> HIDE DEF drops
  <2>4. /\ new \in RoomType /\ new.hasSnapshot /\ new.revision = m.revision
        /\ new.members = m.members /\ new.pendingDrops = drops /\ new.socket = "open"
    <3> DEFINE n == [room EXCEPT !.socket = "open", !.revision = m.revision,
                                 !.members = m.members, !.pendingDrops = drops]
    <3>1. /\ m.revision \in Int /\ m.members \in Places /\ room.socket = "open"
          /\ "open" \in {"open", "down", "closed"}
      BY <1>1, <1>2
    <3>2. [n EXCEPT !.hasSnapshot = TRUE] = new
      BY <1>2, <3>1 DEF RoomType
    <3>3. /\ n \in RoomType /\ n.revision = m.revision /\ n.members = m.members
          /\ n.pendingDrops = drops /\ n.socket = "open"
      BY <1>2, <2>3, <3>1 DEF RoomType
    <3> HIDE DEF n, new
    <3>4. LET k == [n EXCEPT !.hasSnapshot = TRUE] IN
          /\ k \in RoomType /\ k.hasSnapshot /\ k.revision = m.revision
          /\ k.members = m.members /\ k.pendingDrops = drops /\ k.socket = "open"
      BY <3>3 DEF RoomType
    <3> QED
      BY <3>2, <3>4
  <2> HIDE DEF new
  <2>5. Handled(room, new, inbox[1])
    BY <1>1, <2>2, <2>4 DEF Handled
  <2>6. Leads(new, Tail(inbox), present)
    BY <1>1, <1>2, <2>4, <2>5, LeadsTail
  <2>7. Ordered(new, Tail(inbox), revision)
    <3>1. m.revision <= revision
      BY <1>1, <1>2 DEF Ordered
    <3> QED
      BY <1>4, <2>4, <3>1 DEF Ordered
  <2>8. GraceSpares'
    BY <2>1, <2>3, <2>4 DEF GraceSpares
  <2> QED
    BY <1>2, <1>3, <1>4, <2>1, <2>4, <2>6, <2>7, <2>8 DEF RoomPart, Revisions, Foreseen
<1> QED
  BY <1>5, <1>6

LEMMA RoomApplyAnswer ==
    ASSUME RoomPart, ApplyAnswer
    PROVE  RoomPart'
<1>1. /\ inbox \in Seq(Message) /\ inbox # <<>> /\ Head(inbox) = inbox[1]
      /\ inbox[1].type = "answer" /\ room.hasSnapshot /\ room \in RoomType
  BY TailIs DEF RoomPart, ApplyAnswer
<1>2. /\ Ordered(room, inbox, revision) /\ Leads(room, inbox, present)
      /\ inbox' = Tail(inbox) /\ UNCHANGED <<present, revision, room>>
  BY DEF RoomPart, Revisions, Foreseen, ApplyAnswer
<1>3. Handled(room, room, inbox[1])
  BY <1>1 DEF Handled
<1>4. /\ Tail(inbox) \in Seq(Message) /\ Ordered(room, Tail(inbox), revision)
      /\ Leads(room, Tail(inbox), present)
  BY <1>1, <1>2, <1>3, TailIs, OrderedTail, LeadsTail
<1> QED
  BY <1>2, <1>4 DEF RoomPart, Revisions, Foreseen, GraceSpares

LEMMA RoomAnswer ==
    ASSUME RoomPart, RestPart, NEW a \in Accounts, Answer(a)
    PROVE  RoomPart'
<1>1. PICK s \in holds[a] : inbox' = Append(inbox, Reply(present[a], s))
  BY DEF Answer, Reply
<1>2. s \in Sessions
  BY DEF RestPart
<1>3. room.socket = "open" /\ present[a] # None /\ UNCHANGED <<present, revision, room>>
  BY DEF Answer
<1>4. LET p == Append(inbox, Reply(present[a], s)) IN
      p \in Seq(Message) /\ Ordered(room, p, revision) /\ Leads(room, p, present)
  BY <1>2, <1>3, ReplySent DEF RoomPart, Revisions, Foreseen
<1> QED
  BY <1>1, <1>3, <1>4 DEF RoomPart, Revisions, Foreseen, GraceSpares

LEMMA RoomOvertake ==
    ASSUME RoomPart, Overtake
    PROVE  RoomPart'
<1>1. PICK i \in 1..(Len(inbox) - 1) :
        /\ inbox[i].type = "state" /\ inbox[i + 1].type = "state" /\ inbox' = Swap(inbox, i)
  BY DEF Overtake, Swap
<1>2. UNCHANGED <<present, revision, room>>
  BY DEF Overtake
<1>3. /\ Swap(inbox, i) \in Seq(Message) /\ Ordered(room, Swap(inbox, i), revision)
      /\ Leads(room, inbox, present) => Leads(room, Swap(inbox, i), present)
  BY <1>1, Swapped DEF RoomPart, Revisions
<1> QED
  BY <1>1, <1>2, <1>3 DEF RoomPart, Revisions, Foreseen, GraceSpares

LEMMA RoomRestore ==
    ASSUME RoomPart, Restore
    PROVE  RoomPart'
<1> DEFINE m == State(revision, present)
           new == [room EXCEPT !.socket = "open", !.hasSnapshot = FALSE, !.revision = -1]
<1>1. m \in Message /\ m.type = "state" /\ m.revision = revision /\ m.members = present
  BY Messages DEF RoomPart, State
<1>2. inbox' = <<m>> /\ room' = new /\ UNCHANGED <<present, revision>>
  BY DEF Restore, State
<1>3. /\ new \in RoomType /\ new.revision = -1 /\ ~new.hasSnapshot
      /\ new.members = room.members /\ new.pendingDrops = room.pendingDrops
  <2> DEFINE n == [room EXCEPT !.socket = "open", !.revision = -1,
                               !.members = room.members, !.pendingDrops = room.pendingDrops]
  <2>1. /\ room \in RoomType /\ room.members \in Places /\ room.pendingDrops \in Places
        /\ -1 \in Int /\ "open" \in {"open", "down", "closed"}
    BY DEF RoomPart, RoomType
  <2>2. [n EXCEPT !.hasSnapshot = FALSE] = new
    BY <2>1 DEF RoomType
  <2>3. /\ n \in RoomType /\ n.revision = -1
        /\ n.members = room.members /\ n.pendingDrops = room.pendingDrops
    BY <2>1 DEF RoomType
  <2> HIDE DEF n, new
  <2>4. LET k == [n EXCEPT !.hasSnapshot = FALSE] IN
        /\ k \in RoomType /\ ~k.hasSnapshot /\ k.revision = -1
        /\ k.members = room.members /\ k.pendingDrops = room.pendingDrops
    BY <2>3 DEF RoomType
  <2> QED
    BY <2>2, <2>4
<1> HIDE DEF m, new
<1>4. <<m>> \in Seq(Message) /\ Len(<<m>>) = 1 /\ <<m>>[1] = m /\ <<m>> # <<>>
  BY <1>1
<1>5. Ordered(new, <<m>>, revision) /\ Leads(new, <<m>>, present)
  <2>0. revision \in Nat
    BY DEF RoomPart
  <2>1. Ordered(new, <<m>>, revision)
    BY <1>1, <1>3, <1>4, <2>0 DEF Ordered
  <2>2. \A a \in Accounts : Knows(new, <<m>>, 1, a, present[a])
    BY <1>1, <1>3, <1>4, <2>0 DEF Knows
  <2> QED
    BY <1>1, <1>3, <1>4, <2>1, <2>2 DEF Leads
<1> QED
  BY <1>2, <1>3, <1>4, <1>5 DEF RoomPart, Revisions, Foreseen, GraceSpares

\* The socket is lost, the room is closed, or a grace timer ends.
LEMMA RoomQuiet ==
    ASSUME RoomPart, UNCHANGED <<present, revision>>,
           LoseSocket \/ CloseRoom \/ \E a \in Accounts : GraceEnds(a)
    PROVE  RoomPart'
<1>1. CASE LoseSocket \/ CloseRoom
  <2>1. /\ room' \in RoomType /\ room'.revision = room.revision /\ room'.socket # "open"
        /\ room'.members = room.members
        /\ \A a \in Accounts : room'.pendingDrops[a] \in {room.pendingDrops[a], None}
    <3>1. CASE LoseSocket
      BY <3>1 DEF LoseSocket, RoomPart, RoomType
    <3>2. CASE CloseRoom
      <4>1. [a \in Accounts |-> None] \in Places
        BY DEF Places
      <4> QED
        BY <3>2, <4>1 DEF CloseRoom, RoomPart, RoomType
    <3> QED
      BY <1>1, <3>1, <3>2
  <2>2. inbox' = <<>>
    BY <1>1 DEF LoseSocket, CloseRoom
  <2>3. Revisions'
    <3>1. room.revision <= revision
      BY DEF RoomPart, Revisions, Ordered
    <3>2. Ordered(room', <<>>, revision)
      BY <2>1, <3>1 DEF Ordered
    <3> QED
      BY <2>2, <3>2 DEF Revisions
  <2>4. GraceSpares'
    BY <2>1 DEF RoomPart, GraceSpares
  <2> QED
    BY <2>1, <2>2, <2>3, <2>4 DEF RoomPart, Foreseen
<1>2. ASSUME NEW a \in Accounts, GraceEnds(a) PROVE RoomPart'
  <2>1. /\ room' \in RoomType /\ room'.revision = room.revision /\ room'.members = room.members
        /\ room'.socket = room.socket /\ room'.hasSnapshot = room.hasSnapshot
        /\ \A b \in Accounts : room'.pendingDrops[b] \in {room.pendingDrops[b], None}
    BY <1>2 DEF GraceEnds, RoomPart, RoomType, Places
  <2>2. inbox' = inbox
    BY <1>2 DEF GraceEnds
  <2>3. Revisions'
    BY <2>1, <2>2 DEF RoomPart, Revisions, Ordered
  <2>4. Foreseen'
    <3>1. \A n \in Nat : \A b, id : Knows(room, inbox, n, b, id) => Knows(room', inbox, n, b, id)
      BY <2>1 DEF Knows
    <3>2. ASSUME Leads(room, inbox, present) PROVE Leads(room', inbox, present)
      <4>1. \A b \in Accounts : Knows(room', inbox, Len(inbox), b, present[b])
        BY <3>1, <3>2 DEF Leads, RoomPart
      <4>2. \A n \in 1..Len(inbox) : inbox[n].type = "answer" =>
              Knows(room', inbox, n - 1, Owner(inbox[n].sender), inbox[n].sender)
        BY <3>1, <3>2 DEF Leads
      <4> QED
        BY <2>1, <3>2, <4>1, <4>2 DEF Leads
    <3> QED
      BY <2>1, <2>2, <3>2 DEF RoomPart, Foreseen
  <2>5. GraceSpares'
    BY <2>1 DEF RoomPart, GraceSpares
  <2> QED
    BY <2>1, <2>2, <2>3, <2>4, <2>5 DEF RoomPart
<1> QED
  BY <1>1, <1>2
-----------------------------------------------------------------------------
(***************************************************************************)
(* The glue's part of a step.                                              *)
(***************************************************************************)

\* Whom room peers may be of.
Known == IF room.socket = "closed" THEN {} ELSE Closing

LEMMA GlueGood ==
    ASSUME GluePart
    PROVE  glue \in Wide /\ Sound(glue, Known) /\ glue.created \in 0..MaxSessions
<1>1. glue \in GlueType
  BY DEF GluePart
<1>2. glue \in Wide /\ glue.created \in 0..MaxSessions
  <2>1. glue = [peers |-> glue.peers, created |-> glue.created, roomPeers |-> glue.roomPeers,
                retries |-> glue.retries, timers |-> glue.timers]
    BY <1>1 DEF GlueType
  <2>2. /\ glue.peers \in [Sessions -> PeerType] /\ glue.created \in 0..MaxSessions
        /\ glue.roomPeers \in [PeerIds -> Sessions \cup {None}]
        /\ glue.retries \in [PeerIds -> 0..MaxRetries]
        /\ glue.timers \in [PeerIds -> Sessions \cup {None}]
    BY <1>1 DEF GlueType
  <2>3. glue.created \in Nat
    BY <2>2, Values
  <2>4. glue.roomPeers \in [PeerIds -> Nat \cup {None}]
    <3>1. Sessions \cup {None} \subseteq Nat \cup {None}
      BY Values
    <3> HIDE DEF Sessions
    <3> QED
      BY <2>2, <3>1, Zenon
  <2> QED
    BY <2>1, <2>2, <2>3, <2>4 DEF Wide
<1>3. \A s \in Sessions : glue.peers[s].open => glue.peers[s].remote # None
  BY DEF GluePart, Remotes
<1>4. ASSUME NEW id \in PeerIds, glue.roomPeers[id] # None
      PROVE  /\ id \in Known /\ glue.roomPeers[id] \in Sessions
             /\ glue.peers[glue.roomPeers[id]].open
  BY <1>1, <1>4 DEF GluePart, RoomPeersTrue, Peer, Known, GlueType
<1> QED
  BY <1>2, <1>3, <1>4 DEF Sound

LEMMA GlueKept ==
    ASSUME NEW h \in Wide, h.created <= MaxSessions, NEW ids, Sound(h, ids), glue' = h,
           \A id \in PeerIds : id \in ids => id \in Known'
    PROVE  GluePart'
<1>1. MaxSessions \in Nat /\ h.created \in Nat
  BY Values DEF Wide
<1>2. Sessions \cup 1..h.created = Sessions
  BY <1>1 DEF Sessions
<1>3. \A id \in PeerIds : h.roomPeers[id] # None =>
        /\ id \in ids /\ h.roomPeers[id] \in Sessions /\ h.peers[h.roomPeers[id]].open
  BY <1>2 DEF Sound
<1>4. h \in GlueType
  <2>1. h = [peers |-> h.peers, created |-> h.created, roomPeers |-> h.roomPeers,
             retries |-> h.retries, timers |-> h.timers]
    BY DEF Wide
  <2>2. h.created \in 0..MaxSessions
    BY <1>1
  <2>3. h.roomPeers \in [PeerIds -> Sessions \cup {None}]
    BY <1>3 DEF Wide
  <2>4. /\ h.peers \in [Sessions -> PeerType] /\ h.retries \in [PeerIds -> 0..MaxRetries]
        /\ h.timers \in [PeerIds -> Sessions \cup {None}]
    BY DEF Wide
  <2> QED
    BY <2>1, <2>2, <2>3, <2>4 DEF GlueType
<1>5. Remotes'
  BY DEF Sound, Remotes
<1>6. RoomPeersTrue'
  BY <1>3 DEF RoomPeersTrue, Peer, Known
<1> QED
  BY <1>4, <1>5, <1>6 DEF GluePart

\* The room may lose and restore its socket.
LEMMA GlueUnchanged ==
    ASSUME GluePart, UNCHANGED glue, room'.members = room.members,
           room'.pendingDrops = room.pendingDrops,
           (room.socket # "closed" /\ room'.socket # "closed") \/ room'.socket = room.socket
    PROVE  GluePart'
<1>1. glue \in Wide /\ Sound(glue, Known) /\ glue.created <= MaxSessions
  BY GlueGood, Values
<1>2. \A id \in PeerIds : id \in Known => id \in Known'
  BY DEF Known, Closing
<1> QED
  BY <1>1, <1>2, GlueKept

LEMMA GlueSame ==
    ASSUME UNCHANGED room, NEW h \in Wide, h.created <= MaxSessions, Sound(h, Known), glue' = h
    PROVE  GluePart'
<1>1. \A id \in PeerIds : id \in Known => id \in Known'
  BY DEF Known, Closing
<1> QED
  BY <1>1, GlueKept

LEMMA GlueApplyState ==
    ASSUME RoomPart, GluePart, ApplyState
    PROVE  GluePart'
<1> DEFINE m == Head(inbox)
<1>1. CASE Outdated(m)
  BY <1>1, GlueUnchanged DEF ApplyState
<1>2. CASE ~Outdated(m)
  <2>1. m \in Message /\ m.type = "state" /\ m.members \in Places
    BY TailIs, Messages DEF RoomPart, ApplyState
  <2>2. /\ room \in RoomType /\ room.socket = "open" /\ room'.socket = "open"
        /\ room'.members = m.members
        /\ room'.pendingDrops = [a \in Accounts |-> Pending(a, m.members[a])]
        /\ glue' = AllSeen(glue, m.members) /\ AllSeen(glue, m.members).created <= MaxSessions
    BY <1>2 DEF RoomPart, RoomType, ApplyState
  <2>3. \A id \in PeerIds : Owner(id) \in Accounts
    BY DEF PeerIds, Owner
  <2>4. glue \in Wide /\ Sound(glue, Allowed({}, m.members))
    <3>1. ASSUME NEW id \in PeerIds, id \in Known PROVE id \in Allowed({}, m.members)
      <4>1. PICK a \in Accounts : id \in {room.members[a], room.pendingDrops[a]} /\ id # None
        BY <3>1, <2>2 DEF Known, Closing
      <4>2. Owner(id) = a
        BY <4>1, <2>2 DEF RoomType, Places
      <4> QED
        BY <4>1, <4>2 DEF Allowed
    <3> QED
      BY <3>1, GlueGood, SoundFor
  <2> HIDE DEF m
  <2>5. /\ AllSeen(glue, m.members) \in Wide
        /\ Sound(AllSeen(glue, m.members), Allowed(Accounts, m.members))
    BY <2>1, <2>2, <2>4, AllSeenSound
  <2>6. ASSUME NEW id \in PeerIds, id \in Allowed(Accounts, m.members)
        PROVE  id \in Known'
    <3> DEFINE a == Owner(id)
    <3>1. a \in Accounts /\ id # None
      BY <2>3, Values
    <3>2. room'.pendingDrops[a] = Pending(a, m.members[a]) /\ room'.members[a] = m.members[a]
      BY <2>2, <3>1
    <3>3. id \in {room'.members[a], room'.pendingDrops[a]}
      <4>1. CASE m.members[a] # None
        BY <2>6, <3>1, <3>2, <4>1 DEF Allowed
      <4>2. CASE m.members[a] = None
        <5>1. id \in {room.members[a], room.pendingDrops[a]}
          BY <2>6, <3>1, <4>2 DEF Allowed
        <5>2. room.pendingDrops[a] # None => room.members[a] = None
          BY <3>1 DEF RoomPart, GraceSpares
        <5> QED
          BY <3>1, <3>2, <4>2, <5>1, <5>2 DEF Pending
      <4> QED
        BY <4>1, <4>2
    <3> HIDE DEF a
    <3> QED
      BY <2>2, <3>1, <3>3 DEF Known, Closing
  <2> HIDE DEF Known
  <2> QED
    BY <2>2, <2>5, <2>6, GlueKept
<1> QED
  BY <1>1, <1>2

\* An answer, taken or not, leaves the peer open and of whom it is.
LEMMA AnsweredIs ==
    ASSUME NEW p \in PeerType, NEW q \in Answered(p)
    PROVE  q \in PeerType /\ q.open = p.open /\ q.remote = p.remote
  BY DEF Answered, PeerType

LEMMA GlueApplyAnswer ==
    ASSUME RoomPart, GluePart, ApplyAnswer
    PROVE  GluePart'
<1> DEFINE m == Head(inbox)
           rp == [glue.roomPeers EXCEPT ![m.sender] = m.session]
<1>1. m \in Message /\ m.type = "answer" /\ m.sender \in PeerIds /\ m.session \in Sessions
  <2>1. inbox # <<>> /\ Head(inbox).type = "answer"
    BY DEF ApplyAnswer
  <2>2. inbox \in Seq(Message)
    BY DEF RoomPart
  <2> QED
    BY <2>1, <2>2, TailIs, Messages
<1>2. glue \in Wide /\ Sound(glue, Known) /\ glue.created \in 0..MaxSessions
  BY GlueGood
<1>3. /\ glue.created <= MaxSessions /\ m.session \in Nat /\ m.sender # None
      /\ m.session \in Sessions \cup 1..glue.created
  <2> HIDE DEF m
  <2>1. glue.created <= MaxSessions
    BY <1>2, Values
  <2>2. m.session \in Nat /\ m.session \in Sessions \cup 1..glue.created
    BY <1>1, Values, Zenon
  <2>3. m.sender # None
    BY <1>1, Values, Zenon
  <2> QED
    BY <2>1, <2>2, <2>3
<1>4. m.sender \in Known
  <2>1. room.socket = "open" /\ room.members[Owner(m.sender)] = m.sender /\ Owner(m.sender) \in Accounts
    BY <1>1 DEF ApplyAnswer, Listed, PeerIds, Owner
  <2> QED
    BY <1>3, <2>1 DEF Known, Closing
<1>5. CASE glue.peers[m.session].open
  <2>0. PICK q \in Answered(glue.peers[m.session]) :
          glue' = [glue EXCEPT !.roomPeers[m.sender] = m.session, !.peers[m.session] = q]
    BY <1>5 DEF ApplyAnswer
  <2> DEFINE pp == [glue.peers EXCEPT ![m.session] = q]
             h == [glue EXCEPT !.roomPeers = rp, !.peers = pp]
  <2>1. UNCHANGED room /\ glue' = h
    BY <2>0 DEF ApplyAnswer
  <2> HIDE DEF m
  <2>2. q \in PeerType /\ q.open /\ q.remote = glue.peers[m.session].remote
    <3>1. glue.peers[m.session] \in PeerType
      BY <1>1, <1>2 DEF Wide
    <3> QED
      BY <1>5, <3>1, AnsweredIs
  <2>3. /\ pp \in [Sessions -> PeerType]
        /\ \A s \in Sessions : pp[s].open = glue.peers[s].open /\ pp[s].remote = glue.peers[s].remote
    <3>1. glue.peers \in [Sessions -> PeerType]
      BY <1>2 DEF Wide
    <3>2. pp \in [Sessions -> PeerType]
      BY <2>2, <3>1
    <3>3. \A s \in Sessions : pp[s] = IF s = m.session THEN q ELSE glue.peers[s]
      BY <3>1
    <3> HIDE DEF pp
    <3>4. ASSUME NEW s \in Sessions
          PROVE  (pp[s].open <=> glue.peers[s].open) /\ pp[s].remote = glue.peers[s].remote
      BY <1>5, <2>2, <3>3
    <3>5. \A s \in Sessions : pp[s].open \in BOOLEAN /\ glue.peers[s].open \in BOOLEAN
      BY <3>1, <3>2 DEF PeerType
    <3> QED
      BY <3>2, <3>4, <3>5
  <2>4. /\ rp \in [PeerIds -> Nat \cup {None}]
        /\ \A id \in PeerIds : rp[id] = IF id = m.sender THEN m.session ELSE glue.roomPeers[id]
    BY <1>1, <1>2, <1>3 DEF Wide
  <2> HIDE DEF pp, rp
  <2>5. h \in Wide /\ h.created = glue.created /\ h.peers = pp /\ h.roomPeers = rp
    BY <1>2, <2>3, <2>4 DEF Wide
  <2> HIDE DEF h
  <2>6. \A s \in Sessions : h.peers[s].open => h.peers[s].remote # None
    BY <1>2, <2>3, <2>5 DEF Sound
  <2>7. ASSUME NEW id \in PeerIds, h.roomPeers[id] # None
        PROVE  /\ id \in Known /\ h.roomPeers[id] \in Sessions \cup 1..h.created
               /\ h.roomPeers[id] \in Sessions => h.peers[h.roomPeers[id]].open
    <3>1. CASE id = m.sender
      BY <3>1, <1>1, <1>4, <1>5, <2>3, <2>4, <2>5
    <3>2. CASE id # m.sender
      <4>1. h.roomPeers[id] = glue.roomPeers[id]
        BY <2>4, <2>5, <3>2
      <4> QED
        BY <1>2, <2>3, <2>5, <2>7, <4>1 DEF Sound
    <3> QED
      BY <3>1, <3>2
  <2>8. Sound(h, Known)
    BY <2>6, <2>7 DEF Sound
  <2> QED
    BY <1>3, <2>1, <2>5, <2>8, GlueSame
<1>6. CASE ~glue.peers[m.session].open
  <2>1. UNCHANGED room /\ glue' = Created(glue, m.session, m.sender, FALSE)
    BY <1>6 DEF ApplyAnswer
  <2> HIDE DEF m
  <2>2. ASSUME NEW i \in BOOLEAN
        PROVE  LET c == Created(glue, m.session, m.sender, i) IN
               c \in Wide /\ Sound(c, Known) /\ c.created = glue.created
    <3> DEFINE c == Created(glue, m.session, m.sender, i)
    <3> HIDE DEF Known
    <3>1. c \in Wide /\ Sound(c, Known) /\ c.created = glue.created
      BY <1>1, <1>2, <1>3, <1>4, CreatedSound
    <3> QED
      BY <3>1
  <2> DEFINE c == Created(glue, m.session, m.sender, FALSE)
  <2>3. c \in Wide /\ Sound(c, Known) /\ c.created = glue.created
    <3>1. FALSE \in BOOLEAN
      OBVIOUS
    <3> QED
      BY <2>2, <3>1, Zenon
  <2> HIDE DEF c
  <2>4. glue' = c
    BY <2>1 DEF c
  <2> QED
    BY <1>3, <2>1, <2>3, <2>4, GlueSame
<1> QED
  BY <1>5, <1>6

LEMMA GlueGraceEnds ==
    ASSUME RoomPart, GluePart, NEW a \in Accounts, GraceEnds(a)
    PROVE  GluePart'
<1> DEFINE id == room.pendingDrops[a]
           h == Dropped(glue, {id})
<1>1. glue \in Wide /\ Sound(glue, Known) /\ glue.created <= MaxSessions
  BY GlueGood, Values
<1>2. h \in Wide /\ Sound(h, Known \ {id}) /\ h.created = glue.created
  BY <1>1, DroppedSound
<1>3. /\ room \in RoomType /\ room'.socket = room.socket /\ room'.members = room.members
      /\ room'.pendingDrops = [room.pendingDrops EXCEPT ![a] = None] /\ glue' = h
  BY DEF RoomPart, RoomType, GraceEnds
<1>4. room.pendingDrops \in Places /\ room.members \in Places
  BY <1>3 DEF RoomType
<1> HIDE DEF h, id
<1>5. ASSUME NEW x \in PeerIds, x \in Known \ {id}
      PROVE  x \in Known'
  <2>1. room.socket # "closed" /\ room'.socket # "closed"
    BY <1>3, <1>5 DEF Known
  <2>2. PICK b \in Accounts : x \in {room.members[b], room.pendingDrops[b]} /\ x # None
    BY <1>5, <2>1 DEF Known, Closing
  <2>3. x \in {room'.members[b], room'.pendingDrops[b]}
    BY <1>3, <1>4, <1>5, <2>2 DEF id, Places
  <2> QED
    BY <2>1, <2>2, <2>3 DEF Known, Closing
<1> QED
  <2> HIDE DEF Known
  <2> QED
    BY <1>1, <1>2, <1>3, <1>5, GlueKept

LEMMA GlueCloseRoom ==
    ASSUME GluePart, CloseRoom
    PROVE  GluePart'
<1> DEFINE h == Dropped(glue, Closing)
<1>1. glue \in Wide /\ Sound(glue, Known) /\ glue.created <= MaxSessions
  BY GlueGood, Values
<1>2. h \in Wide /\ Sound(h, Known \ Closing) /\ h.created = glue.created
  BY <1>1, DroppedSound
<1>3. glue' = h
  BY DEF CloseRoom
<1>4. \A x \in PeerIds : x \notin Known \ Closing
  BY DEF Known
<1> HIDE DEF h
<1> QED
  BY <1>1, <1>2, <1>3, <1>4, GlueKept

\* A peer's own state, timers and counters change, but not who it is of.
Touch(g, s, p, rt, tm) == [g EXCEPT !.peers[s] = p, !.retries = rt, !.timers = tm]

LEMMA Touched ==
    ASSUME NEW g \in Wide, NEW ids, Sound(g, ids), NEW s \in Sessions, NEW p \in PeerType,
           p.open <=> g.peers[s].open, p.remote = g.peers[s].remote,
           NEW rt \in [PeerIds -> 0..MaxRetries], NEW tm \in [PeerIds -> Sessions \cup {None}]
    PROVE  LET h == Touch(g, s, p, rt, tm) IN
           h \in Wide /\ Sound(h, ids) /\ h.created = g.created /\ h.peers[s] = p
<1> DEFINE pp == [g.peers EXCEPT ![s] = p]
           h == Touch(g, s, p, rt, tm)
<1>1. /\ pp \in [Sessions -> PeerType]
      /\ \A t \in Sessions : pp[t] = IF t = s THEN p ELSE g.peers[t]
  BY DEF Wide
<1>2. h = [g EXCEPT !.peers = pp, !.retries = rt, !.timers = tm]
  BY DEF Wide, Touch
<1> HIDE DEF pp
<1>3. h \in Wide /\ h.created = g.created /\ h.peers = pp /\ h.roomPeers = g.roomPeers
  BY <1>1, <1>2 DEF Wide
<1> HIDE DEF h
<1>4. \A t \in Sessions : (h.peers[t].open <=> g.peers[t].open) /\ h.peers[t].remote = g.peers[t].remote
  BY <1>1, <1>3
<1>5. Sound(h, ids)
  BY <1>3, <1>4 DEF Sound
<1> QED
  BY <1>1, <1>3, <1>5 DEF h

\* A peer of the master is replaced, or its member removed.
LEMMA RetrySound ==
    ASSUME GluePart, NEW s \in Sessions, CanRetry(s)
    PROVE  Retried(s) \in Wide /\ Sound(Retried(s), Known)
<1> DEFINE id == glue.peers[s].remote
           c == Closed(glue, s)
           tm == [c.timers EXCEPT ![id] = None]
           h == [c EXCEPT !.timers = tm]
<1>1. glue \in Wide /\ Sound(glue, Known)
  BY GlueGood
<1>2. id \in PeerIds /\ id \in Known /\ s # None
  <2>1. glue.peers[s] \in PeerType /\ glue.peers[s].open /\ glue.roomPeers[id] = s
    BY <1>1 DEF CanRetry, Wide
  <2>2. id \in PeerIds
    BY <1>1, <2>1 DEF Sound, PeerType
  <2> QED
    BY <1>1, <2>1, <2>2, Values DEF Sound
<1>3. c \in Wide /\ Sound(c, Known) /\ c.retries = glue.retries /\ c.timers = glue.timers
  BY <1>1, <1>2, ClosedIs, ClosedSound
<1>4. Retried(s) = IF MustRemove(id) THEN [h EXCEPT !.retries[id] = 0]
                   ELSE [Offered(h, id) EXCEPT !.retries[id] = @ + 1]
  BY DEF Retried
<1> HIDE DEF c
<1>5. tm \in [PeerIds -> Sessions \cup {None}]
  BY <1>3 DEF Wide
<1> HIDE DEF tm
<1>6. /\ h \in Wide /\ h.retries = glue.retries /\ h.peers = c.peers
      /\ h.roomPeers = c.roomPeers /\ h.created = c.created
  BY <1>3, <1>5 DEF Wide
<1>7. Sound(h, Known)
  BY <1>3, <1>6 DEF Sound
<1> HIDE DEF h
<1>8. ASSUME NEW g \in Wide, Sound(g, Known), NEW n \in 0..MaxRetries
      PROVE  [g EXCEPT !.retries[id] = n] \in Wide /\ Sound([g EXCEPT !.retries[id] = n], Known)
  <2> DEFINE rt == [g.retries EXCEPT ![id] = n]
             k == [g EXCEPT !.retries = rt]
  <2>1. rt \in [PeerIds -> 0..MaxRetries]
    BY <1>8 DEF Wide
  <2>2. [g EXCEPT !.retries[id] = n] = k
    BY DEF Wide
  <2> HIDE DEF rt
  <2>3. k \in Wide /\ k.peers = g.peers /\ k.roomPeers = g.roomPeers /\ k.created = g.created
    BY <2>1 DEF Wide
  <2> HIDE DEF k
  <2>4. Sound(k, Known)
    BY <1>8, <2>3 DEF Sound
  <2> QED
    BY <2>2, <2>3, <2>4
<1>9. CASE MustRemove(id)
  <2>1. 0 \in 0..MaxRetries
    BY Values
  <2> QED
    BY <1>4, <1>6, <1>7, <1>8, <1>9, <2>1
<1>10. CASE ~MustRemove(id)
  <2> DEFINE o == Offered(h, id)
  <2>1. o \in Wide /\ Sound(o, Known) /\ o.retries = glue.retries
    BY <1>2, <1>6, <1>7, OfferedSound
  <2> HIDE DEF o
  <2>2. o.retries[id] + 1 \in 0..MaxRetries
    <3>1. glue.retries[id] \in 0..MaxRetries
      BY <1>1, <1>2 DEF Wide
    <3> QED
      BY <1>10, <2>1, <3>1, Values DEF MustRemove
  <2> QED
    BY <1>4, <1>8, <1>10, <2>1, <2>2 DEF o
<1> QED
  BY <1>9, <1>10

LEMMA PeerSet ==
    ASSUME NEW g \in Wide, NEW ids, Sound(g, ids), NEW s \in Sessions, NEW p \in PeerType,
           p.open <=> g.peers[s].open, p.remote = g.peers[s].remote
    PROVE  LET h == [g EXCEPT !.peers[s] = p] IN
           h \in Wide /\ Sound(h, ids) /\ h.created = g.created /\ h.peers[s] = p
<1>1. g.retries \in [PeerIds -> 0..MaxRetries] /\ g.timers \in [PeerIds -> Sessions \cup {None}]
  BY DEF Wide
<1> DEFINE h == Touch(g, s, p, g.retries, g.timers)
<1>2. [g EXCEPT !.peers[s] = p] = h
  BY DEF Wide, Touch
<1>3. h \in Wide /\ Sound(h, ids) /\ h.created = g.created /\ h.peers[s] = p
  BY <1>1, Touched
<1> HIDE DEF h
<1> QED
  BY <1>2, <1>3

\* A peer of the type keeps its type, whatever of its own state changes.
LEMMA PeerFields ==
    ASSUME NEW p \in PeerType, NEW c \in {"new", "connected"} \cup Broken, NEW b \in BOOLEAN
    PROVE  /\ [p EXCEPT !.conn = c] \in PeerType
           /\ [p EXCEPT !.conn = c].open = p.open /\ [p EXCEPT !.conn = c].remote = p.remote
           /\ [p EXCEPT !.timer = b] \in PeerType
           /\ [p EXCEPT !.timer = b].open = p.open /\ [p EXCEPT !.timer = b].remote = p.remote
           /\ [p EXCEPT !.metadata = b] \in PeerType
           /\ [p EXCEPT !.metadata = b].open = p.open
           /\ [p EXCEPT !.metadata = b].remote = p.remote
           /\ [p EXCEPT !.gathering = b] \in PeerType
           /\ [p EXCEPT !.gathering = b].open = p.open
           /\ [p EXCEPT !.gathering = b].remote = p.remote
  BY DEF PeerType

LEMMA ConnectedSound ==
    ASSUME NEW g \in Wide, NEW ids, Sound(g, ids), NEW s \in Sessions, g.peers[s].open
    PROVE  /\ Connected(g, s) \in Wide /\ Sound(Connected(g, s), ids)
           /\ Connected(g, s).created = g.created
<1> DEFINE p == g.peers[s]
           b == ~p.metadata
           n == [p EXCEPT !.timer = b]
           tm == [g.timers EXCEPT ![p.remote] = None]
           rt == [g.retries EXCEPT ![p.remote] = IF p.metadata THEN 0 ELSE @]
           h == Touch(g, s, n, rt, tm)
<1>1. p \in PeerType /\ b \in BOOLEAN
  BY DEF Wide, PeerType
<1>2. Connected(g, s) = h
  <2>1. g.peers \in [Sessions -> PeerType]
    BY DEF Wide
  <2>2. [g EXCEPT !.peers[s].timer = b] = [g EXCEPT !.peers[s] = n]
    BY DEF Wide
  <2>3. g.peers = [g.peers EXCEPT ![s] = p]
    BY <2>1
  <2> QED
    BY DEF Connected, Wide, Touch
<1> HIDE DEF b
<1>3. n \in PeerType /\ n.open = p.open /\ n.remote = p.remote
  BY <1>1, PeerFields
<1>4. g.retries \in [PeerIds -> 0..MaxRetries] /\ g.timers \in [PeerIds -> Sessions \cup {None}]
  BY DEF Wide
<1>5. rt \in [PeerIds -> 0..MaxRetries]
  <2>1. 0 \in 0..MaxRetries
    BY Values
  <2> QED
    BY <1>4, <2>1
<1>6. tm \in [PeerIds -> Sessions \cup {None}]
  BY <1>4
<1> HIDE DEF p, n, rt, tm
<1>7. (n.open <=> g.peers[s].open) /\ n.remote = g.peers[s].remote
  BY <1>3 DEF p
<1> QED
  BY <1>2, <1>3, <1>5, <1>6, <1>7, Touched

\* What a step of a peer, a description it sends or the end of its timers
\* does: it is replaced, or goes on, or is closed.
Goes(s) ==
    /\ UNCHANGED room
    /\ \/ CanRetry(s) /\ Retry(s)
       \/ /\ UNCHANGED <<present, revision, inbox>>
          /\ glue' \in Wide /\ Sound(glue', Known) /\ glue'.created = glue.created

LEMMA PeerGoes ==
    ASSUME GluePart, NEW s \in Sessions, PeerStep(s) \/ Publish(s)
    PROVE  Goes(s)
<1> USE DEF Peer
<1>1. glue \in Wide /\ Sound(glue, Known) /\ glue.peers[s] \in PeerType
  <2>1. glue \in Wide /\ Sound(glue, Known)
    BY GlueGood
  <2> QED
    BY <2>1 DEF Wide
<1>2. /\ "connected" \in {"new", "connected"} \cup Broken
      /\ "disconnected" \in {"new", "connected"} \cup Broken
      /\ "failed" \in {"new", "connected"} \cup Broken
  BY DEF Broken
<1>3. CASE Connect(s)
  <2> DEFINE p == [glue.peers[s] EXCEPT !.conn = "connected"]
             g == [glue EXCEPT !.peers[s] = p]
  <2>1. p \in PeerType /\ p.open /\ p.remote = glue.peers[s].remote /\ glue.peers[s].open
    BY <1>1, <1>2, <1>3, PeerFields DEF Connect
  <2>2. [glue EXCEPT !.peers[s].conn = "connected"] = g
    BY <1>1 DEF Wide
  <2> HIDE DEF p
  <2>3. g \in Wide /\ Sound(g, Known) /\ g.created = glue.created /\ g.peers[s] = p
    BY <1>1, <2>1, PeerSet
  <2> HIDE DEF g
  <2>4. glue' = Connected(g, s)
    BY <1>3, <2>2 DEF Connect
  <2>5. glue' \in Wide /\ Sound(glue', Known) /\ glue'.created = glue.created
    BY <2>1, <2>3, <2>4, ConnectedSound
  <2> QED
    BY <1>3, <2>5 DEF Connect, Goes
<1>4. CASE MetadataOpens(s)
  <2> DEFINE p == [glue.peers[s] EXCEPT !.metadata = TRUE]
             g == [glue EXCEPT !.peers[s] = p]
  <2>1. p \in PeerType /\ p.open /\ p.remote = glue.peers[s].remote /\ glue.peers[s].open
    <3>1. glue.peers[s].open
      BY <1>4 DEF MetadataOpens
    <3> QED
      BY <1>1, <3>1 DEF PeerType
  <2>2. [glue EXCEPT !.peers[s].metadata = TRUE] = g
    BY <1>1 DEF Wide
  <2> HIDE DEF p
  <2>3. g \in Wide /\ Sound(g, Known) /\ g.created = glue.created /\ g.peers[s] = p
    BY <1>1, <2>1, PeerSet
  <2> HIDE DEF g
  <2>4. glue' = Connected(g, s)
    BY <1>4, <2>2 DEF MetadataOpens
  <2>5. glue' \in Wide /\ Sound(glue', Known) /\ glue'.created = glue.created
    BY <2>1, <2>3, <2>4, ConnectedSound
  <2> QED
    BY <1>4, <2>5 DEF MetadataOpens, Goes
<1>5. CASE MetadataTimeout(s)
  <2>1. CASE CanRetry(s) /\ Retry(s)
    BY <1>5, <2>1 DEF MetadataTimeout, Goes
  <2>2. CASE glue' = Closed(glue, s) /\ UNCHANGED <<present, revision, inbox>>
    <3>1. s # None
      BY Values
    <3>2. glue' = Closed(glue, s) /\ UNCHANGED <<present, revision, inbox, room>>
      BY <1>5, <2>2 DEF MetadataTimeout
    <3>3. glue' \in Wide /\ Sound(glue', Known) /\ glue'.created = glue.created
      BY <1>1, <3>1, <3>2, ClosedIs, ClosedSound
    <3> QED
      BY <3>2, <3>3 DEF Goes
  <2>3. CASE Peer(s).spoilt
    <3> DEFINE p == [glue.peers[s] EXCEPT !.timer = FALSE]
    <3>1. glue' = [glue EXCEPT !.peers[s] = p] /\ UNCHANGED <<present, revision, inbox, room>>
      BY <1>5, <2>3 DEF MetadataTimeout, SetPeer
    <3>2. p \in PeerType /\ p.open = glue.peers[s].open /\ p.remote = glue.peers[s].remote
      BY <1>1 DEF PeerType
    <3> HIDE DEF p
    <3>3. glue' \in Wide /\ Sound(glue', Known) /\ glue'.created = glue.created
      BY <1>1, <3>1, <3>2, PeerSet
    <3> QED
      BY <3>1, <3>3 DEF Goes
  <2> QED
    BY <1>5, <2>1, <2>2, <2>3 DEF MetadataTimeout
<1>6. CASE Disconnect(s)
  <2> DEFINE p == [glue.peers[s] EXCEPT !.conn = "disconnected"]
             id == glue.peers[s].remote
             tm == [glue.timers EXCEPT ![id] = IF @ = None THEN s ELSE @]
             h == Touch(glue, s, p, glue.retries, tm)
  <2>1. p \in PeerType /\ p.open = glue.peers[s].open /\ p.remote = glue.peers[s].remote
    BY <1>1, <1>2, PeerFields
  <2>2. /\ tm \in [PeerIds -> Sessions \cup {None}]
        /\ glue.retries \in [PeerIds -> 0..MaxRetries]
    BY <1>1 DEF Wide
  <2>3. glue' = h
    BY <1>1, <1>6 DEF Disconnect, Wide, Touch
  <2> HIDE DEF p, tm
  <2>4. glue' \in Wide /\ Sound(glue', Known) /\ glue'.created = glue.created
    BY <1>1, <2>1, <2>2, <2>3, Touched
  <2> QED
    BY <1>6, <2>4 DEF Disconnect, Goes
<1>7. CASE FailPeer(s)
  <2>1. CASE CanRetry(s)
    BY <1>7, <2>1 DEF FailPeer, Goes
  <2>2. CASE ~CanRetry(s)
    <3> DEFINE p == [glue.peers[s] EXCEPT !.conn = "failed", !.timer = FALSE]
    <3>1. glue' = [glue EXCEPT !.peers[s] = p] /\ UNCHANGED <<present, revision, inbox, room>>
      BY <1>7, <2>2 DEF FailPeer, SetPeer
    <3>2. p \in PeerType /\ p.open = glue.peers[s].open /\ p.remote = glue.peers[s].remote
      BY <1>1, <1>2 DEF PeerType
    <3> HIDE DEF p
    <3>3. glue' \in Wide /\ Sound(glue', Known) /\ glue'.created = glue.created
      BY <1>1, <3>1, <3>2, PeerSet
    <3> QED
      BY <3>1, <3>3 DEF Goes
  <2> QED
    BY <2>1, <2>2
<1>8. CASE Publish(s)
  <2>1. PICK more \in BOOLEAN : glue' = [glue EXCEPT !.peers[s] =
                                           [glue.peers[s] EXCEPT !.gathering = more]]
    BY <1>8 DEF Publish, SetPeer
  <2> DEFINE p == [glue.peers[s] EXCEPT !.gathering = more]
  <2>2. p \in PeerType /\ p.open = glue.peers[s].open /\ p.remote = glue.peers[s].remote
    BY <1>1, <1>2, PeerFields
  <2>3. glue' = [glue EXCEPT !.peers[s] = p]
    BY <2>1
  <2> HIDE DEF p
  <2>4. glue' \in Wide /\ Sound(glue', Known) /\ glue'.created = glue.created
    BY <1>1, <2>2, <2>3, PeerSet
  <2> QED
    BY <1>8, <2>4 DEF Publish, Goes
<1> QED
  BY <1>3, <1>4, <1>5, <1>6, <1>7, <1>8 DEF PeerStep

LEMMA ReconnectGoes ==
    ASSUME GluePart, NEW id \in PeerIds, ReconnectTimeout(id)
    PROVE  \E s \in Sessions : Goes(s)
<1> DEFINE s == glue.timers[id]
<1>1. glue \in Wide /\ Sound(glue, Known)
  BY GlueGood
<1>2. s \in Sessions
  BY <1>1 DEF ReconnectTimeout, Wide
<1>3. CASE CanRetry(s) /\ Retry(s)
  BY <1>2, <1>3 DEF ReconnectTimeout, Goes
<1>4. CASE glue' = [glue EXCEPT !.timers[id] = None] /\ UNCHANGED <<present, revision, inbox>>
  <2> DEFINE tm == [glue.timers EXCEPT ![id] = None]
             h == Touch(glue, s, glue.peers[s], glue.retries, tm)
  <2>1. /\ glue.peers[s] \in PeerType /\ tm \in [PeerIds -> Sessions \cup {None}]
        /\ glue.retries \in [PeerIds -> 0..MaxRetries]
    BY <1>1, <1>2 DEF Wide
  <2>2. glue' = h
    BY <1>1, <1>2, <1>4 DEF Wide, Touch
  <2> HIDE DEF tm, s
  <2>3. glue' \in Wide /\ Sound(glue', Known) /\ glue'.created = glue.created
    BY <1>1, <1>2, <2>1, <2>2, Touched
  <2> QED
    BY <1>2, <1>4, <2>3 DEF ReconnectTimeout, Goes
<1> QED
  BY <1>3, <1>4 DEF ReconnectTimeout

LEMMA GoesKeeps ==
    ASSUME RoomPart, GluePart, NEW s \in Sessions, Goes(s)
    PROVE  RoomPart' /\ GluePart'
<1>1. CASE CanRetry(s) /\ Retry(s)
  <2>1. UNCHANGED room /\ RemovedByMaster(s)
    BY <1>1 DEF Goes, Retry
  <2>2. glue' = Retried(s) /\ Retried(s).created <= MaxSessions
    BY <1>1 DEF Retry
  <2>3. Retried(s) \in Wide /\ Sound(Retried(s), Known)
    BY <1>1, RetrySound
  <2> QED
    BY <2>1, <2>2, <2>3, RoomRetry, GlueSame
<1>2. CASE /\ UNCHANGED <<present, revision, inbox>>
           /\ glue' \in Wide /\ Sound(glue', Known) /\ glue'.created = glue.created
  <2>1. UNCHANGED room
    BY DEF Goes
  <2>2. glue'.created <= MaxSessions
    BY <1>2, GlueGood, Values
  <2> QED
    BY <1>2, <2>1, <2>2, RoomUnchanged, GlueSame
<1> QED
  BY <1>1, <1>2 DEF Goes
-----------------------------------------------------------------------------
(***************************************************************************)
(* The invariant.                                                          *)
(***************************************************************************)

LEMMA Parts == IInv <=> RoomPart /\ GluePart /\ RestPart
  BY DEF IInv, TypeOK, RoomPart, GluePart, RestPart

LEMMA PartsNext == IInv' <=> RoomPart' /\ GluePart' /\ RestPart'
  BY DEF IInv, TypeOK, RoomPart, GluePart, RestPart

LEMMA Initially ==
    ASSUME Init
    PROVE  IInv
<1>1. RoomPart
  <2>1. [a \in Accounts |-> None] \in Places
    BY DEF Places
  <2>2. room \in RoomType /\ room.hasSnapshot /\ room.revision = 1
    BY <2>1 DEF Init, RoomType
  <2>3. inbox = <<>> /\ inbox \in Seq(Message) /\ Len(inbox) = 0
    BY DEF Init
  <2>4. Revisions
    BY <2>2, <2>3 DEF Init, Revisions, Ordered
  <2>5. Foreseen
    BY <2>2, <2>3 DEF Init, Foreseen, Leads, Knows
  <2>6. GraceSpares
    BY DEF Init, GraceSpares
  <2> QED
    BY <2>1, <2>2, <2>3, <2>4, <2>5, <2>6 DEF Init, RoomPart
<1>2. GluePart
  <2>1. glue \in GlueType
    BY Values DEF Init, GlueType
  <2>2. Remotes
    BY Values DEF Init, Remotes
  <2>3. RoomPeersTrue
    BY DEF Init, RoomPeersTrue
  <2> QED
    BY <2>1, <2>2, <2>3 DEF GluePart
<1>3. RestPart
  BY BoundsAssumption DEF Init, RestPart, BudgetType
<1> QED
  BY <1>1, <1>2, <1>3, Parts

LEMMA RestKept ==
    ASSUME RestPart, GluePart, Next
    PROVE  RestPart'
<1> DEFINE H == [Accounts -> SUBSET Sessions]
<1>1. holds \in H /\ budget \in BudgetType
  BY DEF RestPart
<1>2. CASE UNCHANGED <<holds, budget>>
  BY <1>2 DEF RestPart
<1>3. CASE LoseSocket
  BY <1>1, <1>3 DEF LoseSocket, RestPart, BudgetType
<1>4. ASSUME NEW s \in Sessions, Disconnect(s) \/ FailPeer(s)
      PROVE  RestPart'
  <2>1. UNCHANGED holds /\ Breaks(s)
    BY <1>4 DEF Disconnect, FailPeer
  <2> QED
    BY <1>1, <2>1 DEF Breaks, RestPart, BudgetType
<1>5. ASSUME NEW s \in Sessions, Publish(s)
      PROVE  RestPart'
  <2>1. UNCHANGED budget
    BY <1>5 DEF Publish
  <2>2. holds' = holds \/ \E a : holds' = [holds EXCEPT ![a] = @ \cup {s}]
    BY <1>5 DEF Publish
  <2> QED
    BY <1>1, <2>1, <2>2 DEF RestPart
<1>6. ASSUME NEW a \in Accounts, Leave(a) \/ Enter(a) \/ Answer(a)
      PROVE  RestPart'
  <2>1. holds' \in {holds, [holds EXCEPT ![a] = {}]}
    BY <1>6 DEF Leave, Enter, Answer
  <2>2. budget' \in BudgetType
    BY <1>1, <1>6 DEF Leave, Enter, Answer, BudgetType
  <2> QED
    BY <1>1, <2>1, <2>2 DEF RestPart
<1>7. CASE RoomStep \/ CloseRoom \/ Overtake
  BY <1>2, <1>7 DEF RoomStep, CloseRoom, Overtake, ApplyState, ApplyAnswer, Restore, GraceEnds
<1>8. ASSUME NEW s \in Sessions, Connect(s) \/ MetadataOpens(s) \/ MetadataTimeout(s)
      PROVE  RestPart'
  BY <1>2, <1>8 DEF Connect, MetadataOpens, MetadataTimeout
<1>9. ASSUME NEW id \in PeerIds, ReconnectTimeout(id)
      PROVE  RestPart'
  BY <1>2, <1>9 DEF ReconnectTimeout
<1> QED
  BY <1>3, <1>4, <1>5, <1>6, <1>7, <1>8, <1>9 DEF Next, PeerStep

LEMMA Kept ==
    ASSUME IInv, [Next]_vars
    PROVE  IInv'
<1> USE Parts, PartsNext
<1>1. RoomPart /\ GluePart /\ RestPart
  OBVIOUS
<1>2. CASE UNCHANGED vars
  BY <1>1, <1>2 DEF vars, RoomPart, GluePart, RestPart, Revisions, Foreseen, GraceSpares,
                    Remotes, RoomPeersTrue, Peer, Closing
<1>3. CASE Next
  <2>1. RestPart'
    BY <1>1, <1>3, RestKept
  <2>2. CASE ApplyState
    BY <1>1, <2>1, <2>2, RoomApplyState, GlueApplyState
  <2>3. CASE ApplyAnswer
    BY <1>1, <2>1, <2>3, RoomApplyAnswer, GlueApplyAnswer
  <2>4. CASE Restore
    <3>1. /\ UNCHANGED glue /\ room'.members = room.members
          /\ room'.pendingDrops = room.pendingDrops
          /\ room.socket # "closed" /\ room'.socket # "closed"
      BY <1>1, <2>4 DEF Restore, RoomPart, RoomType
    <3> QED
      BY <1>1, <2>1, <2>4, <3>1, RoomRestore, GlueUnchanged
  <2>5. ASSUME NEW a \in Accounts, GraceEnds(a) PROVE IInv'
    <3>1. RoomPart'
      BY <1>1, <2>5, RoomQuiet DEF GraceEnds
    <3> QED
      BY <1>1, <2>1, <2>5, <3>1, GlueGraceEnds
  <2>6. CASE LoseSocket
    <3>1. /\ UNCHANGED <<glue, present, revision>> /\ room'.members = room.members
          /\ room'.pendingDrops = room.pendingDrops
          /\ room.socket # "closed" /\ room'.socket # "closed"
      BY <1>1, <2>6 DEF LoseSocket, RoomPart, RoomType
    <3> QED
      BY <1>1, <2>1, <2>6, <3>1, RoomQuiet, GlueUnchanged
  <2>7. CASE CloseRoom
    <3>1. RoomPart'
      BY <1>1, <2>7, RoomQuiet DEF CloseRoom
    <3> QED
      BY <1>1, <2>1, <2>7, <3>1, GlueCloseRoom
  <2>8. CASE Overtake
    <3>1. UNCHANGED <<glue, room>>
      BY <2>8 DEF Overtake
    <3> QED
      BY <1>1, <2>1, <2>8, <3>1, RoomOvertake, GlueUnchanged
  <2>9. ASSUME NEW s \in Sessions, PeerStep(s) \/ Publish(s) PROVE IInv'
    BY <1>1, <2>1, <2>9, PeerGoes, GoesKeeps
  <2>10. ASSUME NEW id \in PeerIds, ReconnectTimeout(id) PROVE IInv'
    BY <1>1, <2>1, <2>10, ReconnectGoes, GoesKeeps
  <2>11. ASSUME NEW a \in Accounts, Leave(a) PROVE IInv'
    <3> DEFINE members == [present EXCEPT ![a] = None]
    <3>1. members \in Places
      BY <1>1 DEF RoomPart, Places
    <3>2. /\ UNCHANGED <<glue, room>> /\ present' = members /\ revision' = revision + 1
          /\ inbox' = IF room.socket = "open"
                        THEN Append(inbox, State(revision + 1, members)) ELSE inbox
      BY <2>11 DEF Leave, Change, State
    <3> HIDE DEF members
    <3> QED
      BY <1>1, <2>1, <3>1, <3>2, RoomChanged, GlueUnchanged
  <2>12. ASSUME NEW a \in Accounts, Enter(a) PROVE IInv'
    <3>1. PICK id \in PeerIds : Owner(id) = a /\ Change([present EXCEPT ![a] = id])
      BY <2>12 DEF Enter
    <3> DEFINE members == [present EXCEPT ![a] = id]
    <3>2. members \in Places
      BY <1>1, <3>1 DEF RoomPart, Places
    <3>3. /\ UNCHANGED <<glue, room>> /\ present' = members /\ revision' = revision + 1
          /\ inbox' = IF room.socket = "open"
                        THEN Append(inbox, State(revision + 1, members)) ELSE inbox
      BY <3>1 DEF Change, State
    <3> HIDE DEF members
    <3> QED
      BY <1>1, <2>1, <3>2, <3>3, RoomChanged, GlueUnchanged
  <2>13. ASSUME NEW a \in Accounts, Answer(a) PROVE IInv'
    <3>1. UNCHANGED <<glue, room>>
      BY <2>13 DEF Answer
    <3> QED
      BY <1>1, <2>1, <2>13, <3>1, RoomAnswer, GlueUnchanged
  <2> QED
    BY <1>3, <2>2, <2>3, <2>4, <2>5, <2>6, <2>7, <2>8, <2>9, <2>10, <2>11, <2>12, <2>13
       DEF Next, RoomStep
<1> QED
  BY <1>2, <1>3

\* What is known after no message at all is known.
LEMMA KnowsNow ==
    ASSUME NEW r, NEW q, NEW a, NEW id, Knows(r, q, 0, a, id)
    PROVE  r.members[a] = id
  BY DEF Knows

LEMMA InStepThen == IInv => InStep
<1> SUFFICES ASSUME IInv, room.socket = "open"
             PROVE  /\ inbox = <<>> => room.hasSnapshot /\ room.members = present
                    /\ inbox # <<>> /\ Head(inbox).type = "answer" =>
                         room.hasSnapshot /\ Listed(Head(inbox).sender)
  BY DEF InStep
<1>1. /\ Leads(room, inbox, present) /\ room.members \in [Accounts -> PeerIds \cup {None}]
      /\ present \in [Accounts -> PeerIds \cup {None}] /\ inbox \in Seq(Message)
  BY DEF IInv, Foreseen, TypeOK, RoomType, Places
<1>2. ASSUME inbox = <<>> PROVE room.hasSnapshot /\ room.members = present
  <2>1. \A a \in Accounts : room.members[a] = present[a]
    BY <1>1, <1>2, KnowsNow DEF Leads
  <2> QED
    BY <1>1, <1>2, <2>1 DEF Leads
<1>3. ASSUME inbox # <<>>, Head(inbox).type = "answer"
      PROVE  room.hasSnapshot /\ Listed(Head(inbox).sender)
  <2>1. Head(inbox) = inbox[1] /\ 1 \in 1..Len(inbox) /\ 1 - 1 = 0
    BY <1>1, <1>3, TailIs
  <2>2. Knows(room, inbox, 0, Owner(inbox[1].sender), inbox[1].sender)
    BY <1>1, <1>3, <2>1 DEF Leads
  <2> QED
    BY <1>1, <1>3, <2>1, <2>2, KnowsNow DEF Leads, Listed
<1> QED
  BY <1>2, <1>3

\* The parts of IInv hold together, whatever the members, the server and the
\* network do.
THEOREM Invariance == Spec => []IInv
  BY Initially, Kept, PTL DEF Spec

\* Every variable has a value of its kind; a member's peer is replaced MaxRetries
\* times at most before a metadata channel opens.
THEOREM TypeCorrect == Spec => []TypeOK
<1>1. IInv => TypeOK
  BY DEF IInv
<1> QED
  BY <1>1, Invariance, PTL

\* applyState and restore: the master knows who is in the room when nothing is on
\* its way, and never takes a member who answers for a stranger.
THEOREM MasterInStep == Spec => []InStep
  BY InStepThen, Invariance, PTL

\* The glue: roomPeers names open peers only, of members or of those who may
\* come back, and of nobody when the room is closed.
THEOREM RoomPeersKept == Spec => []RoomPeersTrue
<1>1. IInv => RoomPeersTrue
  BY DEF IInv
<1> QED
  BY <1>1, Invariance, PTL

\* applyState: no grace timer runs for an account that is in the room.
THEOREM GraceSparesMembers == Spec => []GraceSpares
<1>1. IInv => GraceSpares
  BY DEF IInv
<1> QED
  BY <1>1, Invariance, PTL
=============================================================================
