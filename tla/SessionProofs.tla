----------------------------- MODULE SessionProofs -----------------------------
(***************************************************************************)
(* Proofs about the sessions of the signaling server: the rooms that they  *)
(* share, and the PeerConnections that each of them has.                   *)
(*                                                                         *)
(* SignalingRooms, for any sessions and rooms, any length of the write     *)
(* queues and any number of commands: the tables of the server are         *)
(* consistent, and a client whose queue never overflowed knows its room    *)
(* once it has read everything, and never shows a stream without its peer. *)
(*                                                                         *)
(* MediaConnections, for any set of connections, PeerConnections, tracks   *)
(* and mids: no track of a replaced PeerConnection gets into its           *)
(* successor's table, and nothing that was created or registered is        *)
(* forgotten before it is closed.                                          *)
(***************************************************************************)
EXTENDS SignalingRooms, MediaConnections, FiniteSetTheorems, SequenceTheorems, TLAPS

-----------------------------------------------------------------------------
\* A view with no stream of a peer that it does not show.
Consistent(v) == v.streaming \subseteq v.peers

\* However much of the queue is applied to the view, streams belong to peers.
InOrder(v, q) == \A n \in 0..Len(q) : Consistent(ShownAfter(v, q, n))

\* What is shown once all of the queue is applied is w.
Shows(v, q, w) == InOrder(v, q) /\ ShownAfter(v, q, Len(q)) = w

\* A session that is in the middle of things has a room, and one that is not
\* open has nothing to send.
Placed ==
    \A s \in Sessions :
        /\ phase[s] # "new" => room_id[s] \in RoomIds
        /\ phase[s] # "open" => queue[s] = <<>> /\ view[s] = NothingSeen
        /\ phase[s] = "open" /\ stopping # "done" => s \in RoomOf(s).sessions

\* What s will know once its queue is empty, if nothing of it was dropped.
ToldTo(s) ==
    /\ InOrder(view[s], queue[s])
    /\ phase[s] = "open" /\ stopping # "done" =>
          ShownAfter(view[s], queue[s], Len(queue[s])) = SeenBy(s, RoomOf(s))

\* ... for all sessions of which nothing was dropped.
Told == \A s \in Sessions \ lost : ToldTo(s)

\* The tables and the phases of the sessions agree.
Seated == TypeOK /\ RoomsSound /\ RouterAgrees /\ StopIsFinal /\ Placed

\* The inductive invariant of the rooms.
RoomsInv == Seated /\ Told

-----------------------------------------------------------------------------
Views == [peers : SUBSET Sessions, streaming : SUBSET Sessions]

\* Views are equal if they show the same.
LEMMA ViewsEqual ==
    ASSUME NEW v \in Views, NEW w \in Views,
           \A p \in Sessions : /\ p \in v.peers <=> p \in w.peers
                               /\ p \in v.streaming <=> p \in w.streaming
    PROVE  v = w
  BY DEF Views

\* What ShownAfter contains, element by element.
LEMMA ShownType ==
    ASSUME NEW v, NEW q, NEW n
    PROVE  /\ ShownAfter(v, q, n) \in Views
           /\ \A p \in Sessions :
                 /\ p \in ShownAfter(v, q, n).peers <=>
                       \E i \in 0..n : /\ IF i = 0 THEN p \in v.peers ELSE Introduces(q[i], p)
                                       /\ \A j \in (i + 1)..n : ~Leaves(q[j], p)
                 /\ p \in ShownAfter(v, q, n).streaming <=>
                       \E i \in 0..n : /\ IF i = 0 THEN p \in v.streaming ELSE Starts(q[i], p)
                                       /\ \A j \in (i + 1)..n : ~Stops(q[j], p)
  BY DEF ShownAfter, Views

\* A message that brings something does not take it away.
LEMMA MessagesDecide ==
    ASSUME NEW m, NEW p
    PROVE  ~(Introduces(m, p) /\ Leaves(m, p)) /\ ~(Starts(m, p) /\ Stops(m, p))
  BY DEF Introduces, Leaves, Starts, Stops

\* What Apply makes of a view, element by element.
LEMMA ApplyFacts ==
    ASSUME NEW v \in Views, NEW m \in Messages
    PROVE  /\ Apply(v, m) \in Views
           /\ \A p \in Sessions :
                 /\ p \in Apply(v, m).peers <=>
                       (p \in v.peers /\ ~Leaves(m, p)) \/ Introduces(m, p)
                 /\ p \in Apply(v, m).streaming <=>
                       (p \in v.streaming /\ ~Stops(m, p)) \/ Starts(m, p)
<1> USE DEF Views, Apply, Introduces, Starts, Stops, Leaves
<1>1. CASE m \in [type : {"welcome"}, peers : SUBSET Sessions, streaming : SUBSET Sessions]
  <2>1. Apply(v, m) = [peers |-> v.peers \cup m.peers,
                       streaming |-> v.streaming \cup m.streaming]
    BY <1>1
  <2> QED
    BY <1>1, <2>1
<1>2. CASE m = Media
  <2>1. Apply(v, m) = v
    BY <1>2 DEF Media
  <2> QED
    BY <1>2, <2>1 DEF Media
<1>3. CASE m.type = "peer_joined" /\ m.peer \in Sessions
  <2>1. Apply(v, m) = [v EXCEPT !.peers = v.peers \cup {m.peer}]
    BY <1>3
  <2> QED
    BY <1>3, <2>1
<1>4. CASE m.type = "peer_left" /\ m.peer \in Sessions
  <2>1. Apply(v, m) = [v EXCEPT !.peers = v.peers \ {m.peer}]
    BY <1>4
  <2> QED
    BY <1>4, <2>1
<1>5. CASE m.type = "streaming_start" /\ m.peer \in Sessions
  <2>1. Apply(v, m) = [v EXCEPT !.streaming = v.streaming \cup {m.peer}]
    BY <1>5
  <2> QED
    BY <1>5, <2>1
<1>6. CASE m.type = "streaming_stop" /\ m.peer \in Sessions
  <2>1. Apply(v, m) = [v EXCEPT !.streaming = v.streaming \ {m.peer}]
    BY <1>6
  <2> QED
    BY <1>6, <2>1
<1>7. CASE m.type = "watch_rejected"
  <2>1. Apply(v, m) = v
    BY <1>7
  <2> QED
    BY <1>7, <2>1
<1> QED
  BY <1>1, <1>2, <1>3, <1>4, <1>5, <1>6, <1>7 DEF Messages

(***************************************************************************)
(* The equations of ShownAfter: it begins with the view, and every message *)
(* changes it as Apply does, whichever end of the queue it is taken from.  *)
(***************************************************************************)
LEMMA NothingApplied ==
    ASSUME NEW v \in Views, NEW q
    PROVE  ShownAfter(v, q, 0) = v
<1>1. \A i : i \in 0..0 <=> i = 0
  OBVIOUS
<1>2. \A p \in Sessions :
        /\ p \in ShownAfter(v, q, 0).peers <=> p \in v.peers
        /\ p \in ShownAfter(v, q, 0).streaming <=> p \in v.streaming
  BY <1>1, ShownType
<1> QED
  BY <1>2, ShownType, ViewsEqual

\* The last message of those that are applied.
LEMMA OneMoreApplied ==
    ASSUME NEW v \in Views, NEW q \in Seq(Messages), NEW n \in Nat, n + 1 <= Len(q)
    PROVE  ShownAfter(v, q, n + 1) = Apply(ShownAfter(v, q, n), q[n + 1])
<1> DEFINE w == ShownAfter(v, q, n)  m == q[n + 1]
<1>1. w \in Views /\ m \in Messages
  BY ShownType
<1>2. \A p \in Sessions :
        /\ p \in Apply(w, m).peers <=> (p \in w.peers /\ ~Leaves(m, p)) \/ Introduces(m, p)
        /\ p \in Apply(w, m).streaming <=> (p \in w.streaming /\ ~Stops(m, p)) \/ Starts(m, p)
  BY <1>1, ApplyFacts
<1>3. ASSUME NEW p \in Sessions
      PROVE  /\ p \in ShownAfter(v, q, n + 1).peers <=> p \in Apply(w, m).peers
             /\ p \in ShownAfter(v, q, n + 1).streaming <=> p \in Apply(w, m).streaming
  <2>1. /\ \A i : i \in 0..(n + 1) <=> i \in 0..n \/ i = n + 1
        /\ \A i \in 0..n : \A j : j \in (i + 1)..(n + 1) <=> j \in (i + 1)..n \/ j = n + 1
        /\ \A j : j \notin (n + 2)..(n + 1)
        /\ n + 1 # 0 /\ n + 1 + 1 = n + 2
    OBVIOUS
  <2>2. p \in ShownAfter(v, q, n + 1).peers <=> p \in Apply(w, m).peers
    BY <1>2, <2>1, ShownType, MessagesDecide
  <2>3. p \in ShownAfter(v, q, n + 1).streaming <=> p \in Apply(w, m).streaming
    BY <1>2, <2>1, ShownType, MessagesDecide
  <2> QED
    BY <2>2, <2>3
<1>4. Apply(w, m) \in Views /\ ShownAfter(v, q, n + 1) \in Views
  BY <1>1, ApplyFacts, ShownType
<1> QED
  BY <1>3, <1>4, ViewsEqual

\* The first message of those that are applied.
LEMMA FirstApplied ==
    ASSUME NEW v \in Views, NEW q \in Seq(Messages), q # <<>>, NEW n \in 0..(Len(q) - 1)
    PROVE  ShownAfter(v, q, n + 1) = ShownAfter(Apply(v, Head(q)), Tail(q), n)
<1> DEFINE w == Apply(v, Head(q))  r == Tail(q)
<1>1. /\ Head(q) = q[1] /\ q[1] \in Messages /\ Len(q) \in Nat \ {0}
      /\ \A i \in 1..n : r[i] = q[i + 1]
      /\ n \in Nat
  OBVIOUS
<1>2. w \in Views /\ \A p \in Sessions :
        /\ p \in w.peers <=> (p \in v.peers /\ ~Leaves(q[1], p)) \/ Introduces(q[1], p)
        /\ p \in w.streaming <=> (p \in v.streaming /\ ~Stops(q[1], p)) \/ Starts(q[1], p)
  BY <1>1, ApplyFacts
<1> HIDE DEF w, r
<1>3. ASSUME NEW p \in Sessions
      PROVE  /\ p \in ShownAfter(v, q, n + 1).peers <=> p \in ShownAfter(w, r, n).peers
             /\ p \in ShownAfter(v, q, n + 1).streaming <=> p \in ShownAfter(w, r, n).streaming
  <2>1. ASSUME NEW i \in 1..n
        PROVE  /\ \A j \in (i + 2)..(n + 1) : j - 1 \in (i + 1)..n /\ q[j] = r[j - 1]
               /\ \A j \in (i + 1)..n : j + 1 \in (i + 2)..(n + 1) /\ r[j] = q[j + 1]
    BY <1>1
  <2>2. /\ \A j \in 2..(n + 1) : j - 1 \in 1..n /\ q[j] = r[j - 1]
        /\ \A j \in 1..n : j + 1 \in 2..(n + 1) /\ r[j] = q[j + 1]
        /\ \A j : j \in 1..(n + 1) <=> j = 1 \/ j \in 2..(n + 1)
        /\ \A i : i \in 0..(n + 1) <=> i = 0 \/ i = 1 \/ i \in 2..(n + 1)
        /\ \A i : i \in 0..n <=> i = 0 \/ i \in 1..n
        /\ 1 + 1 = 2 /\ 0 + 1 = 1
    BY <1>1
  <2>3. p \in ShownAfter(v, q, n + 1).peers <=> p \in ShownAfter(w, r, n).peers
    <3>1. (\E i \in {0, 1} : /\ IF i = 0 THEN p \in v.peers ELSE Introduces(q[i], p)
                            /\ \A j \in (i + 1)..(n + 1) : ~Leaves(q[j], p))
          <=> p \in w.peers /\ \A j \in 1..n : ~Leaves(r[j], p)
      <4>1. (\A j \in 2..(n + 1) : ~Leaves(q[j], p)) <=> \A j \in 1..n : ~Leaves(r[j], p)
        <5>1. ASSUME NEW j \in 1..n PROVE (j + 1) - 1 = j
          BY <5>1
        <5> QED
          BY <2>2, <5>1
      <4>2. (\A j \in 1..(n + 1) : ~Leaves(q[j], p)) <=>
               ~Leaves(q[1], p) /\ \A j \in 2..(n + 1) : ~Leaves(q[j], p)
        BY <2>2
      <4>3. p \in w.peers <=> (p \in v.peers /\ ~Leaves(q[1], p)) \/ Introduces(q[1], p)
        BY <1>2
      <4> QED
        BY <2>2, <4>1, <4>2, <4>3, MessagesDecide
    <3>2. ASSUME NEW i \in 2..(n + 1)
          PROVE  /\ i - 1 \in 1..n /\ i # 0 /\ i - 1 # 0
                 /\ Introduces(q[i], p) <=> Introduces(r[i - 1], p)
                 /\ (\A j \in (i + 1)..(n + 1) : ~Leaves(q[j], p)) <=>
                       \A j \in ((i - 1) + 1)..n : ~Leaves(r[j], p)
      <4>1. i - 1 \in 1..n /\ i # 0 /\ i - 1 # 0 /\ q[i] = r[i - 1]
        BY <2>2
      <4>2. /\ \A j \in (i + 1)..(n + 1) : j - 1 \in ((i - 1) + 1)..n /\ q[j] = r[j - 1]
            /\ \A j \in ((i - 1) + 1)..n : j + 1 \in (i + 1)..(n + 1) /\ r[j] = q[j + 1]
        BY <1>1
      <4> QED
        BY <4>1, <4>2
    <3>3. \A i \in 1..n : i + 1 \in 2..(n + 1) /\ (i + 1) - 1 = i /\ i # 0
      BY <1>1
    <3>4. ASSUME p \in ShownAfter(v, q, n + 1).peers PROVE p \in ShownAfter(w, r, n).peers
      <4>1. PICK i \in 0..(n + 1) :
                 /\ IF i = 0 THEN p \in v.peers ELSE Introduces(q[i], p)
                 /\ \A j \in (i + 1)..(n + 1) : ~Leaves(q[j], p)
        BY <3>4, ShownType
      <4>2. CASE i \in {0, 1}
        BY <2>2, <3>1, <4>1, <4>2, ShownType
      <4>3. CASE i \in 2..(n + 1)
        <5>1. /\ i - 1 \in 0..n /\ i - 1 # 0 /\ Introduces(r[i - 1], p)
              /\ \A j \in ((i - 1) + 1)..n : ~Leaves(r[j], p)
          BY <2>2, <3>2, <4>1, <4>3
        <5> QED
          BY <5>1, ShownType
      <4> QED
        BY <2>2, <4>2, <4>3
    <3>5. ASSUME p \in ShownAfter(w, r, n).peers PROVE p \in ShownAfter(v, q, n + 1).peers
      <4>1. PICK i \in 0..n :
                 /\ IF i = 0 THEN p \in w.peers ELSE Introduces(r[i], p)
                 /\ \A j \in (i + 1)..n : ~Leaves(r[j], p)
        BY <3>5, ShownType
      <4>2. CASE i = 0
        <5>1. p \in w.peers /\ \A j \in 1..n : ~Leaves(r[j], p)
          BY <2>2, <4>1, <4>2
        <5>2. PICK k \in {0, 1} : /\ IF k = 0 THEN p \in v.peers ELSE Introduces(q[k], p)
                                  /\ \A j \in (k + 1)..(n + 1) : ~Leaves(q[j], p)
          BY <3>1, <5>1
        <5>3. k \in 0..(n + 1)
          BY <1>1
        <5> QED
          BY <5>2, <5>3, ShownType
      <4>3. CASE i \in 1..n
        <5>1. /\ i + 1 \in 0..(n + 1) /\ i + 1 # 0 /\ Introduces(q[i + 1], p)
              /\ \A j \in ((i + 1) + 1)..(n + 1) : ~Leaves(q[j], p)
          <6>1. i + 1 \in 2..(n + 1) /\ (i + 1) - 1 = i /\ i # 0
            BY <3>3, <4>3
          <6> QED
            BY <2>2, <3>2, <4>1, <6>1
        <5> QED
          BY <5>1, ShownType
      <4> QED
        BY <2>2, <4>2, <4>3
    <3> QED
      BY <3>4, <3>5
  <2>4. p \in ShownAfter(v, q, n + 1).streaming <=> p \in ShownAfter(w, r, n).streaming
    <3>1. (\E i \in {0, 1} : /\ IF i = 0 THEN p \in v.streaming ELSE Starts(q[i], p)
                            /\ \A j \in (i + 1)..(n + 1) : ~Stops(q[j], p))
          <=> p \in w.streaming /\ \A j \in 1..n : ~Stops(r[j], p)
      <4>1. (\A j \in 2..(n + 1) : ~Stops(q[j], p)) <=> \A j \in 1..n : ~Stops(r[j], p)
        <5>1. ASSUME NEW j \in 1..n PROVE (j + 1) - 1 = j
          BY <5>1
        <5> QED
          BY <2>2, <5>1
      <4>2. (\A j \in 1..(n + 1) : ~Stops(q[j], p)) <=>
               ~Stops(q[1], p) /\ \A j \in 2..(n + 1) : ~Stops(q[j], p)
        BY <2>2
      <4>3. p \in w.streaming <=> (p \in v.streaming /\ ~Stops(q[1], p)) \/ Starts(q[1], p)
        BY <1>2
      <4> QED
        BY <2>2, <4>1, <4>2, <4>3, MessagesDecide
    <3>2. ASSUME NEW i \in 2..(n + 1)
          PROVE  /\ i - 1 \in 1..n /\ i # 0 /\ i - 1 # 0
                 /\ Starts(q[i], p) <=> Starts(r[i - 1], p)
                 /\ (\A j \in (i + 1)..(n + 1) : ~Stops(q[j], p)) <=>
                       \A j \in ((i - 1) + 1)..n : ~Stops(r[j], p)
      <4>1. i - 1 \in 1..n /\ i # 0 /\ i - 1 # 0 /\ q[i] = r[i - 1]
        BY <2>2
      <4>2. /\ \A j \in (i + 1)..(n + 1) : j - 1 \in ((i - 1) + 1)..n /\ q[j] = r[j - 1]
            /\ \A j \in ((i - 1) + 1)..n : j + 1 \in (i + 1)..(n + 1) /\ r[j] = q[j + 1]
        BY <1>1
      <4> QED
        BY <4>1, <4>2
    <3>3. \A i \in 1..n : i + 1 \in 2..(n + 1) /\ (i + 1) - 1 = i /\ i # 0
      BY <1>1
    <3>4. ASSUME p \in ShownAfter(v, q, n + 1).streaming PROVE p \in ShownAfter(w, r, n).streaming
      <4>1. PICK i \in 0..(n + 1) :
                 /\ IF i = 0 THEN p \in v.streaming ELSE Starts(q[i], p)
                 /\ \A j \in (i + 1)..(n + 1) : ~Stops(q[j], p)
        BY <3>4, ShownType
      <4>2. CASE i \in {0, 1}
        BY <2>2, <3>1, <4>1, <4>2, ShownType
      <4>3. CASE i \in 2..(n + 1)
        <5>1. /\ i - 1 \in 0..n /\ i - 1 # 0 /\ Starts(r[i - 1], p)
              /\ \A j \in ((i - 1) + 1)..n : ~Stops(r[j], p)
          BY <2>2, <3>2, <4>1, <4>3
        <5> QED
          BY <5>1, ShownType
      <4> QED
        BY <2>2, <4>2, <4>3
    <3>5. ASSUME p \in ShownAfter(w, r, n).streaming PROVE p \in ShownAfter(v, q, n + 1).streaming
      <4>1. PICK i \in 0..n :
                 /\ IF i = 0 THEN p \in w.streaming ELSE Starts(r[i], p)
                 /\ \A j \in (i + 1)..n : ~Stops(r[j], p)
        BY <3>5, ShownType
      <4>2. CASE i = 0
        <5>1. p \in w.streaming /\ \A j \in 1..n : ~Stops(r[j], p)
          BY <2>2, <4>1, <4>2
        <5>2. PICK k \in {0, 1} : /\ IF k = 0 THEN p \in v.streaming ELSE Starts(q[k], p)
                                  /\ \A j \in (k + 1)..(n + 1) : ~Stops(q[j], p)
          BY <3>1, <5>1
        <5>3. k \in 0..(n + 1)
          BY <1>1
        <5> QED
          BY <5>2, <5>3, ShownType
      <4>3. CASE i \in 1..n
        <5>1. /\ i + 1 \in 0..(n + 1) /\ i + 1 # 0 /\ Starts(q[i + 1], p)
              /\ \A j \in ((i + 1) + 1)..(n + 1) : ~Stops(q[j], p)
          <6>1. i + 1 \in 2..(n + 1) /\ (i + 1) - 1 = i /\ i # 0
            BY <3>3, <4>3
          <6> QED
            BY <2>2, <3>2, <4>1, <6>1
        <5> QED
          BY <5>1, ShownType
      <4> QED
        BY <2>2, <4>2, <4>3
    <3> QED
      BY <3>4, <3>5
  <2> QED
    BY <2>3, <2>4
<1>4. ShownAfter(w, r, n) \in Views /\ ShownAfter(v, q, n + 1) \in Views
  BY ShownType
<1>5. ShownAfter(v, q, n + 1) = ShownAfter(w, r, n)
  BY <1>3, <1>4, ViewsEqual
<1> QED
  BY <1>5 DEF w, r

\* A message that is put into the queue.
LEMMA AppendShows ==
    ASSUME NEW v \in Views, NEW q \in Seq(Messages), NEW m \in Messages, NEW w,
           Shows(v, q, w), Consistent(Apply(w, m))
    PROVE  Append(q, m) \in Seq(Messages) /\ Shows(v, Append(q, m), Apply(w, m))
<1> DEFINE r == Append(q, m)
<1>1. /\ r \in Seq(Messages) /\ Len(q) \in Nat /\ Len(r) = Len(q) + 1
      /\ r[Len(q) + 1] = m
      /\ \A i \in 1..Len(q) : r[i] = q[i]
  OBVIOUS
<1> HIDE DEF r
<1>2. ASSUME NEW n \in 0..Len(q) PROVE ShownAfter(v, r, n) = ShownAfter(v, q, n)
  <2>1. /\ \A i \in 0..n : i # 0 => r[i] = q[i]
        /\ \A i \in 0..n : \A j \in (i + 1)..n : r[j] = q[j]
    BY <1>1
  <2>2. \A p \in Sessions :
          /\ p \in ShownAfter(v, r, n).peers <=> p \in ShownAfter(v, q, n).peers
          /\ p \in ShownAfter(v, r, n).streaming <=> p \in ShownAfter(v, q, n).streaming
    BY <2>1, ShownType
  <2> QED
    BY <2>2, ShownType, ViewsEqual
<1>3. ShownAfter(v, r, Len(q)) = w
  BY <1>1, <1>2 DEF Shows
<1>4. ShownAfter(v, r, Len(r)) = Apply(w, m)
  BY <1>1, <1>3, OneMoreApplied
<1>5. \A n \in 0..Len(r) : n \in 0..Len(q) \/ n = Len(r)
  BY <1>1
<1>6. InOrder(v, r)
  BY <1>2, <1>4, <1>5 DEF Shows, InOrder
<1> QED
  BY <1>1, <1>4, <1>6 DEF Shows, r

\* A message that reaches the client.
LEMMA TailShows ==
    ASSUME NEW v \in Views, NEW q \in Seq(Messages), q # <<>>, NEW w, Shows(v, q, w)
    PROVE  Shows(Apply(v, Head(q)), Tail(q), w)
<1>1. /\ Len(q) \in Nat \ {0} /\ Len(Tail(q)) = Len(q) - 1
      /\ Len(Tail(q)) \in 0..(Len(q) - 1) /\ Len(Tail(q)) + 1 = Len(q)
      /\ \A n \in 0..Len(Tail(q)) : n \in 0..(Len(q) - 1) /\ n + 1 \in 0..Len(q)
  OBVIOUS
<1>2. \A n \in 0..Len(Tail(q)) :
        ShownAfter(Apply(v, Head(q)), Tail(q), n) = ShownAfter(v, q, n + 1)
  BY <1>1, FirstApplied
<1>3. InOrder(Apply(v, Head(q)), Tail(q))
  BY <1>1, <1>2 DEF Shows, InOrder
<1>4. Len(Tail(q)) \in 0..Len(Tail(q))
  BY <1>1
<1> QED
  BY <1>1, <1>2, <1>3, <1>4 DEF Shows

\* An empty queue changes nothing.
LEMMA NothingToShow ==
    ASSUME NEW v \in Views, Consistent(v)
    PROVE  Shows(v, <<>>, v)
<1>1. Len(<<>>) = 0 /\ \A n : n \in 0..0 <=> n = 0
  OBVIOUS
<1> QED
  BY <1>1, NothingApplied DEF Shows, InOrder

\* The last of the views on the way is one of them.
LEMMA ShownLast ==
    ASSUME NEW v, NEW q \in Seq(Messages), InOrder(v, q)
    PROVE  /\ ShownAfter(v, q, Len(q)) \in Views
           /\ Consistent(ShownAfter(v, q, Len(q)))
           /\ Shows(v, q, ShownAfter(v, q, Len(q)))
<1>1. Len(q) \in 0..Len(q)
  OBVIOUS
<1> QED
  BY <1>1, ShownType DEF InOrder, Shows

-----------------------------------------------------------------------------
\* BoundedQueue::push_back takes what fits, and all of it if there is room.
LEMMA PushFacts ==
    ASSUME NEW q \in Seq(Messages), Len(q) <= Capacity, NEW msgs \in Seq(Messages)
    PROVE  /\ Push(q, msgs) \in Seq(Messages)
           /\ Len(Push(q, msgs)) <= Capacity
           /\ Len(q) + Len(msgs) <= Capacity => Push(q, msgs) = q \o msgs
<1> DEFINE free == Capacity - Len(q)
<1>1. Capacity \in Nat /\ Len(q) \in Nat /\ Len(msgs) \in Nat /\ free \in Nat
  BY RoomsConstants
<1>2. CASE Len(msgs) <= free
  <2>1. Push(q, msgs) = q \o msgs
    BY <1>2 DEF Push
  <2>2. Len(q \o msgs) = Len(q) + Len(msgs) /\ q \o msgs \in Seq(Messages)
    OBVIOUS
  <2> QED
    BY <1>1, <1>2, <2>1, <2>2
<1>3. CASE ~(Len(msgs) <= free)
  <2>1. Push(q, msgs) = q \o SubSeq(msgs, 1, free)
    BY <1>3 DEF Push
  <2>2. SubSeq(msgs, 1, free) \in Seq(Messages) /\ Len(SubSeq(msgs, 1, free)) = free
    BY <1>1, <1>3, SubSeqProperties
  <2>3. /\ q \o SubSeq(msgs, 1, free) \in Seq(Messages)
        /\ Len(q \o SubSeq(msgs, 1, free)) = Len(q) + free
    BY <2>2
  <2> QED
    BY <1>1, <1>3, <2>1, <2>3
<1> QED
  BY <1>2, <1>3

\* enqueue: a session that has lost nothing has all that it was sent.
LEMMA SendFacts ==
    ASSUME TypeOK, NEW out \in [Sessions -> Seq(Messages)], Send(out)
    PROVE  /\ queue' \in [Sessions -> Seq(Messages)]
           /\ \A s \in Sessions : Len(queue'[s]) <= Capacity
           /\ lost' \subseteq Sessions
           /\ \A s \in Sessions : phase'[s] = "closed" => queue'[s] = <<>>
           /\ \A s \in Sessions \ lost' : phase'[s] # "closed" =>
                 s \notin lost /\ queue'[s] = queue[s] \o out[s]
           /\ \A s \in Sessions : phase'[s] # "closed" /\ out[s] = <<>> =>
                 queue'[s] = queue[s]
<1>1. \A s \in Sessions : /\ queue[s] \in Seq(Messages) /\ Len(queue[s]) <= Capacity
                          /\ out[s] \in Seq(Messages)
  BY DEF TypeOK
<1>2. \A s \in Sessions :
        /\ Push(queue[s], out[s]) \in Seq(Messages)
        /\ Len(Push(queue[s], out[s])) <= Capacity
        /\ Len(queue[s]) + Len(out[s]) <= Capacity =>
              Push(queue[s], out[s]) = queue[s] \o out[s]
  BY <1>1, PushFacts
<1>3. queue' = [s \in Sessions |-> IF phase'[s] = "closed" THEN <<>>
                                   ELSE Push(queue[s], out[s])]
  BY DEF Send
<1>4. \A s \in Sessions : queue'[s] = IF phase'[s] = "closed" THEN <<>>
                                      ELSE Push(queue[s], out[s])
  BY <1>3
<1>5. <<>> \in Seq(Messages) /\ Len(<<>>) = 0 /\ 0 <= Capacity
  BY RoomsConstants
<1>6. lost' = {s \in Sessions :
                 /\ phase'[s] # "closed"
                 /\ s \in lost \/ Len(queue[s]) + Len(out[s]) > Capacity}
  BY DEF Send
<1>7. \A s \in Sessions : Len(queue[s]) \in Nat /\ Len(out[s]) \in Nat /\ Capacity \in Nat
  BY <1>1, RoomsConstants
<1>8. ASSUME NEW s \in Sessions \ lost', phase'[s] # "closed"
      PROVE  s \notin lost /\ queue'[s] = queue[s] \o out[s]
  <2>1. s \notin lost /\ ~(Len(queue[s]) + Len(out[s]) > Capacity)
    BY <1>6, <1>8
  <2>2. Len(queue[s]) + Len(out[s]) <= Capacity
    BY <1>7, <2>1
  <2> QED
    BY <1>2, <1>4, <1>8, <2>1, <2>2
<1>9. ASSUME NEW s \in Sessions, phase'[s] # "closed", out[s] = <<>>
      PROVE  queue'[s] = queue[s]
  <2>1. Len(queue[s]) + Len(out[s]) <= Capacity
    BY <1>1, <1>5, <1>7, <1>9
  <2>2. queue[s] \o <<>> = queue[s]
    BY <1>1
  <2> QED
    BY <1>2, <1>4, <1>9, <2>1, <2>2
<1> QED
  BY <1>2, <1>3, <1>4, <1>5, <1>6, <1>8, <1>9

\* What is sent to whom.
LEMMA ToAllFacts ==
    ASSUME NEW targets, NEW msgs \in Seq(Messages)
    PROVE  /\ ToAll(targets, msgs) \in [Sessions -> Seq(Messages)]
           /\ \A t \in Sessions : ToAll(targets, msgs)[t] =
                                     IF t \in targets THEN msgs ELSE <<>>
<1>1. <<>> \in Seq(Messages)
  OBVIOUS
<1> QED
  BY <1>1 DEF ToAll

\* All that is sent is a message.
LEMMA MessageTypes ==
    /\ Media \in Messages
    /\ \A s \in Sessions : /\ Joined(s) \in Messages /\ Left(s) \in Messages
                           /\ Started(s) \in Messages /\ Ended(s) \in Messages
                           /\ Rejected(s) \in Messages
  BY DEF Messages, Media, Joined, Left, Started, Ended, Rejected

\* What the messages do to a view.
LEMMA MessageMeanings ==
    ASSUME NEW s \in Sessions, NEW w \in Views
    PROVE  /\ Apply(w, Joined(s)) = [peers |-> w.peers \cup {s}, streaming |-> w.streaming]
           /\ Apply(w, Left(s)) = [peers |-> w.peers \ {s}, streaming |-> w.streaming]
           /\ Apply(w, Started(s)) = [peers |-> w.peers, streaming |-> w.streaming \cup {s}]
           /\ Apply(w, Ended(s)) = [peers |-> w.peers, streaming |-> w.streaming \ {s}]
           /\ Apply(w, Rejected(s)) = w
           /\ Apply(w, Media) = w
  BY DEF Views, Apply, Joined, Left, Started, Ended, Rejected, Media

\* One message put into a queue.
LEMMA OneMessage ==
    ASSUME NEW q \in Seq(Messages), NEW m \in Messages
    PROVE  <<m>> \in Seq(Messages) /\ q \o <<m>> = Append(q, m)
  OBVIOUS

\* Two messages put into a queue.
LEMMA TwoMessages ==
    ASSUME NEW q \in Seq(Messages), NEW m \in Messages, NEW n \in Messages
    PROVE  <<m, n>> \in Seq(Messages) /\ q \o <<m, n>> = Append(Append(q, m), n)
  OBVIOUS

\* What TypeOK asks of a room.
RoomRecords == [sessions : SUBSET Sessions, table : Tables, router : Tables]

\* What RoomsSound and RouterAgrees ask of a room alone.
RoomOK(room) ==
    /\ room \in RoomRecords
    /\ room.router = room.table
    /\ room.table.streaming \subseteq room.sessions
    /\ \A s \in Sessions :
          LET watched == room.table.watching[s] IN
          /\ watched # {} => s \in room.sessions
          /\ watched \subseteq room.sessions \ {s}
          /\ Cardinality(watched) <= ReceiveSlots

\* A room without sessions is sound.
LEMMA EmptyRoom ==
    /\ RoomOK(NoRoom)
    /\ NoRoom.sessions = {} /\ NoRoom.router = NoRoom.table
    /\ NoRoom.table.streaming = {}
    /\ \A s \in Sessions : NoRoom.table.watching[s] = {} /\ Cardinality({}) <= ReceiveSlots
<1>1. Cardinality({}) = 0 /\ 0 <= ReceiveSlots
  BY FS_EmptySet, RoomsConstants
<1>2. /\ NoRoom.sessions = {} /\ NoRoom.router = NoRoom.table
      /\ NoRoom.table.streaming = {}
      /\ \A s \in Sessions : NoRoom.table.watching[s] = {}
  BY DEF NoRoom, NoTable
<1>3. NoRoom \in RoomRecords
  BY DEF NoRoom, NoTable, RoomRecords, Tables
<1> QED
  BY <1>1, <1>2, <1>3 DEF RoomOK

\* What a session sees of a sound room.
LEMMA SeenType ==
    ASSUME NEW room, RoomOK(room), NEW s \in Sessions
    PROVE  SeenBy(s, room) \in Views /\ Consistent(SeenBy(s, room))
  BY DEF RoomOK, RoomRecords, Tables, SeenBy, Views, Consistent

\* What the messages about s mean for the others in its room.
LEMMA OthersSee ==
    ASSUME NEW room, RoomOK(room), NEW s \in Sessions, NEW t \in Sessions \ {s}, NEW room2
    PROVE  /\ room2.sessions = room.sessions \cup {s} /\ room2.table = room.table =>
                 Apply(SeenBy(t, room), Joined(s)) = SeenBy(t, room2)
           /\ room2.sessions = room.sessions =>
                 /\ room2.table.streaming = room.table.streaming \cup {s} =>
                       Apply(SeenBy(t, room), Started(s)) = SeenBy(t, room2)
                 /\ room2.table.streaming = room.table.streaming \ {s} =>
                       Apply(SeenBy(t, room), Ended(s)) = SeenBy(t, room2)
<1> DEFINE w == SeenBy(t, room)
<1>1. /\ Apply(w, Joined(s)) = [peers |-> w.peers \cup {s}, streaming |-> w.streaming]
      /\ Apply(w, Started(s)) = [peers |-> w.peers, streaming |-> w.streaming \cup {s}]
      /\ Apply(w, Ended(s)) = [peers |-> w.peers, streaming |-> w.streaming \ {s}]
  BY SeenType, MessageMeanings
<1>2. w.peers = room.sessions \ {t} /\ w.streaming = room.table.streaming \ {t}
  BY DEF SeenBy
<1>3. \A A : (A \ {t}) \cup {s} = (A \cup {s}) \ {t} /\ (A \ {t}) \ {s} = (A \ {s}) \ {t}
  OBVIOUS
<1> HIDE DEF w
<1>4. /\ Apply(w, Joined(s)) = [peers |-> (room.sessions \cup {s}) \ {t},
                                 streaming |-> room.table.streaming \ {t}]
      /\ Apply(w, Started(s)) = [peers |-> room.sessions \ {t},
                                  streaming |-> (room.table.streaming \cup {s}) \ {t}]
      /\ Apply(w, Ended(s)) = [peers |-> room.sessions \ {t},
                                streaming |-> (room.table.streaming \ {s}) \ {t}]
  BY <1>1, <1>2, <1>3
<1> QED
  BY <1>4 DEF SeenBy, w

\* Every room of the server is sound.
LEMMA SeatedRooms ==
    ASSUME Seated
    PROVE  \A r \in RoomIds :
              /\ RoomOK(rooms[r])
              /\ \A s \in rooms[r].sessions : phase[s] = "open" /\ room_id[s] = r
  BY DEF Seated, TypeOK, RoomsSound, RouterAgrees, RoomOK, RoomRecords

-----------------------------------------------------------------------------
\* There is nobody when the server starts.
LEMMA StartHolds == Init => RoomsInv
<1> SUFFICES ASSUME Init PROVE RoomsInv
  OBVIOUS
<1>0. <<>> \in Seq(Messages) /\ Len(<<>>) = 0
  OBVIOUS
<1>1. TypeOK
  BY <1>0, RoomsConstants DEF Init, TypeOK, Silence, NothingSeen, NoRoom, NoTable, Tables, Phases
<1>2. \A r \in RoomIds : rooms[r] = NoRoom
  BY DEF Init
<1>3. RoomsSound /\ RouterAgrees /\ StopIsFinal
  BY <1>2, EmptyRoom DEF RoomsSound, RouterAgrees, StopIsFinal
<1>4. Placed
  BY DEF Init, Placed, Silence
<1>5. Told
  <2>1. NothingSeen \in Views /\ Consistent(NothingSeen)
    BY DEF NothingSeen, Views, Consistent
  <2>2. InOrder(NothingSeen, <<>>)
    BY <2>1, NothingToShow DEF Shows
  <2> QED
    BY <2>2 DEF Init, Told, ToldTo, Silence
<1> QED
  BY <1>1, <1>3, <1>4, <1>5 DEF RoomsInv, Seated

(***************************************************************************)
(* One room changes, and the sessions of the others are left alone.        *)
(***************************************************************************)
LEMMA RoomChanges ==
    ASSUME Seated, TypeOK', Placed', NEW r \in RoomIds, NEW room,
           rooms' = [rooms EXCEPT ![r] = room], RoomOK(room),
           stopping' = stopping, stopping # "done",
           \A s \in room.sessions : phase'[s] = "open" /\ room_id'[s] = r,
           \A s \in Sessions : phase[s] = "open" /\ room_id[s] # r =>
              phase'[s] = "open" /\ room_id'[s] = room_id[s]
    PROVE  Seated'
<1>1. \A x \in RoomIds : rooms'[x] = IF x = r THEN room ELSE rooms[x]
  BY DEF Seated, TypeOK
<1>2. \A x \in RoomIds : rooms[x].sessions \subseteq Sessions
  BY DEF Seated, TypeOK
<1>3. \A x \in RoomIds :
        /\ RoomOK(rooms'[x])
        /\ \A s \in rooms'[x].sessions : phase'[s] = "open" /\ room_id'[s] = x
  BY <1>1, <1>2, SeatedRooms
<1>4. RoomsSound' /\ RouterAgrees'
  BY <1>3 DEF RoomsSound, RouterAgrees, RoomOK
<1>5. StopIsFinal'
  BY DEF StopIsFinal
<1> QED
  BY <1>4, <1>5 DEF Seated

\* What Seated says of a session and of its room.
LEMMA SeatedFacts ==
    ASSUME Seated
    PROVE  /\ \A s \in Sessions : phase[s] # "new" => RoomOK(RoomOf(s)) /\ room_id[s] \in RoomIds
           /\ \A s, t \in Sessions : phase[s] # "new" /\ t \in RoomOf(s).sessions =>
                 /\ phase[t] = "open" /\ room_id[t] = room_id[s]
                 /\ RoomOf(t) = RoomOf(s)
           /\ \A s, t \in Sessions :
                 stopping # "done" /\ phase[t] = "open" /\ t \notin RoomOf(s).sessions =>
                    room_id[t] # room_id[s]
           /\ \A s \in Sessions : Reads(s) => stopping # "done" /\ s \in RoomOf(s).sessions
<1>1. \A s \in Sessions : phase[s] # "new" => room_id[s] \in RoomIds
  BY DEF Seated, Placed
<1>2. \A s \in Sessions : Reads(s) => stopping # "done" /\ s \in RoomOf(s).sessions
  BY <1>1 DEF Seated, Placed, Reads, RoomOf, StopIsFinal
<1>3. ASSUME NEW s \in Sessions, NEW t \in Sessions, stopping # "done",
             phase[t] = "open", room_id[t] = room_id[s]
      PROVE  t \in RoomOf(s).sessions
  <2>1. t \in RoomOf(t).sessions
    BY <1>3 DEF Seated, Placed
  <2> QED
    BY <1>3, <2>1 DEF RoomOf
<1>4. ASSUME NEW s \in Sessions, phase[s] # "new"
      PROVE  /\ RoomOK(RoomOf(s))
             /\ \A t \in RoomOf(s).sessions : phase[t] = "open" /\ room_id[t] = room_id[s]
  BY <1>1, <1>4, SeatedRooms DEF RoomOf
<1>5. \A s, t \in Sessions : room_id[t] = room_id[s] => RoomOf(t) = RoomOf(s)
  BY DEF RoomOf
<1>6. \A s \in Sessions : phase[s] # "new" => RoomOK(RoomOf(s)) /\ room_id[s] \in RoomIds
  BY <1>1, <1>4
<1>7. \A s, t \in Sessions : phase[s] # "new" /\ t \in RoomOf(s).sessions =>
         phase[t] = "open" /\ room_id[t] = room_id[s] /\ RoomOf(t) = RoomOf(s)
  BY <1>4, <1>5
<1>8. \A s, t \in Sessions :
         stopping # "done" /\ phase[t] = "open" /\ t \notin RoomOf(s).sessions =>
            room_id[t] # room_id[s]
  <2>1. SUFFICES ASSUME NEW s \in Sessions, NEW t \in Sessions, stopping # "done",
                        phase[t] = "open", room_id[t] = room_id[s],
                        t \notin RoomOf(s).sessions
                 PROVE  FALSE
    OBVIOUS
  <2> QED
    BY <1>3, <2>1
<1> QED
  BY <1>2, <1>6, <1>7, <1>8

\* A session that is sent nothing, and whose room looks as it did.
LEMMA Bystander ==
    ASSUME NEW t \in Sessions, ToldTo(t), queue'[t] = queue[t], view'[t] = view[t],
           phase'[t] = "open" /\ stopping' # "done" =>
              /\ phase[t] = "open" /\ stopping # "done"
              /\ SeenBy(t, RoomOf(t)') = SeenBy(t, RoomOf(t))
    PROVE  ToldTo(t)'
<1>1. phase'[t] = "open" /\ stopping' # "done" =>
         ShownAfter(view'[t], queue'[t], Len(queue'[t])) = SeenBy(t, RoomOf(t)')
  BY DEF ToldTo
<1>2. InOrder(view'[t], queue'[t])
  BY DEF ToldTo
<1> QED
  BY <1>1, <1>2 DEF ToldTo, SeenBy

\* A session that has been closed, or not yet been accepted.
LEMMA Outsider ==
    ASSUME NEW t \in Sessions, queue'[t] = <<>>, view'[t] = NothingSeen, phase'[t] # "open"
    PROVE  ToldTo(t)'
<1>1. NothingSeen \in Views /\ Consistent(NothingSeen)
  BY DEF NothingSeen, Views, Consistent
<1>2. InOrder(view'[t], queue'[t])
  BY <1>1, NothingToShow DEF Shows
<1> QED
  BY <1>2 DEF ToldTo

\* A session that is sent m, which tells it what has changed in its room.
LEMMA Hears ==
    ASSUME NEW t \in Sessions, TypeOK, ToldTo(t), phase[t] = "open", stopping # "done",
           NEW m \in Messages, queue'[t] = queue[t] \o <<m>>, view'[t] = view[t],
           NEW room, RoomOK(room), RoomOf(t)' = room,
           Apply(SeenBy(t, RoomOf(t)), m) = SeenBy(t, room)
    PROVE  ToldTo(t)'
<1>1. view[t] \in Views /\ queue[t] \in Seq(Messages)
  BY DEF TypeOK, Views
<1>2. queue'[t] = Append(queue[t], m)
  BY <1>1, OneMessage
<1>3. Shows(view[t], queue[t], SeenBy(t, RoomOf(t)))
  BY DEF ToldTo, Shows
<1>4. Shows(view[t], Append(queue[t], m), SeenBy(t, room))
  BY <1>1, <1>3, SeenType, AppendShows
<1>5. Shows(view'[t], queue'[t], SeenBy(t, RoomOf(t)'))
  BY <1>2, <1>4
<1> QED
  BY <1>5 DEF ToldTo, Shows, SeenBy

\* on_http_read: the session is given a room, which does not know it yet.
LEMMA OnHttpReadInv ==
    ASSUME RoomsInv, NEW s \in Sessions, NEW r \in RoomIds, OnHttpRead(s, r)
    PROVE  RoomsInv'
<1>1. TypeOK'
  BY DEF RoomsInv, Seated, TypeOK, OnHttpRead, Phases
<1>2. Placed'
  BY DEF RoomsInv, Seated, TypeOK, OnHttpRead, Placed, RoomOf
<1>3. RoomsSound' /\ RouterAgrees' /\ StopIsFinal'
  BY DEF RoomsInv, Seated, TypeOK, OnHttpRead, RoomsSound, RouterAgrees, StopIsFinal
<1>4. ASSUME NEW t \in Sessions \ lost' PROVE ToldTo(t)'
  <2>1. /\ ToldTo(t) /\ queue'[t] = queue[t] /\ view'[t] = view[t] /\ stopping' = stopping
        /\ phase'[t] = "open" => phase[t] = "open" /\ RoomOf(t)' = RoomOf(t)
    BY DEF RoomsInv, Seated, TypeOK, OnHttpRead, Told, RoomOf
  <2> QED
    BY <2>1, Bystander
<1> QED
  BY <1>1, <1>2, <1>3, <1>4 DEF RoomsInv, Seated, Told

\* The identity is known, or the handshake or the token was bad.
LEMMA UnopenedInv ==
    ASSUME RoomsInv, NEW s \in Sessions, NEW ph \in {"accepting", "refused"},
           phase[s] \in {"authorizing", "accepting"},
           phase' = [phase EXCEPT ![s] = ph],
           UNCHANGED <<room_id, rooms, queue, lost, view, stopping, commands>>
    PROVE  RoomsInv'
<1>1. TypeOK'
  BY DEF RoomsInv, Seated, TypeOK, Phases
<1>2. Placed'
  BY DEF RoomsInv, Seated, TypeOK, Placed, RoomOf
<1>3. RoomsSound' /\ RouterAgrees' /\ StopIsFinal'
  BY DEF RoomsInv, Seated, TypeOK, RoomsSound, RouterAgrees, StopIsFinal
<1>4. ASSUME NEW t \in Sessions \ lost' PROVE ToldTo(t)'
  <2>1. /\ ToldTo(t) /\ queue'[t] = queue[t] /\ view'[t] = view[t] /\ stopping' = stopping
        /\ phase'[t] = "open" => phase[t] = "open" /\ RoomOf(t)' = RoomOf(t)
    BY DEF RoomsInv, Seated, TypeOK, Told, RoomOf
  <2> QED
    BY <2>1, Bystander
<1> QED
  BY <1>1, <1>2, <1>3, <1>4 DEF RoomsInv, Seated, Told

\* stop() sets the flag.
LEMMA SetStoppingInv ==
    ASSUME RoomsInv, SetStopping
    PROVE  RoomsInv'
<1>1. Seated'
  BY DEF RoomsInv, Seated, TypeOK, SetStopping, Placed, RoomOf, RoomsSound, RouterAgrees, StopIsFinal
<1>2. ASSUME NEW t \in Sessions \ lost' PROVE ToldTo(t)'
  <2>1. /\ ToldTo(t) /\ queue' = queue /\ view' = view /\ phase' = phase
        /\ stopping = "no" /\ RoomOf(t)' = RoomOf(t)
    BY DEF RoomsInv, SetStopping, Told, RoomOf
  <2> QED
    BY <2>1, Bystander
<1> QED
  BY <1>1, <1>2 DEF RoomsInv, Told

\* stop() empties the rooms.
LEMMA ClearRoomsInv ==
    ASSUME RoomsInv, ClearRooms
    PROVE  RoomsInv'
<1>1. \A r \in RoomIds : rooms'[r] = NoRoom
  BY DEF ClearRooms
<1>2. TypeOK'
  BY EmptyRoom DEF RoomsInv, Seated, TypeOK, ClearRooms, RoomOK, RoomRecords
<1>3. Placed'
  BY DEF RoomsInv, Seated, ClearRooms, Placed
<1>4. RoomsSound' /\ RouterAgrees' /\ StopIsFinal'
  BY <1>1, EmptyRoom DEF RoomsSound, RouterAgrees, StopIsFinal
<1>5. ASSUME NEW t \in Sessions \ lost' PROVE ToldTo(t)'
  <2>1. ToldTo(t) /\ queue' = queue /\ view' = view /\ phase' = phase /\ stopping' = "done"
    BY DEF RoomsInv, ClearRooms, Told
  <2> QED
    BY <2>1, Bystander
<1> QED
  BY <1>2, <1>3, <1>4, <1>5 DEF RoomsInv, Seated, Told

-----------------------------------------------------------------------------
(***************************************************************************)
(* on_accept: who is in the room hears of s, and s of the room.            *)
(***************************************************************************)
LEMMA OnAcceptInv ==
    ASSUME RoomsInv, NEW s \in Sessions, OnAccept(s)
    PROVE  RoomsInv'
<1> DEFINE r == room_id[s]
           R == RoomOf(s)
           N == [R EXCEPT !.sessions = @ \cup {s}]
           out == [ToAll(R.sessions, <<Joined(s)>>) EXCEPT ![s] = <<Welcome(R)>>]
<1>1. /\ Seated /\ TypeOK /\ Told /\ stopping = "no" /\ stopping' = stopping
      /\ phase[s] = "accepting" /\ r \in RoomIds
      /\ phase' = [phase EXCEPT ![s] = "open"]
      /\ room_id' = room_id /\ view' = view /\ commands' = commands
      /\ rooms' = [rooms EXCEPT ![r] = N]
      /\ Send(out)
  BY DEF RoomsInv, Seated, OnAccept, Admits, RoomOf, Placed
<1>2. /\ RoomOK(R) /\ R \in RoomRecords /\ s \notin R.sessions
      /\ R.sessions \subseteq Sessions /\ R.table.streaming \subseteq R.sessions
  BY <1>1, SeatedFacts DEF RoomOK, RoomRecords
<1>3. Welcome(R) \in Messages
  BY <1>2 DEF Welcome, Messages, RoomRecords, Tables
<1>4. out \in [Sessions -> Seq(Messages)]
  <2>1. <<Welcome(R)>> \in Seq(Messages) /\ <<Joined(s)>> \in Seq(Messages)
    BY <1>3, MessageTypes
  <2> QED
    BY <2>1, ToAllFacts
<1>5. \A t \in Sessions : out[t] = IF t = s THEN <<Welcome(R)>>
                                   ELSE IF t \in R.sessions THEN <<Joined(s)>> ELSE <<>>
  <2> DEFINE base == ToAll(R.sessions, <<Joined(s)>>)
  <2>1. <<Joined(s)>> \in Seq(Messages)
    BY MessageTypes
  <2>2. /\ base \in [Sessions -> Seq(Messages)]
        /\ \A t \in Sessions : base[t] = IF t \in R.sessions THEN <<Joined(s)>> ELSE <<>>
    <3>1. <<>> \in Seq(Messages)
      OBVIOUS
    <3> QED
      BY <2>1, <3>1 DEF ToAll
  <2>3. out = [base EXCEPT ![s] = <<Welcome(R)>>]
    OBVIOUS
  <2> HIDE DEF base, out
  <2> QED
    BY <2>2, <2>3
<1> HIDE DEF out
<1>6. /\ queue' \in [Sessions -> Seq(Messages)]
      /\ \A t \in Sessions : Len(queue'[t]) <= Capacity
      /\ lost' \subseteq Sessions
      /\ \A t \in Sessions : phase'[t] = "closed" => queue'[t] = <<>>
      /\ \A t \in Sessions \ lost' : phase'[t] # "closed" =>
            t \notin lost /\ queue'[t] = queue[t] \o out[t]
      /\ \A t \in Sessions : phase'[t] # "closed" /\ out[t] = <<>> => queue'[t] = queue[t]
  BY <1>1, <1>4, SendFacts
<1>7. RoomOK(N) /\ N.sessions = R.sessions \cup {s} /\ N.table = R.table
  BY <1>2 DEF RoomOK, RoomRecords
<1> HIDE DEF N
<1>8. TypeOK'
  BY <1>1, <1>6, <1>7 DEF TypeOK, RoomOK, RoomRecords, Phases
<1>9. \A t \in Sessions : RoomOf(t)' = IF room_id[t] = r THEN N ELSE RoomOf(t)
  <2>1. \A t \in Sessions : room_id[t] # r => rooms'[room_id[t]] = rooms[room_id[t]]
    BY <1>1 DEF TypeOK
  <2> QED
    BY <1>1, <2>1 DEF RoomOf, TypeOK
<1>10. \A t \in Sessions : phase'[t] = IF t = s THEN "open" ELSE phase[t]
  BY <1>1 DEF TypeOK
<1>11. Placed'
  <2>1. ASSUME NEW t \in Sessions, phase'[t] # "open"
        PROVE  queue'[t] = <<>> /\ view'[t] = NothingSeen
    <3>1. t # s /\ phase[t] # "open" /\ phase'[t] = phase[t]
      BY <1>10, <2>1
    <3>2. t \notin R.sessions /\ queue[t] = <<>> /\ view[t] = NothingSeen
      BY <1>1, <3>1, SeatedFacts DEF Seated, Placed
    <3> QED
      BY <1>1, <1>5, <1>6, <3>1, <3>2
  <2>2. ASSUME NEW t \in Sessions, phase'[t] = "open" PROVE t \in RoomOf(t)'.sessions
    BY <1>1, <1>7, <1>9, <1>10, <2>2 DEF Seated, Placed, RoomOf
  <2> QED
    BY <1>1, <1>10, <2>1, <2>2 DEF Seated, Placed
<1>12. Seated'
  <2>1. \A t \in N.sessions : phase'[t] = "open" /\ room_id'[t] = r
    BY <1>1, <1>2, <1>7, <1>10, SeatedFacts
  <2>2. \A t \in Sessions : phase[t] = "open" /\ room_id[t] # r =>
           phase'[t] = "open" /\ room_id'[t] = room_id[t]
    BY <1>1, <1>10
  <2> QED
    BY <1>1, <1>7, <1>8, <1>11, <2>1, <2>2, RoomChanges
<1>13. ASSUME NEW t \in Sessions \ lost' PROVE ToldTo(t)'
  <2>1. CASE t = s
    <3>1. queue[s] = <<>> /\ view[s] = NothingSeen /\ NothingSeen \in Views
      BY <1>1 DEF Seated, Placed, NothingSeen, Views
    <3>2. queue'[s] = <<Welcome(R)>> /\ view'[s] = NothingSeen
      <4>1. queue'[s] = <<>> \o <<Welcome(R)>>
        BY <1>5, <1>6, <1>10, <2>1, <3>1
      <4> QED
        BY <1>1, <1>3, <3>1, <4>1
    <3>3. Apply(NothingSeen, Welcome(R)) = SeenBy(s, N)
      BY <1>2, <1>7 DEF Apply, NothingSeen, Welcome, SeenBy
    <3>4. <<Welcome(R)>> = Append(<<>>, Welcome(R)) /\ <<>> \in Seq(Messages)
      OBVIOUS
    <3>5. Shows(NothingSeen, <<>>, NothingSeen)
      BY <3>1, NothingToShow DEF NothingSeen, Consistent
    <3>6. Shows(NothingSeen, <<Welcome(R)>>, SeenBy(s, N))
      <4>1. Consistent(Apply(NothingSeen, Welcome(R)))
        BY <1>7, <3>3, SeenType
      <4>2. Shows(NothingSeen, Append(<<>>, Welcome(R)), Apply(NothingSeen, Welcome(R)))
        BY <1>3, <3>1, <3>4, <3>5, <4>1, AppendShows
      <4> QED
        BY <3>3, <3>4, <4>2
    <3>7. Shows(view'[s], queue'[s], SeenBy(s, RoomOf(s)'))
      BY <1>9, <3>2, <3>6
    <3> QED
      BY <2>1, <3>7 DEF ToldTo, Shows, SeenBy
  <2>2. CASE t # s /\ t \in R.sessions
    <3>1. /\ phase[t] = "open" /\ room_id[t] = r /\ RoomOf(t) = R
          /\ view[t] \in Views /\ queue[t] \in Seq(Messages)
      BY <1>1, <2>2, SeatedFacts DEF TypeOK, Views
    <3>2. phase'[t] = "open" /\ RoomOf(t)' = N
      BY <1>9, <1>10, <2>2, <3>1
    <3>3. queue'[t] = queue[t] \o <<Joined(s)>> /\ t \notin lost
      BY <1>5, <1>6, <2>2, <3>2
    <3>4. Apply(SeenBy(t, R), Joined(s)) = SeenBy(t, N)
      BY <1>2, <1>7, <2>2, OthersSee
    <3>5. ToldTo(t)
      BY <1>1, <3>3 DEF Told
    <3> QED
      BY <1>1, <1>7, <3>1, <3>2, <3>3, <3>4, <3>5, MessageTypes, Hears
  <2>3. CASE t # s /\ t \notin R.sessions
    <3>1. phase'[t] = phase[t] /\ out[t] = <<>>
      BY <1>5, <1>10, <2>3
    <3>2. CASE phase[t] # "open"
      <4>1. queue'[t] = <<>> /\ view'[t] = NothingSeen
        BY <1>11, <3>1, <3>2 DEF Placed
      <4> QED
        BY <3>1, <3>2, <4>1, Outsider
    <3>3. CASE phase[t] = "open"
      <4>1. queue'[t] = queue[t] /\ t \notin lost /\ view'[t] = view[t]
        BY <1>1, <1>6, <3>1, <3>3
      <4>2. RoomOf(t)' = RoomOf(t)
        BY <1>1, <1>9, <2>3, <3>3, SeatedFacts
      <4> QED
        BY <1>1, <1>10, <3>1, <3>3, <4>1, <4>2, Bystander DEF Told
    <3> QED
      BY <3>2, <3>3
  <2> QED
    BY <2>1, <2>2, <2>3
<1> QED
  BY <1>12, <1>13 DEF RoomsInv, Told

-----------------------------------------------------------------------------
(***************************************************************************)
(* on_streaming_start and on_streaming_stop: the others in the room hear m. *)
(***************************************************************************)
LEMMA BroadcastInv ==
    ASSUME RoomsInv, NEW s \in Sessions, NEW m \in Messages, NEW room, Reads(s),
           RoomOK(room), room.sessions = RoomOf(s).sessions,
           rooms' = [rooms EXCEPT ![room_id[s]] = room],
           UNCHANGED <<phase, room_id, view, stopping>>, commands' \in 0..MaxCommands,
           Broadcast(s, m),
           room.table.streaming \ {s} = RoomOf(s).table.streaming \ {s},
           \A t \in Sessions \ {s} : Apply(SeenBy(t, RoomOf(s)), m) = SeenBy(t, room)
    PROVE  RoomsInv'
<1> DEFINE r == room_id[s]
           R == RoomOf(s)
           out == ToAll(R.sessions \ {s}, <<m>>)
<1>1. /\ Seated /\ TypeOK /\ Told /\ phase[s] = "open" /\ stopping # "done"
      /\ r \in RoomIds /\ s \in R.sessions /\ R.sessions \subseteq Sessions
  BY SeatedFacts DEF RoomsInv, Seated, Reads, RoomOK, RoomRecords
<1>2. /\ out \in [Sessions -> Seq(Messages)]
      /\ \A t \in Sessions : out[t] = IF t \in R.sessions \ {s} THEN <<m>> ELSE <<>>
  <2>1. <<>> \in Seq(Messages) /\ <<m>> \in Seq(Messages)
    OBVIOUS
  <2> QED
    BY <2>1 DEF ToAll
<1>3. Send(out)
  BY DEF Broadcast
<1> HIDE DEF out
<1>4. /\ queue' \in [Sessions -> Seq(Messages)]
      /\ \A t \in Sessions : Len(queue'[t]) <= Capacity
      /\ lost' \subseteq Sessions
      /\ \A t \in Sessions : phase'[t] = "closed" => queue'[t] = <<>>
      /\ \A t \in Sessions \ lost' : phase'[t] # "closed" =>
            t \notin lost /\ queue'[t] = queue[t] \o out[t]
      /\ \A t \in Sessions : phase'[t] # "closed" /\ out[t] = <<>> => queue'[t] = queue[t]
  BY <1>1, <1>2, <1>3, SendFacts
<1>5. TypeOK'
  BY <1>1, <1>4 DEF TypeOK, RoomOK, RoomRecords
<1>6. \A t \in Sessions : RoomOf(t)' = IF room_id[t] = r THEN room ELSE RoomOf(t)
  <2>1. \A t \in Sessions : room_id[t] # r => rooms'[room_id[t]] = rooms[room_id[t]]
    BY <1>1 DEF TypeOK
  <2> QED
    BY <1>1, <2>1 DEF RoomOf, TypeOK
<1>7. Placed'
  <2>1. ASSUME NEW t \in Sessions, phase'[t] # "open" PROVE queue'[t] = <<>>
    <3>1. t \notin R.sessions /\ queue[t] = <<>>
      BY <1>1, <2>1, SeatedFacts DEF Seated, Placed
    <3> QED
      BY <1>2, <1>4, <2>1, <3>1
  <2>2. \A t \in Sessions : phase'[t] = "open" => t \in RoomOf(t)'.sessions
    BY <1>1, <1>6 DEF Seated, Placed, RoomOf
  <2> QED
    BY <1>1, <2>1, <2>2 DEF Seated, Placed
<1>8. Seated'
  <2>1. \A t \in room.sessions : phase'[t] = "open" /\ room_id'[t] = r
    BY <1>1, SeatedFacts
  <2> QED
    BY <1>1, <1>5, <1>7, <2>1, RoomChanges
<1>9. ASSUME NEW t \in Sessions \ lost' PROVE ToldTo(t)'
  <2>1. CASE t \in R.sessions \ {s}
    <3>1. /\ phase[t] = "open" /\ room_id[t] = r /\ RoomOf(t) = R /\ RoomOf(t)' = room
          /\ view[t] \in Views /\ queue[t] \in Seq(Messages)
      BY <1>1, <1>6, <2>1, SeatedFacts DEF TypeOK, Views
    <3>2. queue'[t] = queue[t] \o <<m>> /\ t \notin lost
      BY <1>2, <1>4, <2>1, <3>1
    <3>3. ToldTo(t)
      BY <1>1, <3>2 DEF Told
    <3> QED
      BY <1>1, <2>1, <3>1, <3>2, <3>3, Hears
  <2>2. CASE t \notin R.sessions \ {s}
    <3>1. CASE phase[t] # "open"
      BY <1>7, <3>1, Outsider DEF Placed
    <3>2. CASE phase[t] = "open"
      <4>1. out[t] = <<>>
        BY <1>2, <2>2
      <4>2. queue'[t] = queue[t] /\ t \notin lost /\ ToldTo(t)
        BY <1>1, <1>4, <3>2, <4>1 DEF Told
      <4>3. CASE t = s
        <5>1. SeenBy(t, RoomOf(t)') = SeenBy(t, RoomOf(t))
          BY <1>6, <4>3 DEF SeenBy
        <5> QED
          BY <1>1, <3>2, <4>2, <4>3, <5>1, Bystander
      <4>4. CASE t # s
        <5>1. RoomOf(t)' = RoomOf(t)
          BY <1>1, <1>6, <2>2, <3>2, <4>4, SeatedFacts
        <5> QED
          BY <1>1, <3>2, <4>2, <5>1, Bystander
      <4> QED
        BY <4>3, <4>4
    <3> QED
      BY <3>1, <3>2
  <2> QED
    BY <2>1, <2>2
<1> QED
  BY <1>8, <1>9 DEF RoomsInv, Told

\* The number of commands is bounded.
LEMMA CommandType ==
    ASSUME TypeOK, Command
    PROVE  commands' \in 0..MaxCommands
  BY RoomsConstants DEF TypeOK, Command

\* A room in which s streams, or does not.
LEMMA StreamingRooms ==
    ASSUME NEW room, RoomOK(room), NEW s \in room.sessions, NEW streaming,
           streaming \in {room.table.streaming \cup {s}, room.table.streaming \ {s}}
    PROVE  LET new == [room EXCEPT !.table.streaming = streaming,
                                   !.router.streaming = streaming]
           IN  RoomOK(new) /\ new.sessions = room.sessions /\ new.table.streaming = streaming
<1> DEFINE new == [room EXCEPT !.table.streaming = streaming, !.router.streaming = streaming]
<1>1. /\ room \in RoomRecords /\ room.table \in Tables /\ room.router = room.table
      /\ streaming \in SUBSET Sessions /\ streaming \subseteq room.sessions
  BY DEF RoomOK, RoomRecords, Tables
<1>2. /\ new \in RoomRecords /\ new.sessions = room.sessions
      /\ new.table = [room.table EXCEPT !.streaming = streaming]
  BY <1>1 DEF RoomRecords, Tables
<1>3. new.router = new.table
  BY <1>1 DEF RoomRecords
<1>4. new.table.streaming = streaming /\ new.table.watching = room.table.watching
  BY <1>1, <1>2 DEF Tables
<1> HIDE DEF new
<1>5. RoomOK(new)
  BY <1>1, <1>2, <1>3, <1>4 DEF RoomOK
<1> QED
  BY <1>2, <1>4, <1>5 DEF new

\* on_streaming_start: the others add s to the streams.
LEMMA OnStreamingStartInv ==
    ASSUME RoomsInv, NEW s \in Sessions, OnStreamingStart(s)
    PROVE  RoomsInv'
<1> DEFINE R == RoomOf(s)
           streaming == R.table.streaming \cup {s}
           room == [R EXCEPT !.table.streaming = streaming, !.router.streaming = streaming]
<1>1. Seated /\ TypeOK /\ Reads(s) /\ Command
  BY DEF RoomsInv, Seated, OnStreamingStart
<1>2. RoomOK(R) /\ s \in R.sessions /\ room_id[s] \in RoomIds
  BY <1>1, SeatedFacts DEF Reads
<1>3. rooms' = [rooms EXCEPT ![room_id[s]] = room]
  <2>1. R.router = R.table
    BY <1>2 DEF RoomOK
  <2> QED
    BY <1>1, <1>2, <2>1 DEF OnStreamingStart, RoomOf, TypeOK
<1>4. RoomOK(room) /\ room.sessions = R.sessions /\ room.table.streaming = streaming
  BY <1>2, StreamingRooms
<1> HIDE DEF room
<1>5. /\ Started(s) \in Messages
      /\ room.table.streaming \ {s} = R.table.streaming \ {s}
      /\ \A t \in Sessions \ {s} : Apply(SeenBy(t, R), Started(s)) = SeenBy(t, room)
  BY <1>2, <1>4, MessageTypes, OthersSee
<1>6. /\ UNCHANGED <<phase, room_id, view, stopping>> /\ commands' \in 0..MaxCommands
      /\ Broadcast(s, Started(s))
  BY <1>1, CommandType DEF OnStreamingStart
<1> QED
  BY <1>1, <1>3, <1>4, <1>5, <1>6, BroadcastInv

\* on_streaming_stop: the others take s off the streams.
LEMMA OnStreamingStopInv ==
    ASSUME RoomsInv, NEW s \in Sessions, OnStreamingStop(s)
    PROVE  RoomsInv'
<1> DEFINE R == RoomOf(s)
           streaming == R.table.streaming \ {s}
           room == [R EXCEPT !.table.streaming = streaming, !.router.streaming = streaming]
<1>1. Seated /\ TypeOK /\ Reads(s) /\ Command
  BY DEF RoomsInv, Seated, OnStreamingStop
<1>2. RoomOK(R) /\ s \in R.sessions /\ room_id[s] \in RoomIds
  BY <1>1, SeatedFacts DEF Reads
<1>3. rooms' = [rooms EXCEPT ![room_id[s]] = room]
  <2>1. R.router = R.table
    BY <1>2 DEF RoomOK
  <2> QED
    BY <1>1, <1>2, <2>1 DEF OnStreamingStop, RoomOf, TypeOK
<1>4. RoomOK(room) /\ room.sessions = R.sessions /\ room.table.streaming = streaming
  BY <1>2, StreamingRooms
<1> HIDE DEF room
<1>5. /\ Ended(s) \in Messages
      /\ room.table.streaming \ {s} = R.table.streaming \ {s}
      /\ \A t \in Sessions \ {s} : Apply(SeenBy(t, R), Ended(s)) = SeenBy(t, room)
  BY <1>2, <1>4, MessageTypes, OthersSee
<1>6. /\ UNCHANGED <<phase, room_id, view, stopping>> /\ commands' \in 0..MaxCommands
      /\ Broadcast(s, Ended(s))
  BY <1>1, CommandType DEF OnStreamingStop
<1> QED
  BY <1>1, <1>3, <1>4, <1>5, <1>6, BroadcastInv

-----------------------------------------------------------------------------
(***************************************************************************)
(* add_video_watcher and remove_video_watcher: nobody is told.             *)
(***************************************************************************)
LEMMA WatchingInv ==
    ASSUME RoomsInv, NEW s \in Sessions, NEW room, Reads(s),
           RoomOK(room), room.sessions = RoomOf(s).sessions,
           room.table.streaming = RoomOf(s).table.streaming,
           rooms' = [rooms EXCEPT ![room_id[s]] = room],
           UNCHANGED <<phase, room_id, queue, lost, view, stopping>>,
           commands' \in 0..MaxCommands
    PROVE  RoomsInv'
<1> DEFINE r == room_id[s]
           R == RoomOf(s)
<1>1. /\ Seated /\ TypeOK /\ Told /\ stopping # "done" /\ r \in RoomIds
      /\ \A t \in R.sessions : t \in Sessions => phase[t] = "open" /\ room_id[t] = r
      /\ room.sessions \subseteq Sessions
  BY SeatedFacts DEF RoomsInv, Seated, Reads, RoomOK, RoomRecords
<1>2. TypeOK'
  BY <1>1 DEF TypeOK, RoomOK, RoomRecords
<1>3. \A t \in Sessions : RoomOf(t)' = IF room_id[t] = r THEN room ELSE RoomOf(t)
  <2>1. \A t \in Sessions : room_id[t] # r => rooms'[room_id[t]] = rooms[room_id[t]]
    BY <1>1 DEF TypeOK
  <2> QED
    BY <1>1, <2>1 DEF RoomOf, TypeOK
<1>4. \A t \in Sessions : /\ RoomOf(t)'.sessions = RoomOf(t).sessions
                          /\ SeenBy(t, RoomOf(t)') = SeenBy(t, RoomOf(t))
  BY <1>3 DEF RoomOf, SeenBy
<1>5. Placed'
  BY <1>1, <1>4 DEF Seated, Placed
<1>6. Seated'
  BY <1>1, <1>2, <1>5, RoomChanges
<1>7. ASSUME NEW t \in Sessions \ lost' PROVE ToldTo(t)'
  BY <1>1, <1>4, Bystander DEF Told
<1> QED
  BY <1>6, <1>7 DEF RoomsInv, Told

\* A room in which s watches others than before.
LEMMA WatchingRooms ==
    ASSUME NEW room, RoomOK(room), NEW s \in room.sessions,
           NEW watched \in SUBSET (room.sessions \ {s}), Cardinality(watched) <= ReceiveSlots
    PROVE  LET new == [room EXCEPT !.table.watching[s] = watched,
                                   !.router.watching[s] = watched]
           IN  /\ RoomOK(new) /\ new.sessions = room.sessions
               /\ new.table.streaming = room.table.streaming
<1> DEFINE new == [room EXCEPT !.table.watching[s] = watched, !.router.watching[s] = watched]
<1>1. /\ room \in RoomRecords /\ room.table \in Tables /\ room.router = room.table
      /\ watched \in SUBSET Sessions /\ s \in Sessions
      /\ room.table.watching \in [Sessions -> SUBSET Sessions]
  BY DEF RoomOK, RoomRecords, Tables
<1> DEFINE watching == [room.table.watching EXCEPT ![s] = watched]
<1>2. /\ watching \in [Sessions -> SUBSET Sessions]
      /\ \A q \in Sessions : watching[q] = IF q = s THEN watched ELSE room.table.watching[q]
  BY <1>1
<1>3. new = [room EXCEPT !.table = [room.table EXCEPT !.watching = watching],
                         !.router = [room.table EXCEPT !.watching = watching]]
  BY <1>1 DEF RoomRecords, Tables
<1> HIDE DEF new, watching
<1>4. [room.table EXCEPT !.watching = watching] \in Tables
  BY <1>1, <1>2 DEF Tables
<1>5. /\ new \in RoomRecords /\ new.sessions = room.sessions
      /\ new.table = [room.table EXCEPT !.watching = watching] /\ new.router = new.table
  BY <1>1, <1>3, <1>4 DEF RoomRecords
<1>6. new.table.streaming = room.table.streaming /\ new.table.watching = watching
  BY <1>1, <1>5 DEF Tables
<1>7. RoomOK(new)
  BY <1>2, <1>5, <1>6 DEF RoomOK
<1> QED
  BY <1>5, <1>6, <1>7 DEF new

\* A message to s alone that says nothing of peers or streams.
LEMMA AnswerInv ==
    ASSUME RoomsInv, NEW s \in Sessions, NEW m \in Messages, phase[s] = "open",
           UNCHANGED <<phase, room_id, rooms, view, stopping>>, commands' \in 0..MaxCommands,
           Send(ToAll({s}, <<m>>)),
           \A w \in Views : Apply(w, m) = w
    PROVE  RoomsInv'
<1> DEFINE out == ToAll({s}, <<m>>)
<1>1. Seated /\ TypeOK /\ Told
  BY DEF RoomsInv, Seated
<1>2. /\ out \in [Sessions -> Seq(Messages)]
      /\ \A t \in Sessions : out[t] = IF t = s THEN <<m>> ELSE <<>>
  <2>1. <<>> \in Seq(Messages) /\ <<m>> \in Seq(Messages)
    OBVIOUS
  <2> QED
    BY <2>1 DEF ToAll
<1> HIDE DEF out
<1>3. Send(out)
  BY DEF out
<1>4. /\ queue' \in [Sessions -> Seq(Messages)]
      /\ \A t \in Sessions : Len(queue'[t]) <= Capacity
      /\ lost' \subseteq Sessions
      /\ \A t \in Sessions : phase'[t] = "closed" => queue'[t] = <<>>
      /\ \A t \in Sessions \ lost' : phase'[t] # "closed" =>
            t \notin lost /\ queue'[t] = queue[t] \o out[t]
      /\ \A t \in Sessions : phase'[t] # "closed" /\ out[t] = <<>> => queue'[t] = queue[t]
  BY <1>1, <1>2, <1>3, SendFacts
<1>5. TypeOK'
  BY <1>1, <1>4 DEF TypeOK
<1>6. \A t \in Sessions : RoomOf(t)' = RoomOf(t)
  BY DEF RoomOf
<1>7. Placed'
  <2>1. ASSUME NEW t \in Sessions, phase'[t] # "open" PROVE queue'[t] = <<>>
    <3>1. out[t] = <<>> /\ queue[t] = <<>>
      BY <1>1, <1>2, <2>1 DEF Seated, Placed
    <3> QED
      BY <1>4, <2>1, <3>1
  <2> QED
    BY <1>1, <1>6, <2>1 DEF Seated, Placed
<1>8. RoomsSound' /\ RouterAgrees' /\ StopIsFinal'
  BY <1>1 DEF Seated, RoomsSound, RouterAgrees, StopIsFinal
<1>9. ASSUME NEW t \in Sessions \ lost' PROVE ToldTo(t)'
  <2>1. CASE t = s
    <3>1. view[s] \in Views /\ queue[s] \in Seq(Messages) /\ out[s] = <<m>>
      BY <1>1, <1>2 DEF TypeOK, Views
    <3>2. queue'[s] = Append(queue[s], m) /\ s \notin lost
      BY <1>4, <2>1, <3>1, OneMessage
    <3>3. ToldTo(s)
      BY <1>1, <3>2 DEF Told
    <3> DEFINE w == ShownAfter(view[s], queue[s], Len(queue[s]))
    <3>4. w \in Views /\ Consistent(w) /\ Shows(view[s], queue[s], w)
      BY <3>1, <3>3, ShownLast DEF ToldTo
    <3>5. phase[s] = "open" /\ stopping # "done" => w = SeenBy(s, RoomOf(s))
      BY <3>3 DEF ToldTo
    <3> HIDE DEF w
    <3>6. Shows(view[s], Append(queue[s], m), w)
      <4>1. Apply(w, m) = w
        BY <3>4
      <4> QED
        BY <3>1, <3>4, <4>1, AppendShows
    <3>7. /\ InOrder(view'[s], queue'[s])
          /\ phase'[s] = "open" /\ stopping' # "done" =>
                ShownAfter(view'[s], queue'[s], Len(queue'[s])) = SeenBy(s, RoomOf(s)')
      BY <1>6, <3>2, <3>5, <3>6 DEF Shows
    <3> QED
      BY <2>1, <3>7 DEF ToldTo, SeenBy
  <2>2. CASE t # s
    <3>1. CASE phase[t] # "open"
      BY <1>7, <3>1, Outsider DEF Placed
    <3>2. CASE phase[t] = "open"
      <4>1. queue'[t] = queue[t] /\ t \notin lost
        BY <1>2, <1>4, <2>2, <3>2
      <4> QED
        BY <1>1, <1>6, <4>1, Bystander DEF Told
    <3> QED
      BY <3>1, <3>2
  <2> QED
    BY <2>1, <2>2
<1> QED
  BY <1>5, <1>7, <1>8, <1>9 DEF RoomsInv, Seated, Told

\* add_video_watcher: the room takes it down, or s is rejected.
LEMMA OnWatchStartInv ==
    ASSUME RoomsInv, NEW s \in Sessions, NEW p \in Sessions, OnWatchStart(s, p)
    PROVE  RoomsInv'
<1> DEFINE R == RoomOf(s)
           watched == R.table.watching[s]
<1>1. Seated /\ TypeOK /\ Reads(s) /\ Command
  BY DEF RoomsInv, Seated, OnWatchStart
<1>2. RoomOK(R) /\ s \in R.sessions /\ room_id[s] \in RoomIds
  BY <1>1, SeatedFacts DEF Reads
<1>3. commands' \in 0..MaxCommands /\ UNCHANGED <<phase, room_id, view, stopping>>
  BY <1>1, CommandType DEF OnWatchStart
<1>4. CASE Watchable(s, p) /\ Cardinality(watched) < ReceiveSlots
  <2> DEFINE more == watched \cup {p}
             room == [R EXCEPT !.table.watching[s] = more, !.router.watching[s] = more]
  <2>1. p \notin watched /\ p \in R.sessions \ {s}
    BY <1>4 DEF OnWatchStart, Watchable
  <2>2. watched \subseteq R.sessions \ {s} /\ R.sessions \subseteq Sessions
    BY <1>2 DEF RoomOK, RoomRecords
  <2>3. IsFiniteSet(watched) /\ Cardinality(watched) \in Nat
    BY <2>2, RoomsConstants, FS_Subset, FS_CardinalityType
  <2>4. Cardinality(more) = Cardinality(watched) + 1
    BY <2>1, <2>3, FS_AddElement
  <2>5. Cardinality(more) <= ReceiveSlots /\ more \in SUBSET (R.sessions \ {s})
    BY <1>4, <2>1, <2>2, <2>3, <2>4, RoomsConstants
  <2>6. rooms' = [rooms EXCEPT ![room_id[s]] = room] /\ UNCHANGED <<queue, lost>>
    <3>1. R.router = R.table /\ R \in RoomRecords
      BY <1>2 DEF RoomOK
    <3>2. rooms' = [rooms EXCEPT ![room_id[s]].table.watching[s] = @ \cup {p},
                                 ![room_id[s]].router = set_watching(@, s, p, TRUE)]
          /\ UNCHANGED <<queue, lost>>
      BY <1>4 DEF OnWatchStart
    <3> QED
      BY <1>1, <1>2, <3>1, <3>2 DEF RoomOf, TypeOK, set_watching, RoomRecords, Tables
  <2>7. /\ RoomOK(room) /\ room.sessions = R.sessions
        /\ room.table.streaming = R.table.streaming
    <3> HIDE DEF more
    <3> QED
      BY <1>2, <2>5, WatchingRooms
  <2> HIDE DEF room
  <2> QED
    BY <1>1, <1>3, <2>6, <2>7, WatchingInv
<1>5. CASE ~(Watchable(s, p) /\ Cardinality(watched) < ReceiveSlots)
  <2>1. Send(ToAll({s}, <<Rejected(p)>>)) /\ rooms' = rooms
    BY <1>5 DEF OnWatchStart
  <2>2. /\ Rejected(p) \in Messages
        /\ \A w \in Views : Apply(w, Rejected(p)) = w
    BY MessageTypes, MessageMeanings
  <2>3. phase[s] = "open"
    BY <1>1 DEF Reads
  <2> QED
    BY <1>3, <2>1, <2>2, <2>3, AnswerInv
<1> QED
  BY <1>4, <1>5

\* remove_video_watcher.
LEMMA OnWatchStopInv ==
    ASSUME RoomsInv, NEW s \in Sessions, NEW p \in Sessions, OnWatchStop(s, p)
    PROVE  RoomsInv'
<1> DEFINE R == RoomOf(s)
           watched == R.table.watching[s]
           fewer == watched \ {p}
           room == [R EXCEPT !.table.watching[s] = fewer, !.router.watching[s] = fewer]
<1>1. Seated /\ TypeOK /\ Reads(s) /\ Command
  BY DEF RoomsInv, Seated, OnWatchStop
<1>2. RoomOK(R) /\ s \in R.sessions /\ room_id[s] \in RoomIds
  BY <1>1, SeatedFacts DEF Reads
<1>3. /\ commands' \in 0..MaxCommands
      /\ UNCHANGED <<phase, room_id, queue, lost, view, stopping>>
  BY <1>1, CommandType DEF OnWatchStop
<1>4. /\ watched \subseteq R.sessions \ {s} /\ R.sessions \subseteq Sessions
      /\ Cardinality(watched) <= ReceiveSlots
  BY <1>2 DEF RoomOK, RoomRecords
<1>5. IsFiniteSet(watched) /\ Cardinality(watched) \in Nat
  BY <1>4, RoomsConstants, FS_Subset, FS_CardinalityType
<1>6. Cardinality(fewer) <= Cardinality(watched) /\ Cardinality(fewer) \in Nat
  BY <1>5, FS_Subset, FS_CardinalityType
<1>7. Cardinality(fewer) <= ReceiveSlots /\ fewer \in SUBSET (R.sessions \ {s})
  BY <1>4, <1>5, <1>6, RoomsConstants
<1>8. rooms' = [rooms EXCEPT ![room_id[s]] = room]
  <2>1. R.router = R.table /\ R \in RoomRecords
    BY <1>2 DEF RoomOK
  <2> QED
    BY <1>1, <1>2, <2>1 DEF OnWatchStop, RoomOf, TypeOK, set_watching, RoomRecords, Tables
<1>9. /\ RoomOK(room) /\ room.sessions = R.sessions
      /\ room.table.streaming = R.table.streaming
  <2> HIDE DEF fewer
  <2> QED
    BY <1>2, <1>7, WatchingRooms
<1> HIDE DEF room
<1> QED
  BY <1>1, <1>3, <1>8, <1>9, WatchingInv

\* A message of a libdatachannel thread.
LEMMA SendMediaInv ==
    ASSUME RoomsInv, NEW s \in Sessions, SendMedia(s)
    PROVE  RoomsInv'
<1>1. /\ phase[s] = "open" /\ Send(ToAll({s}, <<Media>>))
      /\ UNCHANGED <<phase, room_id, rooms, view, stopping>>
      /\ commands' \in 0..MaxCommands
  BY CommandType DEF RoomsInv, Seated, SendMedia
<1>2. Media \in Messages /\ \A w \in Views : Apply(w, Media) = w
  BY MessageTypes, MessageMeanings
<1> QED
  BY <1>1, <1>2, AnswerInv

-----------------------------------------------------------------------------
\* on_write: the view of s is what its queue made of it.
LEMMA OnWriteInv ==
    ASSUME RoomsInv, NEW s \in Sessions, OnWrite(s)
    PROVE  RoomsInv'
<1> DEFINE q == queue[s]  v == view[s]
           w == Apply(v, Head(q))  a == Tail(q)
<1>1. /\ Seated /\ TypeOK /\ Told /\ phase[s] = "open" /\ q # <<>>
      /\ queue' = [queue EXCEPT ![s] = a] /\ view' = [view EXCEPT ![s] = w]
      /\ UNCHANGED <<phase, room_id, rooms, lost, stopping, commands>>
  BY DEF RoomsInv, Seated, OnWrite
<1>2. /\ q \in Seq(Messages) /\ v \in Views /\ Len(q) <= Capacity
      /\ queue \in [Sessions -> Seq(Messages)] /\ view \in [Sessions -> Views]
  BY <1>1 DEF TypeOK, Views
<1>3. /\ a \in Seq(Messages) /\ Len(a) = Len(q) - 1 /\ Len(q) \in Nat \ {0}
      /\ Head(q) = q[1] /\ q[1] \in Messages
      /\ \A i \in 1..Len(a) : i + 1 \in 1..Len(q) /\ a[i] = q[i + 1]
  BY <1>1, <1>2
<1>4. w \in Views
  BY <1>2, <1>3, ApplyFacts
<1>5. ASSUME NEW x, Shows(v, q, x) PROVE Shows(w, a, x)
  BY <1>1, <1>2, <1>5, TailShows
<1> HIDE DEF q, v, w, a
<1>6. /\ queue'[s] = a /\ view'[s] = w
      /\ \A t \in Sessions : t # s => queue'[t] = queue[t] /\ view'[t] = view[t]
      /\ queue' \in [Sessions -> Seq(Messages)] /\ view' \in [Sessions -> Views]
  BY <1>1, <1>2, <1>3, <1>4
<1>7. \A t \in Sessions : Len(queue'[t]) <= Capacity
  <2>1. Len(a) <= Capacity
    BY <1>2, <1>3, RoomsConstants
  <2> QED
    BY <1>1, <1>6, <2>1 DEF TypeOK
<1>8. TypeOK'
  BY <1>1, <1>6, <1>7 DEF TypeOK, Views
<1>9. \A t \in Sessions : RoomOf(t)' = RoomOf(t)
  BY <1>1 DEF RoomOf
<1>10. Placed'
  BY <1>1, <1>6, <1>9 DEF Seated, Placed
<1>11. RoomsSound' /\ RouterAgrees' /\ StopIsFinal'
  BY <1>1 DEF Seated, RoomsSound, RouterAgrees, StopIsFinal
<1>12. ASSUME NEW t \in Sessions \ lost' PROVE ToldTo(t)'
  <2>1. CASE t = s
    <3>1. ToldTo(s)
      BY <1>1, <2>1 DEF Told
    <3>2. InOrder(v, q) /\ (stopping # "done" =>
                              ShownAfter(v, q, Len(q)) = SeenBy(s, RoomOf(s)))
      BY <1>1, <3>1 DEF ToldTo, q, v
    <3>3. Shows(w, a, ShownAfter(v, q, Len(q)))
      BY <1>5, <3>2 DEF Shows
    <3>4. /\ InOrder(view'[s], queue'[s])
          /\ stopping' # "done" =>
                ShownAfter(view'[s], queue'[s], Len(queue'[s])) = SeenBy(s, RoomOf(s)')
      BY <1>1, <1>6, <1>9, <3>2, <3>3 DEF Shows
    <3> QED
      BY <2>1, <3>4 DEF ToldTo, SeenBy
  <2>2. CASE t # s
    <3>1. ToldTo(t) /\ queue'[t] = queue[t] /\ view'[t] = view[t]
      BY <1>1, <1>6, <2>2 DEF Told
    <3> QED
      BY <1>1, <1>9, <3>1, Bystander
  <2> QED
    BY <2>1, <2>2
<1> QED
  BY <1>8, <1>10, <1>11, <1>12 DEF RoomsInv, Seated, Told

\* A room that a session has left.
LEMMA LeftRooms ==
    ASSUME NEW room, RoomOK(room), NEW s \in room.sessions
    PROVE  LET new == [sessions |-> room.sessions \ {s}, table |-> Without(room.table, s),
                       router |-> Without(room.router, s)]
           IN  /\ RoomOK(new) /\ new.sessions = room.sessions \ {s}
               /\ new.table.streaming = room.table.streaming \ {s}
<1> DEFINE new == [sessions |-> room.sessions \ {s}, table |-> Without(room.table, s),
                   router |-> Without(room.router, s)]
<1>1. /\ room.table \in Tables /\ room.router = room.table
      /\ room.sessions \subseteq Sessions
      /\ room.table.streaming \subseteq room.sessions
      /\ room.table.watching \in [Sessions -> SUBSET Sessions]
  BY DEF RoomOK, RoomRecords, Tables
<1>2. /\ Without(room.table, s) \in Tables
      /\ Without(room.table, s).streaming = room.table.streaming \ {s}
      /\ \A q \in Sessions : Without(room.table, s).watching[q] =
            IF q = s THEN {} ELSE room.table.watching[q] \ {s}
  BY <1>1 DEF Without, Tables
<1>3. ASSUME NEW q \in Sessions
      PROVE  LET watched == Without(room.table, s).watching[q] IN
             /\ watched # {} => q \in room.sessions \ {s}
             /\ watched \subseteq (room.sessions \ {s}) \ {q}
             /\ Cardinality(watched) <= ReceiveSlots
  <2> DEFINE watched == Without(room.table, s).watching[q]
             old == room.table.watching[q]
  <2>1. /\ old # {} => q \in room.sessions
        /\ old \subseteq room.sessions \ {q}
        /\ Cardinality(old) <= ReceiveSlots
    BY DEF RoomOK
  <2>2. watched \subseteq old \ {s} /\ (q = s => watched = {})
    BY <1>2
  <2>3. IsFiniteSet(old) /\ Cardinality(old) \in Nat
    BY <1>1, <2>1, RoomsConstants, FS_Subset, FS_CardinalityType
  <2>4. Cardinality(watched) <= Cardinality(old) /\ Cardinality(watched) \in Nat
    BY <2>2, <2>3, FS_Subset, FS_CardinalityType
  <2> HIDE DEF watched, old
  <2>5. Cardinality(watched) <= ReceiveSlots
    BY <2>1, <2>3, <2>4, RoomsConstants
  <2>6. watched # {} => q \in room.sessions \ {s}
    BY <2>1, <2>2
  <2>7. watched \subseteq (room.sessions \ {s}) \ {q}
    BY <2>1, <2>2
  <2> QED
    BY <2>5, <2>6, <2>7 DEF watched
<1>4. RoomOK(new)
  BY <1>1, <1>2, <1>3 DEF RoomOK, RoomRecords
<1> QED
  BY <1>2, <1>4

(***************************************************************************)
(* on_close: who stays hears that the stream of s ended, if it had one,    *)
(* and that s left.                                                        *)
(***************************************************************************)
LEMMA FarewellHeard ==
    ASSUME NEW t \in Sessions, NEW s \in Sessions, t # s,
           NEW v \in Views, NEW q \in Seq(Messages), NEW room, RoomOK(room),
           NEW room2, RoomOK(room2), Shows(v, q, SeenBy(t, room)),
           room2.sessions = room.sessions \ {s},
           room2.table.streaming = room.table.streaming \ {s}
    PROVE  Shows(v, q \o Farewell(s, s \in room.table.streaming), SeenBy(t, room2))
<1> DEFINE w == SeenBy(t, room)
           x == [peers |-> w.peers, streaming |-> w.streaming \ {s}]
<1>1. /\ Ended(s) \in Messages /\ Left(s) \in Messages
      /\ w \in Views /\ x \in Views /\ Consistent(w) /\ Consistent(x)
  BY MessageTypes, SeenType DEF Views, Consistent
<1>2. SeenBy(t, room2) \in Views /\ Consistent(SeenBy(t, room2))
  BY SeenType
<1>3. CASE s \in room.table.streaming
  <2>1. Farewell(s, s \in room.table.streaming) = <<Ended(s), Left(s)>>
    BY <1>3 DEF Farewell
  <2>2. q \o <<Ended(s), Left(s)>> = Append(Append(q, Ended(s)), Left(s))
    BY <1>1, TwoMessages
  <2>3. Apply(w, Ended(s)) = x
    BY <1>1, MessageMeanings
  <2>4. Apply(x, Left(s)) = SeenBy(t, room2)
    <3>1. Apply(x, Left(s)) = [peers |-> x.peers \ {s}, streaming |-> x.streaming]
      BY <1>1, MessageMeanings
    <3> QED
      BY <3>1 DEF SeenBy
  <2> HIDE DEF w, x
  <2>5. Append(q, Ended(s)) \in Seq(Messages) /\ Shows(v, Append(q, Ended(s)), x)
    BY <1>1, <2>3, AppendShows DEF w
  <2>6. Shows(v, Append(Append(q, Ended(s)), Left(s)), SeenBy(t, room2))
    <3> DEFINE p == Append(q, Ended(s))
    <3>1. p \in Seq(Messages) /\ Shows(v, p, x) /\ Consistent(Apply(x, Left(s)))
      BY <1>2, <2>4, <2>5
    <3> HIDE DEF p
    <3>2. Shows(v, Append(p, Left(s)), Apply(x, Left(s)))
      BY <1>1, <3>1, AppendShows
    <3> QED
      BY <2>4, <3>2 DEF p
  <2> QED
    BY <2>1, <2>2, <2>6
<1>4. CASE s \notin room.table.streaming
  <2>1. Farewell(s, s \in room.table.streaming) = <<Left(s)>>
    BY <1>4 DEF Farewell
  <2>2. q \o <<Left(s)>> = Append(q, Left(s))
    BY <1>1, OneMessage
  <2>3. Apply(w, Left(s)) = SeenBy(t, room2)
    <3>1. Apply(w, Left(s)) = [peers |-> w.peers \ {s}, streaming |-> w.streaming]
      BY <1>1, MessageMeanings
    <3> QED
      BY <1>4, <3>1 DEF SeenBy
  <2> HIDE DEF w
  <2>4. Shows(v, Append(q, Left(s)), SeenBy(t, room2))
    BY <1>1, <1>2, <2>3, AppendShows DEF w
  <2> QED
    BY <2>1, <2>2, <2>4
<1> QED
  BY <1>3, <1>4

\* on_close, of a session in a room or after the rooms were emptied.
LEMMA OnCloseInv ==
    ASSUME RoomsInv, NEW s \in Sessions, OnClose(s)
    PROVE  RoomsInv'
<1> DEFINE r == room_id[s]
           R == RoomOf(s)
           room == [sessions |-> R.sessions \ {s}, table |-> Without(R.table, s),
                    router |-> Without(R.router, s)]
           farewell == Farewell(s, s \in R.table.streaming)
<1>1. /\ Seated /\ TypeOK /\ Told /\ phase[s] = "open" /\ r \in RoomIds /\ RoomOK(R)
      /\ phase' = [phase EXCEPT ![s] = "closed"]
      /\ view' = [view EXCEPT ![s] = NothingSeen]
      /\ UNCHANGED <<room_id, stopping, commands>>
  BY SeatedFacts DEF RoomsInv, Seated, OnClose
<1>2. /\ R.sessions \subseteq Sessions /\ R.table.streaming \subseteq R.sessions
  BY <1>1 DEF RoomOK, RoomRecords
<1>3. \A t \in Sessions : /\ phase'[t] = IF t = s THEN "closed" ELSE phase[t]
                          /\ view'[t] = IF t = s THEN NothingSeen ELSE view[t]
  BY <1>1 DEF TypeOK
<1>4. view' \in [Sessions -> Views] /\ phase' \in [Sessions -> Phases]
  BY <1>1 DEF TypeOK, NothingSeen, Views, Phases
\* The server has stopped and s was in no room any more.
<1>6. CASE s \notin R.sessions
  <2>1. /\ rooms' = rooms /\ Send(Silence) /\ stopping = "done"
    BY <1>1, <1>6 DEF OnClose, Seated, Placed
  <2>2. /\ Silence \in [Sessions -> Seq(Messages)]
        /\ \A t \in Sessions : Silence[t] = <<>>
    <3>1. <<>> \in Seq(Messages)
      OBVIOUS
    <3> QED
      BY <3>1 DEF Silence
  <2>3. /\ queue' \in [Sessions -> Seq(Messages)]
        /\ \A t \in Sessions : Len(queue'[t]) <= Capacity
        /\ lost' \subseteq Sessions
        /\ \A t \in Sessions : phase'[t] = "closed" => queue'[t] = <<>>
        /\ \A t \in Sessions \ lost' : phase'[t] # "closed" =>
              t \notin lost /\ queue'[t] = queue[t] \o Silence[t]
        /\ \A t \in Sessions : phase'[t] # "closed" /\ Silence[t] = <<>> => queue'[t] = queue[t]
    BY <1>1, <2>1, <2>2, SendFacts
  <2>4. TypeOK'
    BY <1>1, <1>4, <2>1, <2>3 DEF TypeOK, Views
  <2>5. Placed'
    <3>1. ASSUME NEW t \in Sessions, phase'[t] # "open"
          PROVE  queue'[t] = <<>> /\ view'[t] = NothingSeen
      BY <1>1, <1>3, <2>2, <2>3, <3>1 DEF Seated, Placed
    <3> QED
      BY <1>1, <1>3, <2>1, <3>1 DEF Seated, Placed
  <2>6. \A x \in RoomIds : rooms'[x] = NoRoom
    BY <1>1, <2>1 DEF Seated, StopIsFinal
  <2>7. RoomsSound' /\ RouterAgrees' /\ StopIsFinal'
    BY <2>6, EmptyRoom DEF RoomsSound, RouterAgrees, StopIsFinal
  <2>8. ASSUME NEW t \in Sessions \ lost' PROVE ToldTo(t)'
    <3>1. CASE phase'[t] # "open"
      BY <2>5, <3>1, Outsider DEF Placed
    <3>2. CASE phase'[t] = "open"
      <4>1. t # s /\ t \notin lost /\ queue'[t] = queue[t] /\ view'[t] = view[t]
        BY <1>3, <2>2, <2>3, <3>2
      <4> QED
        BY <1>1, <2>1, <4>1, Bystander DEF Told
    <3> QED
      BY <3>1, <3>2
  <2> QED
    BY <2>4, <2>5, <2>7, <2>8 DEF RoomsInv, Seated, Told
<1>7. CASE s \in R.sessions
  <2> DEFINE out == ToAll(R.sessions \ {s}, farewell)
  <2>1. /\ rooms' = [rooms EXCEPT ![r] = room] /\ Send(out)
    BY <1>7 DEF OnClose
  <2>2. /\ RoomOK(room) /\ room.sessions = R.sessions \ {s}
        /\ room.table.streaming = R.table.streaming \ {s}
    BY <1>1, <1>7, LeftRooms
  <2>3. stopping # "done"
    BY <1>1, <1>7, EmptyRoom DEF Seated, StopIsFinal, RoomOf
  <2>4. farewell \in Seq(Messages)
    <3>1. Ended(s) \in Messages /\ Left(s) \in Messages
      BY MessageTypes
    <3> QED
      BY <3>1 DEF Farewell
  <2> HIDE DEF room, farewell
  <2>5. /\ out \in [Sessions -> Seq(Messages)]
        /\ \A t \in Sessions : out[t] = IF t \in R.sessions \ {s} THEN farewell ELSE <<>>
    <3>1. <<>> \in Seq(Messages)
      OBVIOUS
    <3> QED
      BY <2>4, <3>1 DEF ToAll
  <2> HIDE DEF out
  <2>6. /\ queue' \in [Sessions -> Seq(Messages)]
        /\ \A t \in Sessions : Len(queue'[t]) <= Capacity
        /\ lost' \subseteq Sessions
        /\ \A t \in Sessions : phase'[t] = "closed" => queue'[t] = <<>>
        /\ \A t \in Sessions \ lost' : phase'[t] # "closed" =>
              t \notin lost /\ queue'[t] = queue[t] \o out[t]
        /\ \A t \in Sessions : phase'[t] # "closed" /\ out[t] = <<>> => queue'[t] = queue[t]
    BY <1>1, <2>1, <2>5, SendFacts
  <2>7. TypeOK'
    BY <1>1, <1>4, <2>1, <2>2, <2>6 DEF TypeOK, Views, RoomOK, RoomRecords
  <2>8. \A t \in Sessions : RoomOf(t)' = IF room_id[t] = r THEN room ELSE RoomOf(t)
    <3>1. \A t \in Sessions : room_id[t] # r => rooms'[room_id[t]] = rooms[room_id[t]]
      BY <1>1, <2>1 DEF TypeOK
    <3> QED
      BY <1>1, <2>1, <3>1 DEF RoomOf, TypeOK
  <2>9. Placed'
    <3>1. ASSUME NEW t \in Sessions, phase'[t] # "open"
          PROVE  queue'[t] = <<>> /\ view'[t] = NothingSeen
      <4>1. CASE t = s
        BY <1>3, <2>6, <4>1
      <4>2. CASE t # s
        <5>1. phase[t] # "open"
          BY <1>3, <3>1, <4>2
        <5>2. t \notin R.sessions
          BY <1>1, <5>1, SeatedFacts
        <5> QED
          BY <1>1, <1>3, <2>5, <2>6, <4>2, <5>1, <5>2 DEF Seated, Placed
      <4> QED
        BY <4>1, <4>2
    <3>2. ASSUME NEW t \in Sessions, phase'[t] = "open" PROVE t \in RoomOf(t)'.sessions
      <4>1. t # s /\ t \in RoomOf(t).sessions
        BY <1>1, <1>3, <2>3, <3>2 DEF Seated, Placed
      <4> QED
        BY <2>2, <2>8, <4>1 DEF RoomOf
    <3> QED
      BY <1>1, <1>3, <3>1, <3>2 DEF Seated, Placed
  <2>10. Seated'
    <3>1. \A t \in room.sessions : phase'[t] = "open" /\ room_id'[t] = r
      BY <1>1, <1>2, <1>3, <2>2, SeatedFacts
    <3>2. \A t \in Sessions : phase[t] = "open" /\ room_id[t] # r =>
             phase'[t] = "open" /\ room_id'[t] = room_id[t]
      BY <1>1, <1>3
    <3> QED
      BY <1>1, <2>1, <2>2, <2>3, <2>7, <2>9, <3>1, <3>2, RoomChanges
  <2>11. ASSUME NEW t \in Sessions \ lost' PROVE ToldTo(t)'
    <3>1. CASE phase'[t] # "open"
      BY <2>9, <3>1, Outsider DEF Placed
    <3>2. CASE phase'[t] = "open" /\ t \in R.sessions
      <4>1. /\ t # s /\ phase[t] = "open" /\ room_id[t] = r
            /\ RoomOf(t) = R /\ RoomOf(t)' = room /\ view'[t] = view[t]
            /\ view[t] \in Views /\ queue[t] \in Seq(Messages)
        BY <1>1, <1>3, <2>8, <3>2, SeatedFacts DEF TypeOK, Views
      <4>2. queue'[t] = queue[t] \o farewell /\ t \notin lost
        BY <2>5, <2>6, <3>2, <4>1
      <4>3. Shows(view[t], queue[t], SeenBy(t, R))
        BY <1>1, <2>3, <4>1, <4>2 DEF Told, ToldTo, Shows
      <4>4. Shows(view[t], queue[t] \o farewell, SeenBy(t, room))
        BY <1>1, <2>2, <4>1, <4>3, FarewellHeard DEF farewell
      <4>5. Shows(view'[t], queue'[t], SeenBy(t, RoomOf(t)'))
        BY <4>1, <4>2, <4>4
      <4> QED
        BY <4>5 DEF ToldTo, Shows, SeenBy
    <3>3. CASE phase'[t] = "open" /\ t \notin R.sessions
      <4>1. t # s /\ phase[t] = "open" /\ view'[t] = view[t] /\ out[t] = <<>>
        BY <1>3, <2>5, <3>3
      <4>2. queue'[t] = queue[t] /\ t \notin lost
        BY <2>6, <3>3, <4>1
      <4>3. RoomOf(t)' = RoomOf(t)
        BY <1>1, <2>3, <2>8, <3>3, <4>1, SeatedFacts
      <4> QED
        BY <1>1, <4>1, <4>2, <4>3, Bystander DEF Told
    <3> QED
      BY <3>1, <3>2, <3>3
  <2> QED
    BY <2>10, <2>11 DEF RoomsInv, Told
<1> QED
  BY <1>6, <1>7

-----------------------------------------------------------------------------
\* Every step of the server keeps the invariant.
LEMMA RoomsNext == RoomsInv /\ [Next]_vars => RoomsInv'
<1> SUFFICES ASSUME RoomsInv, [Next]_vars PROVE RoomsInv'
  OBVIOUS
<1>1. ASSUME NEW s \in Sessions, NEW r \in RoomIds, OnHttpRead(s, r) PROVE RoomsInv'
  BY <1>1, OnHttpReadInv
<1>2. ASSUME NEW s \in Sessions, NEW identified \in BOOLEAN, OnIdentity(s, identified)
      PROVE  RoomsInv'
  <2> DEFINE ph == IF identified THEN "accepting" ELSE "refused"
  <2>1. /\ ph \in {"accepting", "refused"} /\ phase[s] \in {"authorizing", "accepting"}
        /\ phase' = [phase EXCEPT ![s] = ph]
        /\ UNCHANGED <<room_id, rooms, queue, lost, view, stopping, commands>>
    BY <1>2 DEF OnIdentity
  <2> HIDE DEF ph
  <2> QED
    BY <2>1, UnopenedInv
<1>3. ASSUME NEW s \in Sessions, OnAccept(s) PROVE RoomsInv'
  BY <1>3, OnAcceptInv
<1>4. ASSUME NEW s \in Sessions, AcceptFails(s) PROVE RoomsInv'
  BY <1>4, UnopenedInv DEF AcceptFails
<1>5. ASSUME NEW s \in Sessions, OnStreamingStart(s) PROVE RoomsInv'
  BY <1>5, OnStreamingStartInv
<1>6. ASSUME NEW s \in Sessions, OnStreamingStop(s) PROVE RoomsInv'
  BY <1>6, OnStreamingStopInv
<1>7. ASSUME NEW s \in Sessions, NEW p \in Sessions, OnWatchStart(s, p) PROVE RoomsInv'
  BY <1>7, OnWatchStartInv
<1>8. ASSUME NEW s \in Sessions, NEW p \in Sessions, OnWatchStop(s, p) PROVE RoomsInv'
  BY <1>8, OnWatchStopInv
<1>9. ASSUME NEW s \in Sessions, OnClose(s) PROVE RoomsInv'
  BY <1>9, OnCloseInv
<1>10. ASSUME NEW s \in Sessions, SendMedia(s) PROVE RoomsInv'
  BY <1>10, SendMediaInv
<1>11. ASSUME NEW s \in Sessions, OnWrite(s) PROVE RoomsInv'
  BY <1>11, OnWriteInv
<1>12. CASE SetStopping
  BY <1>12, SetStoppingInv
<1>13. CASE ClearRooms
  BY <1>13, ClearRoomsInv
<1>14. CASE UNCHANGED vars
  BY <1>14 DEF vars, RoomsInv, Seated, TypeOK, RoomsSound, RouterAgrees, StopIsFinal,
               Placed, Told, ToldTo, RoomOf
<1> QED
  BY <1>1, <1>2, <1>3, <1>4, <1>5, <1>6, <1>7, <1>8, <1>9, <1>10, <1>11, <1>12,
     <1>13, <1>14 DEF Next

\* The inductive invariant holds in every reachable state.
THEOREM RoomsInvariance == Spec => []RoomsInv
<1>1. Init => RoomsInv
  BY StartHolds
<1>2. RoomsInv /\ [Next]_vars => RoomsInv'
  BY RoomsNext
<1> QED
  BY <1>1, <1>2, PTL DEF Spec

(***************************************************************************)
(* Rooms refer to their own open sessions, their routers agree with them,  *)
(* and once the server has stopped there is no room any more.              *)
(***************************************************************************)
THEOREM TablesStayConsistent == Spec => []TablesConsistent
<1>1. RoomsInv => TablesConsistent
  BY DEF RoomsInv, Seated, TablesConsistent
<1> QED
  BY <1>1, RoomsInvariance, PTL

(***************************************************************************)
(* A client that applies everything waiting for it knows its room as it    *)
(* is, unless its queue overflowed.                                        *)
(***************************************************************************)
THEOREM ViewsAlwaysConverge == Spec => []ViewsConverge
<1>1. RoomsInv => ViewsConverge
  BY DEF RoomsInv, Told, ToldTo, ViewsConverge
<1> QED
  BY <1>1, RoomsInvariance, PTL

(***************************************************************************)
(* A client whose queue never overflowed shows no stream of a peer that it *)
(* does not show, at any moment.                                           *)
(***************************************************************************)
THEOREM StreamsAlwaysBelong == Spec => []StreamsBelongToPeers
<1>1. ASSUME RoomsInv, NEW s \in Sessions \ lost
      PROVE  view[s].streaming \subseteq view[s].peers
  <2>1. InOrder(view[s], queue[s]) /\ view[s] \in Views /\ queue[s] \in Seq(Messages)
    BY <1>1 DEF RoomsInv, Seated, TypeOK, Told, ToldTo, Views
  <2>2. 0 \in 0..Len(queue[s])
    BY <2>1
  <2> QED
    BY <2>1, <2>2, NothingApplied DEF InOrder, Consistent
<1>2. RoomsInv => StreamsBelongToPeers
  BY <1>1 DEF StreamsBelongToPeers
<1> QED
  BY <1>2, RoomsInvariance, PTL

-----------------------------------------------------------------------------
\* A connection without a PeerConnection has no tracks, and a PeerConnection
\* is only in the connection that it was created for.
TablesFit ==
    \A c \in ConnectionIds :
        /\ connections[c].pc = Nil =>
              \A m \in Mids : connections[c].tracks[m] = Nil
        /\ connections[c].pc # Nil => made[connections[c].pc] = c
        /\ \A m \in Mids : connections[c].tracks[m] # Nil =>
              brought[connections[c].tracks[m]] = connections[c].pc

(***************************************************************************)
(* accept_offer and the table.  Only accept_offer installs, one at a time, *)
(* so what it looked up is still there or gone, and once that is removed   *)
(* the place stays empty until it installs.                                *)
(***************************************************************************)
OfferFits ==
    offer # Nil =>
        LET c == offer.connection IN
        /\ offer.step = "remove" => connections[c].pc \in {offer.pc, Nil}
        /\ offer.step \in {"create", "install"} => connections[c].pc = Nil
        /\ offer.step \in {"install", "apply"} =>
              offer.pc \in Pcs /\ made[offer.pc] = c

\* Tracks come from PeerConnections that were created, and onClosed is
\* called for tracks that are closed.
CallbacksFit ==
    /\ \A pc \in negotiated : made[pc] # Nil
    /\ \A a \in arriving : a.pc \in negotiated /\ brought[a.track] = a.pc
    /\ notifying \subseteq closed

\* Whom somebody still has to close, or has closed.
Accounted == (UNION {Held(c) : c \in ConnectionIds}) \cup closing \cup closed

\* The inductive invariant of the connections.
MediaInv ==
    /\ MediaTypeOK
    /\ TablesFit
    /\ OfferFits
    /\ CallbacksFit
    /\ NothingLeaks

-----------------------------------------------------------------------------
\* What Held contains, element by element.
LEMMA HeldElements ==
  ASSUME NEW c, NEW x
  PROVE  x \in Held(c) <=>
            /\ x # Nil
            /\ \/ x = connections[c].pc
               \/ \E m \in Mids : x = connections[c].tracks[m]
  BY DEF Held

\* What Accounted contains, element by element.
LEMMA AccountedElements ==
  ASSUME NEW x
  PROVE  x \in Accounted <=> \/ \E c \in ConnectionIds : x \in Held(c)
                            \/ x \in closing
                            \/ x \in closed
  BY DEF Accounted

\* NothingLeaks in terms of Accounted.
LEMMA LeaksElements ==
  NothingLeaks <=>
    /\ \A pc \in Pcs : made[pc] # Nil =>
          \/ pc \in Accounted
          \/ offer # Nil /\ offer.pc = pc /\ offer.step = "install"
    /\ \A t \in hooked : t \in Accounted
    /\ \A a \in arriving : a.registered => a.track \in Accounted
  BY DEF NothingLeaks, Accounted

\* All that Held takes is a PeerConnection or a track.
LEMMA HeldType ==
  ASSUME MediaTypeOK, NEW c \in ConnectionIds
  PROVE  Held(c) \subseteq Pcs \cup Tracks
  BY HeldElements DEF MediaTypeOK

\* Nothing is there when a session begins.
LEMMA MediaStart == MediaInit => MediaInv
  <1> SUFFICES ASSUME MediaInit PROVE MediaInv
    OBVIOUS
  <1>1. MediaTypeOK
    BY DEF MediaInit, MediaTypeOK, NoConnection
  <1>2. TablesFit /\ OfferFits /\ CallbacksFit
    BY DEF MediaInit, TablesFit, OfferFits, CallbacksFit,
       NoConnection
  <1>3. NothingLeaks
    BY LeaksElements DEF MediaInit
  <1> QED
    BY <1>1, <1>2, <1>3 DEF MediaInv

(***************************************************************************)
(* remove_and_close under the mutex: the connection is as it was or empty, *)
(* and what it held will be closed.                                        *)
(***************************************************************************)
LEMMA RemoveAndCloseKeeps ==
  ASSUME MediaTypeOK, TablesFit, NEW d \in ConnectionIds,
     NEW pc \in Pcs \cup {Nil},
         RemoveAndClose(d, pc), closed' = closed
  PROVE  /\ connections' \in [ConnectionIds -> [pc : Pcs \cup {Nil},
                                  tracks : [Mids -> Tracks \cup {Nil}]]]
         /\ closing' \subseteq Pcs \cup Tracks
         /\ \A c \in ConnectionIds :
               \/ connections'[c] = connections[c]
               \/ connections'[c] = NoConnection
         /\ Owns(d, pc) => connections'[d] = NoConnection
         /\ \A x : x \in Accounted => x \in Accounted'
  <1>1. CASE Owns(d, pc)
    <2>1. connections' = [connections EXCEPT ![d] = NoConnection]
          /\ closing' = closing \cup Held(d)
      BY <1>1 DEF RemoveAndClose, Taken
    <2>2. NoConnection \in [pc : Pcs \cup {Nil},
       tracks : [Mids -> Tracks \cup {Nil}]]
      BY DEF NoConnection
    <2>3. \A c \in ConnectionIds : connections'[c] =
              IF c = d THEN NoConnection ELSE connections[c]
      BY <2>1 DEF MediaTypeOK
    <2>4. closing' \subseteq Pcs \cup Tracks
      BY <2>1, HeldType DEF MediaTypeOK
    <2>5. ASSUME NEW x, x \in Accounted PROVE x \in Accounted'
      <3>1. CASE \E c \in ConnectionIds : x \in Held(c)
        <4>1. PICK c \in ConnectionIds : x \in Held(c)
          BY <3>1
        <4>2. CASE c = d
          BY <4>1, <4>2, <2>1, AccountedElements DEF Accounted
        <4>3. CASE c # d
          <5>1. x \in Held(c)'
            BY <4>1, <4>3, <2>3 DEF Held
          <5> QED
            BY <5>1 DEF Accounted
        <4> QED
          BY <4>2, <4>3
      <3> QED
        BY <3>1, <2>5, <2>1, AccountedElements DEF Accounted
    <2> QED
      BY <2>1, <2>2, <2>3, <2>4, <2>5 DEF MediaTypeOK
  <1>2. CASE ~Owns(d, pc)
    BY <1>2 DEF RemoveAndClose, Taken,
       MediaTypeOK, Accounted, Held
  <1> QED
    BY <1>1, <1>2

\* close() and the destructor: every connection is emptied.
LEMMA AllTakenKeeps ==
  ASSUME MediaTypeOK, AllTaken, closed' = closed
  PROVE  /\ connections' \in [ConnectionIds -> [pc : Pcs \cup {Nil},
                                  tracks : [Mids -> Tracks \cup {Nil}]]]
         /\ closing' \subseteq Pcs \cup Tracks
         /\ \A c \in ConnectionIds : connections'[c] = NoConnection
         /\ \A x : x \in Accounted => x \in Accounted'
  <1>1. connections' \in [ConnectionIds -> [pc : Pcs \cup {Nil},
                                  tracks : [Mids -> Tracks \cup {Nil}]]]
        /\ \A c \in ConnectionIds : connections'[c] = NoConnection
    BY DEF AllTaken, NoConnection
  <1>2. closing' = closing \cup UNION {Held(c) : c \in ConnectionIds}
    BY DEF AllTaken
  <1>3. closing' \subseteq Pcs \cup Tracks
    BY <1>2, HeldType DEF MediaTypeOK
  <1>4. \A x : x \in Accounted => x \in Accounted'
    BY <1>2 DEF Accounted
  <1> QED
    BY <1>1, <1>3, <1>4

\* Tables stay right when connections stay as they are or are emptied.
LEMMA EmptyingKeeps ==
  ASSUME TablesFit, OfferFits, MediaTypeOK,
         \A c \in ConnectionIds : connections'[c] = connections[c]
                                 \/ connections'[c] = NoConnection,
         UNCHANGED <<made, brought>>
  PROVE  /\ TablesFit'
         /\ UNCHANGED offer => OfferFits'
  <1>1. TablesFit'
    BY DEF TablesFit, NoConnection
  <1>2. UNCHANGED offer => OfferFits'
    BY DEF OfferFits, NoConnection, MediaTypeOK,
       Offers
  <1> QED
    BY <1>1, <1>2

\* Nothing leaks when nothing new is made or registered.
LEMMA LeaksKept ==
  ASSUME NothingLeaks, \A x : x \in Accounted => x \in Accounted',
         UNCHANGED <<made, hooked, arriving>>,
         \A pc \in Pcs : offer # Nil /\ offer.pc = pc /\ offer.step = "install" =>
             \/ pc \in Accounted'
             \/ offer' # Nil /\ offer'.pc = pc /\ offer'.step = "install"
  PROVE  NothingLeaks'
  BY DEF NothingLeaks, Accounted

-----------------------------------------------------------------------------
\* accept_offer up to the constructor: what it clears away is accounted for.
LEMMA AcceptOfferStep ==
  ASSUME MediaInv, NEW c \in ConnectionIds, AcceptOffer(c)
  PROVE  MediaInv'
  <1> USE DEF MediaInv
  <1>1. offer' \in Offers /\ offer'.connection = c /\ offer'.step = "remove"
        /\ offer'.pc = connections[c].pc
    BY DEF AcceptOffer, Offers, Steps,
       MediaTypeOK
  <1>2. MediaTypeOK'
    BY <1>1 DEF AcceptOffer, MediaTypeOK
  <1>3. TablesFit' /\ CallbacksFit'
    BY DEF AcceptOffer, TablesFit, CallbacksFit
  <1>4. OfferFits'
    BY <1>1 DEF AcceptOffer, OfferFits
  <1>5. NothingLeaks'
    BY LeaksKept DEF AcceptOffer, Accounted, Held
  <1> QED
    BY <1>2, <1>3, <1>4, <1>5

\* The old PeerConnection goes before the new one is made.
LEMMA RemoveOldStep ==
  ASSUME MediaInv, RemoveOld
  PROVE  MediaInv'
  <1> DEFINE c == offer.connection
  <1>1. /\ offer \in Offers /\ offer # Nil /\ offer.step = "remove"
        /\ c \in ConnectionIds /\ offer.pc \in Pcs \cup {Nil}
        /\ connections[c].pc \in {offer.pc, Nil}
        /\ RemoveAndClose(c, offer.pc)
    BY DEF RemoveOld, ClearTheWay, MediaInv,
       MediaTypeOK, OfferFits, Offers
  <1>2. /\ offer' = [offer EXCEPT !.step = "create", !.pc = Nil,
                                  !.removing = Taken(c, offer.pc)]
        /\ UNCHANGED <<held, made, negotiated, brought, arriving, hooked, closed,
           notifying>>
    BY DEF RemoveOld
  <1> HIDE DEF c
  <1>3. /\ connections' \in [ConnectionIds -> [pc : Pcs \cup {Nil},
                                  tracks : [Mids -> Tracks \cup {Nil}]]]
        /\ closing' \subseteq Pcs \cup Tracks
        /\ \A d \in ConnectionIds : connections'[d] = connections[d]
                                   \/ connections'[d] = NoConnection
        /\ Owns(c,
           offer.pc) => connections'[c] = NoConnection
        /\ \A x : x \in Accounted => x \in Accounted'
    BY <1>1, <1>2, RemoveAndCloseKeeps DEF MediaInv
  <1>4. Taken(c, offer.pc) \subseteq Pcs \cup Tracks
    BY <1>1, HeldType DEF Taken, MediaInv
  <1>5. offer' \in Offers /\ offer'.step = "create" /\ offer'.connection = c
    BY <1>1, <1>2, <1>4 DEF Offers, Steps, c
  <1>6. connections'[c].pc = Nil
    <2>1. CASE Owns(c, offer.pc)
      BY <2>1, <1>3 DEF NoConnection
    <2>2. CASE ~Owns(c, offer.pc)
      BY <2>2, <1>1, <1>3 DEF Owns, NoConnection
    <2> QED
      BY <2>1, <2>2
  <1>7. MediaTypeOK'
    BY <1>2, <1>3, <1>5 DEF MediaInv, MediaTypeOK
  <1>8. TablesFit'
    BY <1>2, <1>3, EmptyingKeeps DEF MediaInv
  <1>9. OfferFits'
    BY <1>5, <1>6 DEF OfferFits
  <1>10. CallbacksFit'
    BY <1>2 DEF MediaInv, CallbacksFit
  <1>11. NothingLeaks'
    BY <1>1, <1>2, <1>3, LeaksKept DEF MediaInv
  <1> QED
    BY <1>7, <1>8, <1>9, <1>10, <1>11 DEF MediaInv

\* A new PeerConnection is in the hands of accept_offer until it is installed.
LEMMA CreatePcStep ==
  ASSUME MediaInv, NEW pc \in Pcs,
     CreatePc(pc)
  PROVE  MediaInv'
  <1> USE DEF MediaInv
  <1>1. offer \in Offers /\ offer # Nil /\ offer.step = "create" /\ made[pc] = Nil
        /\ offer.connection \in ConnectionIds /\ connections[offer.connection].pc = Nil
    BY DEF CreatePc, MediaTypeOK, Offers, OfferFits
  <1>2. CASE offer' = Nil /\ UNCHANGED made
    <2>1. MediaTypeOK' /\ TablesFit' /\ OfferFits' /\ CallbacksFit'
      BY <1>2 DEF CreatePc, MediaTypeOK, TablesFit, OfferFits,
         CallbacksFit
    <2>2. NothingLeaks'
      BY <1>1, <1>2, LeaksKept DEF CreatePc, Accounted, Held
    <2> QED
      BY <2>1, <2>2
  <1>3. CASE /\ made' = [made EXCEPT ![pc] = offer.connection]
             /\ offer' = [offer EXCEPT !.step = "install", !.pc = pc,
                !.removing = {}]
    <2>1. /\ offer' \in Offers /\ offer' # Nil /\ offer'.step = "install"
          /\ offer'.pc = pc /\ offer'.connection = offer.connection
      BY <1>1, <1>3, MediaConstants DEF Offers,
         Steps
    <2>2. \A p \in Pcs : made'[p] = IF p = pc THEN offer.connection ELSE made[p]
      BY <1>3 DEF MediaTypeOK
    <2>3. MediaTypeOK'
      BY <1>1, <1>3, <2>1 DEF CreatePc, MediaTypeOK
    <2>4. TablesFit'
      BY <1>1, <2>2, MediaConstants DEF CreatePc,
         TablesFit, MediaTypeOK
    <2>5. OfferFits'
      BY <1>1, <2>1, <2>2 DEF CreatePc, OfferFits
    <2>6. CallbacksFit'
      BY <1>1, <2>2, MediaConstants DEF CreatePc,
         CallbacksFit, MediaTypeOK
    <2>7. NothingLeaks'
      BY <1>1, <2>1, <2>2 DEF CreatePc, NothingLeaks,
         Held
    <2> QED
      BY <2>3, <2>4, <2>5, <2>6, <2>7
  <1> QED
    BY <1>2, <1>3 DEF CreatePc

\* Nothing is overwritten by the installation.
LEMMA InstallPcStep ==
  ASSUME MediaInv, InstallPc
  PROVE  MediaInv'
  <1> USE DEF MediaInv
  <1> PICK c, p : c = offer.connection /\ p = offer.pc
    OBVIOUS
  <1>1. /\ offer \in Offers /\ offer # Nil /\ offer.step = "install"
        /\ c \in ConnectionIds /\ p \in Pcs /\ p # Nil /\ made[p] = c
        /\ connections[c].pc = Nil /\ \A m \in Mids : connections[c].tracks[m] = Nil
    BY MediaConstants DEF InstallPc, MediaTypeOK,
       Offers, OfferFits, TablesFit
  <1>2. offer' \in Offers /\ offer' # Nil /\ offer'.step = "apply"
        /\ offer'.pc = p /\ offer'.connection = c
    BY <1>1, MediaConstants DEF InstallPc,
       Offers, Steps
  <1>3. [NoConnection EXCEPT !.pc = p] =
           [pc |-> p, tracks |-> [m \in Mids |-> Nil]]
    BY DEF NoConnection
  <1>4. \A d \in ConnectionIds : connections'[d] =
           IF d = c THEN [pc |-> p,
              tracks |-> [m \in Mids |-> Nil]] ELSE connections[d]
    BY <1>1, <1>3 DEF InstallPc, MediaTypeOK
  <1>5. MediaTypeOK'
    <2>1. connections' \in [ConnectionIds -> [pc : Pcs \cup {Nil},
                                  tracks : [Mids -> Tracks \cup {Nil}]]]
      BY <1>1, <1>3 DEF InstallPc, MediaTypeOK
    <2> QED
      BY <2>1, <1>2 DEF InstallPc, MediaTypeOK
  <1>6. TablesFit'
    BY <1>1, <1>4 DEF InstallPc, TablesFit
  <1>7. OfferFits'
    BY <1>1, <1>2 DEF InstallPc, OfferFits
  <1>8. CallbacksFit'
    BY DEF InstallPc, CallbacksFit
  <1>9. p \in Accounted' /\ \A x : x \in Accounted => x \in Accounted'
    <2>1. p \in Held(c)'
      BY <1>1, <1>4 DEF Held
    <2>2. ASSUME NEW x, NEW d \in ConnectionIds,
       x \in Held(d) PROVE x \in Held(d)'
      BY <2>2, <1>1, <1>4 DEF Held
    <2> QED
      BY <2>1, <2>2, <1>1 DEF InstallPc, Accounted
  <1>10. NothingLeaks'
    BY <1>9, LeaksKept DEF InstallPc
  <1> QED
    BY <1>5, <1>6, <1>7, <1>8, <1>10

\* A bad offer takes its PeerConnection away again.
LEMMA ApplyOfferStep ==
  ASSUME MediaInv, ApplyOffer
  PROVE  MediaInv'
  <1> USE DEF MediaInv
  <1>1. /\ offer \in Offers /\ offer # Nil /\ offer.step = "apply" /\ offer' = Nil
        /\ offer.connection \in ConnectionIds /\ offer.pc \in Pcs
        /\ made[offer.pc] = offer.connection
    BY DEF ApplyOffer, MediaTypeOK, Offers, OfferFits
  <1>2. CASE /\ negotiated' = negotiated \cup {offer.pc}
             /\ UNCHANGED <<connections, closing>>
    <2>1. MediaTypeOK' /\ TablesFit' /\ OfferFits'
      BY <1>1, <1>2 DEF ApplyOffer, MediaTypeOK, TablesFit,
         OfferFits
    <2>2. CallbacksFit'
      BY <1>1, <1>2, MediaConstants DEF ApplyOffer,
         CallbacksFit
    <2>3. NothingLeaks'
      BY <1>1, <1>2, LeaksKept DEF ApplyOffer, Accounted,
         Held
    <2> QED
      BY <2>1, <2>2, <2>3
  <1>3. CASE RemoveAndClose(offer.connection,
     offer.pc) /\ UNCHANGED negotiated
    <2>1. /\ connections' \in [ConnectionIds -> [pc : Pcs \cup {Nil},
                                  tracks : [Mids -> Tracks \cup {Nil}]]]
          /\ closing' \subseteq Pcs \cup Tracks
          /\ \A d \in ConnectionIds : connections'[d] = connections[d]
                                     \/ connections'[d] = NoConnection
          /\ \A x : x \in Accounted => x \in Accounted'
      BY <1>1, <1>3, RemoveAndCloseKeeps DEF ApplyOffer
    <2>2. MediaTypeOK' /\ OfferFits' /\ CallbacksFit'
      BY <1>1, <1>3, <2>1 DEF ApplyOffer, MediaTypeOK,
         OfferFits, CallbacksFit
    <2>3. TablesFit'
      BY <2>1, EmptyingKeeps DEF ApplyOffer
    <2>4. NothingLeaks'
      BY <1>1, <2>1, LeaksKept DEF ApplyOffer
    <2> QED
      BY <2>2, <2>3, <2>4
  <1> QED
    BY <1>2, <1>3 DEF ApplyOffer

-----------------------------------------------------------------------------
\* A track arrives that nobody has seen before.
LEMMA OnTrackStep ==
  ASSUME MediaInv, NEW pc \in Pcs, NEW t \in Tracks,
     NEW m \in Mids, OnTrack(pc, t, m)
  PROVE  MediaInv'
  <1> USE DEF MediaInv
  <1>1. \A u \in Tracks : brought'[u] = IF u = t THEN pc ELSE brought[u]
    BY DEF OnTrack, MediaTypeOK
  <1>2. \A a \in arriving' : a \in arriving
           \/ (a.pc = pc /\ a.track = t /\ ~a.registered /\ a \in Arrivals)
    <2> DEFINE b == [pc |-> pc, track |-> t, mid |-> m, registered |-> FALSE]
    <2>1. b \in Arrivals /\ b.pc = pc /\ b.track = t /\ b.registered = FALSE
      BY DEF Arrivals
    <2>2. arriving' = arriving \cup {b}
      BY DEF OnTrack
    <2> HIDE DEF b
    <2> QED
      BY <2>1, <2>2
  <1>3. MediaTypeOK'
    BY <1>2 DEF OnTrack, MediaTypeOK
  <1>4. TablesFit'
    <2> SUFFICES ASSUME NEW c \in ConnectionIds, NEW n \in Mids,
                        connections[c].tracks[n] = t
                 PROVE  FALSE
      BY <1>1 DEF OnTrack, TablesFit, MediaTypeOK
    <2>1. connections[c].pc = Nil
      BY MediaConstants DEF OnTrack, TablesFit
    <2> QED
      BY <2>1, MediaConstants DEF TablesFit
  <1>5. OfferFits' /\ CallbacksFit'
    <2>1. OfferFits'
      BY DEF OnTrack, OfferFits
    <2>2. ASSUME NEW a \in arriving, a.track = t PROVE FALSE
      BY <2>2, MediaConstants DEF OnTrack, CallbacksFit,
         MediaTypeOK
    <2>3. CallbacksFit'
      BY <1>1, <1>2, <2>2 DEF OnTrack, CallbacksFit,
         MediaTypeOK, Arrivals
    <2> QED
      BY <2>1, <2>3
  <1>6. NothingLeaks'
    BY <1>2 DEF OnTrack, NothingLeaks, Held
  <1> QED
    BY <1>3, <1>4, <1>5, <1>6

(***************************************************************************)
(* register_track: the track gets into the table of the PeerConnection     *)
(* that has brought it or nowhere, and the one it replaces will be closed. *)
(***************************************************************************)
LEMMA RegisterTrackStep ==
  ASSUME MediaInv, NEW a \in arriving,
     RegisterTrack(a)
  PROVE  MediaInv'
  <1> USE DEF MediaInv
  <1> PICK c : c = made[a.pc]
    OBVIOUS
  <1>1. /\ a \in Arrivals /\ a.pc \in Pcs /\ a.track \in Tracks /\ a.mid \in Mids
        /\ c \in ConnectionIds /\ brought[a.track] = a.pc /\ a.pc \in negotiated
        /\ a.pc # Nil /\ a.track # Nil
    BY MediaConstants DEF MediaTypeOK, Arrivals,
       CallbacksFit
  <1>2. CASE ~Owns(c, a.pc)
    <2>1. arriving' = arriving \ {a} /\ UNCHANGED <<connections, closing>>
      BY <1>2 DEF RegisterTrack
    <2>2. MediaTypeOK' /\ TablesFit' /\ OfferFits' /\ CallbacksFit'
      BY <2>1 DEF RegisterTrack, MediaTypeOK, TablesFit,
         OfferFits, CallbacksFit
    <2>3. NothingLeaks'
      BY <2>1 DEF RegisterTrack, NothingLeaks,
         Held
    <2> QED
      BY <2>2, <2>3
  <1>3. CASE Owns(c, a.pc)
    <2> DEFINE b == [a EXCEPT !.registered = TRUE]
               old == connections[c].tracks[a.mid]
    <2>1. /\ connections' = [connections EXCEPT ![c].tracks[a.mid] = a.track]
          /\ closing' = closing \cup ({old} \ {Nil})
          /\ arriving' = (arriving \ {a}) \cup {b}
          /\ connections[c].pc = a.pc
      BY <1>3 DEF RegisterTrack, Owns
    <2>2. b \in Arrivals /\ b.pc = a.pc /\ b.track = a.track
      BY <1>1 DEF Arrivals
    <2>3. /\ connections' \in [ConnectionIds -> [pc : Pcs \cup {Nil},
                                  tracks : [Mids -> Tracks \cup {Nil}]]]
          /\ \A d \in ConnectionIds : connections'[d].pc = connections[d].pc
          /\ \A d \in ConnectionIds, m \in Mids : connections'[d].tracks[m] =
                IF d = c /\ m = a.mid THEN a.track ELSE connections[d].tracks[m]
      BY <1>1, <2>1 DEF MediaTypeOK
    <2>4. old \in Tracks \cup {Nil}
      BY <1>1 DEF MediaTypeOK
    <2>5. MediaTypeOK'
      BY <2>1, <2>2, <2>3, <2>4 DEF RegisterTrack, MediaTypeOK
    <2>6. TablesFit'
      <3>1. UNCHANGED <<made, brought>>
        BY DEF RegisterTrack
      <3> SUFFICES ASSUME NEW d \in ConnectionIds
                   PROVE  /\ connections'[d].pc = Nil =>
                                \A m \in Mids : connections'[d].tracks[m] = Nil
                          /\ connections'[d].pc # Nil => made[connections'[d].pc] = d
                          /\ \A m \in Mids : connections'[d].tracks[m] # Nil =>
                                brought[connections'[d].tracks[m]] = connections'[d].pc
        BY <3>1 DEF TablesFit
      <3>2. connections'[d].pc = connections[d].pc
        BY <2>3
      <3>3. CASE d = c
        <4>1. connections[d].pc = a.pc /\ a.pc # Nil /\ brought[a.track] = a.pc
          BY <1>1, <2>1, <3>3, MediaConstants
        <4>2. ASSUME NEW m \in Mids, connections'[d].tracks[m] # Nil
              PROVE  brought[connections'[d].tracks[m]] = connections[d].pc
          <5>1. CASE m = a.mid
            BY <2>3, <3>3, <4>1, <5>1
          <5>2. CASE m # a.mid
            BY <2>3, <4>2, <5>2 DEF TablesFit
          <5> QED
            BY <5>1, <5>2
        <4> QED
          BY <3>2, <4>1, <4>2 DEF TablesFit
      <3>4. CASE d # c
        <4>1. \A m \in Mids : connections'[d].tracks[m] = connections[d].tracks[m]
          BY <2>3, <3>4
        <4> QED
          BY <3>2, <4>1 DEF TablesFit
      <3> QED
        BY <3>3, <3>4
    <2>7. OfferFits'
      BY <2>3 DEF RegisterTrack, OfferFits, MediaTypeOK,
         Offers
    <2>8. CallbacksFit'
      BY <1>1, <2>1, <2>2 DEF RegisterTrack, CallbacksFit
    <2>9. a.track \in Held(c)'
      BY <1>1, <2>3 DEF Held
    <2>10. ASSUME NEW x, x \in Accounted PROVE x \in Accounted'
      <3>1. ASSUME NEW d \in ConnectionIds, x \in Held(d), x # old
            PROVE  x \in Held(d)'
        BY <3>1, <2>3 DEF Held
      <3>2. ASSUME NEW d \in ConnectionIds, x \in Held(d), x = old
            PROVE  x \in closing'
        BY <3>2, <2>1 DEF Held
      <3> QED
        BY <2>10, <3>1, <3>2, <2>1 DEF RegisterTrack, Accounted
    <2> HIDE DEF b
    <2>11. NothingLeaks'
      <3>1. a.track \in Accounted'
        BY <1>1, <2>9 DEF Accounted
      <3> QED
        BY <2>1, <2>2, <2>10, <3>1, SMTT(30) DEF RegisterTrack,
           NothingLeaks, Accounted
    <2> QED
      BY <2>5, <2>6, <2>7, <2>8, <2>11
  <1> QED
    BY <1>2, <1>3

\* The track is as accounted for as it was.
LEMMA HookTrackStep ==
  ASSUME MediaInv, NEW a \in arriving, HookTrack(a)
  PROVE  MediaInv'
  <1> USE DEF MediaInv
  <1>1. a \in Arrivals /\ a.track \in Tracks /\ a.registered
    BY DEF HookTrack, MediaTypeOK, Arrivals
  <1>2. MediaTypeOK' /\ TablesFit' /\ OfferFits' /\ CallbacksFit'
    BY <1>1 DEF HookTrack, MediaTypeOK, TablesFit, OfferFits,
       CallbacksFit
  <1>3. NothingLeaks'
    BY <1>1 DEF HookTrack, NothingLeaks, Held
  <1> QED
    BY <1>2, <1>3

\* A PeerConnection that fails is taken out if it is still the present one.
LEMMA OnFailedStep ==
  ASSUME MediaInv, NEW pc \in Pcs, OnFailed(pc)
  PROVE  MediaInv'
  <1> USE DEF MediaInv
  <1>1. made[pc] \in ConnectionIds
    BY DEF OnFailed, CallbacksFit, MediaTypeOK
  <1>2. /\ connections' \in [ConnectionIds -> [pc : Pcs \cup {Nil},
                                  tracks : [Mids -> Tracks \cup {Nil}]]]
        /\ closing' \subseteq Pcs \cup Tracks
        /\ \A d \in ConnectionIds : connections'[d] = connections[d]
                                   \/ connections'[d] = NoConnection
        /\ \A x : x \in Accounted => x \in Accounted'
    BY <1>1, RemoveAndCloseKeeps DEF OnFailed
  <1>3. MediaTypeOK' /\ CallbacksFit'
    BY <1>2 DEF OnFailed, MediaTypeOK, CallbacksFit
  <1>4. TablesFit' /\ OfferFits'
    BY <1>2, EmptyingKeeps DEF OnFailed
  <1>5. NothingLeaks'
    BY <1>2, LeaksKept DEF OnFailed
  <1> QED
    BY <1>3, <1>4, <1>5

\* What is closed is accounted for as closed.
LEMMA CloseItStep ==
  ASSUME MediaInv, NEW x \in Pcs \cup Tracks, CloseIt(x)
  PROVE  MediaInv'
  <1> USE DEF MediaInv
  <1>1. notifying' \subseteq Tracks /\ notifying' \subseteq closed'
    BY DEF CloseIt, MediaTypeOK, CallbacksFit
  <1>2. MediaTypeOK' /\ TablesFit' /\ OfferFits' /\ CallbacksFit'
    BY <1>1 DEF CloseIt, MediaTypeOK, TablesFit, OfferFits,
       CallbacksFit
  <1>3. NothingLeaks'
    BY LeaksKept DEF CloseIt, Accounted, Held
  <1> QED
    BY <1>2, <1>3

\* onClosed forgets a track that is closed.
LEMMA OnClosedStep ==
  ASSUME MediaInv, NEW t \in Tracks, OnClosed(t)
  PROVE  MediaInv'
  <1> USE DEF MediaInv
  <1>1. \A c \in ConnectionIds :
           /\ connections'[c] = [pc |-> connections[c].pc,
                 tracks |-> [m \in Mids |-> IF connections[c].tracks[m] = t THEN Nil
                                            ELSE connections[c].tracks[m]]]
    BY DEF OnClosed, MediaTypeOK
  <1>2. /\ connections' \in [ConnectionIds -> [pc : Pcs \cup {Nil},
                                  tracks : [Mids -> Tracks \cup {Nil}]]]
        /\ \A c \in ConnectionIds : connections'[c].pc = connections[c].pc
        /\ \A c \in ConnectionIds, m \in Mids : connections'[c].tracks[m] =
              IF connections[c].tracks[m] = t THEN Nil ELSE connections[c].tracks[m]
    <2>1. \A c \in ConnectionIds : connections'[c] \in
              [pc : Pcs \cup {Nil}, tracks : [Mids -> Tracks \cup {Nil}]]
      <3> TAKE c \in ConnectionIds
      <3> DEFINE ts == [m \in Mids |-> IF connections[c].tracks[m] = t THEN Nil
                                       ELSE connections[c].tracks[m]]
      <3>1. connections[c].pc \in Pcs \cup {Nil} /\ ts \in [Mids -> Tracks \cup {Nil}]
        BY DEF MediaTypeOK
      <3>2. connections'[c] = [pc |-> connections[c].pc, tracks |-> ts]
        BY <1>1
      <3> HIDE DEF ts
      <3> QED
        BY <3>1, <3>2
    <2> QED
      BY <1>1, <2>1 DEF OnClosed
  <1>3. MediaTypeOK'
    BY <1>2 DEF OnClosed, MediaTypeOK
  <1>4. TablesFit'
    <2>1. UNCHANGED <<made, brought>>
      BY DEF OnClosed
    <2>2. ASSUME NEW c \in ConnectionIds
          PROVE  /\ connections[c].pc = Nil =>
                        \A m \in Mids : connections[c].tracks[m] = Nil
                 /\ connections[c].pc # Nil => made[connections[c].pc] = c
                 /\ \A m \in Mids : connections[c].tracks[m] # Nil =>
                        brought[connections[c].tracks[m]] = connections[c].pc
      BY Zenon DEF TablesFit
    <2>3. ASSUME NEW c \in ConnectionIds
          PROVE  /\ connections'[c].pc = Nil =>
                        \A m \in Mids : connections'[c].tracks[m] = Nil
                 /\ connections'[c].pc # Nil => made'[connections'[c].pc] = c
                 /\ \A m \in Mids : connections'[c].tracks[m] # Nil =>
                        brought'[connections'[c].tracks[m]] = connections'[c].pc
      BY <1>2, <2>1, <2>2
    <2> QED
      BY <2>3, Zenon DEF TablesFit
  <1>5. OfferFits'
    BY <1>2 DEF OnClosed, OfferFits, MediaTypeOK, Offers
  <1>6. CallbacksFit'
    BY DEF OnClosed, CallbacksFit
  <1>7. ASSUME NEW x, x \in Accounted PROVE x \in Accounted'
    <2>1. t \in closed
      BY DEF OnClosed, CallbacksFit
    <2>2. ASSUME NEW c \in ConnectionIds, x \in Held(c),
       x # t PROVE x \in Held(c)'
      BY <2>2, <1>2 DEF Held
    <2> QED
      BY <1>7, <2>1, <2>2 DEF OnClosed, Accounted
  <1>8. NothingLeaks'
    BY <1>7, LeaksKept DEF OnClosed
  <1> QED
    BY <1>3, <1>4, <1>5, <1>6, <1>8

\* close(), by the session, the server or the destructor.
LEMMA CloseAllStep ==
  ASSUME MediaInv, CloseMediaConnections \/ Destroy
  PROVE  MediaInv'
  <1> USE DEF MediaInv
  <1>1. /\ AllTaken /\ held' \in BOOLEAN
        /\ UNCHANGED <<offer, made, negotiated, brought, arriving, hooked,
           closed, notifying>>
    BY Zenon DEF CloseMediaConnections, Destroy,
       MediaTypeOK
  <1>2. /\ connections' \in [ConnectionIds -> [pc : Pcs \cup {Nil},
                                  tracks : [Mids -> Tracks \cup {Nil}]]]
        /\ closing' \subseteq Pcs \cup Tracks
        /\ \A c \in ConnectionIds : connections'[c] = NoConnection
        /\ \A x : x \in Accounted => x \in Accounted'
    BY <1>1, AllTakenKeeps
  <1>3. MediaTypeOK' /\ CallbacksFit'
    BY <1>1, <1>2 DEF MediaTypeOK, CallbacksFit
  <1>4. TablesFit' /\ OfferFits'
    BY <1>1, <1>2, EmptyingKeeps
  <1>5. NothingLeaks'
    BY <1>1, <1>2, LeaksKept
  <1> QED
    BY <1>3, <1>4, <1>5

-----------------------------------------------------------------------------
\* Every step of the session, the server and libdatachannel keeps the invariant.
LEMMA MediaStep == MediaInv /\ [MediaNext]_mediaVars => MediaInv'
  <1> SUFFICES ASSUME MediaInv, [MediaNext]_mediaVars PROVE MediaInv'
    OBVIOUS
  <1>1. CASE UNCHANGED mediaVars
    BY <1>1 DEF mediaVars, MediaInv, MediaTypeOK, TablesFit,
       OfferFits, CallbacksFit, NothingLeaks, Held
  <1>2. CASE MediaNext
    BY <1>2, AcceptOfferStep, RemoveOldStep, CreatePcStep, InstallPcStep,
       ApplyOfferStep, OnTrackStep, RegisterTrackStep, HookTrackStep, OnFailedStep,
       CloseItStep, OnClosedStep, CloseAllStep DEF MediaNext
  <1> QED
    BY <1>1, <1>2

\* The inductive invariant holds in every reachable state.
THEOREM MediaInvariant == MediaSpec => []MediaInv
  BY MediaStart, MediaStep, PTL DEF MediaSpec

\* A late track of a PeerConnection that was replaced never gets into the table of
\* its successor, for any number of offers, failures and tracks.
THEOREM TracksAreOfCurrentPc == MediaSpec => []TracksOfCurrentPc
  <1>1. MediaInv => TracksOfCurrentPc
    BY DEF MediaInv, TablesFit, TracksOfCurrentPc
  <1> QED
    BY <1>1, MediaInvariant, PTL

\* Every PeerConnection that was created and every track that was registered is in
\* the table, about to be closed, or closed.
THEOREM NothingIsLeaked == MediaSpec => []NothingLeaks
  <1>1. MediaInv => NothingLeaks
    BY DEF MediaInv
  <1> QED
    BY <1>1, MediaInvariant, PTL
===============================================================================
