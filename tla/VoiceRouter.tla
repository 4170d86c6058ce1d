----------------------------- MODULE VoiceRouter -----------------------------
(***************************************************************************)
(* The voice side of the SFU (voice_router.cpp): for one room, which       *)
(* publisher every receive slot of every subscriber carries, the           *)
(* track_binding notices that tell the subscribers, and the packets that   *)
(* are routed meanwhile by other threads.                                  *)
(*                                                                         *)
(* Threads.  register_track comes from libdatachannel threads, remove_peer *)
(* and close from the WebSocket thread, route from the thread of the       *)
(* publisher's track, flush_delayed from a timer.  Every change of the     *)
(* bindings is made under `mutex`, and the notices it causes are sent      *)
(* after `mutex` is released but with publish_mutex still held.  So a      *)
(* change is one action, every notice sent is another one, and no change   *)
(* can be made while notices are pending; route and close only take        *)
(* `mutex` and do come in between.                                         *)
(*                                                                         *)
(* Tracks.  MediaConnections owns the tracks and hands each to the router  *)
(* once; the router keeps weak pointers.  Each output registration makes a *)
(* new SSRC and a new rewriter, so an output track stands for its rewriter *)
(* too.                                                                    *)
(***************************************************************************)
EXTENDS SlotAssignment

CONSTANTS
    Peers,        \* PeerIds; one per WebSocket session, never reused
    Tracks,       \* rtc::Tracks that MediaConnections will create
    Mids,         \* SDP mids of the receive slots
    MaxFlights,   \* bound: route calls between their lock and their sends
    MaxDelayed    \* bound: packets in delay_queue

ASSUME RouterConstants ==
    /\ None \notin Peers /\ None \notin Tracks
    /\ IsFiniteSet(Peers) /\ IsFiniteSet(Mids)
    /\ MaxFlights \in Nat /\ MaxDelayed \in Nat

VARIABLES
    order,        \* PeerState.order + 1; 0 when `peers` has no such key
    next_order,   \* next_peer_order + 1
    input,        \* PeerState.input
    slot,         \* PeerState.outputs, by mid; at = position, 0 if absent
    generation,   \* the generation_ of the rewriter of each output track
    closed,
    resetting,    \* output tracks close() has still to detach
    pending,      \* notices not sent yet by the holder of publish_mutex
    told,         \* what each subscriber was last sent for each mid
    handler,      \* output tracks with an SR reporter and NACK responder
    flights,      \* route calls that have their targets and send to them
    delayed,      \* delay_queue
    sent,         \* the packet sent last: on which output, from which source
    fresh,        \* tracks MediaConnections has not created yet
    alive,        \* tracks whose shared_ptr is still held
    left          \* peers whose session called remove_peer

bindings == <<order, next_order, input, slot, generation>>
notices  == <<pending, told, handler>>
media    == <<flights, delayed, sent>>
outside  == <<fresh, alive, left>>
shutdown == <<closed, resetting>>
vars == <<bindings, shutdown, notices, media, outside>>

NoSlot == [at |-> 0, track |-> None, publisher |-> None, generation |-> 0]

Slots == [at : Nat, track : Tracks \cup {None},
          publisher : Peers \cup {None}, generation : Nat]

(***************************************************************************)
(* BindingNotice.  The rest of the record is the means to send it: the     *)
(* send function of the subscriber and the SSRC.                           *)
(***************************************************************************)
Notices == [to : Peers, mid : Mids, publisher : Peers \cup {None},
            output : Tracks \cup {None}]

\* A packet is what matters of it here: who sent it, on which input track.
Sources == [publisher : Peers, input : Tracks]

Targets == [output : Tracks \cup {None}, generation : Nat]

Flights == [source : Sources, targets : SUBSET Targets]

NoNotices == [first |-> {}, second |-> {}]

publishing == pending # NoNotices

-----------------------------------------------------------------------------
(***************************************************************************)
(* Helpers.  o, i, s, g stand for order, input, slot and generation in the *)
(* middle of an operation.                                                 *)
(***************************************************************************)
BoundTo(s, p) == {x \in Peers \X Mids : s[x[1]][x[2]].publisher = p}

\* begin_source or end_source of the rewriters of these output tracks.
BumpGeneration(g, ts) == [t \in Tracks |-> IF t \in ts THEN g[t] + 1 ELSE g[t]]

NoticeOf(s, q, m) == [to |-> q, mid |-> m, publisher |-> s[q][m].publisher,
                      output |-> s[q][m].track]

\* Mutant: the check against `assigned` is missing.
EligibleTwice(o, i, s, q) == {p \in Peers : o[p] # 0 /\ p # q /\ i[p] \in alive}

\* The loop's "continue" conditions: itself, a dead input, already assigned.
Eligible(o, i, s, q) ==
    {p \in Peers : /\ o[p] # 0
                   /\ p # q
                   /\ i[p] \in alive
                   /\ \A m \in Mids : s[q][m].publisher # p}

FreeSlots(s, q) ==
    {m \in Mids : s[q][m].publisher = None /\ s[q][m].track \in alive}

\* Mutant: the loop breaks at a publisher it should skip.
GrantedUntilFirstSkip(o, i, s, q, m) ==
    LET eligible == Eligible(o, i, s, q)
        reached == {p \in eligible : \A r \in Peers \ eligible :
                       o[r] = 0 \/ r = q \/ o[r] > o[p]}
    IN  Grant(FreeSlots(s, q), [n \in Mids |-> s[q][n].at], reached, o, m)

Granted(o, i, s, q, m) ==
    Grant(FreeSlots(s, q), [n \in Mids |-> s[q][n].at],
          Eligible(o, i, s, q), o, m)

GrantedSlots(o, i, s) ==
    {x \in Peers \X Mids : Granted(o, i, s, x[1], x[2]) # None}

(***************************************************************************)
(* assign_available_locked: fill the free slots of every subscriber.       *)
(***************************************************************************)
AssignedSlots(o, i, s, g) ==
    [q \in Peers |-> [m \in Mids |->
        LET p == Granted(o, i, s, q, m) IN
        IF p = None THEN s[q][m]
        ELSE [s[q][m] EXCEPT !.publisher = p,
                             !.generation = g[s[q][m].track] + 1]]]

AssignedGenerations(o, i, s, g) ==
    BumpGeneration(g, {s[x[1]][x[2]].track : x \in GrantedSlots(o, i, s)})

\* Mutant: what the assignment bound is announced before what was released.
AssignedFirst(changed, granted) == [first |-> granted, second |-> changed]

\* The notices of the change itself go before those of the assignment.
InOrder(changed, granted) == [first |-> changed, second |-> granted]

(***************************************************************************)
(* The end every change has in common: assign what is free, then publish   *)
(* what has changed (collected from an unordered_map, so in any order) and *)
(* what was granted.                                                       *)
(***************************************************************************)
AssignAndPublish(o, i, s, g, changed) ==
    LET assigned == AssignedSlots(o, i, s, g) IN
    /\ order' = o
    /\ input' = i
    /\ slot' = assigned
    /\ generation' = AssignedGenerations(o, i, s, g)
    /\ pending' = InOrder(changed, {NoticeOf(assigned, x[1], x[2]) :
                                       x \in GrantedSlots(o, i, s)})
    /\ UNCHANGED <<told, handler>>

\* peer_for_locked: a new PeerState takes the next place in the order.
OrderWith(p) == IF order[p] # 0 THEN order ELSE [order EXCEPT ![p] = next_order]
NextOrderWith(p) == IF order[p] # 0 THEN next_order ELSE next_order + 1

\* MediaConnections creates track t and calls register_track with it.
TrackReady(t) ==
    /\ t \in fresh
    /\ fresh' = fresh \ {t}

-----------------------------------------------------------------------------
(***************************************************************************)
(* register_input.  The source of p changes (a track comes only once), so  *)
(* every rewriter that carries p begins a new source and its subscriber is *)
(* told again; then the free slots are assigned.                           *)
(***************************************************************************)
RegisterInput(p, t) ==
    LET carrying == BoundTo(slot, p)
        g == BumpGeneration(generation, {slot[x[1]][x[2]].track : x \in carrying})
        s == [q \in Peers |-> [m \in Mids |->
                IF slot[q][m].publisher = p
                THEN [slot[q][m] EXCEPT !.generation = g[slot[q][m].track]]
                ELSE slot[q][m]]]
    IN  /\ ~closed /\ ~publishing
        /\ t \in fresh
        /\ AssignAndPublish(OrderWith(p), [input EXCEPT ![p] = t], s, g,
                            {NoticeOf(slot, x[1], x[2]) : x \in carrying})
        /\ next_order' = NextOrderWith(p)
        /\ TrackReady(t)
        /\ UNCHANGED <<shutdown, media, alive, left>>

(***************************************************************************)
(* register_output.  A mid the peer already has gets the new track, SSRC   *)
(* and rewriter: what it carried is released (the release is announced on  *)
(* the old track) and the slot takes part in the assignment that follows.  *)
(***************************************************************************)
RegisterOutput(q, m, t) ==
    LET old == slot[q][m]
        bound == old.publisher # None
        at == IF old.at # 0 THEN old.at
              ELSE 1 + Cardinality({n \in Mids : slot[q][n].at # 0})
        s == [slot EXCEPT ![q][m] = [NoSlot EXCEPT !.at = at, !.track = t]]
        g == BumpGeneration(generation, IF bound THEN {old.track} ELSE {})
    IN  /\ ~closed /\ ~publishing
        /\ t \in fresh
        /\ AssignAndPublish(OrderWith(q), input, s, g,
               IF bound
               THEN {[to |-> q, mid |-> m, publisher |-> None, output |-> old.track]}
               ELSE {})
        /\ next_order' = NextOrderWith(q)
        /\ TrackReady(t)
        /\ UNCHANGED <<shutdown, media, alive, left>>

(***************************************************************************)
(* remove_peer.  The peer's own slots go with it; the slots that carried   *)
(* it are released, announced, and given to peers that wait for one.       *)
(***************************************************************************)
RemovePeer(p) ==
    LET carrying == {x \in BoundTo(slot, p) : x[1] # p}
        g == BumpGeneration(generation, {slot[x[1]][x[2]].track : x \in carrying})
        s == [q \in Peers |-> [m \in Mids |->
                IF q = p THEN NoSlot
                ELSE IF slot[q][m].publisher = p
                THEN [slot[q][m] EXCEPT !.publisher = None, !.generation = 0]
                ELSE slot[q][m]]]
    IN  /\ ~closed /\ ~publishing
        /\ p \notin left
        /\ AssignAndPublish([order EXCEPT ![p] = 0], [input EXCEPT ![p] = None],
                            s, g, {NoticeOf(s, x[1], x[2]) : x \in carrying})
        /\ left' = left \cup {p}
        /\ UNCHANGED <<next_order, shutdown, media, fresh, alive>>

\* publish: resetMediaHandler or setMediaHandler, if the track still lives.
HandlerAfter(n) ==
    IF n.output \notin alive THEN handler
    ELSE IF n.publisher = None THEN handler \ {n.output}
    ELSE handler \cup {n.output}

(***************************************************************************)
(* publish, one notice: the media handler of the output track, if it still *)
(* lives, then the message, which a session that has left never receives.  *)
(***************************************************************************)
PublishNotice(n) ==
    /\ IF pending.first # {}
       THEN n \in pending.first /\ pending' = [pending EXCEPT !.first = @ \ {n}]
       ELSE n \in pending.second /\ pending' = [pending EXCEPT !.second = @ \ {n}]
    /\ handler' = HandlerAfter(n)
    /\ told' = IF n.to \in left THEN told
               ELSE [told EXCEPT ![n.to][n.mid] = n.publisher]
    /\ UNCHANGED <<bindings, shutdown, media, outside>>

-----------------------------------------------------------------------------
\* weak_ptr::lock: two expired pointers compare equal.
Locked(t) == IF t \in alive THEN t ELSE None

TargetsOf(p) ==
    {[output |-> slot[x[1]][x[2]].track,
      generation |-> slot[x[1]][x[2]].generation] : x \in BoundTo(slot, p)}

StartFlight(source) ==
    /\ Cardinality(flights) < MaxFlights
    /\ flights' = IF TargetsOf(source.publisher) = {} THEN flights
                  ELSE flights \cup {[source |-> source,
                                      targets |-> TargetsOf(source.publisher)]}

(***************************************************************************)
(* route, for a packet of the peer's current input (any other packet is    *)
(* dropped).  Fault injection may drop it too; the link model may put it   *)
(* into delay_queue.  Otherwise its targets are copied under the lock.     *)
(***************************************************************************)
RouteNow(p) ==
    /\ ~closed
    /\ order[p] # 0 /\ input[p] \in alive
    /\ StartFlight([publisher |-> p, input |-> input[p]])
    /\ UNCHANGED <<bindings, shutdown, notices, delayed, sent, outside>>

RouteDelayed(p) ==
    /\ ~closed
    /\ order[p] # 0 /\ input[p] \in alive
    /\ Cardinality(delayed) < MaxDelayed
    /\ delayed' = delayed \cup {[publisher |-> p, input |-> input[p]]}
    /\ UNCHANGED <<bindings, shutdown, notices, flights, sent, outside>>

(***************************************************************************)
(* flush_delayed and forward_delayed: the packet is only forwarded if its  *)
(* input is still the peer's input.                                        *)
(***************************************************************************)
ForwardDelayed(d) ==
    /\ ~closed
    /\ d \in delayed
    /\ delayed' = delayed \ {d}
    /\ IF order[d.publisher] # 0 /\ Locked(input[d.publisher]) = Locked(d.input)
       THEN StartFlight(d)
       ELSE UNCHANGED flights
    /\ UNCHANGED <<bindings, shutdown, notices, sent, outside>>

\* Mutant: the rewriter takes a packet of any generation.
AcceptsAny(target) == TRUE

\* RtpSlotRewriter::rewrite rejects a packet of another generation.
Accepts(target) == target.generation = generation[target.output]

(***************************************************************************)
(* send_packets, one target, without the router's lock.  A track that is   *)
(* gone or not open, or a packet the rewriter does not take, is skipped.   *)
(***************************************************************************)
SendPacket(f, target) ==
    /\ f \in flights /\ target \in f.targets
    /\ flights' = (flights \ {f}) \cup
                  (IF f.targets = {target} THEN {}
                   ELSE {[f EXCEPT !.targets = @ \ {target}]})
    /\ \/ /\ target.output \in alive
          /\ Accepts(target)
          /\ sent' = [output |-> target.output, source |-> f.source]
       \/ UNCHANGED sent
    /\ UNCHANGED <<bindings, shutdown, notices, delayed, outside>>

-----------------------------------------------------------------------------
\* Mutant: the outputs whose weak_ptr has expired are kept.
AllOutputs == {slot[q][m].track : q \in Peers, m \in Mids}

LiveOutputs == {slot[q][m].track : q \in Peers, m \in Mids} \cap alive

(***************************************************************************)
(* close.  It does not wait for publish_mutex, so notices may be under way *)
(* while it empties the tables, and while it detaches the tracks after.    *)
(***************************************************************************)
Close ==
    /\ ~closed
    /\ closed' = TRUE
    /\ resetting' = LiveOutputs
    /\ order' = [p \in Peers |-> 0]
    /\ input' = [p \in Peers |-> None]
    /\ slot' = [q \in Peers |-> [m \in Mids |-> NoSlot]]
    /\ delayed' = {}
    /\ UNCHANGED <<next_order, generation, notices, flights, sent, outside>>

DetachTrack(t) ==
    /\ t \in resetting
    /\ resetting' = resetting \ {t}
    /\ handler' = handler \ {t}
    /\ UNCHANGED <<bindings, closed, pending, told, media, outside>>

\* MediaConnections drops a track: its PeerConnection closed or was replaced.
TrackExpires(t) ==
    /\ t \in alive \ fresh
    /\ alive' = alive \ {t}
    /\ handler' = handler \ {t}
    /\ UNCHANGED <<bindings, shutdown, pending, told, media, fresh, left>>

-----------------------------------------------------------------------------
Init ==
    /\ order = [p \in Peers |-> 0]
    /\ next_order = 1
    /\ input = [p \in Peers |-> None]
    /\ slot = [q \in Peers |-> [m \in Mids |-> NoSlot]]
    /\ generation = [t \in Tracks |-> 0]
    /\ closed = FALSE
    /\ resetting = {}
    /\ pending = NoNotices
    /\ told = [q \in Peers |-> [m \in Mids |-> None]]
    /\ handler = {}
    /\ flights = {}
    /\ delayed = {}
    /\ sent = None
    /\ fresh = Tracks
    /\ alive = Tracks
    /\ left = {}

Next ==
    \/ \E p \in Peers, t \in Tracks : RegisterInput(p, t)
    \/ \E q \in Peers, m \in Mids, t \in Tracks : RegisterOutput(q, m, t)
    \/ \E p \in Peers : RemovePeer(p)
    \/ \E n \in pending.first \cup pending.second : PublishNotice(n)
    \/ \E p \in Peers : RouteNow(p)
    \/ \E p \in Peers : RouteDelayed(p)
    \/ \E d \in delayed : ForwardDelayed(d)
    \/ \E f \in flights : \E target \in f.targets : SendPacket(f, target)
    \/ Close
    \/ \E t \in Tracks : DetachTrack(t)
    \/ \E t \in Tracks : TrackExpires(t)

Spec == Init /\ [][Next]_vars

-----------------------------------------------------------------------------
\* The type of every variable.
TypeOK ==
    /\ order \in [Peers -> Nat]
    /\ next_order \in Nat \ {0}
    /\ input \in [Peers -> Tracks \cup {None}]
    /\ slot \in [Peers -> [Mids -> Slots]]
    /\ generation \in [Tracks -> Nat]
    /\ closed \in BOOLEAN
    /\ resetting \subseteq Tracks
    /\ pending \in [first : SUBSET Notices, second : SUBSET Notices]
    /\ told \in [Peers -> [Mids -> Peers \cup {None}]]
    /\ handler \subseteq Tracks
    /\ flights \subseteq Flights
    /\ delayed \subseteq Sources
    /\ sent \in [output : Tracks, source : Sources] \cup {None}
    /\ fresh \subseteq Tracks
    /\ alive \subseteq Tracks
    /\ left \subseteq Peers

(***************************************************************************)
(* No subscriber hears itself or hears a publisher on two of its slots at  *)
(* once (the loop of assign_available_locked), and whoever a slot carries  *)
(* is a peer of the room: remove_peer leaves no binding behind.            *)
(***************************************************************************)
BindingsSound ==
    \A q \in Peers, m \in Mids : slot[q][m].publisher # None =>
        /\ slot[q][m].publisher # q
        /\ order[slot[q][m].publisher] # 0
        /\ \A n \in Mids \ {m} : slot[q][n].publisher # slot[q][m].publisher

(***************************************************************************)
(* A publisher that some subscriber does not hear is only kept out by the  *)
(* lack of a slot: whatever order the tracks came in, went and were        *)
(* replaced, no usable slot stays empty while a live publisher waits.      *)
(***************************************************************************)
NoSlotWasted ==
    \A q \in Peers : FreeSlots(slot, q) # {} => Eligible(order, input, slot, q) = {}

(***************************************************************************)
(* Once the notices of a change are out, every subscriber in the room has  *)
(* been told exactly what its slots carry: publish_mutex keeps the notices *)
(* of two changes from overtaking one another.                             *)
(***************************************************************************)
SubscribersInformed ==
    ~publishing /\ ~closed =>
        \A q \in Peers \ left, m \in Mids : told[q][m] = slot[q][m].publisher

(***************************************************************************)
(* Likewise an output track has its SR reporter and NACK responder exactly *)
(* while its slot carries somebody.                                        *)
(***************************************************************************)
ReportersInstalled ==
    ~publishing /\ ~closed =>
        \A q \in Peers, m \in Mids : slot[q][m].track \in alive =>
            (slot[q][m].track \in handler <=> slot[q][m].publisher # None)

(***************************************************************************)
(* publish brings every change to its subscriber and to its track.         *)
(***************************************************************************)
NoticesTakeEffect == SubscribersInformed /\ ReportersInstalled

(***************************************************************************)
(* A packet that is sent on the track of a slot comes from the publisher   *)
(* the slot carries at that moment, and from that publisher's present      *)
(* input: the generation of the rewriter stops every packet whose targets  *)
(* were copied before the slot was rebound or the input replaced.          *)
(***************************************************************************)
NoCrossTalk ==
    [][sent' # sent =>
         \A q \in Peers, m \in Mids : slot[q][m].track = sent'.output =>
             LET p == sent'.source.publisher IN
             /\ slot[q][m].publisher = p
             /\ Locked(input[p]) = Locked(sent'.source.input)]_vars
==============================================================================
