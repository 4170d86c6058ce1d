----------------------------- MODULE ScreenRouter -----------------------------
(***************************************************************************)
(* The screen-sharing side of the SFU (screen_router.cpp).  A subscriber   *)
(* offers receive slots that are PAIRS of a video and an audio track, and  *)
(* says which publishers it watches; a publisher says when it streams.     *)
(* Threads and locks are those of VoiceRouter, with one more way in:       *)
(* register_output makes its change in two critical sections with          *)
(* publish_mutex held over both, so route and close come in between.       *)
(***************************************************************************)
EXTENDS SlotAssignment

CONSTANTS
    Publishers,    \* peers that bring inputs, stream and are watched
    Subscribers,   \* peers that bring outputs and watch
    Tracks,        \* rtc::Tracks that MediaConnections will create
    VideoMids, AudioMids,   \* SDP mids of the receive slots
    PairCount,     \* bound: pairs of one subscriber; never reached
    MaxCommands,   \* bound: set_streaming, set_watching calls that change
    MaxDepartures, \* bound: peers that leave
    MaxExpired,    \* bound: tracks that MediaConnections drops
    MaxPackets,    \* bound: packets in delay_queue or between lock and send
    MaxTogether    \* bound: of departures and expired tracks together

Peers == Publishers \cup Subscribers
Mids == VideoMids \cup AudioMids
Media == {"video", "audio"}
MediaOf(m) == IF m \in VideoMids THEN "video" ELSE "audio"
Pairs == 1..PairCount

ASSUME ScreenConstants ==
    /\ None \notin Peers /\ None \notin Tracks /\ None \notin Mids
    /\ IsFiniteSet(Peers) /\ IsFiniteSet(Mids)
    /\ VideoMids \cap AudioMids = {}
    /\ PairCount \in Nat
    /\ Cardinality(VideoMids) <= PairCount /\ Cardinality(AudioMids) <= PairCount
    /\ MaxCommands \in Nat /\ MaxDepartures \in Nat /\ MaxExpired \in Nat
    /\ MaxPackets \in Nat /\ MaxTogether \in Nat

VARIABLES
    room,         \* `peers`: a record of tables, see Rooms
    closed,
    resetting,    \* output tracks close() has still to detach
    installing,   \* the register_output between its two critical sections
    pending,      \* notices not sent yet by the holder of publish_mutex
    told,         \* what each subscriber was last sent for each mid
    handler,      \* the media handler of each output track
    flights,      \* route calls that have their targets and send to them
    delayed,      \* delay_queue
    sent,         \* the packet that the last step sent: its output and its source
    fresh,        \* tracks MediaConnections has not created yet
    alive,        \* tracks whose shared_ptr is still held
    left,         \* peers whose session called remove_peer
    commands      \* calls so far that count against MaxCommands

shutdown == <<closed, resetting>>
notices  == <<pending, told, handler>>
media    == <<flights, delayed>>
outside  == <<fresh, alive, left>>
vars == <<room, shutdown, installing, notices, media, sent, outside, commands>>

Packets == Cardinality(flights) + Cardinality(delayed)

NotTooMuch == Cardinality(left) + Cardinality(Tracks \ alive) < MaxTogether

\* A step that sends no packet.
Quiet == sent' = None

NoOutput == [mid |-> None, track |-> None, ready |-> FALSE, generation |-> 0]

Outputs == [mid : Mids \cup {None}, track : Tracks \cup {None},
            ready : BOOLEAN, generation : Nat]

(***************************************************************************)
(* present: the keys of `peers`.  PeerState.order is left out: it decides  *)
(* between watches of the same watch order only, and next_watch_order      *)
(* gives every watch its own.  watched counts from 1, 0 stands for an      *)
(* absent key.  A pair is created with its first output and never loses    *)
(* one, so that pair k exists when output[q][k] has a track.  generation   *)
(* is the generation_ of the rewriter of an output track: each output gets *)
(* a rewriter of its own.                                                  *)
(***************************************************************************)
Rooms == [present : SUBSET Peers,
          input : [Peers -> [Media -> Tracks \cup {None}]],
          streaming : [Peers -> BOOLEAN],
          watched : [Peers -> [Peers -> Nat]], next_watch : [Peers -> Nat],
          output : [Peers -> [Pairs -> [Media -> Outputs]]],
          publisher : [Peers -> [Pairs -> Peers \cup {None}]],
          generation : [Tracks -> Nat]]

\* What a reporter forwards PLIs to; the audio reporter has no PliHandler.
Reporters == [keyframes_from : Tracks \cup {None}]

Notices == [to : Peers, mid : Mids, publisher : Peers \cup {None},
            output : Tracks, publisher_video : Tracks \cup {None}]

\* What register_output keeps on its stack from its first critical section.
Installations == [owner : Peers, mid : Mids, pair : Pairs, notices : SUBSET Notices]

ASSUME NoInstallation == None \notin Installations

Sources == [publisher : Peers, kind : Media, input : Tracks]

Targets == [output : Tracks \cup {None}, generation : Nat]

Flights == [source : Sources, targets : SUBSET Targets]

NoNotices == [first |-> {}, second |-> {}]

publishing == pending # NoNotices

\* publish_mutex is held.
busy == publishing \/ installing # None

-----------------------------------------------------------------------------
(***************************************************************************)
(* Helpers; r is the room in the middle of an operation.                   *)
(***************************************************************************)
BoundTo(r, p) == {x \in Peers \X Pairs : r.publisher[x[1]][x[2]] = p}

TracksOf(r, xs, kinds) ==
    {t \in Tracks : \E x \in xs, kind \in kinds : r.output[x[1]][x[2]][kind].track = t}

BumpGeneration(g, ts) == [t \in Tracks |-> IF t \in ts THEN g[t] + 1 ELSE g[t]]

\* peer_for_locked
WithPeer(r, p) == [r EXCEPT !.present = @ \cup {p}]

\* Mutant: the audio half of the pair is not announced.
VideoNotices(r, q, k) ==
    LET p == r.publisher[q][k] IN
    {[to |-> q, mid |-> r.output[q][k]["video"].mid, publisher |-> p,
      output |-> r.output[q][k]["video"].track,
      publisher_video |-> IF p = None THEN None ELSE r.input[p]["video"]] :
        kind \in {kd \in {"video"} : r.output[q][k][kd].ready}}

\* append_pair_notices: one notice for each output that is ready.
PairNotices(r, q, k) ==
    LET p == r.publisher[q][k] IN
    {[to |-> q, mid |-> r.output[q][k][kind].mid, publisher |-> p,
      output |-> r.output[q][k][kind].track,
      publisher_video |-> IF p = None THEN None ELSE r.input[p]["video"]] :
        kind \in {kd \in Media : r.output[q][k][kd].ready}}

NoticesOf(r, xs) == UNION {PairNotices(r, x[1], x[2]) : x \in xs}

\* begin_source on the outputs of these kinds of these pairs.
Begun(r, xs, kinds) ==
    LET g == BumpGeneration(r.generation, TracksOf(r, xs, kinds)) IN
    [r EXCEPT
        !.generation = g,
        !.output = [q \in Peers |-> [k \in Pairs |-> [kind \in Media |->
            IF <<q, k>> \in xs /\ kind \in kinds /\ r.output[q][k][kind].track # None
            THEN [r.output[q][k][kind] EXCEPT
                    !.generation = g[r.output[q][k][kind].track]]
            ELSE r.output[q][k][kind]]]]]

\* clear_pair_locked for bound pairs: end_source on both outputs.
Cleared(r, xs) ==
    [r EXCEPT
        !.generation = BumpGeneration(r.generation, TracksOf(r, xs, Media)),
        !.publisher = [q \in Peers |-> [k \in Pairs |->
            IF <<q, k>> \in xs THEN None ELSE r.publisher[q][k]]],
        !.output = [q \in Peers |-> [k \in Pairs |-> [kind \in Media |->
            IF <<q, k>> \in xs
            THEN [r.output[q][k][kind] EXCEPT !.generation = 0]
            ELSE r.output[q][k][kind]]]]]

(***************************************************************************)
(* assign_available_locked.  Publishers are taken in the order in which    *)
(* the subscriber began to watch them, pairs in the order of the vector.   *)
(***************************************************************************)
Eligible(r, q) ==
    {p \in r.present : /\ r.watched[q][p] # 0 /\ p # q
                       /\ r.streaming[p]
                       /\ r.input[p]["video"] \in alive
                       /\ \A k \in Pairs : r.publisher[q][k] # p}

FreePairs(r, q) ==
    {k \in Pairs : /\ r.publisher[q][k] = None
                   /\ \A kind \in Media : /\ r.output[q][k][kind].ready
                                          /\ r.output[q][k][kind].track \in alive}

\* Mutant: the loop breaks at a publisher it should skip.
GrantedUntilFirstSkip(r, q, k) ==
    LET w == r.watched[q]
        reached == {p \in Eligible(r, q) : \A x \in Peers \ Eligible(r, q) :
                       w[x] = 0 \/ w[x] > w[p]}
    IN  IF q \notin r.present THEN None
        ELSE Grant(FreePairs(r, q), [j \in Pairs |-> j], reached, w, k)

Granted(r, q, k) ==
    IF q \notin r.present THEN None
    ELSE Grant(FreePairs(r, q), [j \in Pairs |-> j], Eligible(r, q), r.watched[q], k)

GrantedPairs(r) == {x \in Peers \X Pairs : Granted(r, x[1], x[2]) # None}

Bound(r) ==
    [r EXCEPT !.publisher = [q \in Peers |-> [k \in Pairs |->
        LET p == Granted(r, q, k) IN IF p # None THEN p ELSE r.publisher[q][k]]]]

Assigned(r) == Begun(Bound(r), GrantedPairs(r), Media)

\* What a change of the room announces: first its own notices.
AssignAndPublish(r, changed) ==
    /\ room' = Assigned(r)
    /\ pending' = [first |-> changed, second |-> NoticesOf(room', GrantedPairs(r))]
    /\ UNCHANGED <<told, handler>>

Fresh(t) == t \in fresh /\ fresh' = fresh \ {t}

-----------------------------------------------------------------------------
(***************************************************************************)
(* register_input.  The pairs that carry p begin a new source on this kind *)
(* of media, and both their tracks are announced again: a PLI must reach   *)
(* the new input.                                                          *)
(***************************************************************************)
RegisterInput(p, kind, t) ==
    LET carrying == BoundTo(room, p)
        r == Begun([WithPeer(room, p) EXCEPT !.input[p][kind] = t], carrying, {kind})
    IN  /\ ~closed /\ ~busy
        /\ Fresh(t)
        /\ AssignAndPublish(r, NoticesOf(r, carrying))
        /\ Quiet /\ UNCHANGED <<shutdown, installing, media, alive, left, commands>>

\* output_pair_for: the pair that has this mid, else the first without one.
PairFor(r, q, m) ==
    LET kind == MediaOf(m)
        same == {k \in Pairs : r.output[q][k][kind].mid = m}
        open == {k \in Pairs : r.output[q][k][kind].mid = None}
        candidates == IF same # {} THEN same ELSE open
    IN  CHOOSE k \in candidates : \A j \in candidates : k <= j

(***************************************************************************)
(* register_output, first critical section: whatever the pair carried is   *)
(* released, and the new output is there but not ready.                    *)
(***************************************************************************)
InstallOutput(q, m, t) ==
    LET k == PairFor(room, q, m)
        released == IF room.publisher[q][k] = None THEN {} ELSE {<<q, k>>}
        r == Cleared(WithPeer(room, q), released)
    IN  /\ ~closed /\ ~busy
        /\ Fresh(t)
        /\ room' = [r EXCEPT !.output[q][k][MediaOf(m)] =
                       [NoOutput EXCEPT !.mid = m, !.track = t]]
        /\ installing' = [owner |-> q, mid |-> m, pair |-> k,
                          notices |-> NoticesOf(r, released)]
        /\ Quiet /\ UNCHANGED <<shutdown, notices, media, alive, left, commands>>

(***************************************************************************)
(* register_output, second critical section, after setDescription.  If     *)
(* close() came in between, only the notices collected so far go out.      *)
(***************************************************************************)
OutputReady ==
    LET q == installing.owner
        k == installing.pair
        kind == MediaOf(installing.mid)
    IN  /\ installing # None
        /\ IF closed
           THEN /\ pending' = [first |-> installing.notices, second |-> {}]
                /\ UNCHANGED <<room, told, handler>>
           ELSE AssignAndPublish([room EXCEPT !.output[q][k][kind].ready = TRUE],
                                 installing.notices)
        /\ installing' = None
        /\ Quiet /\ UNCHANGED <<shutdown, media, outside, commands>>

Command == commands < MaxCommands /\ commands' = commands + 1

\* A command that finds nothing to do still brings the peer into the room.
NoChange(p) == room' = WithPeer(room, p) /\ UNCHANGED <<notices, commands>>

\* Mutant: a publisher that stops stays where it is.
NothingStopped(p, streaming) == {}

\* Stopping takes the publisher off every pair it is on.
Stopped(p, streaming) == IF streaming THEN {} ELSE BoundTo(room, p)

\* set_streaming
SetStreaming(p, streaming) ==
    LET released == Stopped(p, streaming)
        r == Cleared([WithPeer(room, p) EXCEPT !.streaming[p] = streaming], released)
    IN  /\ ~closed /\ ~busy
        /\ IF room.streaming[p] = streaming
           THEN NoChange(p)
           ELSE Command /\ AssignAndPublish(r, NoticesOf(r, released))
        /\ Quiet /\ UNCHANGED <<shutdown, installing, media, outside>>

\* set_watching(true); a peer never watches itself.
StartWatching(q, p) ==
    LET known == WithPeer(room, q)
        r == [known EXCEPT !.watched[q][p] = known.next_watch[q],
                           !.next_watch[q] = @ + 1]
    IN  /\ q # p
        /\ ~closed /\ ~busy
        /\ IF room.watched[q][p] # 0
           THEN NoChange(q)
           ELSE Command /\ AssignAndPublish(r, {})
        /\ Quiet /\ UNCHANGED <<shutdown, installing, media, outside>>

\* set_watching(false)
StopWatching(q, p) ==
    LET released == {x \in BoundTo(room, p) : x[1] = q}
        r == Cleared([WithPeer(room, q) EXCEPT !.watched[q][p] = 0], released)
    IN  /\ q # p
        /\ ~closed /\ ~busy
        /\ IF room.watched[q][p] = 0
           THEN NoChange(q)
           ELSE Command /\ AssignAndPublish(r, NoticesOf(r, released))
        /\ Quiet /\ UNCHANGED <<shutdown, installing, media, outside>>

(***************************************************************************)
(* remove_peer: the PeerState goes with all it held, nobody watches the    *)
(* peer any more and the pairs that carried it are released.               *)
(***************************************************************************)
Forgotten(r, p) ==
    [r EXCEPT !.present = @ \ {p},
              !.input[p] = [kind \in Media |-> None],
              !.streaming[p] = FALSE,
              !.watched = [q \in Peers |-> [x \in Peers |->
                              IF q = p \/ x = p THEN 0 ELSE r.watched[q][x]]],
              !.next_watch[p] = 1,
              !.output[p] = [k \in Pairs |-> [kind \in Media |-> NoOutput]],
              !.publisher[p] = [k \in Pairs |-> None]]

RemovePeer(p) ==
    LET released == {x \in BoundTo(room, p) : x[1] # p}
        r == Cleared(Forgotten(room, p), released)
    IN  /\ ~closed /\ ~busy
        /\ p \notin left /\ Cardinality(left) < MaxDepartures /\ NotTooMuch
        /\ AssignAndPublish(r, NoticesOf(r, released))
        /\ left' = left \cup {p}
        /\ Quiet /\ UNCHANGED <<shutdown, installing, media, fresh, alive, commands>>

-----------------------------------------------------------------------------
\* Mutant: the PliHandler goes to the reporter of the audio output.
HandlerSwapped(n) ==
    IF n.output \notin alive THEN handler
    ELSE [handler EXCEPT ![n.output] =
            IF n.publisher = None THEN None
            ELSE [keyframes_from |-> IF n.mid \in AudioMids
                                     THEN n.publisher_video ELSE None]]

\* publish: the reporter of a video output sends PLIs to the publisher.
HandlerAfter(n) ==
    IF n.output \notin alive THEN handler
    ELSE [handler EXCEPT ![n.output] =
            IF n.publisher = None THEN None
            ELSE [keyframes_from |-> IF n.mid \in VideoMids
                                     THEN n.publisher_video ELSE None]]

PublishNotice(n) ==
    /\ IF pending.first # {}
       THEN n \in pending.first /\ pending' = [pending EXCEPT !.first = @ \ {n}]
       ELSE n \in pending.second /\ pending' = [pending EXCEPT !.second = @ \ {n}]
    /\ handler' = HandlerAfter(n)
    /\ told' = IF n.to \in left THEN told
               ELSE [told EXCEPT ![n.to][n.mid] = n.publisher]
    /\ Quiet /\ UNCHANGED <<room, shutdown, installing, media, outside, commands>>

-----------------------------------------------------------------------------
\* weak_ptr::lock: two expired pointers compare equal.
Locked(t) == IF t \in alive THEN t ELSE None

\* Mutant: a packet goes to both tracks of the pairs that carry its publisher.
TargetsOfPair(p, kind) ==
    {[output |-> room.output[x[1]][x[2]][kd].track,
      generation |-> room.output[x[1]][x[2]][kd].generation] :
        x \in BoundTo(room, p), kd \in Media}

\* collect_targets_locked: the outputs that carry this publisher's media of this kind.
TargetsOf(p, kind) ==
    {[output |-> room.output[x[1]][x[2]][kind].track,
      generation |-> room.output[x[1]][x[2]][kind].generation] :
        x \in {y \in BoundTo(room, p) : room.output[y[1]][y[2]][kind].ready}}

StartFlight(source) ==
    LET targets == TargetsOf(source.publisher, source.kind) IN
    flights' = IF targets = {} THEN flights
               ELSE flights \cup {[source |-> source, targets |-> targets]}

Routable(p, kind) ==
    ~closed /\ p \in room.present /\ room.streaming[p] /\ room.input[p][kind] \in alive

(***************************************************************************)
(* route, for a packet of the current input of a peer that streams.  Fault *)
(* injection may drop it, the link model may put it into delay_queue.      *)
(***************************************************************************)
RouteNow(p, kind) ==
    /\ Routable(p, kind)
    /\ Packets < MaxPackets
    /\ StartFlight([publisher |-> p, kind |-> kind, input |-> room.input[p][kind]])
    /\ Quiet /\ UNCHANGED <<room, shutdown, installing, notices, delayed, outside, commands>>

RouteDelayed(p, kind) ==
    /\ Routable(p, kind)
    /\ Packets < MaxPackets
    /\ delayed' = delayed \cup
          {[publisher |-> p, kind |-> kind, input |-> room.input[p][kind]]}
    /\ Quiet /\ UNCHANGED <<room, shutdown, installing, notices, flights, outside, commands>>

\* flush_delayed and forward_delayed
ForwardDelayed(d) ==
    /\ ~closed
    /\ d \in delayed
    /\ delayed' = delayed \ {d}
    /\ IF /\ d.publisher \in room.present /\ room.streaming[d.publisher]
          /\ Locked(room.input[d.publisher][d.kind]) = Locked(d.input)
       THEN StartFlight(d)
       ELSE UNCHANGED flights
    /\ Quiet /\ UNCHANGED <<room, shutdown, installing, notices, outside, commands>>

\* RtpSlotRewriter::rewrite rejects a packet of another generation.
Accepts(target) == target.generation = room.generation[target.output]

\* send_packets, one target, without the router's lock.
SendPacket(f, target) ==
    /\ f \in flights /\ target \in f.targets
    /\ flights' = (flights \ {f}) \cup
                  (IF f.targets = {target} THEN {}
                   ELSE {[f EXCEPT !.targets = @ \ {target}]})
    /\ \/ /\ target.output \in alive
          /\ Accepts(target)
          /\ sent' = [output |-> target.output, source |-> f.source]
       \/ Quiet
    /\ UNCHANGED <<room, shutdown, installing, notices, delayed, outside, commands>>

-----------------------------------------------------------------------------
NoRoom == [present |-> {},
           input |-> [p \in Peers |-> [kind \in Media |-> None]],
           streaming |-> [p \in Peers |-> FALSE],
           watched |-> [q \in Peers |-> [p \in Peers |-> 0]],
           next_watch |-> [p \in Peers |-> 1],
           output |-> [q \in Peers |-> [k \in Pairs |-> [kind \in Media |-> NoOutput]]],
           publisher |-> [q \in Peers |-> [k \in Pairs |-> None]],
           generation |-> [t \in Tracks |-> 0]]

LiveOutputs == alive \cap TracksOf(room, Peers \X Pairs, Media)

\* close.  It does not wait for publish_mutex.
Close ==
    /\ ~closed
    /\ closed' = TRUE
    /\ resetting' = LiveOutputs
    /\ room' = [NoRoom EXCEPT !.generation = room.generation]
    /\ delayed' = {}
    /\ Quiet /\ UNCHANGED <<installing, notices, flights, outside, commands>>

DetachTrack(t) ==
    /\ t \in resetting
    /\ resetting' = resetting \ {t}
    /\ handler' = [handler EXCEPT ![t] = None]
    /\ Quiet /\ UNCHANGED <<room, closed, installing, pending, told, media, outside, commands>>

\* MediaConnections drops a track, but the caller of register_output has it.
TrackExpires(t) ==
    /\ t \in alive \ fresh /\ Cardinality(Tracks \ alive) < MaxExpired /\ NotTooMuch
    /\ installing # None =>
          t # room.output[installing.owner][installing.pair][MediaOf(installing.mid)].track
    /\ alive' = alive \ {t}
    /\ handler' = [handler EXCEPT ![t] = None]
    /\ Quiet
    /\ UNCHANGED <<room, shutdown, installing, pending, told, media, fresh, left, commands>>

-----------------------------------------------------------------------------
Init ==
    /\ room = NoRoom
    /\ closed = FALSE
    /\ resetting = {}
    /\ installing = None
    /\ pending = NoNotices
    /\ told = [q \in Peers |-> [m \in Mids |-> None]]
    /\ handler = [t \in Tracks |-> None]
    /\ flights = {}
    /\ delayed = {}
    /\ sent = None
    /\ fresh = Tracks
    /\ alive = Tracks
    /\ left = {}
    /\ commands = 0

Next ==
    \/ \E p \in Publishers, kind \in Media, t \in Tracks : RegisterInput(p, kind, t)
    \/ \E q \in Subscribers, m \in Mids, t \in Tracks : InstallOutput(q, m, t)
    \/ OutputReady
    \/ \E p \in Publishers, streaming \in BOOLEAN : SetStreaming(p, streaming)
    \/ \E q \in Subscribers, p \in Publishers : StartWatching(q, p)
    \/ \E q \in Subscribers, p \in Publishers : StopWatching(q, p)
    \/ \E p \in Peers : RemovePeer(p)
    \/ \E n \in pending.first \cup pending.second : PublishNotice(n)
    \/ \E p \in Peers, kind \in Media : RouteNow(p, kind)
    \/ \E p \in Peers, kind \in Media : RouteDelayed(p, kind)
    \/ \E d \in delayed : ForwardDelayed(d)
    \/ \E f \in flights : \E target \in f.targets : SendPacket(f, target)
    \/ Close
    \/ \E t \in Tracks : DetachTrack(t)
    \/ \E t \in Tracks : TrackExpires(t)

Spec == Init /\ [][Next]_vars

-----------------------------------------------------------------------------
\* The type of every variable.
TypeOK ==
    /\ room \in Rooms
    /\ closed \in BOOLEAN
    /\ resetting \subseteq Tracks
    /\ installing \in Installations \cup {None}
    /\ pending \in [first : SUBSET Notices, second : SUBSET Notices]
    /\ told \in [Peers -> [Mids -> Peers \cup {None}]]
    /\ handler \in [Tracks -> Reporters \cup {None}]
    /\ flights \subseteq Flights
    /\ delayed \subseteq Sources
    /\ sent \in [output : Tracks, source : Sources] \cup {None}
    /\ fresh \subseteq Tracks
    /\ alive \subseteq Tracks
    /\ left \subseteq Peers
    /\ commands \in Nat

(***************************************************************************)
(* Nobody sees a screen they do not watch or that is not shared: a bound   *)
(* pair has both its tracks ready, its publisher is another peer, streams, *)
(* is watched by the subscriber, and is on no other pair of it.            *)
(***************************************************************************)
BindingsSound ==
    /\ TypeOK
    /\ \A q \in Peers, k \in Pairs : room.publisher[q][k] # None =>
          LET p == room.publisher[q][k] IN
          /\ p # q
          /\ p \in room.present /\ room.streaming[p]
          /\ room.watched[q][p] # 0
          /\ \A kind \in Media : room.output[q][k][kind].ready
          /\ \A j \in Pairs \ {k} : room.publisher[q][j] # p

(***************************************************************************)
(* A watched, streaming publisher is only kept out by the lack of a pair,  *)
(* except inside register_output, which assigns at its end.                *)
(***************************************************************************)
NoPairWasted ==
    installing = None =>
        \A q \in Peers : FreePairs(room, q) # {} => Eligible(room, q) = {}

(***************************************************************************)
(* Between two operations every subscriber in the room has been told       *)
(* exactly what both halves of its pairs carry.                            *)
(***************************************************************************)
SubscribersInformed ==
    ~busy /\ ~closed =>
        \A q \in Peers \ left, k \in Pairs, kind \in Media :
            LET m == room.output[q][k][kind].mid IN
            m # None => told[q][m] = room.publisher[q][k]

(***************************************************************************)
(* Between two operations the reporter of a video output sends keyframe    *)
(* requests to the present input of the publisher it carries, and an       *)
(* output that carries nobody has none.                                    *)
(***************************************************************************)
KeyframesReachSource ==
    ~busy /\ ~closed =>
        \A q \in Peers, k \in Pairs :
            LET t == room.output[q][k]["video"].track
                p == room.publisher[q][k]
            IN  t \in alive =>
                  handler[t] = IF p = None THEN None
                               ELSE [keyframes_from |-> room.input[p]["video"]]

(***************************************************************************)
(* A packet that is sent on a track of a pair comes from the publisher the *)
(* pair carries at that moment, from its present input of the same kind.   *)
(* With BindingsSound: nothing of a screen reaches a subscriber after the  *)
(* publisher stopped streaming or the subscriber stopped watching.         *)
(***************************************************************************)
NoCrossTalk ==
    [][sent' # None =>
         \A q \in Peers, k \in Pairs, kind \in Media :
             room.output[q][k][kind].track = sent'.output =>
                LET source == sent'.source IN
                /\ room.publisher[q][k] = source.publisher
                /\ kind = source.kind
                /\ Locked(room.input[source.publisher][kind]) = Locked(source.input)]_vars
===============================================================================
