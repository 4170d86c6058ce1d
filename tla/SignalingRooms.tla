---------------------------- MODULE SignalingRooms ----------------------------
(***************************************************************************)
(* The signaling server (ws_server.cpp): how sessions are admitted, join   *)
(* and leave rooms, stream and watch, and what every client learns of it.  *)
(*                                                                         *)
(* All handlers of all sessions run on the one thread that calls           *)
(* io_context::run (main.cpp), so a handler is one action.  stop() may be  *)
(* called from another thread; what matters of its interleaving with a     *)
(* handler is decided by rooms_mutex, so it is two actions: the flag, and  *)
(* the emptying of rooms_.                                                 *)
(*                                                                         *)
(* A message is written, and reaches the client, in the order of the queue *)
(* (SessionWriter); here that is one action, on the client's side of which *)
(* is Transport::on_ws_message.  The answers, candidates and track         *)
(* bindings that libdatachannel threads put into the same queues are one   *)
(* kind of message, "media".  Usernames are left out.                      *)
(***************************************************************************)
EXTENDS Naturals, Sequences, FiniteSets

CONSTANTS
    None,
    Sessions,        \* WebSocket sessions, by their PeerId; never reused
    RoomIds,
    RequiresToken,   \* an ApiAuthenticator is configured
    ReceiveSlots,    \* kScreenReceiveSlots
    Capacity,        \* kMaxWriteQueueSize
    MaxCommands      \* bound: messages read from clients or sent by media threads

ASSUME RoomsConstants ==
    /\ None \notin RoomIds /\ IsFiniteSet(Sessions)
    /\ RequiresToken \in BOOLEAN
    /\ ReceiveSlots \in Nat /\ Capacity \in Nat \ {0} /\ MaxCommands \in Nat

VARIABLES
    phase,      \* how far each session has come
    room_id,    \* Session::room_id_
    rooms,      \* rooms_; a room without sessions has no entry
    queue,      \* Session::write_queue_
    lost,       \* sessions whose queue has dropped a message
    view,       \* what each client has been told
    stopping,   \* "no", "flag" once stopping_ is set, "done" once rooms_ is empty
    commands    \* messages read and media messages sent so far

vars == <<phase, room_id, rooms, queue, lost, view, stopping, commands>>

Phases == {"new", "authorizing", "accepting", "open", "closed", "refused"}

\* The tables kept twice: by the room, and by its ScreenRouter.
NoTable == [streaming |-> {}, watching |-> [s \in Sessions |-> {}]]
Tables == [streaming : SUBSET Sessions, watching : [Sessions -> SUBSET Sessions]]

NoRoom == [sessions |-> {}, table |-> NoTable, router |-> NoTable]

NothingSeen == [peers |-> {}, streaming |-> {}]

\* What a session sends to nobody.
Silence == [s \in Sessions |-> <<>>]

-----------------------------------------------------------------------------
\* Mutant: streams that began before are not mentioned.
WelcomeToPeers(r) == [type |-> "welcome", peers |-> r.sessions, streaming |-> {}]

\* What a session that joins is told: the room before it.
Welcome(r) == [type |-> "welcome", peers |-> r.sessions, streaming |-> r.table.streaming]
Joined(s) == [type |-> "peer_joined", peer |-> s]
Left(s) == [type |-> "peer_left", peer |-> s]
Started(s) == [type |-> "streaming_start", peer |-> s]
Ended(s) == [type |-> "streaming_stop", peer |-> s]
Rejected(p) == [type |-> "watch_rejected", peer |-> p]
Media == [type |-> "media"]

\* Transport::on_ws_message, as far as peers and streams are concerned.
Apply(v, m) ==
    CASE m.type = "welcome" -> [peers |-> v.peers \cup m.peers,
                                streaming |-> v.streaming \cup m.streaming]
      [] m.type = "peer_joined" -> [v EXCEPT !.peers = @ \cup {m.peer}]
      [] m.type = "peer_left" -> [v EXCEPT !.peers = @ \ {m.peer}]
      [] m.type = "streaming_start" -> [v EXCEPT !.streaming = @ \cup {m.peer}]
      [] m.type = "streaming_stop" -> [v EXCEPT !.streaming = @ \ {m.peer}]
      [] OTHER -> v

\* BoundedQueue::push_back of an open queue, once for each message: what does
\* not fit is dropped.
Push(q, msgs) ==
    LET free == Capacity - Len(q)
    IN  q \o (IF Len(msgs) <= free THEN msgs ELSE SubSeq(msgs, 1, free))

\* Session::enqueue, for all sessions that a handler sends to.
Send(out) ==
    /\ queue' = [s \in Sessions |->
                   IF phase'[s] = "closed" THEN <<>>
                   ELSE Push(queue[s], out[s])]
    /\ lost' = {s \in Sessions :
                   /\ phase'[s] # "closed"
                   /\ s \in lost \/ Len(queue[s]) + Len(out[s]) > Capacity}

ToAll(targets, msgs) == [s \in Sessions |-> IF s \in targets THEN msgs ELSE <<>>]

RoomOf(s) == rooms[room_id[s]]

\* ScreenRouter::set_watching.
set_watching(t, s, p, watching) ==
    [t EXCEPT !.watching[s] = IF watching THEN @ \cup {p} ELSE @ \ {p}]

\* unregister_session for the room, remove_peer for its router.
Without(t, s) ==
    [streaming |-> t.streaming \ {s},
     watching  |-> [q \in Sessions |-> IF q = s THEN {} ELSE t.watching[q] \ {s}]]

-----------------------------------------------------------------------------
\* on_http_read of an upgrade request, once the session has been started.
OnHttpRead(s, r) ==
    /\ phase[s] = "new"
    /\ room_id' = [room_id EXCEPT ![s] = r]
    /\ phase' = [phase EXCEPT ![s] = IF RequiresToken THEN "authorizing"
                                     ELSE "accepting"]
    /\ UNCHANGED <<rooms, queue, lost, view, stopping, commands>>

\* The answer of authorize_channel: accept_websocket, or 401.
OnIdentity(s, identified) ==
    /\ phase[s] = "authorizing"
    /\ phase' = [phase EXCEPT ![s] = IF identified THEN "accepting" ELSE "refused"]
    /\ UNCHANGED <<room_id, rooms, queue, lost, view, stopping, commands>>

\* Mutant: whoever is accepted while the server stops joins a room.
AdmitsAlways == TRUE

\* register_and_build_welcome's first test, made under rooms_mutex.
Admits == stopping = "no"

(***************************************************************************)
(* on_accept: the session enters its room, which is made if need be; the   *)
(* others learn that it joined, it is sent the room as it found it.  Once  *)
(* the server stops, or if the handshake fails, the session is dropped.    *)
(***************************************************************************)
OnAccept(s) ==
    /\ phase[s] = "accepting"
    /\ Admits
    /\ phase' = [phase EXCEPT ![s] = "open"]
    /\ rooms' = [rooms EXCEPT ![room_id[s]].sessions = @ \cup {s}]
    /\ Send([ToAll(RoomOf(s).sessions, <<Joined(s)>>)
               EXCEPT ![s] = <<Welcome(RoomOf(s))>>])
    /\ UNCHANGED <<room_id, view, stopping, commands>>

AcceptFails(s) ==
    /\ phase[s] = "accepting"
    /\ phase' = [phase EXCEPT ![s] = "refused"]
    /\ UNCHANGED <<room_id, rooms, queue, lost, view, stopping, commands>>

(***************************************************************************)
(* on_read, for a session whose room still has an entry; after stop() the  *)
(* handlers find none and do nothing.                                      *)
(***************************************************************************)
Reads(s) == phase[s] = "open" /\ RoomOf(s) # NoRoom

Command == commands < MaxCommands /\ commands' = commands + 1

Broadcast(s, m) == Send(ToAll(RoomOf(s).sessions \ {s}, <<m>>))

OnStreamingStart(s) ==
    /\ Reads(s) /\ Command
    /\ rooms' = [rooms EXCEPT ![room_id[s]].table.streaming = @ \cup {s},
                              ![room_id[s]].router.streaming = @ \cup {s}]
    /\ UNCHANGED <<phase, room_id, view, stopping>>
    /\ Broadcast(s, Started(s))

OnStreamingStop(s) ==
    /\ Reads(s) /\ Command
    /\ rooms' = [rooms EXCEPT ![room_id[s]].table.streaming = @ \ {s},
                              ![room_id[s]].router.streaming = @ \ {s}]
    /\ UNCHANGED <<phase, room_id, view, stopping>>
    /\ Broadcast(s, Ended(s))

\* Neither UnknownPeer nor NotStreaming.
Watchable(s, p) == p # s /\ p \in RoomOf(s).sessions /\ p \in RoomOf(s).table.streaming

(***************************************************************************)
(* add_video_watcher.  A watch that the room knows already is ignored; one *)
(* for which no slot is left is rejected, as is one of a peer that is not  *)
(* there or does not stream.                                               *)
(***************************************************************************)
OnWatchStart(s, p) ==
    LET watched == RoomOf(s).table.watching[s] IN
    /\ Reads(s) /\ Command
    /\ ~(Watchable(s, p) /\ p \in watched)
    /\ UNCHANGED <<phase, room_id, view, stopping>>
    /\ IF Watchable(s, p) /\ Cardinality(watched) < ReceiveSlots
       THEN /\ rooms' = [rooms EXCEPT ![room_id[s]].table.watching[s] = @ \cup {p},
                                      ![room_id[s]].router = set_watching(@, s, p, TRUE)]
            /\ UNCHANGED <<queue, lost>>
       ELSE /\ Send(ToAll({s}, <<Rejected(p)>>))
            /\ UNCHANGED rooms

\* remove_video_watcher.
OnWatchStop(s, p) ==
    /\ Reads(s) /\ Command
    /\ rooms' = [rooms EXCEPT ![room_id[s]].table.watching[s] = @ \ {p},
                              ![room_id[s]].router = set_watching(@, s, p, FALSE)]
    /\ UNCHANGED <<phase, room_id, queue, lost, view, stopping>>

\* Mutant: the two farewells the other way round.
LeftFirst(s, streaming) == IF streaming THEN <<Left(s), Ended(s)>> ELSE <<Left(s)>>

Farewell(s, streaming) == IF streaming THEN <<Ended(s), Left(s)>> ELSE <<Left(s)>>

(***************************************************************************)
(* on_close, after a read or a write error: the queue takes nothing more   *)
(* and goes with the session, the room and its router forget the session,  *)
(* the others are told.                                                    *)
(***************************************************************************)
OnClose(s) ==
    LET room == RoomOf(s) IN
    /\ phase[s] = "open"
    /\ phase' = [phase EXCEPT ![s] = "closed"]
    /\ view' = [view EXCEPT ![s] = NothingSeen]
    /\ IF s \in room.sessions
       THEN /\ rooms' = [rooms EXCEPT ![room_id[s]] =
                  [sessions |-> room.sessions \ {s},
                   table    |-> Without(room.table, s),
                   router   |-> Without(room.router, s)]]
            /\ Send(ToAll(room.sessions \ {s}, Farewell(s, s \in room.table.streaming)))
       ELSE UNCHANGED rooms /\ Send(Silence)
    /\ UNCHANGED <<room_id, stopping, commands>>

\* The answers, candidates and bindings sent by libdatachannel threads.
SendMedia(s) ==
    /\ phase[s] = "open" /\ Command
    /\ UNCHANGED <<phase, room_id, rooms, view, stopping>>
    /\ Send(ToAll({s}, <<Media>>))

\* on_write; the message has reached the client.
OnWrite(s) ==
    /\ phase[s] = "open" /\ queue[s] # <<>>
    /\ queue' = [queue EXCEPT ![s] = Tail(@)]
    /\ view' = [view EXCEPT ![s] = Apply(@, Head(queue[s]))]
    /\ UNCHANGED <<phase, room_id, rooms, lost, stopping, commands>>

\* stop(): the flag, then rooms_.clear and the closing of all routers.
SetStopping ==
    /\ stopping = "no"
    /\ stopping' = "flag"
    /\ UNCHANGED <<phase, room_id, rooms, queue, lost, view, commands>>

ClearRooms ==
    /\ stopping = "flag"
    /\ stopping' = "done"
    /\ rooms' = [r \in RoomIds |-> NoRoom]
    /\ UNCHANGED <<phase, room_id, queue, lost, view, commands>>

-----------------------------------------------------------------------------
Init ==
    /\ phase = [s \in Sessions |-> "new"]
    /\ room_id = [s \in Sessions |-> None]
    /\ rooms = [r \in RoomIds |-> NoRoom]
    /\ queue = Silence
    /\ lost = {}
    /\ view = [s \in Sessions |-> NothingSeen]
    /\ stopping = "no"
    /\ commands = 0

Next ==
    \/ \E s \in Sessions, r \in RoomIds : OnHttpRead(s, r)
    \/ \E s \in Sessions, identified \in BOOLEAN : OnIdentity(s, identified)
    \/ \E s \in Sessions : OnAccept(s)
    \/ \E s \in Sessions : AcceptFails(s)
    \/ \E s \in Sessions : OnStreamingStart(s)
    \/ \E s \in Sessions : OnStreamingStop(s)
    \/ \E s, p \in Sessions : OnWatchStart(s, p)
    \/ \E s, p \in Sessions : OnWatchStop(s, p)
    \/ \E s \in Sessions : OnClose(s)
    \/ \E s \in Sessions : SendMedia(s)
    \/ \E s \in Sessions : OnWrite(s)
    \/ SetStopping
    \/ ClearRooms

Spec == Init /\ [][Next]_vars

-----------------------------------------------------------------------------
Messages ==
    [type : {"welcome"}, peers : SUBSET Sessions, streaming : SUBSET Sessions]
    \cup [type : {"peer_joined", "peer_left", "streaming_start",
                  "streaming_stop", "watch_rejected"}, peer : Sessions]
    \cup {Media}

\* The type of every variable; no queue is longer than kMaxWriteQueueSize.
TypeOK ==
    /\ phase \in [Sessions -> Phases]
    /\ room_id \in [Sessions -> RoomIds \cup {None}]
    /\ rooms \in [RoomIds -> [sessions : SUBSET Sessions, table : Tables,
                              router : Tables]]
    /\ queue \in [Sessions -> Seq(Messages)]
    /\ \A s \in Sessions : Len(queue[s]) <= Capacity
    /\ lost \subseteq Sessions
    /\ view \in [Sessions -> [peers : SUBSET Sessions, streaming : SUBSET Sessions]]
    /\ stopping \in {"no", "flag", "done"}
    /\ commands \in 0..MaxCommands

(***************************************************************************)
(* Whatever order sessions come, stream, watch and go in, a room refers to *)
(* its own open sessions only: nobody streams or is watched who has left,  *)
(* nobody watches itself or more publishers than it has slots for.         *)
(***************************************************************************)
RoomsSound ==
    \A r \in RoomIds :
        LET room == rooms[r] IN
        /\ \A s \in room.sessions : phase[s] = "open" /\ room_id[s] = r
        /\ room.table.streaming \subseteq room.sessions
        /\ \A s \in Sessions :
              LET watched == room.table.watching[s] IN
              /\ watched # {} => s \in room.sessions
              /\ watched \subseteq room.sessions \ {s}
              /\ Cardinality(watched) <= ReceiveSlots

(***************************************************************************)
(* The room and its ScreenRouter, which keep the same tables under         *)
(* different locks, never disagree on who streams and who watches whom.    *)
(***************************************************************************)
RouterAgrees == \A r \in RoomIds : rooms[r].router = rooms[r].table

\* What a message says of p: it is there, it has gone, it streams, it does not.
Introduces(m, p) == \/ m.type = "welcome" /\ p \in m.peers
                    \/ m.type = "peer_joined" /\ m.peer = p
Leaves(m, p) == m.type = "peer_left" /\ m.peer = p
Starts(m, p) == \/ m.type = "welcome" /\ p \in m.streaming
                \/ m.type = "streaming_start" /\ m.peer = p
Stops(m, p) == m.type = "streaming_stop" /\ m.peer = p

(***************************************************************************)
(* What a client that shows v will show once it has applied the first n    *)
(* messages of q: of every peer, the last of them that mentions it counts. *)
(***************************************************************************)
ShownAfter(v, q, n) ==
    [peers |-> {p \in Sessions : \E i \in 0..n :
                    /\ IF i = 0 THEN p \in v.peers ELSE Introduces(q[i], p)
                    /\ \A j \in (i + 1)..n : ~Leaves(q[j], p)},
     streaming |-> {p \in Sessions : \E i \in 0..n :
                    /\ IF i = 0 THEN p \in v.streaming ELSE Starts(q[i], p)
                    /\ \A j \in (i + 1)..n : ~Stops(q[j], p)}]

\* A room as one of its sessions sees it.
SeenBy(s, room) == [peers     |-> room.sessions \ {s},
                    streaming |-> room.table.streaming \ {s}]

(***************************************************************************)
(* A client that applies everything waiting for it knows its room as it    *)
(* is: nothing that happens between its welcome and now is missed or told  *)
(* in the wrong order, unless its queue overflowed.                        *)
(***************************************************************************)
ViewsConverge ==
    \A s \in Sessions \ lost :
        phase[s] = "open" /\ stopping # "done" =>
            ShownAfter(view[s], queue[s], Len(queue[s])) = SeenBy(s, RoomOf(s))

(***************************************************************************)
(* At every moment on the way, the streams that a client shows belong to   *)
(* peers that it shows: a stream ends before its peer leaves.              *)
(***************************************************************************)
StreamsBelongToPeers ==
    \A s \in Sessions \ lost : view[s].streaming \subseteq view[s].peers

(***************************************************************************)
(* Once stop() has emptied the rooms no room, and so no router, is ever    *)
(* made again, although sessions may be in the middle of joining.          *)
(***************************************************************************)
StopIsFinal == stopping = "done" => \A r \in RoomIds : rooms[r] = NoRoom

(***************************************************************************)
(* The tables of the server: rooms refer to their sessions, the routers    *)
(* agree with the rooms, and a stopped server has neither.                 *)
(***************************************************************************)
TablesConsistent == TypeOK /\ RoomsSound /\ RouterAgrees /\ StopIsFinal
===============================================================================
