------------------------------ MODULE DesktopCall ------------------------------
(***************************************************************************)
(* A call as the desktop application sees it: AppState on the GUI thread,  *)
(* DriscordBridge, which queues the transport's callbacks to that thread   *)
(* and runs the audio calls on a pool of one thread, and what they see of  *)
(* the core: the current socket, whether voice and screen are requested,   *)
(* and which streams it watches.                                           *)
(*                                                                         *)
(* The transport changes on its own threads at once; the application       *)
(* learns of it when it takes the event from the queue, perhaps after the  *)
(* user has left, joined another channel or logged out.                    *)
(***************************************************************************)
EXTENDS Naturals, Sequences, FiniteSets

CONSTANTS
    Peers,      \* others who may be in a channel
    MaxJoins,   \* bound on the calls the user makes
    MaxQueue,   \* bound on the events waiting when more may happen
    MaxTasks    \* bound on the audio tasks waiting when more may follow

ASSUME DesktopCallConstants == {MaxJoins, MaxQueue, MaxTasks} \subseteq Nat \ {0}

VARIABLES
    loggedIn,
    selected,      \* m_selectedChannelId is a channel
    conn,          \* m_connectionState
    statsOn,       \* m_statsTimer runs
    shown,         \* m_peers, each with how often it is listed
    streamingPeers,\* m_streamingPeers
    watched,       \* m_watchedPeerIds
    queue,         \* events for the GUI thread
    pool,          \* tasks of m_audioPool, the first one running
    voiceRequested, screenRequested,   \* the core's requests
    coreWatched,   \* the core's watched_peers
    socket,        \* the transport: "none", "opening" or "open"
    room, streams, \* who is in the current channel and who shares a screen
    joins,
    wantsAudio,    \* the last audio call of the GUI thread was a start
    cutOff,        \* the end of an earlier connection was handled in this call
    refused,       \* the socket of this call could not be made
    hasty          \* peers whose stream was joined while an event about their
                   \* stream, or the end of the connection, was waiting

gui  == <<loggedIn, selected, conn, statsOn, shown, streamingPeers, watched>>
core == <<voiceRequested, screenRequested, coreWatched, socket, room, streams>>
audio == <<pool, wantsAudio>>
callVars == <<gui, queue, audio, core, joins, cutOff, refused, hasty>>

Event(type, p) == [type |-> type, peer |-> p]
NoPeer == "none"
Nobody == [p \in Peers |-> 0]

Contents(s) == {s[i] : i \in 1..Len(s)}
Room == Len(queue) < MaxQueue /\ Len(pool) < MaxTasks

-----------------------------------------------------------------------------
\* DriscordBridge::audioStart and audioStop.  m_audioGeneration is only ever compared
\* with a task's own for equality, so a task remembers whether it is the latest.
Outdated(tasks) == [i \in DOMAIN tasks |-> [tasks[i] EXCEPT !.latest = FALSE]]

Started(tasks) ==
    Append(Outdated(tasks), [do |-> "start", latest |-> TRUE, checked |-> FALSE])

Stopped(tasks) ==
    Append(Outdated(tasks), [do |-> "stop", latest |-> TRUE, checked |-> FALSE])

AudioStop == pool' = Stopped(pool) /\ wantsAudio' = FALSE

\* Mutant: a pool of two threads.
AnyOfTwo == {i \in 1..2 : i <= Len(pool)}

\* The tasks that may make a step: the pool has one thread.
Running == {i \in 1..1 : i <= Len(pool)}

Done(i) == SubSeq(pool, 1, i - 1) \o SubSeq(pool, i + 1, Len(pool))

\* A start looks at the generation once the devices are set.
AudioCheck ==
    /\ \E i \in Running :
        /\ pool[i].do = "start" /\ ~pool[i].checked
        /\ pool' = IF pool[i].latest THEN [pool EXCEPT ![i].checked = TRUE]
                   ELSE Done(i)
    /\ UNCHANGED <<gui, queue, wantsAudio, core, joins, cutOff, refused, hasty>>

\* voice_start or voice_stop.
AudioCall ==
    /\ \E i \in Running :
        /\ pool[i].do = "stop" \/ pool[i].checked
        /\ voiceRequested' = (pool[i].do = "start")
        /\ pool' = Done(i)
    /\ UNCHANGED <<gui, queue, wantsAudio, screenRequested, coreWatched,
                   socket, room, streams, joins, cutOff, refused, hasty>>

-----------------------------------------------------------------------------
\* Mutant: the application is not told when it was it who disconnected.
QuietDisconnect == queue

\* Transport::disconnect, the queue after it.
DisconnectQueued ==
    IF socket = "open" THEN Append(queue, Event("disconnected", NoPeer)) ELSE queue

ClearLists ==
    /\ shown' = Nobody /\ streamingPeers' = {} /\ watched' = {}

\* leaveVoiceChannel; the selected channel stays.
LeaveVoiceChannel ==
    /\ loggedIn /\ conn # "disconnected" /\ Room
    /\ statsOn' = FALSE /\ conn' = "disconnected"
    /\ AudioStop
    /\ screenRequested' = FALSE /\ coreWatched' = {}
    /\ queue' = DisconnectQueued
    /\ socket' = "none" /\ room' = {} /\ streams' = {}
    /\ ClearLists
    /\ hasty' = {}
    /\ UNCHANGED <<loggedIn, selected, voiceRequested, joins, cutOff, refused>>

\* initScreenSession comes after the old call is left.
ScreenOnJoin(leaves) == TRUE

\* joinVoiceChannel: leaves first unless disconnected, then asks for the screen
\* session, the connection and the audio.
JoinVoiceChannel ==
    LET leaves == conn # "disconnected"
    IN  /\ loggedIn /\ joins < MaxJoins /\ Room
        /\ joins' = joins + 1
        /\ selected' = TRUE /\ conn' = "connecting"
        /\ pool' = Started(IF leaves THEN Stopped(pool) ELSE pool)
        /\ wantsAudio' = TRUE
        /\ screenRequested' = ScreenOnJoin(leaves)
        /\ coreWatched' = IF leaves THEN {} ELSE coreWatched
        /\ hasty' = IF leaves THEN {} ELSE hasty
        /\ IF leaves THEN ClearLists /\ statsOn' = FALSE
           ELSE UNCHANGED <<shown, streamingPeers, watched, statsOn>>
        /\ queue' = DisconnectQueued
        /\ socket' \in {"opening", "none"}
        /\ refused' = (socket' = "none")
        /\ room' = {} /\ streams' = {}
        /\ cutOff' = FALSE
        /\ UNCHANGED <<loggedIn, voiceRequested>>

\* AuthManager::logout and the authChanged handler.
Logout ==
    /\ loggedIn /\ Room
    /\ loggedIn' = FALSE /\ selected' = FALSE
    /\ statsOn' = FALSE /\ conn' = "disconnected"
    /\ AudioStop
    /\ screenRequested' = FALSE /\ coreWatched' = {}
    /\ queue' = DisconnectQueued
    /\ socket' = "none" /\ room' = {} /\ streams' = {}
    /\ ClearLists
    /\ hasty' = {}
    /\ UNCHANGED <<voiceRequested, joins, cutOff, refused>>

Login ==
    /\ ~loggedIn /\ joins < MaxJoins
    /\ loggedIn' = TRUE
    /\ UNCHANGED <<selected, conn, statsOn, shown, streamingPeers, watched, queue, audio, core,
                   joins, cutOff, refused, hasty>>

\* Something waits that will end the watch of p.
Waiting(p) ==
    \E e \in Contents(queue) :
        \/ e.type = "disconnected"
        \/ e.type \in {"left", "stopped", "rejected"} /\ e.peer = p

JoinStream(p) ==
    /\ p \in streamingPeers \ watched
    /\ watched' = watched \cup {p} /\ coreWatched' = coreWatched \cup {p}
    /\ hasty' = IF Waiting(p) THEN hasty \cup {p} ELSE hasty
    /\ UNCHANGED <<loggedIn, selected, conn, statsOn, shown, streamingPeers, queue, audio,
                   voiceRequested, screenRequested, socket, room, streams, joins, cutOff,
                   refused>>

LeaveStream(p) ==
    /\ p \in watched
    /\ watched' = watched \ {p} /\ coreWatched' = coreWatched \ {p}
    /\ hasty' = hasty \ {p}
    /\ UNCHANGED <<loggedIn, selected, conn, statsOn, shown, streamingPeers, queue, audio,
                   voiceRequested, screenRequested, socket, room, streams, joins, cutOff,
                   refused>>

-----------------------------------------------------------------------------
\* Handlers of the queued events.
Taken(type) == queue # <<>> /\ Head(queue).type = type

\* wsConnected: the channel may have been left with the account.
WsConnected ==
    /\ Taken("connected")
    /\ IF loggedIn /\ selected
       THEN /\ conn' = "connected" /\ statsOn' = TRUE
            /\ queue' = Tail(queue)
            /\ UNCHANGED <<socket, room, streams>>
       ELSE /\ queue' = Tail(DisconnectQueued)
            /\ socket' = "none" /\ room' = {} /\ streams' = {}
            /\ UNCHANGED <<conn, statsOn>>
    /\ UNCHANGED <<loggedIn, selected, shown, streamingPeers, watched, audio, voiceRequested,
                   screenRequested, coreWatched, joins, cutOff, refused, hasty>>

ListsEnded == ClearLists

\* wsDisconnected: ends the audio and the screen of whatever call there is.
WsDisconnected ==
    /\ Taken("disconnected")
    /\ queue' = Tail(queue)
    /\ conn' = "disconnected" /\ statsOn' = FALSE
    /\ IF conn # "disconnected"
       THEN AudioStop /\ screenRequested' = FALSE /\ coreWatched' = {} /\ hasty' = {}
       ELSE UNCHANGED <<audio, screenRequested, coreWatched, hasty>>
    /\ ListsEnded
    /\ cutOff' = (cutOff \/ socket # "none")
    /\ UNCHANGED <<loggedIn, selected, voiceRequested, socket, room, streams, joins,
                   refused>>

\* peerJoined appends whatever is listed already.
PeerJoined ==
    /\ Taken("joined")
    /\ shown' = [shown EXCEPT ![Head(queue).peer] = @ + 1]
    /\ queue' = Tail(queue)
    /\ UNCHANGED <<loggedIn, selected, conn, statsOn, streamingPeers, watched, audio, core,
                   joins, cutOff, refused, hasty>>

PeerLeft ==
    /\ Taken("left")
    /\ LET p == Head(queue).peer
       IN  /\ shown' = [shown EXCEPT ![p] = 0]
           /\ streamingPeers' = streamingPeers \ {p} /\ watched' = watched \ {p}
    /\ queue' = Tail(queue)
    /\ UNCHANGED <<loggedIn, selected, conn, statsOn, audio, core, joins, cutOff, refused,
                   hasty>>

StreamingStarted ==
    /\ Taken("streaming")
    /\ streamingPeers' = streamingPeers \cup {Head(queue).peer}
    /\ queue' = Tail(queue)
    /\ UNCHANGED <<loggedIn, selected, conn, statsOn, shown, watched, audio, core, joins,
                   cutOff, refused, hasty>>

\* removeStreamingPeer: returns early for a peer that is not listed.
StreamingStopped ==
    /\ Taken("stopped")
    /\ LET p == Head(queue).peer
       IN  IF p \in streamingPeers
           THEN streamingPeers' = streamingPeers \ {p} /\ watched' = watched \ {p}
           ELSE UNCHANGED <<streamingPeers, watched>>
    /\ queue' = Tail(queue)
    /\ UNCHANGED <<loggedIn, selected, conn, statsOn, shown, audio, core, joins, cutOff,
                   refused, hasty>>

RejectedLeaves(p) == watched \ {p}

StreamWatchRejected ==
    /\ Taken("rejected")
    /\ watched' = RejectedLeaves(Head(queue).peer)
    /\ queue' = Tail(queue)
    /\ UNCHANGED <<loggedIn, selected, conn, statsOn, shown, streamingPeers, audio, core, joins,
                   cutOff, refused, hasty>>

-----------------------------------------------------------------------------
\* The transport and the core on their own threads.
Happens(e) == queue' = Append(queue, e)

coreButRoom == <<voiceRequested, screenRequested>>

SocketOpens ==
    /\ socket = "opening"
    /\ socket' = "open"
    /\ Happens(Event("connected", NoPeer))
    /\ UNCHANGED <<gui, audio, coreButRoom, coreWatched, room, streams, joins, cutOff,
                   refused, hasty>>

\* Mutant: a connection that never opened ends without a word.
EndsQuietly == IF socket = "open" THEN Append(queue, Event("disconnected", NoPeer)) ELSE queue

EndQueued == Append(queue, Event("disconnected", NoPeer))

\* notify_disconnected: the connection is refused or lost.
SocketLost ==
    /\ socket # "none"
    /\ socket' = "none" /\ room' = {} /\ streams' = {}
    /\ queue' = EndQueued
    /\ UNCHANGED <<gui, audio, coreButRoom, coreWatched, joins, cutOff, refused, hasty>>

PeerEnters(p) ==
    /\ socket = "open" /\ p \notin room /\ Room
    /\ room' = room \cup {p}
    /\ Happens(Event("joined", p))
    /\ UNCHANGED <<gui, audio, coreButRoom, coreWatched, socket, streams, joins, cutOff,
                   refused, hasty>>

\* on_peer_left: remove_peer in the core first.
PeerLeaves(p) ==
    /\ p \in room /\ Room
    /\ room' = room \ {p} /\ streams' = streams \ {p}
    /\ coreWatched' = coreWatched \ {p}
    /\ Happens(Event("left", p))
    /\ UNCHANGED <<gui, audio, coreButRoom, socket, joins, cutOff, refused, hasty>>

PeerShares(p) ==
    /\ p \in room \ streams /\ Room
    /\ streams' = streams \cup {p}
    /\ Happens(Event("streaming", p))
    /\ UNCHANGED <<gui, audio, coreButRoom, coreWatched, socket, room, joins, cutOff,
                   refused, hasty>>

\* on_streaming_stopped: peer_stopped_streaming in the core first.
PeerStops(p) ==
    /\ p \in streams /\ Room
    /\ streams' = streams \ {p}
    /\ coreWatched' = coreWatched \ {p}
    /\ Happens(Event("stopped", p))
    /\ UNCHANGED <<gui, audio, coreButRoom, socket, room, joins, cutOff, refused, hasty>>

\* on_watch_rejected: handle_watch_rejected in the core and the event.
ServerRejects(p) ==
    /\ socket = "open" /\ p \in coreWatched /\ Room
    /\ coreWatched' = coreWatched \ {p}
    /\ Happens(Event("rejected", p))
    /\ UNCHANGED <<gui, audio, coreButRoom, socket, room, streams, joins, cutOff, refused,
                   hasty>>

-----------------------------------------------------------------------------
CallInit ==
    /\ loggedIn = TRUE /\ selected = FALSE /\ conn = "disconnected" /\ statsOn = FALSE
    /\ shown = Nobody /\ streamingPeers = {} /\ watched = {}
    /\ queue = <<>> /\ pool = <<>>
    /\ voiceRequested = FALSE /\ screenRequested = FALSE /\ coreWatched = {}
    /\ socket = "none" /\ room = {} /\ streams = {} /\ joins = 0
    /\ wantsAudio = FALSE /\ cutOff = FALSE /\ refused = FALSE /\ hasty = {}

Handle ==
    \/ WsConnected \/ WsDisconnected \/ PeerJoined \/ PeerLeft
    \/ StreamingStarted \/ StreamingStopped \/ StreamWatchRejected

CallNext ==
    \/ LeaveVoiceChannel \/ JoinVoiceChannel \/ Logout \/ Login
    \/ AudioCheck \/ AudioCall \/ Handle \/ SocketOpens \/ SocketLost
    \/ \E p \in Peers :
        \/ JoinStream(p) \/ LeaveStream(p) \/ PeerEnters(p) \/ PeerLeaves(p)
        \/ PeerShares(p) \/ PeerStops(p) \/ ServerRejects(p)

CallSpec == CallInit /\ [][CallNext]_callVars

\* The event loop and the pool go on, and a socket opens or fails: libdatachannel
\* gives up on a connection that does not come about.
Fairness ==
    /\ WF_callVars(Handle) /\ WF_callVars(AudioCheck \/ AudioCall)
    /\ WF_callVars(SocketOpens \/ (socket = "opening" /\ SocketLost))

FairCallSpec == CallSpec /\ Fairness

-----------------------------------------------------------------------------
CallTypeOK ==
    /\ conn \in {"disconnected", "connecting", "connected"}
    /\ socket \in {"none", "opening", "open"}
    /\ shown \in [Peers -> Nat]
    /\ streamingPeers \subseteq Peers /\ watched \subseteq Peers /\ coreWatched \subseteq Peers
    /\ room \subseteq Peers /\ streams \subseteq room
    /\ \A i \in 1..Len(pool) : pool[i].latest => i = Len(pool)
    /\ \A e \in Contents(queue) : e.peer \in Peers \cup {NoPeer}

\* All that happened has been handled and the audio calls are done.
AllHandled == queue = <<>> /\ pool = <<>>

\* Once all is handled, the application shows a connection and polls its statistics
\* exactly when the socket is open, though events of an earlier call may have been
\* handled in this one.
ConnectionShown ==
    queue = <<>> => /\ (conn = "connected") = (socket = "open")
                    /\ statsOn = (conn = "connected")

\* Once all is handled, the lists hold every peer of the channel once and the
\* streams of the channel, and nothing of the channels before it.
PeopleShown ==
    queue = <<>> => /\ shown = [p \in Peers |-> IF p \in room THEN 1 ELSE 0]
                    /\ streamingPeers = streams

\* Once all is handled, the streams marked as watched are those the core watches,
\* except those joined while an event that ends the watch was waiting.
WatchedShown == queue = <<>> => watched \ hasty = coreWatched \ hasty

\* What the application shows of a call is the call, once its queue is empty.
ShownAsIs == CallTypeOK /\ ConnectionShown /\ PeopleShown /\ WatchedShown

\* Once the pool is done, voice is requested or not as the GUI thread asked last,
\* and nothing is captured for a call that is not shown.
AudioAsAsked ==
    AllHandled => /\ voiceRequested = wantsAudio
                  /\ conn = "disconnected" => ~voiceRequested /\ ~screenRequested

\* A call shown as connected has its voice and screen sessions requested, unless
\* the end of an earlier connection was handled after the call had been started.
CallHasMedia ==
    AllHandled /\ conn = "connected" /\ ~cutOff => voiceRequested /\ screenRequested

\* What the application asks of the core is what the user asked of it.
MediaAsAsked == AudioAsAsked /\ CallHasMedia

\* The application does not show "connecting" for ever: the socket opens or fails
\* and the event is handled, unless the socket could not even be made, of which
\* nobody is told.
ConnectingEnds == (conn = "connecting" /\ ~refused) ~> (conn # "connecting" \/ refused)
=============================================================================
