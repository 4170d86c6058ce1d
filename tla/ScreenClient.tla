----------------------------- MODULE ScreenClient -----------------------------
(***************************************************************************)
(* The screen half of GoogleWebRtcClient (google_webrtc_client.cpp): the   *)
(* screen session, sharing one's own screen, and what recovery does to     *)
(* both.  Watching other screens is left out.                              *)
(*                                                                         *)
(* Threads.  "gui" inits and deinits the session and starts and stops      *)
(* sharing, "socket" brings the state of signaling, "worker" runs          *)
(* recoveries.  Sections under `mutex` are actions.  Two mutexes are held  *)
(* over several of them: screen_lifecycle_mutex (lifecycle) and, inside    *)
(* it if both are taken, sharing_mutex (sharer).                           *)
(*                                                                         *)
(* What was sent to the server and not yet handled is outbox; it is lost   *)
(* with the connection, and the server then forgets the stream.            *)
(***************************************************************************)
EXTENDS Naturals, Sequences, FiniteSets

CONSTANTS
    None,
    Sessions,    \* screen sessions; one that nobody refers to is used again
    Requests,    \* SharingRequests: what to capture
    MaxFailures, \* bound on the recoveries that wait for the worker
    MaxOutbox    \* bound on the messages under way when more may follow

Threads == {"gui", "socket", "worker"}

ASSUME ScreenClientConstants ==
    /\ None \notin Sessions \cup Requests \cup Threads
    /\ MaxFailures \in Nat /\ MaxOutbox \in Nat

VARIABLES
    connected, screen_requested, screen_session,
    sharing_active, sharing_request,
    lifecycle, sharer,   \* who holds the two mutexes
    call,                \* what each thread is doing
    open,                \* sessions with a PeerConnection
    capturing,           \* sessions whose desktop capture runs
    playout,             \* screen_playout runs
    scheduled, recovery_queue,
    outbox,              \* streaming_start and streaming_stop under way
    streaming,           \* the server's Session::is_streaming
    gaveUp,              \* the last session could not be started
    wish,                \* the user's last wish: to share or not to
    crossed              \* the user started or stopped sharing during a recovery

peer    == <<open, playout>>
sharing == <<sharing_active, sharing_request>>
recovery == <<scheduled, recovery_queue>>
server  == <<outbox, streaming>>
history == <<gaveUp, wish, crossed>>

vars == <<connected, screen_requested, screen_session, sharing, lifecycle, sharer,
          call, peer, capturing, recovery, server, history>>

Steps == {"idle", "start", "create", "install", "stop", "detach", "close", "share",
          "capture", "retain", "announce", "remember", "forget", "unshare", "uncapture"}

Idle == [step |-> "idle", then |-> <<>>, session |-> None, request |-> None,
         was |-> FALSE]

Calls == [step : Steps, then : Seq(Steps), session : Sessions \cup {None},
          request : Requests \cup {None}, was : BOOLEAN]

\* A thread's next step; when a function returns, the next one of its caller.
Goto(t, step) == call' = [call EXCEPT ![t].step = step]

Return(t) ==
    call' = [call EXCEPT ![t] =
                IF call[t].then = <<>> THEN Idle
                ELSE [call[t] EXCEPT !.step = Head(call[t].then),
                                     !.then = Tail(call[t].then), !.session = None]]

Send(m) == outbox' = IF connected THEN Append(outbox, m) ELSE outbox

-----------------------------------------------------------------------------
Unknown(s) == s \notin open /\ \A t \in Threads : call[t].session # s

MayStart == screen_requested /\ screen_session = None /\ connected

\* start_screen_if_requested: the first section and the start of the playout.
StartScreenIfRequested(t) ==
    /\ call[t].step = "start" /\ lifecycle = None
    /\ IF MayStart
       THEN /\ \E s \in Sessions : Unknown(s)
            /\ lifecycle' = t /\ playout' = TRUE /\ gaveUp' = FALSE
            /\ call' = [call EXCEPT ![t] = [@ EXCEPT !.step = "create",
                           !.session = CHOOSE s \in Sessions : Unknown(s)]]
       ELSE Return(t) /\ UNCHANGED <<lifecycle, playout, gaveUp>>
    /\ UNCHANGED <<connected, screen_requested, screen_session, sharing, sharer, open,
                   capturing, recovery, server, wish, crossed>>

\* Mutant: the playout goes on when the session could not be started.
PlayoutLeft == playout

PlayoutAfterFailure == FALSE

\* GoogleWebRtcScreenSession::start, which may fail.
CreateSession(t) ==
    /\ call[t].step = "create"
    /\ \/ /\ open' = open \cup {call[t].session}
          /\ Goto(t, "install")
          /\ UNCHANGED <<playout, lifecycle, gaveUp>>
       \/ /\ playout' = PlayoutAfterFailure /\ gaveUp' = TRUE
          /\ lifecycle' = None
          /\ Return(t)
          /\ UNCHANGED open
    /\ UNCHANGED <<connected, screen_requested, screen_session, sharing, sharer,
                   capturing, recovery, server, wish, crossed>>

\* start_screen_if_requested: the last section.
InstallSession(t) ==
    LET s == call[t].session IN
    /\ call[t].step = "install"
    /\ IF MayStart THEN screen_session' = s /\ UNCHANGED peer
       ELSE open' = open \ {s} /\ playout' = FALSE /\ UNCHANGED screen_session
    /\ lifecycle' = None
    /\ Return(t)
    /\ UNCHANGED <<connected, screen_requested, sharing, sharer, capturing, recovery,
                   server, history>>

\* stop_screen_session takes the lifecycle mutex and then the sharing mutex.
StopScreenSession(t) ==
    /\ call[t].step = "stop" /\ lifecycle = None
    /\ lifecycle' = t
    /\ Goto(t, "detach")
    /\ UNCHANGED <<connected, screen_requested, screen_session, sharing, sharer, peer,
                   capturing, recovery, server, history>>

DetachSession(t) ==
    /\ call[t].step = "detach" /\ sharer = None
    /\ sharer' = t
    /\ screen_session' = None /\ sharing_active' = FALSE
    /\ call' = [call EXCEPT ![t] = [@ EXCEPT !.step = "close", !.session = screen_session]]
    /\ crossed' = (crossed /\ (t # "socket" \/ call["worker"] # Idle))
    /\ UNCHANGED <<connected, screen_requested, sharing_request, lifecycle, peer,
                   capturing, recovery, server, gaveUp, wish>>

\* Mutant: the capture of the session that is closed goes on.
CaptureLeft(s) == capturing

\* stop_desktop_capture.
CaptureStopped(s) == capturing \ {s}

\* Its token fits nothing any more.
Without(s, queue) == [i \in 1..Len(queue) |-> IF queue[i] = s THEN None ELSE queue[i]]

CloseSession(t) ==
    LET s == call[t].session IN
    /\ call[t].step = "close"
    /\ capturing' = CaptureStopped(s)
    /\ open' = open \ {s} /\ playout' = FALSE
    /\ scheduled' = scheduled \ {s} /\ recovery_queue' = Without(s, recovery_queue)
    /\ lifecycle' = None /\ sharer' = None
    /\ Return(t)
    /\ UNCHANGED <<connected, screen_requested, screen_session, sharing, server, history>>

-----------------------------------------------------------------------------
\* apply_sharing takes the sharing mutex.
ApplySharing(t) ==
    /\ call[t].step = "share" /\ sharer = None
    /\ IF sharing_active \/ ~screen_requested \/ screen_session = None
       THEN /\ call' = [call EXCEPT ![t] = IF t = "worker"
                           THEN [@ EXCEPT !.step = "forget"] ELSE Idle]
            /\ UNCHANGED sharer
       ELSE /\ sharer' = t
            /\ call' = [call EXCEPT ![t] = [@ EXCEPT !.step = "capture",
                           !.session = screen_session]]
    /\ UNCHANGED <<connected, screen_requested, screen_session, sharing, lifecycle, peer,
                   capturing, recovery, server, history>>

\* start_desktop_capture; it or the capture of the system's audio may fail.
StartCapture(t) ==
    /\ call[t].step = "capture"
    /\ \/ /\ capturing' = capturing \cup {call[t].session}
          /\ Goto(t, "retain")
          /\ UNCHANGED sharer
       \/ /\ sharer' = None
          /\ call' = [call EXCEPT ![t] = IF t = "worker"
                         THEN [@ EXCEPT !.step = "forget", !.session = None] ELSE Idle]
          /\ UNCHANGED capturing
    /\ UNCHANGED <<connected, screen_requested, screen_session, sharing, lifecycle, peer,
                   recovery, server, history>>

\* apply_sharing: the last section, and the capture is stopped if nobody wants it.
RetainCapture(t) ==
    LET s == call[t].session IN
    /\ call[t].step = "retain"
    /\ IF screen_requested /\ ~sharing_active /\ screen_session = s
       THEN /\ sharing_active' = TRUE
            /\ Goto(t, "announce")
            /\ UNCHANGED <<capturing, sharer>>
       ELSE /\ capturing' = CaptureStopped(s)
            /\ sharer' = None
            /\ call' = [call EXCEPT ![t] = IF t = "worker"
                           THEN [@ EXCEPT !.step = "forget", !.session = None] ELSE Idle]
            /\ UNCHANGED sharing_active
    /\ UNCHANGED <<connected, screen_requested, screen_session, sharing_request,
                   lifecycle, peer, recovery, server, history>>

\* send_streaming_start; start_sharing has then to remember the request.
AnnounceSharing(t) ==
    /\ call[t].step = "announce"
    /\ Send("streaming_start")
    /\ sharer' = None
    /\ call' = [call EXCEPT ![t] = IF t = "worker" THEN Idle
                   ELSE [@ EXCEPT !.step = "remember", !.session = None]]
    /\ UNCHANGED <<connected, screen_requested, screen_session, sharing, lifecycle, peer,
                   capturing, recovery, streaming, history>>

\* The end of start_sharing, and of a recovery that could not resume.
RememberRequest(t) ==
    /\ call[t].step \in {"remember", "forget"}
    /\ sharing_request' = IF call[t].step = "remember" THEN call[t].request ELSE None
    /\ call' = [call EXCEPT ![t] = Idle]
    /\ UNCHANGED <<connected, screen_requested, screen_session, sharing_active,
                   lifecycle, sharer, peer, capturing, recovery, server, history>>

Recovering == call["worker"] # Idle

StartSharing(r) ==
    /\ call["gui"] = Idle /\ Len(outbox) < MaxOutbox
    /\ wish' = TRUE
    /\ crossed' = (crossed \/ Recovering)
    /\ call' = [call EXCEPT !["gui"] = [Idle EXCEPT !.step = "share", !.request = r]]
    /\ UNCHANGED <<connected, screen_requested, screen_session, sharing, lifecycle,
                   sharer, peer, capturing, recovery, server, gaveUp>>

\* stop_sharing: the section, with the sharing mutex taken.
StopSharing(t) ==
    /\ call[t].step = "unshare" /\ sharer = None
    /\ sharer' = t
    /\ sharing_active' = FALSE /\ sharing_request' = None
    /\ wish' = FALSE
    /\ crossed' = (Recovering \/ (crossed /\ ~sharing_active))
    /\ call' = [call EXCEPT ![t] = [@ EXCEPT !.step = "uncapture",
                   !.session = screen_session, !.was = sharing_active]]
    /\ UNCHANGED <<connected, screen_requested, screen_session, lifecycle, peer,
                   capturing, recovery, server, gaveUp>>

StopCapture(t) ==
    /\ call[t].step = "uncapture"
    /\ capturing' = CaptureStopped(call[t].session)
    /\ IF call[t].was THEN Send("streaming_stop") ELSE UNCHANGED outbox
    /\ sharer' = None
    /\ Return(t)
    /\ UNCHANGED <<connected, screen_requested, screen_session, sharing, lifecycle, peer,
                   recovery, streaming, history>>

-----------------------------------------------------------------------------
CallStopSharing ==
    /\ call["gui"] = Idle
    /\ Goto("gui", "unshare")
    /\ UNCHANGED <<connected, screen_requested, screen_session, sharing, lifecycle,
                   sharer, peer, capturing, recovery, server, history>>

InitScreen ==
    /\ call["gui"] = Idle
    /\ screen_requested' = TRUE
    /\ Goto("gui", "start")
    /\ UNCHANGED <<connected, screen_session, sharing, lifecycle, sharer, peer,
                   capturing, recovery, server, history>>

\* deinit_screen: stop_sharing and stop_screen_session.
DeinitScreen ==
    /\ call["gui"] = Idle
    /\ screen_requested' = FALSE
    /\ call' = [call EXCEPT !["gui"] = [Idle EXCEPT !.step = "unshare", !.then = <<"stop">>]]
    /\ UNCHANGED <<connected, screen_session, sharing, lifecycle, sharer, peer,
                   capturing, recovery, server, history>>

\* on_signaling_state.
SignalingState(up) ==
    /\ call["socket"] = Idle
    /\ connected # up
    /\ connected' = up
    /\ outbox' = <<>> /\ streaming' = FALSE
    /\ Goto("socket", IF up THEN "start" ELSE "stop")
    /\ UNCHANGED <<screen_requested, screen_session, sharing, lifecycle, sharer, peer,
                   capturing, recovery, history>>

\* What the server does with streaming_start and streaming_stop.
ServerHandles ==
    /\ outbox # <<>>
    /\ streaming' = (Head(outbox) = "streaming_start")
    /\ outbox' = Tail(outbox)
    /\ UNCHANGED <<connected, screen_requested, screen_session, sharing, lifecycle,
                   sharer, call, peer, capturing, recovery, history>>

\* on_state reports Failed, once for a session.
ConnectionFails(s) ==
    /\ s \in open \ scheduled /\ Len(recovery_queue) < MaxFailures
    /\ scheduled' = scheduled \cup {s}
    /\ recovery_queue' = Append(recovery_queue, s)
    /\ UNCHANGED <<connected, screen_requested, screen_session, sharing, lifecycle,
                   sharer, call, peer, capturing, server, history>>

\* Mutant: the stream is stopped without telling the server.
TellNobody(was) == UNCHANGED outbox

\* The server is told that the stream stops for a while.
TellStop(was) == IF was THEN Send("streaming_stop") ELSE UNCHANGED outbox

\* Mutant: a recovery shares the screen whether it was shared or not.
AlwaysResumed(was, request) == <<"start", "share">>

\* What a recovery does after it has stopped the session.
Resumed(was, request) ==
    IF was /\ request # None THEN <<"start", "share">> ELSE <<"start">>

\* run_recovery and recover_screen_session up to the stop of the old session.
RecoverScreenSession ==
    /\ call["worker"] = Idle /\ recovery_queue # <<>> /\ Len(outbox) < MaxOutbox
    /\ recovery_queue' = Tail(recovery_queue)
    /\ IF screen_requested /\ screen_session = Head(recovery_queue) /\ connected
       THEN /\ call' = [call EXCEPT !["worker"] =
                  [Idle EXCEPT !.step = "stop", !.request = sharing_request,
                               !.then = Resumed(sharing_active, sharing_request)]]
            /\ TellStop(sharing_active)
            /\ crossed' = (crossed \/ call["gui"].step \in
                             {"share", "capture", "retain", "announce", "remember",
                              "unshare", "uncapture"})
       ELSE UNCHANGED <<call, outbox, crossed>>
    /\ UNCHANGED <<connected, screen_requested, screen_session, sharing, lifecycle,
                   sharer, peer, capturing, scheduled, streaming, gaveUp, wish>>

-----------------------------------------------------------------------------
Init ==
    /\ connected = FALSE /\ screen_requested = FALSE /\ screen_session = None
    /\ sharing_active = FALSE /\ sharing_request = None
    /\ lifecycle = None /\ sharer = None
    /\ call = [t \in Threads |-> Idle]
    /\ open = {} /\ capturing = {} /\ playout = FALSE
    /\ scheduled = {} /\ recovery_queue = <<>>
    /\ outbox = <<>> /\ streaming = FALSE
    /\ gaveUp = FALSE /\ wish = FALSE /\ crossed = FALSE

Proceed(t) ==
    \/ StartScreenIfRequested(t) \/ CreateSession(t) \/ InstallSession(t)
    \/ StopScreenSession(t) \/ DetachSession(t) \/ CloseSession(t)
    \/ ApplySharing(t) \/ StartCapture(t) \/ RetainCapture(t) \/ AnnounceSharing(t)
    \/ RememberRequest(t) \/ StopSharing(t) \/ StopCapture(t)

Next ==
    \/ \E t \in Threads : Proceed(t)
    \/ \E r \in Requests : StartSharing(r)
    \/ CallStopSharing \/ InitScreen \/ DeinitScreen
    \/ \E up \in BOOLEAN : SignalingState(up)
    \/ ServerHandles \/ RecoverScreenSession
    \/ \E s \in Sessions : ConnectionFails(s)

Spec == Init /\ [][Next]_vars

-----------------------------------------------------------------------------
TypeOK ==
    /\ connected \in BOOLEAN /\ screen_requested \in BOOLEAN
    /\ screen_session \in Sessions \cup {None}
    /\ sharing_active \in BOOLEAN /\ sharing_request \in Requests \cup {None}
    /\ lifecycle \in Threads \cup {None} /\ sharer \in Threads \cup {None}
    /\ call \in [Threads -> Calls]
    /\ open \subseteq Sessions /\ capturing \subseteq Sessions /\ playout \in BOOLEAN
    /\ scheduled \subseteq Sessions
    /\ recovery_queue \in Seq(Sessions \cup {None})
    /\ outbox \in Seq({"streaming_start", "streaming_stop"}) /\ streaming \in BOOLEAN
    /\ gaveUp \in BOOLEAN /\ wish \in BOOLEAN /\ crossed \in BOOLEAN

AtRest == \A t \in Threads : call[t] = Idle

\* The screen is captured only by the present session while sharing is active, or
\* by a thread that holds the sharing mutex and is about to settle it.  No order of
\* deinit_screen, stop_sharing, disconnects and recoveries leaves a capture behind.
NoHiddenCapture ==
    /\ TypeOK
    /\ \A s \in capturing :
          \/ sharing_active /\ s = screen_session
          \/ sharer # None /\ call[sharer].session = s

\* At rest there is a session exactly if one is requested and signaling is up, the
\* playout runs exactly with it, and no other PeerConnection is open.  A session that
\* is missing because the last attempt to create one failed is excepted (gaveUp): the
\* code does not try again by itself.
ScreenAsRequested ==
    AtRest =>
        /\ screen_session # None => screen_requested /\ connected
        /\ screen_requested /\ connected /\ ~gaveUp => screen_session # None
        /\ playout = (screen_session # None)
        /\ open = {screen_session} \ {None}

\* When everything sent has been handled, the server shows the stream exactly if it
\* is shared, unless the user started or stopped sharing in the middle of a
\* recovery, which reads sharing_active long before it clears it.
ServerAgrees ==
    AtRest /\ connected /\ outbox = <<>> /\ ~crossed => streaming = sharing_active

\* The screen is not shared against the user's last wish.  A recovery resumes
\* sharing from the copy it took before, so stop_sharing in between is the exception.
NoSharingUnasked == sharing_active => wish \/ crossed
=============================================================================
