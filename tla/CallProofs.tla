------------------------------ MODULE CallProofs ------------------------------
(***************************************************************************)
(* Proofs about two parts of a call, each by an invariant of its own.      *)
(*                                                                         *)
(* ScreenClient, for any sessions and requests and any bounds: no capture  *)
(* is left behind, the session is as requested, the server is told what    *)
(* is shared, and nothing is shared unasked.                               *)
(*                                                                         *)
(* DesktopCall, for any peers and any bounds: what the application shows   *)
(* of a call is the call, and what it asks of the core is what the user    *)
(* asked of it, once the callbacks that wait have been handled.            *)
(***************************************************************************)
EXTENDS ScreenClient, DesktopCall, Integers, TLAPS

\* What each thread runs: which function it is in, and what its caller still
\* has to do.
InOrder(t) ==
    LET c == call[t] IN
    /\ c.step = "idle" => c = Idle
    /\ t = "gui" =>
          \/ /\ c.step \in {"idle", "start", "create", "install", "stop", "detach",
                            "close", "share", "capture", "retain", "announce", "remember"}
             /\ c.then = <<>>
          \/ c.step \in {"unshare", "uncapture"} /\ c.then \in {<<>>, <<"stop">>}
    /\ t = "socket" =>
          /\ c.step \in {"idle", "start", "create", "install", "stop", "detach", "close"}
          /\ c.then = <<>>
    /\ t = "worker" =>
          \/ /\ c.step \in {"stop", "detach", "close"}
             /\ c.then \in {<<"start">>, <<"start", "share">>}
          \/ c.step \in {"start", "create", "install"} /\ c.then \in {<<>>, <<"share">>}
          \/ /\ c.step \in {"idle", "share", "capture", "retain", "announce", "forget"}
             /\ c.then = <<>>

\* The mutexes are held exactly between the steps that take and release them.
Locked(t) ==
    /\ lifecycle = t <=> call[t].step \in {"create", "install", "detach", "close"}
    /\ sharer = t <=>
          call[t].step \in {"close", "capture", "retain", "announce", "uncapture"}

\* What the holder of the sharing mutex makes of the capture.
CaptureHeld(t) ==
    LET c == call[t] IN
    /\ c.step \in {"capture", "retain"} => ~sharing_active /\ c.session \in Sessions
    /\ c.step = "capture" => capturing = {}
    /\ c.step \in {"retain", "announce", "close", "uncapture"} =>
          capturing \subseteq {c.session}
    /\ c.step = "announce" => sharing_active /\ c.session = screen_session
    /\ c.step \in {"close", "uncapture"} => ~sharing_active

CaptureOwned ==
    /\ sharing_active => screen_session # None
    /\ sharer = None => \A s \in capturing : sharing_active /\ s = screen_session
    /\ \A t \in Threads : CaptureHeld(t)

\* The open sessions and the playout, at rest and in the hands of the holder of
\* the lifecycle mutex.
Settled ==
    /\ open = {screen_session} \ {None}
    /\ playout <=> screen_session # None

SessionHeld(t) ==
    LET c == call[t] IN
    /\ c.step \in {"create", "install"} => c.session \in Sessions /\ playout
    /\ c.step \in {"create", "install", "close"} => screen_session = None
    /\ c.step = "create" => open = {}
    /\ c.step \in {"install", "close"} => open = {c.session} \ {None}
    /\ c.step = "detach" => Settled

SessionOwned ==
    /\ lifecycle = None => Settled
    /\ \A t \in Threads : SessionHeld(t)

\* A session that is not wanted any more is about to be stopped, and one that
\* is wanted is about to be started.
Starting(t) ==
    \/ call[t].step \in {"start", "create", "install"}
    \/ t = "worker" /\ call[t].step \in {"stop", "detach", "close"}

Deinit == call["gui"].step \in {"stop", "detach", "close"} \/ call["gui"].then = <<"stop">>

SessionWanted ==
    /\ Deinit => ~screen_requested
    /\ call["socket"].step \in {"stop", "detach", "close"} => ~connected
    /\ screen_session # None =>
          /\ screen_requested \/ Deinit
          /\ connected \/ call["socket"].step \in {"stop", "detach"}
    /\ screen_requested /\ connected /\ ~gaveUp /\ screen_session = None
          => \E t \in Threads : Starting(t)

\* A recovery that is going to share again.
Resuming ==
    \/ call["worker"].step \in {"share", "capture", "retain"}
    \/ call["worker"].then \in {<<"share">>, <<"start", "share">>}

\* Whoever is about to share was asked to, or crossed by the user.
SharingAsked ==
    /\ sharing_active => wish \/ crossed
    /\ call["gui"].step \in {"share", "capture", "retain"} => wish
    /\ Resuming => wish \/ crossed

\* What the server makes of the stream when it has handled everything.
Told == IF outbox = <<>> THEN streaming ELSE outbox[Len(outbox)] = "streaming_start"

\* The server is told, or a thread is about to tell it; a recovery has told it
\* before it clears sharing_active.
ServerTold ==
    /\ ~connected => outbox = <<>> /\ ~streaming
    /\ call["gui"].step \in {"stop", "detach"} => ~sharing_active
    /\ call["worker"].step # "idle" /\ ~crossed => call["gui"].step \notin
          {"share", "capture", "retain", "announce", "remember"}
    /\ call["worker"].step \in {"stop", "detach", "close"} /\ connected /\ ~crossed => ~Told
    /\ connected /\ ~crossed =>
          \/ sharing_active <=> Told
          \/ \E t \in Threads : call[t].step = "announce"
          \/ call["gui"].step = "uncapture" /\ call["gui"].was
          \/ call["worker"].step \in {"stop", "detach"}

Threaded == \A t \in Threads : InOrder(t) /\ Locked(t)

IInv ==
    /\ TypeOK /\ Threaded /\ CaptureOwned /\ SessionOwned /\ SessionWanted
    /\ SharingAsked /\ ServerTold
-----------------------------------------------------------------------------
\* The three threads of the client.
LEMMA ThreadsDistinct ==
  /\ "gui" \in Threads /\ "socket" \in Threads /\ "worker" \in Threads
  /\ None \notin Threads
  BY ScreenClientConstants DEF Threads

\* A thread that is in no function has nothing left to do.
LEMMA IdleFacts ==
  /\ Idle \in Calls /\ Idle.step = "idle" /\ Idle.then = <<>> /\ Idle.session = None
  /\ Idle.request = None /\ Idle.was = FALSE
  <1>1. <<>> \in Seq(Steps)
    OBVIOUS
  <1> QED
    BY <1>1 DEF Idle, Calls, Steps

\* What a function may still have to call after the one it is in.
LEMMA ThenFacts ==
  /\ <<>> \in Seq(Steps) /\ <<"stop">> \in Seq(Steps) /\ <<"start">> \in Seq(Steps)
  /\ <<"share">> \in Seq(Steps) /\ <<"start", "share">> \in Seq(Steps)
  /\ <<"stop">> # <<>> /\ <<"start">> # <<>> /\ <<"share">> # <<>>
  /\ <<"start", "share">> # <<>>
  /\ <<"stop">> # <<"start">> /\ <<"stop">> # <<"share">> /\ <<"start">> # <<"share">>
  /\ <<"stop">> # <<"start", "share">> /\ <<"start">> # <<"start", "share">>
  /\ <<"share">> # <<"start", "share">>
  /\ Head(<<"stop">>) = "stop" /\ Tail(<<"stop">>) = <<>>
  /\ Head(<<"start">>) = "start" /\ Tail(<<"start">>) = <<>>
  /\ Head(<<"share">>) = "share" /\ Tail(<<"share">>) = <<>>
  /\ Head(<<"start", "share">>) = "start" /\ Tail(<<"start", "share">>) = <<"share">>
  BY DEF Steps

\* A thread is at c now; the others are where they were.
Moved(t, c) ==
    /\ call' \in [Threads -> Calls]
    /\ c \in Calls /\ call'[t] = c
    /\ \A o \in Threads \ {t} : call'[o] = call[o]

\* A step that replaces the place of one thread moves that thread.
LEMMA MovedTo ==
  ASSUME TypeOK, NEW t \in Threads, NEW c \in Calls, call' = [call EXCEPT ![t] = c]
  PROVE  Moved(t, c)
  BY DEF TypeOK, Moved

\* The steps of a thread: within a function, into a section that works on a
\* session, back to the caller, and into a function from outside.
Gone(t, c, step) ==
    /\ Moved(t, c) /\ c.step = step /\ c.then = call[t].then
    /\ c.session = call[t].session /\ c.request = call[t].request

Entered(t, c, step, s) ==
    /\ Moved(t, c) /\ c.step = step /\ c.then = call[t].then /\ c.session = s
    /\ c.request = call[t].request

Returned(t, c) ==
    /\ Moved(t, c) /\ c.session = None
    /\ call[t].then = <<>> => c = Idle
    /\ call[t].then = <<"stop">> => c.step = "stop" /\ c.then = <<>>
    /\ call[t].then = <<"start">> => c.step = "start" /\ c.then = <<>>
    /\ call[t].then = <<"share">> => c.step = "share" /\ c.then = <<>>
    /\ call[t].then = <<"start", "share">> => c.step = "start" /\ c.then = <<"share">>

Called(t, c, step, then, request) ==
    /\ Moved(t, c) /\ c.step = step /\ c.then = then /\ c.session = None
    /\ c.request = request

\* The parts of the place where a thread is.
LEMMA CallTyped ==
  ASSUME TypeOK, NEW t \in Threads
  PROVE  /\ call[t].step \in Steps /\ call[t].then \in Seq(Steps)
         /\ call[t].session \in Sessions \cup {None}
         /\ call[t].request \in Requests \cup {None} /\ call[t].was \in BOOLEAN
  BY DEF TypeOK, Calls

\* A thread that goes on within a function keeps what it works on.
LEMMA Goes ==
  ASSUME TypeOK, NEW t \in Threads, NEW step \in Steps, Goto(t, step)
  PROVE  \E c : Gone(t, c, step)
  <1> DEFINE c == [call[t] EXCEPT !.step = step]
  <1>1. c \in Calls /\ call' = [call EXCEPT ![t] = c]
    BY DEF TypeOK, Calls, Goto
  <1>2. /\ c.step = step /\ c.then = call[t].then /\ c.session = call[t].session
        /\ c.request = call[t].request
    BY DEF TypeOK, Calls
  <1> QED
    BY <1>1, <1>2, MovedTo DEF Gone

\* A thread that enters a section works on its session from now on.
LEMMA Enters ==
  ASSUME TypeOK, NEW t \in Threads, NEW step \in Steps, NEW s \in Sessions \cup {None},
         call' = [call EXCEPT ![t] = [call[t] EXCEPT !.step = step, !.session = s]]
  PROVE  \E c : Entered(t, c, step, s)
  <1> DEFINE c == [call[t] EXCEPT !.step = step, !.session = s]
  <1>1. /\ c \in Calls /\ c.step = step /\ c.session = s
        /\ c.then = call[t].then /\ c.request = call[t].request
    BY DEF TypeOK, Calls
  <1> QED
    BY <1>1, MovedTo DEF Entered

\* A thread that returns goes on with what its caller has left, or is idle.
LEMMA Returns ==
  ASSUME TypeOK, NEW t \in Threads, Return(t)
  PROVE  \E c : Returned(t, c)
  <1>1. CASE call[t].then = <<>>
    BY <1>1, MovedTo, IdleFacts, ThenFacts DEF Return, Returned
  <1>2. CASE call[t].then # <<>>
    <2> DEFINE c == [call[t] EXCEPT !.step = Head(call[t].then),
                                    !.then = Tail(call[t].then), !.session = None]
    <2>1. call[t] \in Calls
      BY DEF TypeOK
    <2>2. Head(call[t].then) \in Steps /\ Tail(call[t].then) \in Seq(Steps)
      BY <1>2, <2>1 DEF Calls
    <2>3. /\ c \in Calls /\ c.step = Head(call[t].then) /\ c.then = Tail(call[t].then)
          /\ c.session = None
      BY <2>1, <2>2 DEF Calls
    <2>4. call' = [call EXCEPT ![t] = c]
      BY <1>2 DEF Return
    <2> HIDE DEF c
    <2>5. Moved(t, c)
      BY <2>3, <2>4, MovedTo
    <2>6. Returned(t, c)
      BY <1>2, <2>3, <2>5, ThenFacts DEF Returned
    <2> QED
      BY <2>6
  <1> QED
    BY <1>1, <1>2

\* A thread that is called from outside begins with what it is asked for.
LEMMA Calling ==
  ASSUME TypeOK, NEW t \in Threads, NEW step \in Steps, NEW then \in Seq(Steps),
         NEW request \in Requests \cup {None},
         call' = [call EXCEPT ![t] =
                    [Idle EXCEPT !.step = step, !.then = then, !.request = request]]
  PROVE  \E c : Called(t, c, step, then, request)
  <1> DEFINE c == [Idle EXCEPT !.step = step, !.then = then, !.request = request]
  <1>1. /\ c \in Calls /\ c.step = step /\ c.then = then /\ c.session = None
        /\ c.request = request
    BY DEF Idle, Calls
  <1> QED
    BY <1>1, MovedTo DEF Called

\* Without leaves a sequence of sessions.
LEMMA WithoutTyped ==
  ASSUME NEW s, NEW waiting \in Seq(Sessions \cup {None})
  PROVE  Without(s, waiting) \in Seq(Sessions \cup {None})
  BY DEF Without

\* What was sent last is what the server will make of the stream.
LEMMA SendFacts ==
  ASSUME TypeOK, NEW m \in {"streaming_start", "streaming_stop"}, Send(m), UNCHANGED streaming
  PROVE  /\ outbox' \in Seq({"streaming_start", "streaming_stop"})
         /\ connected => (Told' <=> m = "streaming_start")
         /\ ~connected => outbox' = outbox
  <1>1. CASE connected
    <2>1. outbox' = Append(outbox, m)
      BY <1>1 DEF Send
    <2>2. /\ outbox' \in Seq({"streaming_start", "streaming_stop"}) /\ outbox' # <<>>
          /\ outbox'[Len(outbox')] = m
      BY <2>1 DEF TypeOK
    <2> QED
      BY <1>1, <2>2 DEF Told
  <1>2. CASE ~connected
    BY <1>2 DEF Send, TypeOK
  <1> QED
    BY <1>1, <1>2

\* The new session exists for the holder of the lifecycle mutex only.
LEMMA StartScreenIfRequestedStep ==
  ASSUME IInv, NEW t \in Threads, StartScreenIfRequested(t)
  PROVE  IInv'
  <1> USE ScreenClientConstants, ThreadsDistinct, ThenFacts, IdleFacts
  <1>1. /\ call[t].step = "start" /\ lifecycle = None
        /\ call[t].then \in {<<>>, <<"share">>} /\ (t # "worker" => call[t].then = <<>>)
    BY DEF StartScreenIfRequested, IInv, Threaded, InOrder, Locked, Threads
  <1>2. UNCHANGED <<connected, screen_requested, screen_session, sharing_active,
                  sharing_request, sharer, open, capturing, scheduled, recovery_queue, outbox,
                  streaming, wish, crossed>>
    BY DEF StartScreenIfRequested, peer, sharing, recovery, server, history
  <1>3. CASE MayStart
    <2>1. PICK c : /\ \E s \in Sessions : Entered(t, c, "create", s)
                   /\ lifecycle' = t /\ playout' = TRUE /\ gaveUp' = FALSE
      <3>1. PICK s \in Sessions : call' = [call EXCEPT ![t] =
                 [call[t] EXCEPT !.step = "create", !.session = s]]
        BY <1>3 DEF StartScreenIfRequested
      <3>2. "create" \in Steps
        BY DEF Steps
      <3>3. \E c : Entered(t, c, "create", s)
        BY <3>1, <3>2, Enters DEF IInv
      <3> QED
        BY <1>3, <3>3 DEF StartScreenIfRequested
    <2>2. TypeOK'
      BY <1>1, <1>2, <1>3, <2>1 DEF IInv, TypeOK, Moved, Entered, MayStart
    <2>3. Threaded'
      BY <1>1, <1>2, <1>3, <2>1
         DEF IInv, Threaded, InOrder, Locked, Moved, Entered, MayStart
    <2>4. CaptureOwned'
      BY <1>1, <1>2, <1>3, <2>1
         DEF IInv, CaptureOwned, CaptureHeld, Moved, Entered, MayStart
    <2>5. SessionOwned'
      BY <1>1, <1>2, <1>3, <2>1
         DEF IInv, SessionOwned, SessionHeld, Settled, Moved, Entered, MayStart,
             Threaded, Locked
    <2>6. SessionWanted'
      BY <1>1, <1>2, <1>3, <2>1
         DEF IInv, SessionWanted, Starting, Deinit, Moved, Entered, MayStart
    <2>7. SharingAsked'
      BY <1>1, <1>2, <1>3, <2>1
         DEF IInv, SharingAsked, Resuming, Moved, Entered, MayStart
    <2>8. ServerTold'
      BY <1>1, <1>2, <1>3, <2>1 DEF IInv, ServerTold, Told, Moved, Entered, MayStart
    <2> QED
      BY <2>2, <2>3, <2>4, <2>5, <2>6, <2>7, <2>8 DEF IInv
  <1>4. CASE ~MayStart
    <2>1. PICK c : Returned(t, c) /\ UNCHANGED <<lifecycle, playout, gaveUp>>
      BY <1>4, Returns DEF StartScreenIfRequested, IInv
    <2>2. TypeOK'
      BY <1>1, <1>2, <1>4, <2>1 DEF IInv, TypeOK, Moved, Returned, MayStart
    <2>3. Threaded'
      BY <1>1, <1>2, <1>4, <2>1
         DEF IInv, Threaded, InOrder, Locked, Moved, Returned, MayStart
    <2>4. CaptureOwned'
      BY <1>1, <1>2, <1>4, <2>1
         DEF IInv, CaptureOwned, CaptureHeld, Moved, Returned, MayStart
    <2>5. SessionOwned'
      BY <1>1, <1>2, <1>4, <2>1
         DEF IInv, SessionOwned, SessionHeld, Settled, Moved, Returned, MayStart,
             Threaded, Locked
    <2>6. SessionWanted'
      BY <1>1, <1>2, <1>4, <2>1
         DEF IInv, SessionWanted, Starting, Deinit, Moved, Returned, MayStart
    <2>7. SharingAsked'
      BY <1>1, <1>2, <1>4, <2>1
         DEF IInv, SharingAsked, Resuming, Moved, Returned, MayStart
    <2>8. ServerTold'
      BY <1>1, <1>2, <1>4, <2>1 DEF IInv, ServerTold, Told, Moved, Returned, MayStart
    <2> QED
      BY <2>2, <2>3, <2>4, <2>5, <2>6, <2>7, <2>8 DEF IInv
  <1> QED
    BY <1>3, <1>4

\* start_screen_if_requested: the session starts, or its start fails.
LEMMA CreateSessionStep ==
  ASSUME IInv, NEW t \in Threads, CreateSession(t)
  PROVE  IInv'
  <1> USE ScreenClientConstants, ThreadsDistinct, ThenFacts, IdleFacts
  <1>1. /\ call[t].step = "create" /\ lifecycle = t
        /\ call[t].session \in Sessions \cup {None}
        /\ call[t].then \in {<<>>, <<"share">>} /\ (t # "worker" => call[t].then = <<>>)
    BY CallTyped DEF CreateSession, IInv, Threaded, InOrder, Locked, Threads
  <1>2. UNCHANGED <<connected, screen_requested, screen_session, sharing_active,
                  sharing_request, sharer, capturing, scheduled, recovery_queue, outbox,
                  streaming, wish, crossed>>
    BY DEF CreateSession, sharing, recovery, server, history
  <1>3. CASE /\ open' = open \cup {call[t].session} /\ Goto(t, "install")
             /\ UNCHANGED <<playout, lifecycle, gaveUp>>
    <2>1. PICK c : Gone(t, c, "install")
      <3>1. "install" \in Steps
        BY DEF Steps
      <3> QED
        BY <1>3, <3>1, Goes DEF IInv
    <2>2. TypeOK'
      BY <1>1, <1>2, <1>3, <2>1 DEF IInv, TypeOK, Moved, Gone, SessionOwned, SessionHeld
    <2>3. Threaded'
      BY <1>1, <1>2, <1>3, <2>1 DEF IInv, Threaded, InOrder, Locked, Moved, Gone
    <2>4. CaptureOwned'
      BY <1>1, <1>2, <1>3, <2>1 DEF IInv, CaptureOwned, CaptureHeld, Moved, Gone
    <2>5. SessionOwned'
      BY <1>1, <1>2, <1>3, <2>1
         DEF IInv, SessionOwned, SessionHeld, Settled, Moved, Gone, Threaded, Locked
    <2>6. SessionWanted'
      BY <1>1, <1>2, <1>3, <2>1 DEF IInv, SessionWanted, Starting, Deinit, Moved, Gone
    <2>7. SharingAsked'
      BY <1>1, <1>2, <1>3, <2>1 DEF IInv, SharingAsked, Resuming, Moved, Gone
    <2>8. ServerTold'
      BY <1>1, <1>2, <1>3, <2>1 DEF IInv, ServerTold, Told, Moved, Gone
    <2> QED
      BY <2>2, <2>3, <2>4, <2>5, <2>6, <2>7, <2>8 DEF IInv
  <1>4. CASE /\ playout' = FALSE /\ gaveUp' = TRUE /\ lifecycle' = None
             /\ Return(t) /\ UNCHANGED open
    <2>1. PICK c : Returned(t, c)
      BY <1>4, Returns DEF IInv
    <2>2. TypeOK'
      BY <1>1, <1>2, <1>4, <2>1
         DEF IInv, TypeOK, Moved, Returned, SessionOwned, SessionHeld
    <2>3. Threaded'
      BY <1>1, <1>2, <1>4, <2>1 DEF IInv, Threaded, InOrder, Locked, Moved, Returned
    <2>4. CaptureOwned'
      BY <1>1, <1>2, <1>4, <2>1 DEF IInv, CaptureOwned, CaptureHeld, Moved, Returned
    <2>5. SessionOwned'
      BY <1>1, <1>2, <1>4, <2>1
         DEF IInv, SessionOwned, SessionHeld, Settled, Moved, Returned, Threaded,
             Locked
    <2>6. SessionWanted'
      BY <1>1, <1>2, <1>4, <2>1
         DEF IInv, SessionWanted, Starting, Deinit, Moved, Returned
    <2>7. SharingAsked'
      BY <1>1, <1>2, <1>4, <2>1 DEF IInv, SharingAsked, Resuming, Moved, Returned
    <2>8. ServerTold'
      BY <1>1, <1>2, <1>4, <2>1 DEF IInv, ServerTold, Told, Moved, Returned
    <2> QED
      BY <2>2, <2>3, <2>4, <2>5, <2>6, <2>7, <2>8 DEF IInv
  <1> QED
    BY <1>3, <1>4 DEF CreateSession, PlayoutAfterFailure

\* The conditions are checked again: a session that is not wanted is closed.
LEMMA InstallSessionStep ==
  ASSUME IInv, NEW t \in Threads, InstallSession(t)
  PROVE  IInv'
  <1> USE ScreenClientConstants, ThreadsDistinct, ThenFacts, IdleFacts
  <1>1. /\ call[t].step = "install" /\ lifecycle = t /\ lifecycle' = None
        /\ call[t].session \in Sessions \cup {None}
        /\ call[t].then \in {<<>>, <<"share">>} /\ (t # "worker" => call[t].then = <<>>)
    BY CallTyped DEF InstallSession, IInv, Threaded, InOrder, Locked, Threads
  <1>2. UNCHANGED <<connected, screen_requested, sharing_active, sharing_request,
                  sharer, capturing, scheduled, recovery_queue, outbox, streaming, gaveUp,
                  wish, crossed>>
    BY DEF InstallSession, sharing, recovery, server, history
  <1>3. CASE MayStart
    <2>1. PICK c : /\ Returned(t, c)
                   /\ screen_session' = call[t].session /\ UNCHANGED <<open, playout>>
      BY <1>3, Returns DEF InstallSession, peer, IInv
    <2>2. TypeOK'
      BY <1>1, <1>2, <1>3, <2>1 DEF IInv, TypeOK, Moved, Returned, MayStart
    <2>3. Threaded'
      BY <1>1, <1>2, <1>3, <2>1
         DEF IInv, Threaded, InOrder, Locked, Moved, Returned, MayStart
    <2>4. CaptureOwned'
      BY <1>1, <1>2, <1>3, <2>1
         DEF IInv, CaptureOwned, CaptureHeld, Moved, Returned, MayStart,
             SessionOwned, SessionHeld
    <2>5. SessionOwned'
      BY <1>1, <1>2, <1>3, <2>1
         DEF IInv, SessionOwned, SessionHeld, Settled, Moved, Returned, MayStart,
             Threaded, Locked
    <2>6. SessionWanted'
      BY <1>1, <1>2, <1>3, <2>1
         DEF IInv, SessionWanted, Starting, Deinit, Moved, Returned, MayStart,
             SessionOwned, SessionHeld
    <2>7. SharingAsked'
      BY <1>1, <1>2, <1>3, <2>1
         DEF IInv, SharingAsked, Resuming, Moved, Returned, MayStart
    <2>8. ServerTold'
      BY <1>1, <1>2, <1>3, <2>1 DEF IInv, ServerTold, Told, Moved, Returned, MayStart
    <2> QED
      BY <2>2, <2>3, <2>4, <2>5, <2>6, <2>7, <2>8 DEF IInv
  <1>4. CASE ~MayStart
    <2>1. PICK c : /\ Returned(t, c) /\ UNCHANGED screen_session
                   /\ open' = open \ {call[t].session} /\ playout' = FALSE
      BY <1>4, Returns DEF InstallSession, IInv
    <2>2. TypeOK'
      BY <1>1, <1>2, <1>4, <2>1 DEF IInv, TypeOK, Moved, Returned, MayStart
    <2>3. Threaded'
      BY <1>1, <1>2, <1>4, <2>1
         DEF IInv, Threaded, InOrder, Locked, Moved, Returned, MayStart
    <2>4. CaptureOwned'
      BY <1>1, <1>2, <1>4, <2>1
         DEF IInv, CaptureOwned, CaptureHeld, Moved, Returned, MayStart,
             SessionOwned, SessionHeld
    <2>5. SessionOwned'
      BY <1>1, <1>2, <1>4, <2>1
         DEF IInv, SessionOwned, SessionHeld, Settled, Moved, Returned, MayStart,
             Threaded, Locked
    <2>6. SessionWanted'
      BY <1>1, <1>2, <1>4, <2>1
         DEF IInv, SessionWanted, Starting, Deinit, Moved, Returned, MayStart,
             SessionOwned, SessionHeld
    <2>7. SharingAsked'
      BY <1>1, <1>2, <1>4, <2>1
         DEF IInv, SharingAsked, Resuming, Moved, Returned, MayStart
    <2>8. ServerTold'
      BY <1>1, <1>2, <1>4, <2>1 DEF IInv, ServerTold, Told, Moved, Returned, MayStart
    <2> QED
      BY <2>2, <2>3, <2>4, <2>5, <2>6, <2>7, <2>8 DEF IInv
  <1> QED
    BY <1>3, <1>4

\* stop_screen_session takes the lifecycle mutex.
LEMMA StopScreenSessionStep ==
  ASSUME IInv, NEW t \in Threads, StopScreenSession(t)
  PROVE  IInv'
  <1> USE ScreenClientConstants, ThreadsDistinct, ThenFacts, IdleFacts
  <1>1. /\ call[t].step = "stop" /\ lifecycle = None /\ lifecycle' = t /\ sharer # t
        /\ t # "worker" => call[t].then = <<>>
        /\ t = "worker" => call[t].then \in {<<"start">>, <<"start", "share">>}
    BY DEF StopScreenSession, IInv, Threaded, InOrder, Locked, Threads
  <1>2. UNCHANGED <<connected, screen_requested, screen_session, sharing_active,
                  sharing_request, sharer, open, playout, capturing, scheduled,
                  recovery_queue, outbox, streaming, gaveUp, wish, crossed>>
    BY DEF StopScreenSession, peer, sharing, recovery, server, history
  <1>3. PICK c : Gone(t, c, "detach")
    <2>1. "detach" \in Steps
      BY DEF Steps
    <2> QED
      BY <2>1, Goes DEF StopScreenSession, IInv
  <1>4. TypeOK'
    BY <1>1, <1>2, <1>3 DEF IInv, TypeOK, Moved, Gone
  <1>5. Threaded'
    BY <1>1, <1>2, <1>3 DEF IInv, Threaded, InOrder, Locked, Moved, Gone
  <1>6. CaptureOwned'
    BY <1>1, <1>2, <1>3 DEF IInv, CaptureOwned, CaptureHeld, Moved, Gone
  <1>7. SessionOwned'
    BY <1>1, <1>2, <1>3 DEF IInv, SessionOwned, SessionHeld, Settled, Moved, Gone
  <1>8. SessionWanted'
    BY <1>1, <1>2, <1>3 DEF IInv, SessionWanted, Starting, Deinit, Moved, Gone
  <1>9. SharingAsked'
    BY <1>1, <1>2, <1>3 DEF IInv, SharingAsked, Resuming, Moved, Gone
  <1>10. ServerTold'
    BY <1>1, <1>2, <1>3 DEF IInv, ServerTold, Told, Moved, Gone
  <1> QED
    BY <1>4, <1>5, <1>6, <1>7, <1>8, <1>9, <1>10 DEF IInv

\* No thread that captures holds the session: it would hold the sharing mutex.
LEMMA DetachSessionStep ==
  ASSUME IInv, NEW t \in Threads, DetachSession(t)
  PROVE  IInv'
  <1> USE ScreenClientConstants, ThreadsDistinct, ThenFacts, IdleFacts
  <1>1. /\ call[t].step = "detach" /\ sharer = None /\ sharer' = t /\ lifecycle = t
        /\ screen_session' = None /\ sharing_active' = FALSE
        /\ crossed' = (crossed /\ (t # "socket" \/ call["worker"] # Idle))
        /\ t # "worker" => call[t].then = <<>>
        /\ t = "worker" => call[t].then \in {<<"start">>, <<"start", "share">>}
    BY DEF DetachSession, IInv, Threaded, InOrder, Locked, Threads
  <1>2. UNCHANGED <<connected, screen_requested, sharing_request, lifecycle, open,
                  playout, capturing, scheduled, recovery_queue, outbox, streaming, gaveUp,
                  wish>>
    BY DEF DetachSession, peer, sharing, recovery, server, history
  <1>3. PICK c : Entered(t, c, "close", screen_session)
    <2>1. "close" \in Steps /\ screen_session \in Sessions \cup {None}
      BY DEF Steps, IInv, TypeOK
    <2> QED
      BY <2>1, Enters DEF DetachSession, IInv
  <1>4. TypeOK'
    BY <1>1, <1>2, <1>3 DEF IInv, TypeOK, Moved, Entered
  <1>5. Threaded'
    BY <1>1, <1>2, <1>3 DEF IInv, Threaded, InOrder, Locked, Moved, Entered
  <1>6. CaptureOwned'
    BY <1>1, <1>2, <1>3
       DEF IInv, CaptureOwned, CaptureHeld, Moved, Entered, Threaded, Locked
  <1>7. SessionOwned'
    BY <1>1, <1>2, <1>3
       DEF IInv, SessionOwned, SessionHeld, Settled, Moved, Entered, Threaded,
           Locked
  <1>8. SessionWanted'
    BY <1>1, <1>2, <1>3
       DEF IInv, SessionWanted, Starting, Deinit, Moved, Entered, Threads
  <1>9. SharingAsked'
    BY <1>1, <1>2, <1>3 DEF IInv, SharingAsked, Resuming, Moved, Entered
  <1>10. ServerTold'
    BY <1>1, <1>2, <1>3
       DEF IInv, ServerTold, Told, Moved, Entered, Threaded, Locked, SessionWanted,
           Deinit, Threads
  <1> QED
    BY <1>4, <1>5, <1>6, <1>7, <1>8, <1>9, <1>10 DEF IInv

\* The capture of the session ends with it.
LEMMA CloseSessionStep ==
  ASSUME IInv, NEW t \in Threads, CloseSession(t)
  PROVE  IInv'
  <1> USE ScreenClientConstants, ThreadsDistinct, ThenFacts, IdleFacts
  <1>1. /\ call[t].step = "close" /\ sharer = t /\ lifecycle = t
        /\ lifecycle' = None /\ sharer' = None
        /\ capturing' = capturing \ {call[t].session}
        /\ open' = open \ {call[t].session} /\ playout' = FALSE
        /\ scheduled' = scheduled \ {call[t].session}
        /\ recovery_queue' = Without(call[t].session, recovery_queue)
        /\ t # "worker" => call[t].then = <<>>
        /\ t = "worker" => call[t].then \in {<<"start">>, <<"start", "share">>}
    BY DEF CloseSession, IInv, Threaded, InOrder, Locked, Threads, CaptureStopped
  <1>2. UNCHANGED <<connected, screen_requested, screen_session, sharing_active,
                  sharing_request, outbox, streaming, gaveUp, wish, crossed>>
    BY DEF CloseSession, sharing, server, history
  <1>3. PICK c : Returned(t, c)
    BY Returns DEF CloseSession, IInv
  <1>4. TypeOK'
    BY <1>1, <1>2, <1>3, WithoutTyped DEF IInv, TypeOK, Moved, Returned
  <1>5. Threaded'
    BY <1>1, <1>2, <1>3 DEF IInv, Threaded, InOrder, Locked, Moved, Returned
  <1>6. CaptureOwned'
    BY <1>1, <1>2, <1>3 DEF IInv, CaptureOwned, CaptureHeld, Moved, Returned
  <1>7. SessionOwned'
    BY <1>1, <1>2, <1>3
       DEF IInv, SessionOwned, SessionHeld, Settled, Moved, Returned, Threaded,
           Locked
  <1>8. SessionWanted'
    BY <1>1, <1>2, <1>3
       DEF IInv, SessionWanted, Starting, Deinit, Moved, Returned, SessionOwned,
           SessionHeld, Threads
  <1>9. SharingAsked'
    BY <1>1, <1>2, <1>3 DEF IInv, SharingAsked, Resuming, Moved, Returned
  <1>10. ServerTold'
    BY <1>1, <1>2, <1>3 DEF IInv, ServerTold, Told, Moved, Returned
  <1> QED
    BY <1>4, <1>5, <1>6, <1>7, <1>8, <1>9, <1>10 DEF IInv

\* apply_sharing takes the sharing mutex, unless there is nothing to share on.
LEMMA ApplySharingStep ==
  ASSUME IInv, NEW t \in Threads, ApplySharing(t)
  PROVE  IInv'
  <1> USE ScreenClientConstants, ThreadsDistinct, ThenFacts, IdleFacts
  <1>1. /\ call[t].step = "share" /\ sharer = None /\ lifecycle # t /\ call[t].then = <<>>
        /\ t \in {"gui", "worker"}
    BY DEF ApplySharing, IInv, Threaded, InOrder, Locked, Threads
  <1>2. UNCHANGED <<connected, screen_requested, screen_session, sharing_active,
                  sharing_request, lifecycle, open, playout, capturing, scheduled,
                  recovery_queue, outbox, streaming, gaveUp, wish, crossed>>
    BY DEF ApplySharing, peer, sharing, recovery, server, history
  <1>3. CASE sharing_active \/ ~screen_requested \/ screen_session = None
    <2>1. PICK c : /\ IF t = "worker" THEN Gone(t, c, "forget") ELSE Moved(t, c) /\ c = Idle
                   /\ UNCHANGED sharer
      <3>1. "forget" \in Steps
        BY DEF Steps
      <3>2. CASE t = "worker"
        BY <1>3, <3>1, <3>2, Goes DEF ApplySharing, Goto, IInv
      <3>3. CASE t # "worker"
        BY <1>3, <3>3, MovedTo DEF ApplySharing, IInv
      <3> QED
        BY <3>2, <3>3
    <2>2. TypeOK'
      BY <1>1, <1>2, <1>3, <2>1 DEF IInv, TypeOK, Moved, Gone
    <2>3. Threaded'
      BY <1>1, <1>2, <1>3, <2>1 DEF IInv, Threaded, InOrder, Locked, Moved, Gone
    <2>4. CaptureOwned'
      BY <1>1, <1>2, <1>3, <2>1
         DEF IInv, CaptureOwned, CaptureHeld, Moved, Gone, TypeOK, Threaded, Locked
    <2>5. SessionOwned'
      BY <1>1, <1>2, <1>3, <2>1
         DEF IInv, SessionOwned, SessionHeld, Settled, Moved, Gone
    <2>6. SessionWanted'
      BY <1>1, <1>2, <1>3, <2>1 DEF IInv, SessionWanted, Starting, Deinit, Moved, Gone
    <2>7. SharingAsked'
      BY <1>1, <1>2, <1>3, <2>1 DEF IInv, SharingAsked, Resuming, Moved, Gone
    <2>8. ServerTold'
      BY <1>1, <1>2, <1>3, <2>1 DEF IInv, ServerTold, Told, Moved, Gone
    <2> QED
      BY <2>2, <2>3, <2>4, <2>5, <2>6, <2>7, <2>8 DEF IInv
  <1>4. CASE ~(sharing_active \/ ~screen_requested \/ screen_session = None)
    <2>1. PICK c : Entered(t, c, "capture", screen_session) /\ sharer' = t
      <3>1. "capture" \in Steps /\ screen_session \in Sessions \cup {None}
        BY DEF Steps, IInv, TypeOK
      <3> QED
        BY <1>4, <3>1, Enters DEF ApplySharing, IInv
    <2>2. TypeOK'
      BY <1>1, <1>2, <1>4, <2>1 DEF IInv, TypeOK, Moved, Entered
    <2>3. Threaded'
      BY <1>1, <1>2, <1>4, <2>1 DEF IInv, Threaded, InOrder, Locked, Moved, Entered
    <2>4. CaptureOwned'
      BY <1>1, <1>2, <1>4, <2>1
         DEF IInv, CaptureOwned, CaptureHeld, Moved, Entered, TypeOK, Threaded,
             Locked
    <2>5. SessionOwned'
      BY <1>1, <1>2, <1>4, <2>1
         DEF IInv, SessionOwned, SessionHeld, Settled, Moved, Entered
    <2>6. SessionWanted'
      BY <1>1, <1>2, <1>4, <2>1
         DEF IInv, SessionWanted, Starting, Deinit, Moved, Entered
    <2>7. SharingAsked'
      BY <1>1, <1>2, <1>4, <2>1 DEF IInv, SharingAsked, Resuming, Moved, Entered
    <2>8. ServerTold'
      BY <1>1, <1>2, <1>4, <2>1 DEF IInv, ServerTold, Told, Moved, Entered
    <2> QED
      BY <2>2, <2>3, <2>4, <2>5, <2>6, <2>7, <2>8 DEF IInv
  <1> QED
    BY <1>3, <1>4

\* apply_sharing starts the capture under the sharing mutex, or fails to.
LEMMA StartCaptureStep ==
  ASSUME IInv, NEW t \in Threads, StartCapture(t)
  PROVE  IInv'
  <1> USE ScreenClientConstants, ThreadsDistinct, ThenFacts, IdleFacts
  <1>1. /\ call[t].step = "capture" /\ sharer = t /\ lifecycle # t /\ call[t].then = <<>>
        /\ t \in {"gui", "worker"}
    BY DEF StartCapture, IInv, Threaded, InOrder, Locked, Threads
  <1>2. UNCHANGED <<connected, screen_requested, screen_session, sharing_active,
                  sharing_request, lifecycle, open, playout, scheduled, recovery_queue,
                  outbox, streaming, gaveUp, wish, crossed>>
    BY DEF StartCapture, peer, sharing, recovery, server, history
  <1>3. CASE /\ capturing' = capturing \cup {call[t].session} /\ Goto(t, "retain")
             /\ UNCHANGED sharer
    <2>1. PICK c : Gone(t, c, "retain")
      <3>1. "retain" \in Steps
        BY DEF Steps
      <3> QED
        BY <1>3, <3>1, Goes DEF IInv
    <2>2. TypeOK'
      BY <1>1, <1>2, <1>3, <2>1 DEF IInv, TypeOK, Moved, Gone, CaptureOwned, CaptureHeld
    <2>3. Threaded'
      BY <1>1, <1>2, <1>3, <2>1 DEF IInv, Threaded, InOrder, Locked, Moved, Gone
    <2>4. CaptureOwned'
      BY <1>1, <1>2, <1>3, <2>1, ZenonT(40)
         DEF IInv, CaptureOwned, CaptureHeld, Moved, Gone, Threaded, Locked
    <2>5. SessionOwned'
      BY <1>1, <1>2, <1>3, <2>1
         DEF IInv, SessionOwned, SessionHeld, Settled, Moved, Gone
    <2>6. SessionWanted'
      BY <1>1, <1>2, <1>3, <2>1 DEF IInv, SessionWanted, Starting, Deinit, Moved, Gone
    <2>7. SharingAsked'
      BY <1>1, <1>2, <1>3, <2>1 DEF IInv, SharingAsked, Resuming, Moved, Gone
    <2>8. ServerTold'
      BY <1>1, <1>2, <1>3, <2>1 DEF IInv, ServerTold, Told, Moved, Gone
    <2> QED
      BY <2>2, <2>3, <2>4, <2>5, <2>6, <2>7, <2>8 DEF IInv
  <1>4. CASE /\ sharer' = None /\ UNCHANGED capturing
             /\ call' = [call EXCEPT ![t] = IF t = "worker"
                   THEN [@ EXCEPT !.step = "forget", !.session = None] ELSE Idle]
    <2>1. PICK c : IF t = "worker" THEN Entered(t, c, "forget", None)
                   ELSE Moved(t, c) /\ c = Idle
      <3>1. "forget" \in Steps
        BY DEF Steps
      <3>2. CASE t = "worker"
        BY <1>4, <3>1, <3>2, Enters DEF IInv
      <3>3. CASE t # "worker"
        BY <1>4, <3>3, MovedTo DEF IInv
      <3> QED
        BY <3>2, <3>3
    <2>2. TypeOK'
      BY <1>1, <1>2, <1>4, <2>1
         DEF IInv, TypeOK, Moved, Entered, CaptureOwned, CaptureHeld
    <2>3. Threaded'
      BY <1>1, <1>2, <1>4, <2>1 DEF IInv, Threaded, InOrder, Locked, Moved, Entered
    <2>4. CaptureOwned'
      BY <1>1, <1>2, <1>4, <2>1
         DEF IInv, CaptureOwned, CaptureHeld, Moved, Entered, Threaded, Locked
    <2>5. SessionOwned'
      BY <1>1, <1>2, <1>4, <2>1
         DEF IInv, SessionOwned, SessionHeld, Settled, Moved, Entered
    <2>6. SessionWanted'
      BY <1>1, <1>2, <1>4, <2>1
         DEF IInv, SessionWanted, Starting, Deinit, Moved, Entered
    <2>7. SharingAsked'
      BY <1>1, <1>2, <1>4, <2>1 DEF IInv, SharingAsked, Resuming, Moved, Entered
    <2>8. ServerTold'
      BY <1>1, <1>2, <1>4, <2>1 DEF IInv, ServerTold, Told, Moved, Entered
    <2> QED
      BY <2>2, <2>3, <2>4, <2>5, <2>6, <2>7, <2>8 DEF IInv
  <1> QED
    BY <1>3, <1>4 DEF StartCapture

\* The capture is retained only for the session that it was started for.
LEMMA RetainCaptureStep ==
  ASSUME IInv, NEW t \in Threads, RetainCapture(t)
  PROVE  IInv'
  <1> USE ScreenClientConstants, ThreadsDistinct, ThenFacts, IdleFacts
  <1>1. /\ call[t].step = "retain" /\ sharer = t /\ lifecycle # t /\ call[t].then = <<>>
        /\ t \in {"gui", "worker"}
    BY DEF RetainCapture, IInv, Threaded, InOrder, Locked, Threads
  <1>2. UNCHANGED <<connected, screen_requested, screen_session, sharing_request,
                  lifecycle, open, playout, scheduled, recovery_queue, outbox, streaming,
                  gaveUp, wish, crossed>>
    BY DEF RetainCapture, peer, sharing, recovery, server, history
  <1>3. CASE screen_requested /\ ~sharing_active /\ screen_session = call[t].session
    <2>1. PICK c : /\ Gone(t, c, "announce")
                   /\ sharing_active' = TRUE /\ UNCHANGED <<capturing, sharer>>
      <3>1. "announce" \in Steps
        BY DEF Steps
      <3> QED
        BY <1>3, <3>1, Goes DEF RetainCapture, IInv
    <2>2. TypeOK'
      BY <1>1, <1>2, <1>3, <2>1 DEF IInv, TypeOK, Moved, Gone
    <2>3. Threaded'
      BY <1>1, <1>2, <1>3, <2>1 DEF IInv, Threaded, InOrder, Locked, Moved, Gone
    <2>4. CaptureOwned'
      BY <1>1, <1>2, <1>3, <2>1, ZenonT(40)
         DEF IInv, CaptureOwned, CaptureHeld, Moved, Gone, Threaded, Locked
    <2>5. SessionOwned'
      BY <1>1, <1>2, <1>3, <2>1
         DEF IInv, SessionOwned, SessionHeld, Settled, Moved, Gone
    <2>6. SessionWanted'
      BY <1>1, <1>2, <1>3, <2>1 DEF IInv, SessionWanted, Starting, Deinit, Moved, Gone
    <2>7. SharingAsked'
      BY <1>1, <1>2, <1>3, <2>1 DEF IInv, SharingAsked, Resuming, Moved, Gone
    <2>8. ServerTold'
      BY <1>1, <1>2, <1>3, <2>1
         DEF IInv, ServerTold, Told, Moved, Gone, SessionWanted, Deinit
    <2> QED
      BY <2>2, <2>3, <2>4, <2>5, <2>6, <2>7, <2>8 DEF IInv
  <1>4. CASE ~(screen_requested /\ ~sharing_active /\ screen_session = call[t].session)
    <2>1. PICK c : /\ IF t = "worker" THEN Entered(t, c, "forget", None)
                      ELSE Moved(t, c) /\ c = Idle
                   /\ capturing' = capturing \ {call[t].session} /\ sharer' = None
                   /\ UNCHANGED sharing_active
      <3>1. "forget" \in Steps
        BY DEF Steps
      <3>2. CASE t = "worker"
        BY <1>4, <3>1, <3>2, Enters DEF RetainCapture, CaptureStopped, IInv
      <3>3. CASE t # "worker"
        BY <1>4, <3>3, MovedTo DEF RetainCapture, CaptureStopped, IInv
      <3> QED
        BY <3>2, <3>3
    <2>2. TypeOK'
      BY <1>1, <1>2, <1>4, <2>1 DEF IInv, TypeOK, Moved, Entered
    <2>3. Threaded'
      BY <1>1, <1>2, <1>4, <2>1 DEF IInv, Threaded, InOrder, Locked, Moved, Entered
    <2>4. CaptureOwned'
      BY <1>1, <1>2, <1>4, <2>1, ZenonT(40)
         DEF IInv, CaptureOwned, CaptureHeld, Moved, Entered, Threaded, Locked
    <2>5. SessionOwned'
      BY <1>1, <1>2, <1>4, <2>1
         DEF IInv, SessionOwned, SessionHeld, Settled, Moved, Entered
    <2>6. SessionWanted'
      BY <1>1, <1>2, <1>4, <2>1
         DEF IInv, SessionWanted, Starting, Deinit, Moved, Entered
    <2>7. SharingAsked'
      BY <1>1, <1>2, <1>4, <2>1 DEF IInv, SharingAsked, Resuming, Moved, Entered
    <2>8. ServerTold'
      BY <1>1, <1>2, <1>4, <2>1
         DEF IInv, ServerTold, Told, Moved, Entered, SessionWanted, Deinit
    <2> QED
      BY <2>2, <2>3, <2>4, <2>5, <2>6, <2>7, <2>8 DEF IInv
  <1> QED
    BY <1>3, <1>4

\* The server is told that the stream begins.
LEMMA AnnounceSharingStep ==
  ASSUME IInv, NEW t \in Threads, AnnounceSharing(t)
  PROVE  IInv'
  <1> USE ScreenClientConstants, ThreadsDistinct, ThenFacts, IdleFacts
  <1>1. /\ call[t].step = "announce" /\ sharer = t /\ sharer' = None /\ lifecycle # t
        /\ call[t].then = <<>> /\ t \in {"gui", "worker"} /\ Send("streaming_start")
    BY DEF AnnounceSharing, IInv, Threaded, InOrder, Locked, Threads
  <1>2. UNCHANGED <<connected, screen_requested, screen_session, sharing_active,
                  sharing_request, lifecycle, open, playout, capturing, scheduled,
                  recovery_queue, streaming, gaveUp, wish, crossed>>
    BY DEF AnnounceSharing, peer, sharing, recovery, server, history
  <1>3. PICK c : IF t = "worker" THEN Moved(t, c) /\ c = Idle
                 ELSE Entered(t, c, "remember", None)
    <2>1. "remember" \in Steps
      BY DEF Steps
    <2>2. CASE t # "worker"
      BY <2>1, <2>2, Enters DEF AnnounceSharing, IInv
    <2>3. CASE t = "worker"
      BY <2>3, MovedTo DEF AnnounceSharing, IInv
    <2> QED
      BY <2>2, <2>3
  <1>4. TypeOK'
    BY <1>1, <1>2, <1>3, SendFacts DEF IInv, TypeOK, Moved, Entered
  <1>5. Threaded'
    BY <1>1, <1>2, <1>3 DEF IInv, Threaded, InOrder, Locked, Moved, Entered
  <1>6. CaptureOwned'
    BY <1>1, <1>2, <1>3, ZenonT(40)
       DEF IInv, CaptureOwned, CaptureHeld, Moved, Entered, Threaded, Locked
  <1>7. SessionOwned'
    BY <1>1, <1>2, <1>3 DEF IInv, SessionOwned, SessionHeld, Settled, Moved, Entered
  <1>8. SessionWanted'
    BY <1>1, <1>2, <1>3 DEF IInv, SessionWanted, Starting, Deinit, Moved, Entered
  <1>9. SharingAsked'
    BY <1>1, <1>2, <1>3 DEF IInv, SharingAsked, Resuming, Moved, Entered
  <1>10. ServerTold'
    BY <1>1, <1>2, <1>3, SendFacts
       DEF IInv, ServerTold, Told, Moved, Entered, TypeOK, CaptureOwned,
           CaptureHeld, SessionWanted, Deinit
  <1> QED
    BY <1>4, <1>5, <1>6, <1>7, <1>8, <1>9, <1>10 DEF IInv

\* What was shared is remembered for a recovery, or forgotten by one.
LEMMA RememberRequestStep ==
  ASSUME IInv, NEW t \in Threads, RememberRequest(t)
  PROVE  IInv'
  <1> USE ScreenClientConstants, ThreadsDistinct, ThenFacts, IdleFacts
  <1>1. /\ call[t].step \in {"remember", "forget"} /\ sharer # t /\ lifecycle # t
        /\ call[t].then = <<>>
        /\ t \in {"gui", "worker"}
        /\ sharing_request' = IF call[t].step = "remember" THEN call[t].request ELSE None
        /\ call[t].request \in Requests \cup {None} /\ call[t].session \in Sessions \cup {None}
    BY CallTyped DEF RememberRequest, IInv, Threaded, InOrder, Locked, Threads
  <1>2. UNCHANGED <<connected, screen_requested, screen_session, sharing_active,
                  lifecycle, sharer, open, playout, capturing, scheduled, recovery_queue,
                  outbox, streaming, gaveUp, wish, crossed>>
    BY DEF RememberRequest, peer, sharing, recovery, server, history
  <1>3. PICK c : Moved(t, c) /\ c = Idle
    BY MovedTo DEF RememberRequest, IInv
  <1>4. TypeOK'
    BY <1>1, <1>2, <1>3 DEF IInv, TypeOK, Moved
  <1>5. Threaded'
    BY <1>1, <1>2, <1>3 DEF IInv, Threaded, InOrder, Locked, Moved
  <1>6. CaptureOwned'
    BY <1>1, <1>2, <1>3 DEF IInv, CaptureOwned, CaptureHeld, Moved
  <1>7. SessionOwned'
    BY <1>1, <1>2, <1>3 DEF IInv, SessionOwned, SessionHeld, Settled, Moved
  <1>8. SessionWanted'
    BY <1>1, <1>2, <1>3 DEF IInv, SessionWanted, Starting, Deinit, Moved
  <1>9. SharingAsked'
    BY <1>1, <1>2, <1>3 DEF IInv, SharingAsked, Resuming, Moved
  <1>10. ServerTold'
    BY <1>1, <1>2, <1>3 DEF IInv, ServerTold, Told, Moved
  <1> QED
    BY <1>4, <1>5, <1>6, <1>7, <1>8, <1>9, <1>10 DEF IInv

\* The user stops the stream: a recovery that copied the request is crossed.
LEMMA StopSharingStep ==
  ASSUME IInv, NEW t \in Threads, StopSharing(t)
  PROVE  IInv'
  <1> USE ScreenClientConstants, ThreadsDistinct, ThenFacts, IdleFacts
  <1>1. /\ call[t].step = "unshare" /\ sharer = None /\ sharer' = t
        /\ lifecycle # t /\ t = "gui"
        /\ call[t].then \in {<<>>, <<"stop">>}
        /\ sharing_active' = FALSE /\ sharing_request' = None /\ wish' = FALSE
        /\ crossed' = (Recovering \/ (crossed /\ ~sharing_active))
    BY DEF StopSharing, IInv, Threaded, InOrder, Locked, Threads
  <1>2. UNCHANGED <<connected, screen_requested, screen_session, lifecycle, open,
                  playout, capturing, scheduled, recovery_queue, outbox, streaming, gaveUp>>
    BY DEF StopSharing, peer, recovery, server, history
  <1>3. PICK c : /\ Moved(t, c) /\ c.step = "uncapture" /\ c.then = call[t].then
                 /\ c.session = screen_session /\ c.was = sharing_active
    <2> DEFINE c == [call[t] EXCEPT !.step = "uncapture", !.session = screen_session,
                                   !.was = sharing_active]
    <2>1. /\ c \in Calls /\ c.step = "uncapture" /\ c.then = call[t].then
          /\ c.session = screen_session /\ c.was = sharing_active
      BY DEF IInv, TypeOK, Calls, Steps
    <2>2. call' = [call EXCEPT ![t] = c]
      BY DEF StopSharing
    <2> QED
      BY <2>1, <2>2, MovedTo DEF IInv
  <1>4. TypeOK'
    BY <1>1, <1>2, <1>3 DEF IInv, TypeOK, Moved
  <1>5. Threaded'
    BY <1>1, <1>2, <1>3 DEF IInv, Threaded, InOrder, Locked, Moved
  <1>6. CaptureOwned'
    <2>1. capturing \subseteq {screen_session}
      BY <1>1 DEF IInv, CaptureOwned
    <2>2. \A o \in Threads : o # t => CaptureHeld(o)'
      BY <1>1, <1>3 DEF IInv, Threaded, Locked, CaptureHeld, Moved
    <2>3. CaptureHeld(t)'
      BY <1>1, <1>2, <1>3, <2>1 DEF CaptureHeld, Moved
    <2> QED
      BY <1>1, <2>2, <2>3 DEF CaptureOwned
  <1>7. SessionOwned'
    BY <1>1, <1>2, <1>3 DEF IInv, SessionOwned, SessionHeld, Settled, Moved
  <1>8. SessionWanted'
    BY <1>1, <1>2, <1>3 DEF IInv, SessionWanted, Starting, Deinit, Moved
  <1>9. SharingAsked'
    BY <1>1, <1>2, <1>3, ZenonT(40)
       DEF IInv, SharingAsked, Resuming, Moved, Recovering, Threaded, InOrder
  <1>10. ServerTold'
    BY <1>1, <1>2, <1>3
       DEF IInv, ServerTold, Told, Moved, Recovering, Threaded, InOrder, Locked,
           Threads
  <1> QED
    BY <1>4, <1>5, <1>6, <1>7, <1>8, <1>9, <1>10 DEF IInv

\* stop_sharing stops the capture and tells the server.
LEMMA StopCaptureStep ==
  ASSUME IInv, NEW t \in Threads, StopCapture(t)
  PROVE  IInv'
  <1> USE ScreenClientConstants, ThreadsDistinct, ThenFacts, IdleFacts
  <1>1. /\ call[t].step = "uncapture" /\ sharer = t /\ sharer' = None
        /\ lifecycle # t /\ t = "gui"
        /\ call[t].then \in {<<>>, <<"stop">>}
        /\ capturing' = capturing \ {call[t].session}
        /\ IF call[t].was THEN Send("streaming_stop") ELSE UNCHANGED outbox
    BY DEF StopCapture, IInv, Threaded, InOrder, Locked, Threads, CaptureStopped
  <1>2. UNCHANGED <<connected, screen_requested, screen_session, sharing_active,
                  sharing_request, lifecycle, open, playout, scheduled, recovery_queue,
                  streaming, gaveUp, wish, crossed>>
    BY DEF StopCapture, peer, sharing, recovery, server, history
  <1>3. PICK c : Returned(t, c)
    BY Returns DEF StopCapture, IInv
  <1>4. TypeOK'
    BY <1>1, <1>2, <1>3, SendFacts DEF IInv, TypeOK, Moved, Returned
  <1>5. Threaded'
    BY <1>1, <1>2, <1>3 DEF IInv, Threaded, InOrder, Locked, Moved, Returned
  <1>6. CaptureOwned'
    BY <1>1, <1>2, <1>3
       DEF IInv, CaptureOwned, CaptureHeld, Moved, Returned, Threaded, Locked
  <1>7. SessionOwned'
    BY <1>1, <1>2, <1>3 DEF IInv, SessionOwned, SessionHeld, Settled, Moved, Returned
  <1>8. SessionWanted'
    BY <1>1, <1>2, <1>3 DEF IInv, SessionWanted, Starting, Deinit, Moved, Returned
  <1>9. SharingAsked'
    BY <1>1, <1>2, <1>3 DEF IInv, SharingAsked, Resuming, Moved, Returned
  <1>10. ServerTold'
    BY <1>1, <1>2, <1>3, SendFacts
       DEF IInv, ServerTold, Told, Moved, Returned, TypeOK, CaptureOwned,
           CaptureHeld, Threaded, Locked, Threads
  <1> QED
    BY <1>4, <1>5, <1>6, <1>7, <1>8, <1>9, <1>10 DEF IInv

\* start_sharing is called.
LEMMA StartSharingStep ==
  ASSUME IInv, NEW r \in Requests, StartSharing(r)
  PROVE  IInv'
  <1> USE ScreenClientConstants, ThreadsDistinct, ThenFacts, IdleFacts
  <1>1. /\ call["gui"] = Idle /\ wish' = TRUE /\ crossed' = (crossed \/ Recovering)
    BY DEF StartSharing, IInv, Threaded, InOrder, Locked, Threads
  <1>2. UNCHANGED <<connected, screen_requested, screen_session, sharing_active,
                  sharing_request, lifecycle, sharer, open, playout, capturing, scheduled,
                  recovery_queue, outbox, streaming, gaveUp>>
    BY DEF StartSharing, peer, sharing, recovery, server, history
  <1>3. PICK c : Called("gui", c, "share", <<>>, r)
    <2>1. "share" \in Steps /\ <<>> \in Seq(Steps) /\ r \in Requests \cup {None}
      BY DEF Steps
    <2>2. [Idle EXCEPT !.step = "share", !.request = r]
          = [Idle EXCEPT !.step = "share", !.then = <<>>, !.request = r]
      BY DEF Idle
    <2> QED
      BY <2>1, <2>2, Calling DEF StartSharing, IInv
  <1>4. TypeOK'
    BY <1>1, <1>2, <1>3 DEF IInv, TypeOK, Moved, Called
  <1>5. Threaded'
    BY <1>1, <1>2, <1>3 DEF IInv, Threaded, InOrder, Locked, Moved, Called
  <1>6. CaptureOwned'
    BY <1>1, <1>2, <1>3 DEF IInv, CaptureOwned, CaptureHeld, Moved, Called
  <1>7. SessionOwned'
    BY <1>1, <1>2, <1>3 DEF IInv, SessionOwned, SessionHeld, Settled, Moved, Called
  <1>8. SessionWanted'
    BY <1>1, <1>2, <1>3 DEF IInv, SessionWanted, Starting, Deinit, Moved, Called
  <1>9. SharingAsked'
    BY <1>1, <1>2, <1>3 DEF IInv, SharingAsked, Resuming, Moved, Called
  <1>10. ServerTold'
    BY <1>1, <1>2, <1>3
       DEF IInv, ServerTold, Told, Moved, Called, Recovering, Threaded, InOrder
  <1> QED
    BY <1>4, <1>5, <1>6, <1>7, <1>8, <1>9, <1>10 DEF IInv

\* stop_sharing is called.
LEMMA CallStopSharingStep ==
  ASSUME IInv, CallStopSharing
  PROVE  IInv'
  <1> USE ScreenClientConstants, ThreadsDistinct, ThenFacts, IdleFacts
  <1>1. call["gui"] = Idle
    BY DEF CallStopSharing, IInv, Threaded, InOrder, Locked, Threads
  <1>2. UNCHANGED <<connected, screen_requested, screen_session, sharing_active,
                  sharing_request, lifecycle, sharer, open, playout, capturing, scheduled,
                  recovery_queue, outbox, streaming, gaveUp, wish, crossed>>
    BY DEF CallStopSharing, peer, sharing, recovery, server, history
  <1>3. PICK c : Gone("gui", c, "unshare")
    <2>1. "unshare" \in Steps
      BY DEF Steps
    <2> QED
      BY <2>1, Goes DEF CallStopSharing, IInv
  <1>4. TypeOK'
    BY <1>1, <1>2, <1>3 DEF IInv, TypeOK, Moved, Gone
  <1>5. Threaded'
    BY <1>1, <1>2, <1>3 DEF IInv, Threaded, InOrder, Locked, Moved, Gone
  <1>6. CaptureOwned'
    BY <1>1, <1>2, <1>3 DEF IInv, CaptureOwned, CaptureHeld, Moved, Gone
  <1>7. SessionOwned'
    BY <1>1, <1>2, <1>3 DEF IInv, SessionOwned, SessionHeld, Settled, Moved, Gone
  <1>8. SessionWanted'
    BY <1>1, <1>2, <1>3 DEF IInv, SessionWanted, Starting, Deinit, Moved, Gone
  <1>9. SharingAsked'
    BY <1>1, <1>2, <1>3 DEF IInv, SharingAsked, Resuming, Moved, Gone
  <1>10. ServerTold'
    BY <1>1, <1>2, <1>3 DEF IInv, ServerTold, Told, Moved, Gone
  <1> QED
    BY <1>4, <1>5, <1>6, <1>7, <1>8, <1>9, <1>10 DEF IInv

\* init_screen sets the request and goes on to start a session.
LEMMA InitScreenStep ==
  ASSUME IInv, InitScreen
  PROVE  IInv'
  <1> USE ScreenClientConstants, ThreadsDistinct, ThenFacts, IdleFacts
  <1>1. call["gui"] = Idle /\ screen_requested' = TRUE
    BY DEF InitScreen, IInv, Threaded, InOrder, Locked, Threads
  <1>2. UNCHANGED <<connected, screen_session, sharing_active, sharing_request,
                  lifecycle, sharer, open, playout, capturing, scheduled, recovery_queue,
                  outbox, streaming, gaveUp, wish, crossed>>
    BY DEF InitScreen, peer, sharing, recovery, server, history
  <1>3. PICK c : Gone("gui", c, "start")
    <2>1. "start" \in Steps
      BY DEF Steps
    <2> QED
      BY <2>1, Goes DEF InitScreen, IInv
  <1>4. TypeOK'
    BY <1>1, <1>2, <1>3 DEF IInv, TypeOK, Moved, Gone
  <1>5. Threaded'
    BY <1>1, <1>2, <1>3 DEF IInv, Threaded, InOrder, Locked, Moved, Gone
  <1>6. CaptureOwned'
    BY <1>1, <1>2, <1>3 DEF IInv, CaptureOwned, CaptureHeld, Moved, Gone
  <1>7. SessionOwned'
    BY <1>1, <1>2, <1>3 DEF IInv, SessionOwned, SessionHeld, Settled, Moved, Gone
  <1>8. SessionWanted'
    BY <1>1, <1>2, <1>3 DEF IInv, SessionWanted, Starting, Deinit, Moved, Gone
  <1>9. SharingAsked'
    BY <1>1, <1>2, <1>3 DEF IInv, SharingAsked, Resuming, Moved, Gone
  <1>10. ServerTold'
    BY <1>1, <1>2, <1>3 DEF IInv, ServerTold, Told, Moved, Gone
  <1> QED
    BY <1>4, <1>5, <1>6, <1>7, <1>8, <1>9, <1>10 DEF IInv

\* deinit_screen withdraws the request and goes on to stop sharing and the session.
LEMMA DeinitScreenStep ==
  ASSUME IInv, DeinitScreen
  PROVE  IInv'
  <1> USE ScreenClientConstants, ThreadsDistinct, ThenFacts, IdleFacts
  <1>1. call["gui"] = Idle /\ screen_requested' = FALSE
    BY DEF DeinitScreen, IInv, Threaded, InOrder, Locked, Threads
  <1>2. UNCHANGED <<connected, screen_session, sharing_active, sharing_request,
                  lifecycle, sharer, open, playout, capturing, scheduled, recovery_queue,
                  outbox, streaming, gaveUp, wish, crossed>>
    BY DEF DeinitScreen, peer, sharing, recovery, server, history
  <1>3. PICK c : Called("gui", c, "unshare", <<"stop">>, None)
    <2>1. "unshare" \in Steps /\ <<"stop">> \in Seq(Steps) /\ None \in Requests \cup {None}
      BY DEF Steps
    <2>2. [Idle EXCEPT !.step = "unshare", !.then = <<"stop">>]
          = [Idle EXCEPT !.step = "unshare", !.then = <<"stop">>, !.request = None]
      BY DEF Idle
    <2> QED
      BY <2>1, <2>2, Calling DEF DeinitScreen, IInv
  <1>4. TypeOK'
    BY <1>1, <1>2, <1>3, ZenonT(40) DEF IInv, TypeOK, Moved, Called
  <1>5. Threaded'
    BY <1>1, <1>2, <1>3 DEF IInv, Threaded, InOrder, Locked, Moved, Called
  <1>6. CaptureOwned'
    BY <1>1, <1>2, <1>3 DEF IInv, CaptureOwned, CaptureHeld, Moved, Called
  <1>7. SessionOwned'
    BY <1>1, <1>2, <1>3 DEF IInv, SessionOwned, SessionHeld, Settled, Moved, Called
  <1>8. SessionWanted'
    BY <1>1, <1>2, <1>3 DEF IInv, SessionWanted, Starting, Deinit, Moved, Called
  <1>9. SharingAsked'
    BY <1>1, <1>2, <1>3 DEF IInv, SharingAsked, Resuming, Moved, Called
  <1>10. ServerTold'
    BY <1>1, <1>2, <1>3 DEF IInv, ServerTold, Told, Moved, Called
  <1> QED
    BY <1>4, <1>5, <1>6, <1>7, <1>8, <1>9, <1>10 DEF IInv

\* on_signaling_state: the messages are gone, and the session starts or stops.
LEMMA SignalingStateStep ==
  ASSUME IInv, NEW up \in BOOLEAN, SignalingState(up)
  PROVE  IInv'
  <1> USE ScreenClientConstants, ThreadsDistinct, ThenFacts, IdleFacts
  <1>1. /\ call["socket"] = Idle /\ connected # up /\ connected' = up
        /\ outbox' = <<>> /\ streaming' = FALSE
    BY DEF SignalingState, IInv, Threaded, InOrder, Locked, Threads
  <1>2. UNCHANGED <<screen_requested, screen_session, sharing_active,
                  sharing_request, lifecycle, sharer, open, playout, capturing, scheduled,
                  recovery_queue, gaveUp, wish, crossed>>
    BY DEF SignalingState, peer, sharing, recovery, history
  <1>3. PICK c : /\ Gone("socket", c, IF up THEN "start" ELSE "stop")
                 /\ <<>> \in Seq({"streaming_start", "streaming_stop"})
    <2>1. (IF up THEN "start" ELSE "stop") \in Steps
      BY DEF Steps
    <2> QED
      BY <2>1, Goes DEF SignalingState, IInv
  <1>4. TypeOK'
    BY <1>1, <1>2, <1>3, ZenonT(40) DEF IInv, TypeOK, Moved, Gone
  <1>5. Threaded'
    BY <1>1, <1>2, <1>3 DEF IInv, Threaded, InOrder, Locked, Moved, Gone
  <1>6. CaptureOwned'
    BY <1>1, <1>2, <1>3 DEF IInv, CaptureOwned, CaptureHeld, Moved, Gone
  <1>7. SessionOwned'
    BY <1>1, <1>2, <1>3 DEF IInv, SessionOwned, SessionHeld, Settled, Moved, Gone
  <1>8. SessionWanted'
    BY <1>1, <1>2, <1>3 DEF IInv, SessionWanted, Starting, Deinit, Moved, Gone, TypeOK
  <1>9. SharingAsked'
    BY <1>1, <1>2, <1>3 DEF IInv, SharingAsked, Resuming, Moved, Gone
  <1>10. ServerTold'
    BY <1>1, <1>2, <1>3
       DEF IInv, ServerTold, Told, Moved, Gone, TypeOK, CaptureOwned, SessionWanted
  <1> QED
    BY <1>4, <1>5, <1>6, <1>7, <1>8, <1>9, <1>10 DEF IInv

\* The server handles the oldest message about the stream.
LEMMA ServerHandlesStep ==
  ASSUME IInv, ServerHandles
  PROVE  IInv'
  <1> USE ScreenClientConstants, ThreadsDistinct, ThenFacts, IdleFacts
  <1>1. /\ outbox # <<>> /\ outbox' = Tail(outbox)
        /\ streaming' = (Head(outbox) = "streaming_start")
    BY DEF ServerHandles, IInv, Threaded, InOrder, Locked, Threads
  <1>2. UNCHANGED <<connected, screen_requested, screen_session, sharing_active,
                  sharing_request, lifecycle, sharer, open, playout, capturing, scheduled,
                  recovery_queue, gaveUp, wish, crossed, call>>
    BY DEF ServerHandles, peer, sharing, recovery, history
  <1>3. /\ outbox' \in Seq({"streaming_start", "streaming_stop"}) /\ streaming' \in BOOLEAN
        /\ Told' <=> Told
    <2>1. outbox \in Seq({"streaming_start", "streaming_stop"})
      BY DEF IInv, TypeOK
    <2>2. outbox' \in Seq({"streaming_start", "streaming_stop"}) /\ streaming' \in BOOLEAN
      BY <1>1, <2>1
    <2>3. CASE Len(outbox) = 1
      <3>1. outbox' = <<>> /\ Head(outbox) = outbox[Len(outbox)]
        BY <1>1, <2>1, <2>3
      <3> QED
        BY <1>1, <2>2, <3>1 DEF Told
    <2>4. CASE Len(outbox) # 1
      <3>1. /\ outbox' # <<>> /\ Len(outbox') = Len(outbox) - 1
           /\ outbox'[Len(outbox')] = outbox[Len(outbox)]
        BY <1>1, <2>1, <2>4
      <3> QED
        BY <1>1, <2>2, <3>1 DEF Told
    <2> QED
      BY <2>3, <2>4
  <1>4. TypeOK'
    BY <1>1, <1>2, <1>3 DEF IInv, TypeOK, Moved
  <1>5. Threaded'
    BY <1>1, <1>2, <1>3 DEF IInv, Threaded, InOrder, Locked, Moved
  <1>6. CaptureOwned'
    BY <1>1, <1>2, <1>3 DEF IInv, CaptureOwned, CaptureHeld, Moved
  <1>7. SessionOwned'
    BY <1>1, <1>2, <1>3 DEF IInv, SessionOwned, SessionHeld, Settled, Moved
  <1>8. SessionWanted'
    BY <1>1, <1>2, <1>3 DEF IInv, SessionWanted, Starting, Deinit, Moved
  <1>9. SharingAsked'
    BY <1>1, <1>2, <1>3 DEF IInv, SharingAsked, Resuming, Moved
  <1>10. ServerTold'
    BY <1>1, <1>2, <1>3 DEF IInv, ServerTold, Told, Moved
  <1> QED
    BY <1>4, <1>5, <1>6, <1>7, <1>8, <1>9, <1>10 DEF IInv

\* The PeerConnection of a session fails, which only asks for a recovery.
LEMMA ConnectionFailsStep ==
  ASSUME IInv, NEW s \in Sessions, ConnectionFails(s)
  PROVE  IInv'
  <1> USE ScreenClientConstants, ThreadsDistinct, ThenFacts, IdleFacts
  <1>1. /\ scheduled' = scheduled \cup {s} /\ recovery_queue' = Append(recovery_queue, s)
    BY DEF ConnectionFails, IInv, Threaded, InOrder, Locked, Threads
  <1>2. UNCHANGED <<connected, screen_requested, screen_session, sharing_active,
                  sharing_request, lifecycle, sharer, open, playout, capturing, outbox,
                  streaming, gaveUp, wish, crossed, call>>
    BY DEF ConnectionFails, peer, sharing, server, history
  <1>3. recovery_queue' \in Seq(Sessions \cup {None})
    BY <1>1 DEF IInv, TypeOK
  <1>4. TypeOK'
    BY <1>1, <1>2, <1>3 DEF IInv, TypeOK, Moved
  <1>5. Threaded'
    BY <1>1, <1>2, <1>3 DEF IInv, Threaded, InOrder, Locked, Moved
  <1>6. CaptureOwned'
    BY <1>1, <1>2, <1>3 DEF IInv, CaptureOwned, CaptureHeld, Moved
  <1>7. SessionOwned'
    BY <1>1, <1>2, <1>3 DEF IInv, SessionOwned, SessionHeld, Settled, Moved
  <1>8. SessionWanted'
    BY <1>1, <1>2, <1>3 DEF IInv, SessionWanted, Starting, Deinit, Moved
  <1>9. SharingAsked'
    BY <1>1, <1>2, <1>3 DEF IInv, SharingAsked, Resuming, Moved
  <1>10. ServerTold'
    BY <1>1, <1>2, <1>3 DEF IInv, ServerTold, Told, Moved
  <1> QED
    BY <1>4, <1>5, <1>6, <1>7, <1>8, <1>9, <1>10 DEF IInv

\* A recovery copies the request, stops the session and is bound to start another.
LEMMA RecoverScreenSessionStep ==
  ASSUME IInv, RecoverScreenSession
  PROVE  IInv'
  <1> USE ScreenClientConstants, ThreadsDistinct, ThenFacts, IdleFacts
  <1>1. /\ call["worker"] = Idle /\ recovery_queue # <<>>
        /\ recovery_queue' = Tail(recovery_queue)
    BY DEF RecoverScreenSession, IInv, Threaded, InOrder, Locked, Threads
  <1>2. UNCHANGED <<connected, screen_requested, screen_session, sharing_active,
                  sharing_request, lifecycle, sharer, open, playout, capturing, scheduled,
                  streaming, gaveUp, wish>>
    BY DEF RecoverScreenSession, peer, sharing, recovery, server, history
  <1>3. CASE screen_requested /\ screen_session = Head(recovery_queue) /\ connected
    <2>1. PICK c : /\ Called("worker", c, "stop", c.then, sharing_request)
                   /\ c.then = <<"start">> \/ (c.then = <<"start", "share">> /\ sharing_active)
                   /\ crossed' = (crossed \/ call["gui"].step \in
                                        {"share", "capture", "retain", "announce", "remember",
                                         "unshare", "uncapture"})
                   /\ IF sharing_active THEN Send("streaming_stop") ELSE UNCHANGED outbox
      <3>1. PICK then : then = Resumed(sharing_active, sharing_request)
        OBVIOUS
      <3>2. then = <<"start">> \/ (then = <<"start", "share">> /\ sharing_active)
        BY <3>1 DEF Resumed
      <3>3. [Idle EXCEPT !.step = "stop", !.request = sharing_request, !.then = then]
            = [Idle EXCEPT !.step = "stop", !.then = then, !.request = sharing_request]
        BY DEF Idle
      <3>4. then \in Seq(Steps)
        BY <3>2
      <3>5. "stop" \in Steps /\ sharing_request \in Requests \cup {None}
        BY DEF Steps, IInv, TypeOK
      <3>6. PICK c : Called("worker", c, "stop", then, sharing_request)
        BY <1>3, <3>1, <3>3, <3>4, <3>5, Calling DEF RecoverScreenSession, IInv
      <3>7. c.then = then
        BY <3>6 DEF Called
      <3>8. /\ crossed' = (crossed \/ call["gui"].step \in
                                 {"share", "capture", "retain", "announce", "remember",
                                  "unshare", "uncapture"})
            /\ IF sharing_active THEN Send("streaming_stop") ELSE UNCHANGED outbox
        BY <1>3 DEF RecoverScreenSession, TellStop
      <3> QED
        BY <3>2, <3>6, <3>7, <3>8
    <2>2. TypeOK'
      BY <1>1, <1>2, <1>3, <2>1, SendFacts DEF IInv, TypeOK, Moved, Called
    <2>3. Threaded'
      <3>1. /\ call'["worker"] = c /\ c.step = "stop"
            /\ c.then = <<"start">> \/ c.then = <<"start", "share">>
            /\ \A o \in Threads \ {"worker"} : call'[o] = call[o]
        BY <2>1 DEF Called, Moved
      <3>2. InOrder("worker")'
        BY <3>1 DEF InOrder
      <3>3. Locked("worker")'
        BY <1>1, <1>2, <3>1 DEF IInv, Threaded, Locked
      <3>4. ASSUME NEW o \in Threads, o # "worker" PROVE (InOrder(o) /\ Locked(o))'
        BY <1>2, <3>1, <3>4 DEF IInv, Threaded, InOrder, Locked
      <3> QED
        BY <3>2, <3>3, <3>4 DEF Threaded
    <2>4. CaptureOwned'
      BY <1>1, <1>2, <1>3, <2>1 DEF IInv, CaptureOwned, CaptureHeld, Moved, Called
    <2>5. SessionOwned'
      BY <1>1, <1>2, <1>3, <2>1
         DEF IInv, SessionOwned, SessionHeld, Settled, Moved, Called
    <2>6. SessionWanted'
      BY <1>1, <1>2, <1>3, <2>1 DEF IInv, SessionWanted, Starting, Deinit, Moved, Called
    <2>7. SharingAsked'
      BY <1>1, <1>2, <1>3, <2>1 DEF IInv, SharingAsked, Resuming, Moved, Called
    <2>8. ServerTold'
      BY <1>1, <1>2, <1>3, <2>1, SendFacts
         DEF IInv, ServerTold, Told, Moved, Called, TypeOK, Threaded, InOrder,
             SessionWanted, Deinit, Threads
    <2> QED
      BY <2>2, <2>3, <2>4, <2>5, <2>6, <2>7, <2>8 DEF IInv
  <1>4. CASE ~(screen_requested /\ screen_session = Head(recovery_queue) /\ connected)
    <2>1. UNCHANGED <<call, outbox, crossed>>
      BY <1>4 DEF RecoverScreenSession
    <2>2. TypeOK'
      BY <1>1, <1>2, <1>4, <2>1, SendFacts DEF IInv, TypeOK, Moved
    <2>3. Threaded'
      BY <1>1, <1>2, <1>4, <2>1 DEF IInv, Threaded, InOrder, Locked, Moved
    <2>4. CaptureOwned'
      BY <1>1, <1>2, <1>4, <2>1 DEF IInv, CaptureOwned, CaptureHeld, Moved
    <2>5. SessionOwned'
      BY <1>1, <1>2, <1>4, <2>1 DEF IInv, SessionOwned, SessionHeld, Settled, Moved
    <2>6. SessionWanted'
      BY <1>1, <1>2, <1>4, <2>1 DEF IInv, SessionWanted, Starting, Deinit, Moved
    <2>7. SharingAsked'
      BY <1>1, <1>2, <1>4, <2>1 DEF IInv, SharingAsked, Resuming, Moved
    <2>8. ServerTold'
      BY <1>1, <1>2, <1>4, <2>1, SendFacts
         DEF IInv, ServerTold, Told, Moved, TypeOK, Threaded, InOrder,
             SessionWanted, Deinit, Threads
    <2> QED
      BY <2>2, <2>3, <2>4, <2>5, <2>6, <2>7, <2>8 DEF IInv
  <1> QED
    BY <1>3, <1>4

-----------------------------------------------------------------------------
\* The client begins without session, capture and request.
LEMMA ScreenInit == Init => IInv
  <1> SUFFICES ASSUME Init PROVE IInv
    OBVIOUS
  <1> USE ScreenClientConstants, ThreadsDistinct, ThenFacts, IdleFacts
  <1>1. /\ <<>> \in Seq(Sessions \cup {None})
        /\ <<>> \in Seq({"streaming_start", "streaming_stop"})
    OBVIOUS
  <1>2. \A t \in Threads : call[t] = Idle
    BY DEF Init
  <1>3. TypeOK
    BY <1>1 DEF Init, TypeOK
  <1>4. Threaded
    BY <1>2 DEF Init, Threaded, InOrder, Locked
  <1>5. CaptureOwned /\ SessionOwned
    BY <1>2 DEF Init, CaptureOwned, CaptureHeld, SessionOwned, SessionHeld, Settled
  <1>6. SessionWanted /\ SharingAsked /\ ServerTold
    BY <1>2 DEF Init, SessionWanted, Deinit, SharingAsked, Resuming, ServerTold
  <1> QED
    BY <1>3, <1>4, <1>5, <1>6 DEF IInv

\* Every step of the client keeps the invariant.
LEMMA ScreenNext == IInv /\ [Next]_vars => IInv'
  <1> SUFFICES ASSUME IInv, [Next]_vars PROVE IInv'
    OBVIOUS
  <1>1. CASE UNCHANGED vars
    <2> USE <1>1 DEF vars, peer, sharing, recovery, server, history
    <2>1. TypeOK' /\ Threaded'
      BY DEF IInv, TypeOK, Threaded, InOrder, Locked
    <2>2. CaptureOwned' /\ SessionOwned'
      BY DEF IInv, CaptureOwned, CaptureHeld, SessionOwned, SessionHeld, Settled
    <2>3. SessionWanted' /\ SharingAsked' /\ ServerTold'
      BY DEF IInv, SessionWanted, Starting, Deinit, SharingAsked, Resuming, ServerTold, Told
    <2> QED
      BY <2>1, <2>2, <2>3 DEF IInv
  <1>2. ASSUME NEW t \in Threads, Proceed(t) PROVE IInv'
    BY <1>2, StartScreenIfRequestedStep, CreateSessionStep, InstallSessionStep,
       StopScreenSessionStep, DetachSessionStep, CloseSessionStep, ApplySharingStep,
       StartCaptureStep, RetainCaptureStep, AnnounceSharingStep, RememberRequestStep,
       StopSharingStep, StopCaptureStep DEF Proceed
  <1>3. CASE Next
    BY <1>2, <1>3, StartSharingStep, CallStopSharingStep, InitScreenStep, DeinitScreenStep,
       SignalingStateStep, ServerHandlesStep, RecoverScreenSessionStep, ConnectionFailsStep
       DEF Next
  <1> QED
    BY <1>1, <1>3

\* The inductive invariant: what each thread of google_webrtc_client.cpp is doing,
\* and what that says of the mutexes, the session, the capture and the server.
THEOREM ScreenInvariant == Spec => []IInv
  BY ScreenInit, ScreenNext, PTL DEF Spec

\* No order of deinit_screen, stop_sharing, disconnects and recoveries leaves a
\* desktop capture running that nobody shares.
THEOREM NoCaptureIsHidden == Spec => []NoHiddenCapture
  <1>1. IInv => NoHiddenCapture
    <2> SUFFICES ASSUME IInv, NEW s \in capturing
                 PROVE  \/ sharing_active /\ s = screen_session
                        \/ sharer # None /\ call[sharer].session = s
      BY DEF IInv, NoHiddenCapture
    <2>1. CASE sharer = None
      BY <2>1 DEF IInv, CaptureOwned
    <2>2. CASE sharer # None
      <3>1. sharer \in Threads /\ CaptureHeld(sharer) /\ Locked(sharer)
        BY <2>2 DEF IInv, TypeOK, CaptureOwned, Threaded
      <3> QED
        BY <2>2, <3>1 DEF CaptureHeld, Locked
    <2> QED
      BY <2>1, <2>2
  <1> QED
    BY <1>1, ScreenInvariant, PTL

\* At rest there is a screen session exactly if one is requested and signaling is
\* up, with its playout, and no other PeerConnection is open; unless the last attempt
\* to create one failed.
THEOREM ScreenIsAsRequested == Spec => []ScreenAsRequested
  <1>1. IInv => ScreenAsRequested
    <2> SUFFICES ASSUME IInv, AtRest
                 PROVE  /\ screen_session # None => screen_requested /\ connected
                        /\ screen_requested /\ connected /\ ~gaveUp => screen_session # None
                        /\ playout = (screen_session # None)
                        /\ open = {screen_session} \ {None}
      BY DEF ScreenAsRequested
    <2>1. \A t \in Threads : call[t] = Idle
      BY DEF AtRest
    <2>2. lifecycle = None
      BY <2>1, IdleFacts DEF IInv, TypeOK, Threaded, Locked
    <2>3. Settled /\ playout \in BOOLEAN
      BY <2>2 DEF IInv, TypeOK, SessionOwned
    <2>4. ~Deinit /\ call["socket"].step = "idle" /\ \A t \in Threads : ~Starting(t)
      BY <2>1, IdleFacts, ThenFacts, ThreadsDistinct DEF Deinit, Starting
    <2> QED
      BY <2>3, <2>4 DEF IInv, SessionWanted, Settled
  <1> QED
    BY <1>1, ScreenInvariant, PTL

\* When the server has handled everything, it shows the stream exactly if the
\* screen is shared, unless the user crossed a recovery.
THEOREM ServerIsToldRight == Spec => []ServerAgrees
  <1>1. IInv => ServerAgrees
    <2> SUFFICES ASSUME IInv, AtRest, connected, outbox = <<>>, ~crossed
                 PROVE  streaming = sharing_active
      BY DEF ServerAgrees
    <2>1. \A t \in Threads : call[t].step = "idle"
      BY IdleFacts DEF AtRest
    <2>2. sharing_active <=> Told
      BY <2>1, ThreadsDistinct DEF IInv, ServerTold
    <2> QED
      BY <2>2 DEF IInv, TypeOK, Told
  <1> QED
    BY <1>1, ScreenInvariant, PTL

\* The screen is not shared against the user's last wish, unless stop_sharing
\* crossed a recovery that had already copied the request.
THEOREM NothingIsSharedUnasked == Spec => []NoSharingUnasked
  <1>1. IInv => NoSharingUnasked
    BY DEF IInv, SharingAsked, NoSharingUnasked
  <1> QED
    BY <1>1, ScreenInvariant, PTL

-----------------------------------------------------------------------------
(***************************************************************************)
(* A call.  The events that wait explain how what is shown will become     *)
(* what is: Follows says so of one thing that events begin and end, the    *)
(* connection, a peer in the channel or its stream.                        *)
(***************************************************************************)
Up == Event("connected", NoPeer)
Down == Event("disconnected", NoPeer)

Events ==
    {Up, Down} \cup
    [type : {"joined", "left", "streaming", "stopped", "rejected"}, peer : Peers]

Tasks == [do : {"start", "stop"}, latest : BOOLEAN, checked : BOOLEAN]

CallTypes ==
    /\ loggedIn \in BOOLEAN /\ selected \in BOOLEAN /\ statsOn \in BOOLEAN
    /\ voiceRequested \in BOOLEAN /\ screenRequested \in BOOLEAN /\ wantsAudio \in BOOLEAN
    /\ cutOff \in BOOLEAN
    /\ conn \in {"disconnected", "connecting", "connected"}
    /\ socket \in {"none", "opening", "open"}
    /\ shown \in [Peers -> Nat] /\ queue \in Seq(Events) /\ pool \in Seq(Tasks)
    /\ streamingPeers \subseteq Peers /\ watched \subseteq Peers /\ coreWatched \subseteq Peers
    /\ room \subseteq Peers /\ streams \subseteq room

\* One of these waits in the queue, between two positions.
Waits(q, from, to, es) == \E k \in from..to : q[k] \in es

\* Something is listed if starts and ends of it say so, and it is real: a start is
\* followed by an end unless it is real, what is listed and not real is ended, and
\* what is real is listed or a start waits, and no end.
Follows(q, starts, ends, listed, real) ==
    /\ \A i \in 1..Len(q) : q[i] \in starts /\ ~real => Waits(q, i + 1, Len(q), ends)
    /\ listed /\ ~real => Waits(q, 1, Len(q), ends)
    /\ real =>
        \/ \E i \in 1..Len(q) : q[i] \in starts /\ ~Waits(q, i + 1, Len(q), ends)
        \/ listed /\ ~Waits(q, 1, Len(q), ends)

\* It is never begun twice: n counts how often it is listed.
BegunOnce(q, starts, ends, n) ==
    /\ \A i, j \in 1..Len(q) :
        i < j /\ q[i] \in starts /\ q[j] \in starts => Waits(q, i + 1, j - 1, ends)
    /\ n > 0 => \A j \in 1..Len(q) : q[j] \in starts => Waits(q, 1, j - 1, ends)
    /\ n \in {0, 1}

Joins(p) == {Event("joined", p)}
Leaves(p) == {Down, Event("left", p)}
Shares(p) == {Event("streaming", p)}
StopsSharing(p) == Leaves(p) \cup {Event("stopped", p)}
OfPeer(p) == {Event("left", p), Event("stopped", p), Event("rejected", p)}

ConnectionFollows ==
    /\ Follows(queue, {Up}, {Down}, conn = "connected", socket = "open")
    /\ statsOn <=> conn = "connected"

PeopleFollow ==
    \A p \in Peers :
        /\ Follows(queue, Joins(p), Leaves(p), shown[p] > 0, p \in room)
        /\ BegunOnce(queue, Joins(p), Leaves(p), shown[p])
        /\ Follows(queue, Shares(p), StopsSharing(p), p \in streamingPeers, p \in streams)

\* A stream is announced on a connection: after the event of its beginning, which may
\* have been taken, and before that of its end.
AnyShare == [type : {"streaming"}, peer : Peers]

OnConnection(q, live, gone, some) ==
    /\ ~live =>
        /\ \A i \in 1..Len(q) : q[i] \in AnyShare => Waits(q, i + 1, Len(q), {Down})
        /\ some => Waits(q, 1, Len(q), {Down})
    /\ \A k, i \in 1..Len(q) :
        k < i /\ q[k] = Down /\ q[i] \in AnyShare => Waits(q, k + 1, i - 1, {Up})
    /\ gone =>
        /\ some => Waits(q, 1, Len(q), {Down})
        /\ \A i \in 1..Len(q) : q[i] \in AnyShare =>
            Waits(q, 1, Len(q), {Down}) \/ Waits(q, 1, i - 1, {Up})

StreamsOnConnection ==
    OnConnection(queue, socket = "open", conn = "disconnected", streamingPeers # {})

\* What is watched in the core and what is marked differ by what waits, or by haste.
WatchesFollow ==
    /\ watched \subseteq streamingPeers
    /\ \A p \in watched \ (coreWatched \cup hasty) :
        Waits(queue, 1, Len(queue), {Down} \cup OfPeer(p))
    /\ coreWatched \ watched \subseteq hasty
    /\ \A p \in coreWatched \ hasty : ~Waits(queue, 1, Len(queue), OfPeer(p))
    /\ conn = "disconnected" => coreWatched \subseteq hasty

\* The last task of the pool is what the GUI thread asked for last.
AudioFollows ==
    /\ \A i \in 1..Len(pool) : pool[i].latest <=> i = Len(pool)
    /\ pool = <<>> => voiceRequested = wantsAudio
    /\ pool # <<>> => (pool[Len(pool)].do = "start") = wantsAudio
    /\ conn = "disconnected" => ~wantsAudio /\ ~screenRequested
    /\ socket # "none" /\ ~cutOff => wantsAudio /\ screenRequested

CallInv ==
    /\ CallTypes /\ ConnectionFollows /\ PeopleFollow /\ StreamsOnConnection
    /\ WatchesFollow /\ AudioFollows
    /\ socket # "none" => loggedIn /\ selected
    /\ socket # "open" => room = {}

-----------------------------------------------------------------------------
\* The queue after an event was taken, or another one came.
LEMMA QueueTail ==
  ASSUME NEW q \in Seq(Events), q # <<>>
  PROVE  /\ Tail(q) \in Seq(Events) /\ Len(q) \in Nat /\ Len(q) >= 1
         /\ Len(Tail(q)) = Len(q) - 1 /\ Head(q) = q[1] /\ Head(q) \in Events
         /\ \A i \in 1..(Len(q) - 1) : Tail(q)[i] = q[i + 1]
  OBVIOUS

\* ... and what comes last.
LEMMA QueueAppend ==
  ASSUME NEW q \in Seq(Events), NEW x \in Events
  PROVE  /\ Append(q, x) \in Seq(Events) /\ Len(q) \in Nat
         /\ Len(Append(q, x)) = Len(q) + 1 /\ Append(q, x)[Len(q) + 1] = x
         /\ \A i \in 1..Len(q) : Append(q, x)[i] = q[i]
  OBVIOUS

\* What waits moves up by one when an event is taken.
LEMMA WaitsTail ==
  ASSUME NEW q \in Seq(Events), q # <<>>, NEW es, NEW i \in Nat \ {0}, NEW j \in Int,
         j <= Len(q) - 1
  PROVE  Waits(Tail(q), i, j, es) <=> Waits(q, i + 1, j + 1, es)
  <1>1. ASSUME Waits(Tail(q), i, j, es) PROVE Waits(q, i + 1, j + 1, es)
    <2>1. PICK k \in i..j : Tail(q)[k] \in es
      BY <1>1 DEF Waits
    <2>2. k + 1 \in (i + 1)..(j + 1) /\ q[k + 1] \in es
      BY <2>1, QueueTail
    <2> QED
      BY <2>2 DEF Waits
  <1>2. ASSUME Waits(q, i + 1, j + 1, es) PROVE Waits(Tail(q), i, j, es)
    <2>1. PICK k \in (i + 1)..(j + 1) : q[k] \in es
      BY <1>2 DEF Waits
    <2>2. k - 1 \in i..j /\ (k - 1) + 1 = k
      BY <2>1
    <2>3. k - 1 \in 1..(Len(q) - 1)
      BY <2>2, QueueTail
    <2>4. Tail(q)[k - 1] \in es
      BY <2>1, <2>2, <2>3, QueueTail
    <2> QED
      BY <2>2, <2>4 DEF Waits
  <1> QED
    BY <1>1, <1>2

\* The first one waits, or another.
LEMMA WaitsFirst ==
  ASSUME NEW q, NEW es, NEW i \in Int, NEW j \in Int, i <= j
  PROVE  Waits(q, i, j, es) <=> q[i] \in es \/ Waits(q, i + 1, j, es)
  <1>1. \A k \in i..j : k = i \/ k \in (i + 1)..j
    OBVIOUS
  <1>2. i \in i..j /\ \A k \in (i + 1)..j : k \in i..j
    OBVIOUS
  <1> QED
    BY <1>1, <1>2 DEF Waits

\* The last one waits, or an earlier one.
LEMMA WaitsAppend ==
  ASSUME NEW q \in Seq(Events), NEW x \in Events, NEW es, NEW i \in Nat \ {0}
  PROVE  /\ \A j \in Int : j <= Len(q) =>
               (Waits(Append(q, x), i, j, es) <=> Waits(q, i, j, es))
         /\ i <= Len(q) + 1 =>
               (Waits(Append(q, x), i, Len(q) + 1, es) <=> Waits(q, i, Len(q), es) \/ x \in es)
  <1> DEFINE a == Append(q, x)
             n == Len(q)
  <1>1. n \in Nat /\ a[n + 1] = x /\ \A k \in 1..n : a[k] = q[k]
    BY QueueAppend
  <1> HIDE DEF a, n
  <1>2. \A j \in Int : j <= n => (Waits(a, i, j, es) <=> Waits(q, i, j, es))
    <2> SUFFICES ASSUME NEW j \in Int, j <= n PROVE Waits(a, i, j, es) <=> Waits(q, i, j, es)
      OBVIOUS
    <2>1. \A k \in i..j : k \in 1..n
      BY <1>1
    <2> QED
      BY <1>1, <2>1 DEF Waits
  <1>3. ASSUME i <= n + 1
        PROVE  Waits(a, i, n + 1, es) <=> Waits(q, i, n, es) \/ x \in es
    <2>1. \A k \in i..(n + 1) : k = n + 1 \/ k \in i..n
      BY <1>1
    <2>2. n + 1 \in i..(n + 1) /\ \A k \in i..n : k \in i..(n + 1) /\ k \in 1..n
      BY <1>1, <1>3
    <2> QED
      BY <1>1, <2>1, <2>2 DEF Waits
  <1> QED
    BY <1>2, <1>3 DEF a, n

-----------------------------------------------------------------------------
\* Taking an event lists what it starts and no longer what it ends.
LEMMA FollowsTail ==
  ASSUME NEW q \in Seq(Events), q # <<>>, NEW s, NEW e, s \cap e = {},
         NEW l \in BOOLEAN, NEW r \in BOOLEAN, NEW m \in BOOLEAN, Follows(q, s, e, l, r),
         Head(q) \in s => m, Head(q) \in e => ~m, Head(q) \notin s \cup e => m = l
  PROVE  Follows(Tail(q), s, e, m, r)
  <1> DEFINE t == Tail(q)
             n == Len(q)
  <1>1. /\ t \in Seq(Events) /\ n \in Nat /\ n >= 1 /\ Len(t) = n - 1
        /\ \A i \in 1..(n - 1) : t[i] = q[i + 1]
        /\ Head(q) = q[1]
    BY QueueTail
  <1>2. \A i \in 1..n : Waits(t, i, n - 1, e) <=> Waits(q, i + 1, n, e)
    <2> SUFFICES ASSUME NEW i \in 1..n PROVE Waits(t, i, n - 1, e) <=> Waits(q, i + 1, n, e)
      OBVIOUS
    <2>1. i \in Nat \ {0} /\ n - 1 \in Int /\ n - 1 <= Len(q) - 1 /\ (n - 1) + 1 = n
      BY <1>1
    <2> QED
      BY <2>1, WaitsTail
  <1>3. Waits(t, 1, n - 1, e) <=> Waits(q, 2, n, e)
    BY <1>1, <1>2
  <1>4. Waits(q, 1, n, e) <=> q[1] \in e \/ Waits(q, 2, n, e)
    BY <1>1, WaitsFirst
  <1>5. /\ \A i \in 1..n : q[i] \in s /\ ~r => Waits(q, i + 1, n, e)
        /\ l /\ ~r => Waits(q, 1, n, e)
        /\ r => \/ \E i \in 1..n : q[i] \in s /\ ~Waits(q, i + 1, n, e)
                \/ l /\ ~Waits(q, 1, n, e)
    BY DEF Follows
  <1> HIDE DEF t, n
  <1>6. \A i \in 1..(n - 1) : i + 1 \in 1..n /\ (t[i] \in s <=> q[i + 1] \in s)
           /\ (Waits(t, i + 1, n - 1, e) <=> Waits(q, (i + 1) + 1, n, e))
    BY <1>1, <1>2
  <1>7. \A i \in 1..(n - 1) : t[i] \in s /\ ~r => Waits(t, i + 1, n - 1, e)
    BY <1>5, <1>6
  <1>8. m /\ ~r => Waits(t, 1, n - 1, e)
    <2> SUFFICES ASSUME m, ~r PROVE Waits(t, 1, n - 1, e)
      OBVIOUS
    <2>1. q[1] \notin e
      BY <1>1
    <2>2. CASE q[1] \in s
      BY <1>1, <1>3, <1>5, <2>2
    <2>3. CASE q[1] \notin s
      BY <1>1, <1>3, <1>4, <1>5, <2>1, <2>3
    <2> QED
      BY <2>2, <2>3
  <1>9. ASSUME r
        PROVE  \/ \E i \in 1..(n - 1) : t[i] \in s /\ ~Waits(t, i + 1, n - 1, e)
               \/ m /\ ~Waits(t, 1, n - 1, e)
    <2>1. CASE l /\ ~Waits(q, 1, n, e)
      <3>1. q[1] \notin e /\ ~Waits(t, 1, n - 1, e)
        BY <1>3, <1>4, <2>1
      <3>2. m
        BY <1>1, <2>1, <3>1
      <3> QED
        BY <3>1, <3>2
    <2>2. ASSUME NEW i \in 1..n, q[i] \in s, ~Waits(q, i + 1, n, e)
          PROVE  \/ \E k \in 1..(n - 1) : t[k] \in s /\ ~Waits(t, k + 1, n - 1, e)
                 \/ m /\ ~Waits(t, 1, n - 1, e)
      <3>1. CASE i = 1
        BY <1>1, <1>3, <2>2, <3>1
      <3>2. CASE i # 1
        <4>1. i - 1 \in 1..(n - 1) /\ (i - 1) + 1 = i
          BY <1>1, <3>2
        <4>2. t[i - 1] \in s /\ ~Waits(t, (i - 1) + 1, n - 1, e)
          BY <1>6, <2>2, <4>1
        <4> QED
          BY <4>1, <4>2
      <3> QED
        BY <3>1, <3>2
    <2> QED
      BY <1>5, <1>9, <2>1, <2>2
  <1> QED
    BY <1>1, <1>7, <1>8, <1>9 DEF Follows, t

\* What happens starts or ends it, and waits to be taken.
LEMMA FollowsAppend ==
  ASSUME NEW q \in Seq(Events), NEW x \in Events, NEW s, NEW e, s \cap e = {},
         NEW l \in BOOLEAN, NEW r \in BOOLEAN, NEW u \in BOOLEAN, Follows(q, s, e, l, r),
         x \in s => u, x \in e => ~u, x \notin s \cup e => u = r
  PROVE  Follows(Append(q, x), s, e, l, u)
  <1> DEFINE a == Append(q, x)
             n == Len(q)
  <1>1. /\ n \in Nat /\ Len(a) = n + 1 /\ a[n + 1] = x
        /\ \A i \in 1..n : a[i] = q[i]
    BY QueueAppend
  <1>2. \A i \in 1..(n + 1) : Waits(a, i, n + 1, e) <=> Waits(q, i, n, e) \/ x \in e
    <2> SUFFICES ASSUME NEW i \in 1..(n + 1)
                 PROVE  Waits(a, i, n + 1, e) <=> Waits(q, i, n, e) \/ x \in e
      OBVIOUS
    <2>1. i \in Nat \ {0} /\ i <= Len(q) + 1
      BY <1>1
    <2> QED
      BY <2>1, WaitsAppend
  <1>3. /\ \A i \in 1..n : q[i] \in s /\ ~r => Waits(q, i + 1, n, e)
        /\ l /\ ~r => Waits(q, 1, n, e)
        /\ r => \/ \E i \in 1..n : q[i] \in s /\ ~Waits(q, i + 1, n, e)
                \/ l /\ ~Waits(q, 1, n, e)
    BY DEF Follows
  <1> HIDE DEF a, n
  <1>4. \A i \in 1..n : i \in 1..(n + 1) /\ i + 1 \in 1..(n + 1)
    BY <1>1
  <1>5. \A i \in 1..(n + 1) : i = n + 1 \/ i \in 1..n
    BY <1>1
  <1>6. 1 \in 1..(n + 1) /\ n + 1 \in 1..(n + 1)
    BY <1>1
  <1>7. ~Waits(a, (n + 1) + 1, n + 1, e)
    BY <1>1 DEF Waits
  <1>8. CASE x \in e
    <2>1. ~u /\ x \notin s
      BY <1>8
    <2>2. \A i \in 1..(n + 1) : a[i] \in s => Waits(a, i + 1, n + 1, e)
      BY <1>1, <1>2, <1>4, <1>5, <1>8, <2>1
    <2>3. Waits(a, 1, n + 1, e)
      BY <1>2, <1>6, <1>8
    <2> QED
      BY <1>1, <2>1, <2>2, <2>3 DEF Follows, a
  <1>9. CASE x \in s
    <2>1. u /\ x \notin e
      BY <1>9
    <2>2. \E i \in 1..(n + 1) : a[i] \in s /\ ~Waits(a, i + 1, n + 1, e)
      BY <1>1, <1>6, <1>7, <1>9
    <2> QED
      BY <1>1, <2>1, <2>2 DEF Follows, a
  <1>10. CASE x \notin s \cup e
    <2>1. u = r /\ x \notin e /\ x \notin s
      BY <1>10
    <2>2. \A i \in 1..n : Waits(a, i + 1, n + 1, e) <=> Waits(q, i + 1, n, e)
      BY <1>2, <1>4, <2>1
    <2>3. Waits(a, 1, n + 1, e) <=> Waits(q, 1, n, e)
      BY <1>2, <1>6, <2>1
    <2>4. \A i \in 1..(n + 1) : a[i] \in s /\ ~u => Waits(a, i + 1, n + 1, e)
      BY <1>1, <1>3, <1>5, <2>1, <2>2
    <2>5. u => \/ \E i \in 1..(n + 1) : a[i] \in s /\ ~Waits(a, i + 1, n + 1, e)
               \/ l /\ ~Waits(a, 1, n + 1, e)
      BY <1>1, <1>3, <1>4, <2>1, <2>2, <2>3
    <2>6. l /\ ~u => Waits(a, 1, n + 1, e)
      BY <1>3, <2>1, <2>3
    <2> QED
      BY <1>1, <2>4, <2>5, <2>6 DEF Follows, a
  <1> QED
    BY <1>8, <1>9, <1>10

\* It is not real, and nothing is listed any more.
LEMMA FollowsUnlisted ==
  ASSUME NEW q, NEW s, NEW e, NEW l, Follows(q, s, e, l, FALSE)
  PROVE  Follows(q, s, e, FALSE, FALSE)
  BY DEF Follows

\* Nothing waits.
LEMMA FollowsAtRest ==
  ASSUME NEW s, NEW e, NEW l \in BOOLEAN, NEW r \in BOOLEAN, Follows(<<>>, s, e, l, r)
  PROVE  l = r
  <1>1. Len(<<>>) = 0 /\ ~Waits(<<>>, 1, 0, e)
    BY DEF Waits
  <1> QED
    BY <1>1 DEF Follows

\* The same of one queue, for whatever is listed and real.
TailFollows(q, s, e) ==
  \A l, r, m \in BOOLEAN :
     /\ Follows(q, s, e, l, r)
     /\ Head(q) \in s => m
     /\ Head(q) \in e => ~m
     /\ Head(q) \notin s \cup e => (m <=> l)
     => Follows(Tail(q), s, e, m, r)

AppendFollows(q, x, s, e) ==
  \A l, r, u \in BOOLEAN :
     /\ Follows(q, s, e, l, r)
     /\ x \in s => u
     /\ x \in e => ~u
     /\ x \notin s \cup e => (u <=> r)
     => Follows(Append(q, x), s, e, l, u)

\* When an event is taken.
LEMMA AllFollowTail ==
  ASSUME NEW q \in Seq(Events), q # <<>>, NEW s, NEW e, s \cap e = {}
  PROVE  TailFollows(q, s, e)
  BY FollowsTail DEF TailFollows

\* When another one comes.
LEMMA AllFollowAppend ==
  ASSUME NEW q \in Seq(Events), NEW x \in Events, NEW s, NEW e, s \cap e = {}
  PROVE  AppendFollows(q, x, s, e)
  BY FollowsAppend DEF AppendFollows

-----------------------------------------------------------------------------
\* Taking an event lists once what it begins.
LEMMA OnceTail ==
  ASSUME NEW q \in Seq(Events), q # <<>>, NEW s, NEW e, s \cap e = {},
         NEW n \in Nat, NEW m \in Nat, BegunOnce(q, s, e, n),
         Head(q) \in s => m = n + 1, Head(q) \in e => m = 0, Head(q) \notin s \cup e => m = n
  PROVE  BegunOnce(Tail(q), s, e, m)
  <1> DEFINE t == Tail(q)
             z == Len(q)
  <1>1. /\ z \in Nat /\ z >= 1 /\ Len(t) = z - 1
        /\ \A i \in 1..(z - 1) : t[i] = q[i + 1]
        /\ Head(q) = q[1]
    BY QueueTail
  <1>2. \A i \in Nat \ {0} : \A j \in 1..(z - 1) :
           Waits(t, i, j - 1, e) <=> Waits(q, i + 1, j, e)
    <2> SUFFICES ASSUME NEW i \in Nat \ {0}, NEW j \in 1..(z - 1)
                 PROVE  Waits(t, i, j - 1, e) <=> Waits(q, i + 1, j, e)
      OBVIOUS
    <2>1. j - 1 \in Int /\ j - 1 <= Len(q) - 1 /\ (j - 1) + 1 = j
      BY <1>1
    <2> QED
      BY <2>1, WaitsTail
  <1>3. \A j \in 1..(z - 1) : Waits(q, 1, j, e) <=> q[1] \in e \/ Waits(q, 2, j, e)
    BY <1>1, WaitsFirst
  <1>4. /\ \A i, j \in 1..z : i < j /\ q[i] \in s /\ q[j] \in s => Waits(q, i + 1, j - 1, e)
        /\ n > 0 => \A j \in 1..z : q[j] \in s => Waits(q, 1, j - 1, e)
        /\ n \in {0, 1}
    BY DEF BegunOnce
  <1>5. ~Waits(q, 1, 1 - 1, e)
    BY DEF Waits
  <1> HIDE DEF t, z
  <1>6. \A i, j \in 1..(z - 1) : i < j /\ t[i] \in s /\ t[j] \in s => Waits(t, i + 1, j - 1, e)
    <2> SUFFICES ASSUME NEW i \in 1..(z - 1), NEW j \in 1..(z - 1), i < j, t[i] \in s, t[j] \in s
                 PROVE  Waits(t, i + 1, j - 1, e)
      OBVIOUS
    <2>1. /\ i + 1 \in 1..z /\ j + 1 \in 1..z /\ i + 1 < j + 1 /\ (j + 1) - 1 = j
          /\ i + 1 \in Nat \ {0}
      BY <1>1
    <2>2. Waits(q, (i + 1) + 1, j, e)
      BY <1>1, <1>4, <2>1
    <2> QED
      BY <1>2, <2>1, <2>2
  <1>7. m > 0 => \A j \in 1..(z - 1) : t[j] \in s => Waits(t, 1, j - 1, e)
    <2> SUFFICES ASSUME m > 0, NEW j \in 1..(z - 1), t[j] \in s
                 PROVE  Waits(q, 2, j, e)
      BY <1>2
    <2>1. /\ j + 1 \in 1..z /\ 1 \in 1..z /\ 1 < j + 1 /\ (j + 1) - 1 = j /\ q[j + 1] \in s
          /\ q[1] \notin e
      BY <1>1
    <2>2. CASE q[1] \in s
      BY <1>4, <2>1, <2>2
    <2>3. CASE q[1] \notin s
      <3>1. n > 0
        BY <1>1, <2>1, <2>3
      <3>2. Waits(q, 1, j, e)
        BY <1>4, <2>1, <3>1
      <3> QED
        BY <1>3, <2>1, <3>2
    <2> QED
      BY <2>2, <2>3
  <1>8. m \in {0, 1}
    <2>1. q[1] \in s => n = 0
      BY <1>1, <1>4, <1>5
    <2> QED
      BY <1>1, <1>4, <2>1
  <1> QED
    BY <1>1, <1>6, <1>7, <1>8 DEF BegunOnce, t

\* It begins only when it is not real.
LEMMA OnceAppend ==
  ASSUME NEW q \in Seq(Events), NEW x \in Events, NEW s, NEW e,
         NEW n \in Nat, NEW r \in BOOLEAN, BegunOnce(q, s, e, n), Follows(q, s, e, n > 0, r),
         x \in s => ~r
  PROVE  BegunOnce(Append(q, x), s, e, n)
  <1> DEFINE a == Append(q, x)
             z == Len(q)
  <1>1. /\ z \in Nat /\ Len(a) = z + 1 /\ a[z + 1] = x
        /\ \A i \in 1..z : a[i] = q[i]
    BY QueueAppend
  <1>2. \A i \in Nat \ {0} : \A j \in 1..(z + 1) :
           Waits(a, i, j - 1, e) <=> Waits(q, i, j - 1, e)
    <2> SUFFICES ASSUME NEW i \in Nat \ {0}, NEW j \in 1..(z + 1)
                 PROVE  Waits(a, i, j - 1, e) <=> Waits(q, i, j - 1, e)
      OBVIOUS
    <2>1. j - 1 \in Int /\ j - 1 <= Len(q)
      BY <1>1
    <2> QED
      BY <2>1, WaitsAppend
  <1>3. /\ \A i, j \in 1..z : i < j /\ q[i] \in s /\ q[j] \in s => Waits(q, i + 1, j - 1, e)
        /\ n > 0 => \A j \in 1..z : q[j] \in s => Waits(q, 1, j - 1, e)
        /\ n \in {0, 1}
    BY DEF BegunOnce
  <1>4. x \in s => /\ \A i \in 1..z : q[i] \in s => Waits(q, i + 1, z, e)
                   /\ n > 0 => Waits(q, 1, z, e)
    BY DEF Follows
  <1> HIDE DEF a, z
  <1>5. \A i, j \in 1..(z + 1) : i < j /\ a[i] \in s /\ a[j] \in s => Waits(a, i + 1, j - 1, e)
    <2> SUFFICES ASSUME NEW i \in 1..(z + 1), NEW j \in 1..(z + 1), i < j, a[i] \in s, a[j] \in s
                 PROVE  Waits(q, i + 1, j - 1, e)
      BY <1>2
    <2>1. i \in 1..z /\ q[i] \in s
      BY <1>1
    <2>2. CASE j \in 1..z
      BY <1>1, <1>3, <2>1, <2>2
    <2>3. CASE j = z + 1
      BY <1>1, <1>4, <2>1, <2>3
    <2> QED
      BY <1>1, <2>2, <2>3
  <1>6. n > 0 => \A j \in 1..(z + 1) : a[j] \in s => Waits(a, 1, j - 1, e)
    <2> SUFFICES ASSUME n > 0, NEW j \in 1..(z + 1), a[j] \in s
                 PROVE  Waits(q, 1, j - 1, e)
      BY <1>2
    <2>2. CASE j \in 1..z
      BY <1>1, <1>3, <2>2
    <2>3. CASE j = z + 1
      BY <1>1, <1>4, <2>3
    <2> QED
      BY <1>1, <2>2, <2>3
  <1> QED
    BY <1>1, <1>3, <1>5, <1>6 DEF BegunOnce, a

\* Nothing is listed any more.
LEMMA BegunUnlisted ==
  ASSUME NEW q, NEW s, NEW e, NEW n, BegunOnce(q, s, e, n)
  PROVE  BegunOnce(q, s, e, 0)
  BY DEF BegunOnce

-----------------------------------------------------------------------------
\* Taking an event: the end of a connection takes the streams with it.
LEMMA OnConnectionTail ==
  ASSUME NEW q \in Seq(Events), q # <<>>, NEW live \in BOOLEAN,
         NEW gone \in BOOLEAN, NEW some \in BOOLEAN, NEW gone1 \in BOOLEAN, NEW some1 \in BOOLEAN,
         OnConnection(q, live, gone, some),
         Head(q) = Down \/ (gone1 => gone), Head(q) = Down => ~some1,
         some1 => some \/ Head(q) \in AnyShare, Head(q) = Up => ~gone1 \/ ~live
  PROVE  OnConnection(Tail(q), live, gone1, some1)
  <1> DEFINE t == Tail(q)
             z == Len(q)
  <1>1. /\ z \in Nat /\ z >= 1 /\ Len(t) = z - 1
        /\ \A i \in 1..(z - 1) : t[i] = q[i + 1]
        /\ Head(q) = q[1]
    BY QueueTail
  <1>2. \A i \in Nat \ {0} : \A j \in 1..z : \A es :
           Waits(t, i, j - 1, es) <=> Waits(q, i + 1, j, es)
    <2> SUFFICES ASSUME NEW i \in Nat \ {0}, NEW j \in 1..z, NEW es
                 PROVE  Waits(t, i, j - 1, es) <=> Waits(q, i + 1, j, es)
      OBVIOUS
    <2>1. j - 1 \in Int /\ j - 1 <= Len(q) - 1 /\ (j - 1) + 1 = j
      BY <1>1
    <2> QED
      BY <2>1, WaitsTail
  <1>3. \A j \in 1..z : \A es : Waits(q, 1, j, es) <=> q[1] \in es \/ Waits(q, 2, j, es)
    BY <1>1, WaitsFirst
  <1>4. /\ ~live =>
              /\ \A i \in 1..z : q[i] \in AnyShare => Waits(q, i + 1, z, {Down})
              /\ some => Waits(q, 1, z, {Down})
        /\ \A k, i \in 1..z :
              k < i /\ q[k] = Down /\ q[i] \in AnyShare => Waits(q, k + 1, i - 1, {Up})
        /\ gone =>
              /\ some => Waits(q, 1, z, {Down})
              /\ \A i \in 1..z : q[i] \in AnyShare =>
                    Waits(q, 1, z, {Down}) \/ Waits(q, 1, i - 1, {Up})
    BY DEF OnConnection
  <1>5. Up # Down /\ Up \notin AnyShare /\ Down \notin AnyShare
    BY DEF Up, Down, AnyShare, Event
  <1>6. ~Waits(q, 1, 1 - 1, {Up})
    BY DEF Waits
  <1> HIDE DEF t, z
  <1>7. /\ z \in 1..z /\ 1 \in 1..z
        /\ \A i \in 1..(z - 1) : /\ i + 1 \in 1..z /\ i \in 1..z /\ i \in Nat \ {0}
                                 /\ i + 1 \in Nat \ {0} /\ (i + 1) - 1 = i
    BY <1>1
  \* The end of the connection still waits, unless it is taken.
  <1>8. q[1] # Down /\ Waits(q, 1, z, {Down}) => Waits(t, 1, z - 1, {Down})
    BY <1>2, <1>3, <1>7
  <1>9. ASSUME ~live
        PROVE  /\ \A i \in 1..(z - 1) : t[i] \in AnyShare => Waits(t, i + 1, z - 1, {Down})
               /\ some1 => Waits(t, 1, z - 1, {Down})
    <2>1. \A i \in 1..(z - 1) : t[i] \in AnyShare => Waits(t, i + 1, z - 1, {Down})
      BY <1>1, <1>2, <1>4, <1>7, <1>9
    <2>2. ASSUME some1 PROVE Waits(t, 1, z - 1, {Down})
      <3>1. q[1] # Down
        BY <1>1, <2>2
      <3>2. Waits(q, 1, z, {Down})
        <4>1. CASE some
          BY <1>4, <1>9, <4>1
        <4>2. CASE q[1] \in AnyShare
          <5>1. Waits(q, 1 + 1, z, {Down})
            BY <1>4, <1>7, <1>9, <4>2
          <5> QED
            BY <1>3, <1>7, <5>1
        <4> QED
          BY <1>1, <2>2, <4>1, <4>2
      <3> QED
        BY <1>8, <3>1, <3>2
    <2> QED
      BY <2>1, <2>2
  <1>10. \A k, i \in 1..(z - 1) :
           k < i /\ t[k] = Down /\ t[i] \in AnyShare => Waits(t, k + 1, i - 1, {Up})
    <2> SUFFICES ASSUME NEW k \in 1..(z - 1), NEW i \in 1..(z - 1), k < i, t[k] = Down,
                        t[i] \in AnyShare
                 PROVE  Waits(t, k + 1, i - 1, {Up})
      OBVIOUS
    <2>1. /\ k + 1 \in 1..z /\ i + 1 \in 1..z /\ k + 1 < i + 1 /\ q[k + 1] = Down
          /\ q[i + 1] \in AnyShare /\ (i + 1) - 1 = i /\ i \in 1..z /\ k + 1 \in Nat \ {0}
      BY <1>1, <1>7
    <2>2. Waits(q, (k + 1) + 1, i, {Up})
      BY <1>4, <2>1
    <2> QED
      BY <1>2, <2>1, <2>2
  <1>11. ASSUME gone1
         PROVE  /\ some1 => Waits(t, 1, z - 1, {Down})
                /\ \A i \in 1..(z - 1) : t[i] \in AnyShare =>
                      Waits(t, 1, z - 1, {Down}) \/ Waits(t, 1, i - 1, {Up})
    <2>1. CASE q[1] = Down
      <3>1. ~some1
        BY <1>1, <2>1
      <3>2. \A i \in 1..(z - 1) : t[i] \in AnyShare => Waits(t, 1, i - 1, {Up})
        <4> SUFFICES ASSUME NEW i \in 1..(z - 1), t[i] \in AnyShare
                     PROVE  Waits(t, 1, i - 1, {Up})
          OBVIOUS
        <4>1. i + 1 \in 1..z /\ 1 < i + 1 /\ q[i + 1] \in AnyShare /\ (i + 1) - 1 = i
          BY <1>1, <1>7
        <4>2. Waits(q, 1 + 1, i, {Up})
          BY <1>4, <1>7, <2>1, <4>1
        <4> QED
          BY <1>2, <1>7, <4>2
      <3> QED
        BY <3>1, <3>2
    <2>2. CASE q[1] # Down
      <3>1. gone
        BY <1>1, <1>11, <2>2
      <3>2. some1 => Waits(q, 1, z, {Down})
        <4>1. q[1] \in AnyShare => Waits(q, 1, z, {Down})
          BY <1>4, <1>6, <1>7, <3>1
        <4> QED
          BY <1>1, <1>4, <3>1, <4>1
      <3>3. ASSUME NEW i \in 1..(z - 1), t[i] \in AnyShare
            PROVE  Waits(t, 1, z - 1, {Down}) \/ Waits(t, 1, i - 1, {Up})
        <4>1. i + 1 \in 1..z /\ q[i + 1] \in AnyShare /\ (i + 1) - 1 = i
          BY <1>1, <1>7, <3>3
        <4>2. Waits(q, 1, z, {Down}) \/ Waits(q, 1, i, {Up})
          BY <1>4, <3>1, <4>1
        <4>3. CASE Waits(q, 1, z, {Down})
          BY <1>8, <2>2, <4>3
        <4>4. CASE Waits(q, 1, i, {Up}) /\ q[1] # Up
          <5>1. Waits(q, 2, i, {Up})
            BY <1>3, <1>7, <4>4
          <5> QED
            BY <1>2, <1>7, <5>1
        <4>5. CASE q[1] = Up
          <5>1. ~live
            BY <1>1, <1>11, <4>5
          <5>2. Waits(q, (i + 1) + 1, z, {Down})
            BY <1>4, <4>1, <5>1
          <5>3. Waits(q, 1, z, {Down})
            BY <1>7, <5>2 DEF Waits
          <5> QED
            BY <1>8, <2>2, <5>3
        <4> QED
          BY <4>2, <4>3, <4>4, <4>5
      <3> QED
        BY <1>8, <2>2, <3>2, <3>3
    <2> QED
      BY <2>1, <2>2
  <1> QED
    BY <1>1, <1>9, <1>10, <1>11 DEF OnConnection, t

\* The connection ends.
LEMMA OnConnectionEnds ==
  ASSUME NEW q \in Seq(Events), NEW live \in BOOLEAN, NEW gone \in BOOLEAN, NEW some \in BOOLEAN,
         OnConnection(q, live, gone, some), NEW live1 \in BOOLEAN, NEW gone1 \in BOOLEAN,
         NEW some1 \in BOOLEAN
  PROVE  OnConnection(Append(q, Down), live1, gone1, some1)
  <1> DEFINE a == Append(q, Down)
             z == Len(q)
  <1>0. Down \in Events /\ Down \notin AnyShare
    BY DEF Events, Down, AnyShare, Event
  <1>1. /\ z \in Nat /\ Len(a) = z + 1 /\ a[z + 1] = Down
        /\ \A i \in 1..z : a[i] = q[i]
    BY <1>0, QueueAppend
  <1>2. \A i \in 1..(z + 1) : a[i] \in AnyShare => i \in 1..z /\ q[i] \in AnyShare
    BY <1>0, <1>1
  <1>3. \A i \in 1..(z + 1) : Waits(a, i, z + 1, {Down})
    BY <1>1 DEF Waits
  <1>4. \A k, i \in 1..z :
           k < i /\ q[k] = Down /\ q[i] \in AnyShare => Waits(q, k + 1, i - 1, {Up})
    BY DEF OnConnection
  <1>5. \A k, i \in 1..(z + 1) :
           k < i /\ a[k] = Down /\ a[i] \in AnyShare => Waits(a, k + 1, i - 1, {Up})
    <2> SUFFICES ASSUME NEW k \in 1..(z + 1), NEW i \in 1..(z + 1), k < i, a[k] = Down,
                        a[i] \in AnyShare
                 PROVE  Waits(a, k + 1, i - 1, {Up})
      OBVIOUS
    <2>1. i \in 1..z /\ k \in 1..z /\ q[k] = Down /\ q[i] \in AnyShare
      BY <1>1, <1>2
    <2>2. Waits(q, k + 1, i - 1, {Up})
      BY <1>4, <2>1
    <2> QED
      BY <1>1, <2>1, <2>2 DEF Waits
  <1>6. /\ 1 \in 1..(z + 1)
        /\ \A i \in 1..(z + 1) : a[i] \in AnyShare => i + 1 \in 1..(z + 1)
    BY <1>1, <1>2
  <1> HIDE DEF a, z
  <1> QED
    BY <1>1, <1>3, <1>5, <1>6 DEF OnConnection, a

\* Something else happens; a stream is shared only on an open connection.
LEMMA OnConnectionAppend ==
  ASSUME NEW q \in Seq(Events), NEW x \in Events, x # Down, NEW live \in BOOLEAN,
         NEW live1 \in BOOLEAN, NEW c \in BOOLEAN, NEW gone \in BOOLEAN, NEW some \in BOOLEAN,
         OnConnection(q, live, gone, some), Follows(q, {Up}, {Down}, c, live), gone => ~c,
         live => live1, x \in AnyShare => live
  PROVE  OnConnection(Append(q, x), live1, gone, some)
  <1> DEFINE a == Append(q, x)
             z == Len(q)
  <1>1. /\ z \in Nat /\ Len(a) = z + 1 /\ a[z + 1] = x
        /\ \A i \in 1..z : a[i] = q[i]
    BY QueueAppend
  <1>2. \A i \in 1..(z + 1) : \A es :
           /\ Waits(q, i, z, es) => Waits(a, i, z, es) /\ Waits(a, i, z + 1, es)
           /\ \A j \in 1..z : Waits(q, i, j - 1, es) => Waits(a, i, j - 1, es)
    BY <1>1 DEF Waits
  <1>3. /\ ~live =>
              /\ \A i \in 1..z : q[i] \in AnyShare => Waits(q, i + 1, z, {Down})
              /\ some => Waits(q, 1, z, {Down})
        /\ \A k, i \in 1..z :
              k < i /\ q[k] = Down /\ q[i] \in AnyShare => Waits(q, k + 1, i - 1, {Up})
        /\ gone =>
              /\ some => Waits(q, 1, z, {Down})
              /\ \A i \in 1..z : q[i] \in AnyShare =>
                    Waits(q, 1, z, {Down}) \/ Waits(q, 1, i - 1, {Up})
    BY DEF OnConnection
  \* An open connection has begun after the last one ended.
  <1>4. live => \/ c /\ ~Waits(q, 1, z, {Down})
                \/ \E i \in 1..z : q[i] = Up /\ ~Waits(q, i + 1, z, {Down})
    BY DEF Follows
  <1>5. Up # Down
    BY DEF Up, Down, Event
  <1> HIDE DEF a, z
  <1>6. /\ \A i \in 1..(z + 1) : i = z + 1 \/ i \in 1..z
        /\ \A i \in 1..z : i \in 1..(z + 1) /\ i + 1 \in 1..(z + 1)
        /\ 1 \in 1..(z + 1)
    BY <1>1
  <1>7. ASSUME ~live1
        PROVE  /\ \A i \in 1..(z + 1) : a[i] \in AnyShare => Waits(a, i + 1, z + 1, {Down})
               /\ some => Waits(a, 1, z + 1, {Down})
    <2>1. ~live /\ x \notin AnyShare
      BY <1>7
    <2>2. \A i \in 1..z : a[i] \in AnyShare => Waits(a, i + 1, z + 1, {Down})
      BY <1>1, <1>2, <1>3, <1>6, <2>1
    <2> QED
      BY <1>1, <1>2, <1>3, <1>6, <2>1, <2>2
  <1>8. ASSUME NEW k \in 1..(z + 1), NEW i \in 1..(z + 1), k < i, a[k] = Down, a[i] \in AnyShare
        PROVE  Waits(a, k + 1, i - 1, {Up})
    <2>1. k \in 1..z /\ q[k] = Down
      BY <1>1, <1>8
    <2>2. CASE i \in 1..z
      <3>1. q[i] \in AnyShare /\ k + 1 \in 1..(z + 1)
        BY <1>1, <1>6, <1>8, <2>1, <2>2
      <3>2. Waits(q, k + 1, i - 1, {Up})
        BY <1>3, <1>8, <2>1, <2>2, <3>1
      <3> QED
        BY <1>2, <2>2, <3>1, <3>2
    <2>3. CASE i = z + 1
      <3>1. live /\ i - 1 = z
        BY <1>1, <1>8, <2>3
      <3>2. Waits(q, 1, z, {Down})
        BY <2>1 DEF Waits
      <3>3. PICK u \in 1..z : q[u] = Up /\ ~Waits(q, u + 1, z, {Down})
        BY <1>4, <3>1, <3>2
      <3>4. k < u
        <4>1. k # u
          BY <1>5, <2>1, <3>3
        <4>2. ~(k > u)
          BY <1>1, <2>1, <3>3 DEF Waits
        <4> QED
          BY <2>1, <3>3, <4>1, <4>2
      <3>5. Waits(q, k + 1, z, {Up})
        BY <1>1, <2>1, <3>3, <3>4 DEF Waits
      <3> QED
        BY <1>1, <1>2, <1>6, <2>1, <3>1, <3>5
    <2> QED
      BY <1>6, <2>2, <2>3
  <1>9. ASSUME gone
        PROVE  /\ some => Waits(a, 1, z + 1, {Down})
               /\ \A i \in 1..(z + 1) : a[i] \in AnyShare =>
                     Waits(a, 1, z + 1, {Down}) \/ Waits(a, 1, i - 1, {Up})
    <2>1. some => Waits(a, 1, z + 1, {Down})
      BY <1>1, <1>2, <1>3, <1>6, <1>9
    <2>2. ASSUME NEW i \in 1..z, a[i] \in AnyShare
          PROVE  Waits(a, 1, z + 1, {Down}) \/ Waits(a, 1, i - 1, {Up})
      <3>1. Waits(q, 1, z, {Down}) \/ Waits(q, 1, i - 1, {Up})
        BY <1>1, <1>3, <1>9, <2>2
      <3> QED
        BY <1>1, <1>2, <1>6, <2>2, <3>1
    <2>3. ASSUME a[z + 1] \in AnyShare
          PROVE  Waits(a, 1, (z + 1) - 1, {Up})
      <3>1. live /\ ~c
        BY <1>1, <1>9, <2>3
      <3>2. PICK u \in 1..z : q[u] = Up
        BY <1>4, <3>1
      <3>3. Waits(q, 1, z, {Up}) /\ (z + 1) - 1 = z
        BY <1>1, <3>2 DEF Waits
      <3> QED
        BY <1>1, <1>2, <1>6, <3>3
    <2> QED
      BY <1>6, <2>1, <2>2, <2>3
  <1> QED
    BY <1>1, <1>7, <1>8, <1>9 DEF OnConnection, a

\* The user leaves, and the connection is gone.
LEMMA OnConnectionLeft ==
  ASSUME NEW q \in Seq(Events), NEW gone \in BOOLEAN, NEW some \in BOOLEAN,
         OnConnection(q, FALSE, gone, some), NEW gone1 \in BOOLEAN
  PROVE  OnConnection(q, FALSE, gone1, FALSE)
  <1>1. \A i \in 1..Len(q) : Waits(q, i + 1, Len(q), {Down}) => Waits(q, 1, Len(q), {Down})
    BY DEF Waits
  <1> QED
    BY <1>1 DEF OnConnection

-----------------------------------------------------------------------------
\* What the events are, and whom each is about.
LEMMA EventFacts ==
  /\ Up \in Events /\ Down \in Events /\ Up # Down /\ {Up} \cap {Down} = {}
  /\ \A p \in Peers :
        /\ [type : {"joined", "left", "streaming", "stopped", "rejected"}, peer : {p}]
              \subseteq Events
        /\ Joins(p) \cap Leaves(p) = {} /\ Shares(p) \cap StopsSharing(p) = {}
        /\ {Up, Down} \cap (Joins(p) \cup Shares(p)) = {}
        /\ Down \in Leaves(p) /\ Down \in StopsSharing(p) /\ Down \notin OfPeer(p)
        /\ Up \notin StopsSharing(p) /\ Up \notin Leaves(p) /\ Up \notin OfPeer(p)
  /\ Up \notin AnyShare /\ Down \notin AnyShare
  BY DEF Up, Down, Event, Events, Joins, Leaves, Shares, StopsSharing, OfPeer, AnyShare

\* Whom an event about a peer is about.
LEMMA PeerFacts ==
  ASSUME NEW p \in Peers
  PROVE  /\ {Event("joined", p), Event("left", p), Event("streaming", p),
             Event("stopped", p), Event("rejected", p)} \subseteq Events \ {Up, Down}
         /\ {Event("joined", p), Event("left", p), Event("stopped", p), Event("rejected", p)}
               \cap AnyShare = {}
         /\ Event("streaming", p) \in AnyShare
         /\ \A o \in Peers :
               /\ Event("joined", p) \in Joins(o) <=> o = p
               /\ Event("joined", p) \notin StopsSharing(o) \cup Shares(o) \cup OfPeer(o)
               /\ Event("left", p) \in Leaves(o) <=> o = p
               /\ Event("left", p) \in StopsSharing(o) <=> o = p
               /\ Event("left", p) \in OfPeer(o) <=> o = p
               /\ Event("left", p) \notin Joins(o) \cup Shares(o)
               /\ Event("streaming", p) \in Shares(o) <=> o = p
               /\ Event("streaming", p) \notin Joins(o) \cup StopsSharing(o) \cup OfPeer(o)
               /\ Event("stopped", p) \in StopsSharing(o) <=> o = p
               /\ Event("stopped", p) \in OfPeer(o) <=> o = p
               /\ Event("stopped", p) \notin Joins(o) \cup Leaves(o) \cup Shares(o)
               /\ Event("rejected", p) \in OfPeer(o) <=> o = p
               /\ Event("rejected", p) \notin Joins(o) \cup Shares(o) \cup StopsSharing(o)
               /\ Leaves(o) \subseteq StopsSharing(o)
  BY DEF Up, Down, Event, Events, Joins, Leaves, Shares, StopsSharing, OfPeer, AnyShare

\* The event that is taken, by its type.
LEMMA TakenIs ==
  ASSUME CallInv, NEW t, Taken(t)
  PROVE  /\ queue # <<>> /\ queue \in Seq(Events) /\ Head(queue) \in Events
         /\ t = "connected" => Head(queue) = Up
         /\ t = "disconnected" => Head(queue) = Down
         /\ t \notin {"connected", "disconnected"} =>
               Head(queue).peer \in Peers /\ Head(queue) = Event(t, Head(queue).peer)
  <1>1. queue # <<>> /\ queue \in Seq(Events) /\ Head(queue) \in Events /\ Head(queue).type = t
    BY QueueTail DEF CallInv, CallTypes, Taken
  <1> QED
    BY <1>1 DEF Events, Up, Down, Event

\* What waits anywhere in the queue.
LEMMA AnyTail ==
  ASSUME NEW q \in Seq(Events), q # <<>>, NEW es
  PROVE  Waits(q, 1, Len(q), es) <=> Head(q) \in es \/ Waits(Tail(q), 1, Len(Tail(q)), es)
  <1>1. /\ Len(q) \in Nat /\ Len(q) >= 1 /\ Len(Tail(q)) = Len(q) - 1 /\ Head(q) = q[1]
        /\ 1 \in Nat \ {0} /\ 1 \in Int /\ Len(q) \in Int
        /\ Len(q) - 1 \in Int /\ (Len(q) - 1) + 1 = Len(q) /\ 1 + 1 = 2
    BY QueueTail
  <1>2. Waits(Tail(q), 1, Len(q) - 1, es) <=> Waits(q, 1 + 1, (Len(q) - 1) + 1, es)
    BY <1>1, WaitsTail
  <1>3. Waits(q, 1, Len(q), es) <=> q[1] \in es \/ Waits(q, 1 + 1, Len(q), es)
    BY <1>1, WaitsFirst
  <1> QED
    BY <1>1, <1>2, <1>3

\* ... and once another event has come.
LEMMA AnyAppend ==
  ASSUME NEW q \in Seq(Events), NEW x \in Events, NEW es
  PROVE  Waits(Append(q, x), 1, Len(Append(q, x)), es) <=> Waits(q, 1, Len(q), es) \/ x \in es
  <1>1. 1 \in Nat \ {0} /\ Len(q) \in Nat /\ Len(Append(q, x)) = Len(q) + 1 /\ 1 <= Len(q) + 1
    BY QueueAppend
  <1> QED
    BY <1>1, WaitsAppend

-----------------------------------------------------------------------------
\* The parts of the invariant about the queue, when an event is taken.
LEMMA TakenConnection ==
  ASSUME CallInv, queue # <<>>, queue' = Tail(queue), (socket' = "open") <=> (socket = "open"),
         Head(queue) = Up => conn' = "connected" \/ socket # "open",
         Head(queue) = Down => conn' # "connected",
         Head(queue) \notin {Up, Down} => (conn' = "connected" <=> conn = "connected"),
         statsOn' <=> conn' = "connected"
  PROVE  ConnectionFollows'
  <1> DEFINE now == conn' = "connected" \/ Head(queue) = Up
             was == conn = "connected"
             live == socket = "open"
  <1>1. queue \in Seq(Events) /\ Follows(queue, {Up}, {Down}, was, live)
    BY DEF CallInv, CallTypes, ConnectionFollows
  <1>2. /\ Head(queue) \in {Up} => now
        /\ Head(queue) \in {Down} => ~now
        /\ Head(queue) \notin {Up} \cup {Down} => (now <=> was)
        /\ now \in BOOLEAN /\ was \in BOOLEAN /\ live \in BOOLEAN
        /\ TailFollows(queue, {Up}, {Down})
    BY <1>1, EventFacts, AllFollowTail
  <1>3. Follows(Tail(queue), {Up}, {Down}, now, live)
    BY <1>1, <1>2, Zenon DEF TailFollows
  <1>4. CASE conn' = "connected" <=> now
    <2>1. now = (conn' = "connected") /\ live = (socket' = "open")
      BY <1>4 DEF now, live
    <2> QED
      BY <1>3, <2>1 DEF ConnectionFollows
  <1>5. CASE ~(conn' = "connected" <=> now)
    <2>1. now = TRUE /\ live = FALSE /\ (conn' = "connected") = FALSE
             /\ (socket' = "open") = FALSE
      BY <1>5 DEF now, live
    <2>2. Follows(Tail(queue), {Up}, {Down}, FALSE, FALSE)
      BY <1>3, <2>1, FollowsUnlisted
    <2> QED
      BY <2>1, <2>2 DEF ConnectionFollows
  <1> QED
    BY <1>4, <1>5

\* ... who is in the channel, and who shares a screen.
LEMMA TakenPeople ==
  ASSUME CallInv, queue # <<>>, queue' = Tail(queue), room' = room, streams' = streams,
         shown' \in [Peers -> Nat],
         \A p \in Peers :
            /\ Head(queue) \in Joins(p) => shown'[p] = shown[p] + 1
            /\ Head(queue) \in Leaves(p) => shown'[p] = 0
            /\ Head(queue) \notin Joins(p) \cup Leaves(p) => shown'[p] = shown[p]
            /\ Head(queue) \in Shares(p) => p \in streamingPeers'
            /\ Head(queue) \in StopsSharing(p) => p \notin streamingPeers'
            /\ Head(queue) \notin Shares(p) \cup StopsSharing(p) =>
                  (p \in streamingPeers' <=> p \in streamingPeers)
  PROVE  PeopleFollow'
  <1> SUFFICES ASSUME NEW p \in Peers
               PROVE  /\ Follows(queue', Joins(p), Leaves(p), shown'[p] > 0, p \in room')
                      /\ BegunOnce(queue', Joins(p), Leaves(p), shown'[p])
                      /\ Follows(queue', Shares(p), StopsSharing(p), p \in streamingPeers',
                                 p \in streams')
    BY DEF PeopleFollow
  <1> DEFINE was == shown[p] > 0
             now == shown'[p] > 0
             listed == p \in streamingPeers
             lists == p \in streamingPeers'
             in == p \in room
             shares == p \in streams
  <1>1. /\ queue \in Seq(Events) /\ Follows(queue, Joins(p), Leaves(p), was, in)
        /\ BegunOnce(queue, Joins(p), Leaves(p), shown[p])
        /\ Follows(queue, Shares(p), StopsSharing(p), listed, shares)
        /\ shown[p] \in Nat /\ shown'[p] \in Nat
    BY DEF CallInv, CallTypes, PeopleFollow
  <1>2. /\ Head(queue) \in Joins(p) => now
        /\ Head(queue) \in Leaves(p) => ~now
        /\ Head(queue) \notin Joins(p) \cup Leaves(p) => (now <=> was)
        /\ Head(queue) \in Shares(p) => lists
        /\ Head(queue) \in StopsSharing(p) => ~lists
        /\ Head(queue) \notin Shares(p) \cup StopsSharing(p) => (lists <=> listed)
        /\ now \in BOOLEAN /\ was \in BOOLEAN /\ in \in BOOLEAN
        /\ lists \in BOOLEAN /\ listed \in BOOLEAN /\ shares \in BOOLEAN
    BY <1>1
  <1>3. in = (p \in room') /\ shares = (p \in streams')
    OBVIOUS
  <1>4. Joins(p) \cap Leaves(p) = {} /\ Shares(p) \cap StopsSharing(p) = {}
    BY EventFacts
  <1>5. BegunOnce(Tail(queue), Joins(p), Leaves(p), shown'[p])
    BY <1>1, <1>4, OnceTail
  <1>6. Follows(Tail(queue), Joins(p), Leaves(p), now, in)
    <2>1. TailFollows(queue, Joins(p), Leaves(p))
      BY <1>1, <1>4, AllFollowTail
    <2> QED
      BY <1>1, <1>2, <2>1, Zenon DEF TailFollows
  <1>7. Follows(Tail(queue), Shares(p), StopsSharing(p), lists, shares)
    <2>1. TailFollows(queue, Shares(p), StopsSharing(p))
      BY <1>1, <1>4, AllFollowTail
    <2> QED
      BY <1>1, <1>2, <2>1, Zenon DEF TailFollows
  <1> QED
    BY <1>3, <1>5, <1>6, <1>7 DEF now, lists

\* ... and the connection its streams belong to.
LEMMA TakenStreams ==
  ASSUME CallInv, queue # <<>>, queue' = Tail(queue), (socket' = "open") <=> (socket = "open"),
         Head(queue) = Down \/ (conn' = "disconnected" => conn = "disconnected"),
         Head(queue) = Down => streamingPeers' = {},
         streamingPeers' \subseteq streamingPeers \/ Head(queue) \in AnyShare,
         Head(queue) = Up => conn' # "disconnected" \/ socket # "open"
  PROVE  StreamsOnConnection'
  <1> DEFINE live == socket = "open"
             gone == conn = "disconnected"
             some == streamingPeers # {}
             gone1 == conn' = "disconnected"
             some1 == streamingPeers' # {}
  <1>1. queue \in Seq(Events) /\ OnConnection(queue, live, gone, some)
    BY DEF CallInv, CallTypes, StreamsOnConnection
  <1>2. /\ Head(queue) = Down \/ (gone1 => gone)
        /\ Head(queue) = Down => ~some1
        /\ some1 => some \/ Head(queue) \in AnyShare
        /\ Head(queue) = Up => ~gone1 \/ ~live
        /\ live \in BOOLEAN /\ gone \in BOOLEAN /\ some \in BOOLEAN
        /\ gone1 \in BOOLEAN /\ some1 \in BOOLEAN
    OBVIOUS
  <1>3. live = (socket' = "open")
    OBVIOUS
  <1> HIDE DEF live, gone, some, gone1, some1
  <1>4. OnConnection(Tail(queue), live, gone1, some1)
    BY <1>1, <1>2, OnConnectionTail
  <1> QED
    BY <1>3, <1>4 DEF StreamsOnConnection, gone1, some1

\* ... and when something but the end of a connection happens.
LEMMA HappensConnection ==
  ASSUME CallInv, NEW x \in Events, x # Down, queue' = Append(queue, x), conn' = conn,
         statsOn' = statsOn, IF x = Up THEN socket' = "open" ELSE socket' = socket
  PROVE  ConnectionFollows'
  <1> DEFINE was == conn = "connected"
             live == socket = "open"
             now == socket' = "open"
  <1>1. /\ queue \in Seq(Events) /\ Follows(queue, {Up}, {Down}, was, live)
        /\ statsOn <=> conn = "connected"
    BY DEF CallInv, CallTypes, ConnectionFollows
  <1>2. /\ x \in {Up} => now
        /\ x \in {Down} => ~now
        /\ x \notin {Up} \cup {Down} => (now <=> live)
        /\ now \in BOOLEAN /\ was \in BOOLEAN /\ live \in BOOLEAN
        /\ was = (conn' = "connected")
    OBVIOUS
  <1>3. Follows(Append(queue, x), {Up}, {Down}, was, now)
    <2>1. AppendFollows(queue, x, {Up}, {Down})
      BY <1>1, AllFollowAppend, EventFacts
    <2> QED
      BY <1>1, <1>2, <2>1, Zenon DEF AppendFollows
  <1> QED
    BY <1>1, <1>2, <1>3 DEF ConnectionFollows, now

\* ... who enters, leaves, shares or stops.
LEMMA HappensPeople ==
  ASSUME CallInv, NEW x \in Events, queue' = Append(queue, x),
         shown' = shown, streamingPeers' = streamingPeers,
         \A p \in Peers :
            /\ x \in Joins(p) => p \notin room /\ p \in room'
            /\ x \in Leaves(p) => p \notin room'
            /\ x \notin Joins(p) \cup Leaves(p) => (p \in room' <=> p \in room)
            /\ x \in Shares(p) => p \in streams'
            /\ x \in StopsSharing(p) => p \notin streams'
            /\ x \notin Shares(p) \cup StopsSharing(p) => (p \in streams' <=> p \in streams)
  PROVE  PeopleFollow'
  <1> SUFFICES ASSUME NEW p \in Peers
               PROVE  /\ Follows(queue', Joins(p), Leaves(p), shown'[p] > 0, p \in room')
                      /\ BegunOnce(queue', Joins(p), Leaves(p), shown'[p])
                      /\ Follows(queue', Shares(p), StopsSharing(p), p \in streamingPeers',
                                 p \in streams')
    BY DEF PeopleFollow
  <1> DEFINE was == shown[p] > 0
             listed == p \in streamingPeers
             in == p \in room
             in1 == p \in room'
             shares == p \in streams
             shares1 == p \in streams'
  <1>1. /\ queue \in Seq(Events) /\ Follows(queue, Joins(p), Leaves(p), was, in)
        /\ BegunOnce(queue, Joins(p), Leaves(p), shown[p])
        /\ Follows(queue, Shares(p), StopsSharing(p), listed, shares)
        /\ shown[p] \in Nat
    BY DEF CallInv, CallTypes, PeopleFollow
  <1>2. /\ x \in Joins(p) => in1 /\ ~in
        /\ x \in Leaves(p) => ~in1
        /\ x \notin Joins(p) \cup Leaves(p) => (in1 <=> in)
        /\ x \in Shares(p) => shares1
        /\ x \in StopsSharing(p) => ~shares1
        /\ x \notin Shares(p) \cup StopsSharing(p) => (shares1 <=> shares)
        /\ was \in BOOLEAN /\ in \in BOOLEAN /\ in1 \in BOOLEAN
        /\ listed \in BOOLEAN /\ shares \in BOOLEAN /\ shares1 \in BOOLEAN
    OBVIOUS
  <1>3. was = (shown'[p] > 0) /\ listed = (p \in streamingPeers')
    OBVIOUS
  <1>4. Joins(p) \cap Leaves(p) = {} /\ Shares(p) \cap StopsSharing(p) = {}
    BY EventFacts
  <1>5. x \in Joins(p) => ~in
    BY <1>2, <1>4
  <1>6. BegunOnce(Append(queue, x), Joins(p), Leaves(p), shown[p])
    <2> HIDE DEF in
    <2> QED
      BY <1>1, <1>2, <1>5, OnceAppend
  <1>7. Follows(Append(queue, x), Joins(p), Leaves(p), was, in1)
    <2>1. AppendFollows(queue, x, Joins(p), Leaves(p))
      BY <1>1, <1>4, AllFollowAppend
    <2> QED
      BY <1>1, <1>2, <2>1, Zenon DEF AppendFollows
  <1>8. Follows(Append(queue, x), Shares(p), StopsSharing(p), listed, shares1)
    <2>1. AppendFollows(queue, x, Shares(p), StopsSharing(p))
      BY <1>1, <1>4, AllFollowAppend
    <2> QED
      BY <1>1, <1>2, <2>1, Zenon DEF AppendFollows
  <1> QED
    BY <1>3, <1>6, <1>7, <1>8 DEF in1, shares1

\* ... a stream is shared only on an open connection.
LEMMA HappensStreams ==
  ASSUME CallInv, NEW x \in Events, x # Down, queue' = Append(queue, x), conn' = conn,
         streamingPeers' = streamingPeers, socket = "open" => socket' = "open",
         x \in AnyShare => socket = "open"
  PROVE  StreamsOnConnection'
  <1> DEFINE live == socket = "open"
             live1 == socket' = "open"
             was == conn = "connected"
             gone == conn = "disconnected"
             some == streamingPeers # {}
  <1>1. /\ queue \in Seq(Events) /\ OnConnection(queue, live, gone, some)
        /\ Follows(queue, {Up}, {Down}, was, live)
    BY DEF CallInv, CallTypes, StreamsOnConnection, ConnectionFollows
  <1>2. /\ gone => ~was
        /\ live => live1
        /\ x \in AnyShare => live
        /\ live \in BOOLEAN /\ gone \in BOOLEAN /\ some \in BOOLEAN
        /\ live1 \in BOOLEAN /\ was \in BOOLEAN
    OBVIOUS
  <1>3. gone = (conn' = "disconnected") /\ some = (streamingPeers' # {})
    OBVIOUS
  <1>4. OnConnection(Append(queue, x), live1, gone, some)
    <2>1. \A o, o1, c, g, h \in BOOLEAN :
             /\ OnConnection(queue, o, g, h) /\ Follows(queue, {Up}, {Down}, c, o)
             /\ g => ~c
             /\ o => o1
             /\ x \in AnyShare => o
             => OnConnection(Append(queue, x), o1, g, h)
      <3> SUFFICES ASSUME NEW o \in BOOLEAN, NEW o1 \in BOOLEAN, NEW c \in BOOLEAN,
                          NEW g \in BOOLEAN, NEW h \in BOOLEAN,
                          OnConnection(queue, o, g, h), Follows(queue, {Up}, {Down}, c, o),
                          g => ~c, o => o1, x \in AnyShare => o
                   PROVE  OnConnection(Append(queue, x), o1, g, h)
        OBVIOUS
      <3> HIDE DEF live, live1, was, gone, some
      <3> QED
        BY <1>1, OnConnectionAppend, Zenon
    <2> QED
      BY <1>1, <1>2, <2>1, Zenon
  <1> QED
    BY <1>3, <1>4 DEF StreamsOnConnection, live1

\* ... and once the connection has ended, whether the application is told of it.
LEMMA Disconnects ==
  ASSUME CallInv, NEW q, q = EndQueued \/ (q = queue /\ socket # "open")
  PROVE  /\ q \in Seq(Events)
         /\ Follows(q, {Up}, {Down}, conn = "connected", FALSE)
         /\ \A p \in Peers : /\ Follows(q, Joins(p), Leaves(p), shown[p] > 0, FALSE)
                             /\ BegunOnce(q, Joins(p), Leaves(p), shown[p])
                             /\ Follows(q, Shares(p), StopsSharing(p), p \in streamingPeers, FALSE)
         /\ OnConnection(q, FALSE, conn = "disconnected", streamingPeers # {})
         /\ \A es : Waits(queue, 1, Len(queue), es) => Waits(q, 1, Len(q), es)
         /\ \A es : Waits(q, 1, Len(q), es) => Waits(queue, 1, Len(queue), es) \/ Down \in es
  <1> DEFINE live == socket = "open"
             gone == conn = "disconnected"
             some == streamingPeers # {}
             was == conn = "connected"
  <1>1. /\ queue \in Seq(Events) /\ OnConnection(queue, live, gone, some)
        /\ Follows(queue, {Up}, {Down}, was, live)
        /\ live \in BOOLEAN /\ gone \in BOOLEAN /\ some \in BOOLEAN /\ was \in BOOLEAN
    BY DEF CallInv, CallTypes, StreamsOnConnection, ConnectionFollows
  <1>2. \A p \in Peers :
           /\ Follows(queue, Joins(p), Leaves(p), shown[p] > 0, p \in room)
           /\ BegunOnce(queue, Joins(p), Leaves(p), shown[p])
           /\ Follows(queue, Shares(p), StopsSharing(p), p \in streamingPeers, p \in streams)
           /\ shown[p] \in Nat
    BY DEF CallInv, CallTypes, PeopleFollow
  <1>3. Down \in Events /\ FALSE \in BOOLEAN /\ TRUE \in BOOLEAN
    BY EventFacts
  <1>4. CASE q = EndQueued
    <2>1. q = Append(queue, Down)
      BY <1>4 DEF EndQueued, Down
    <2>2. q \in Seq(Events)
      BY <1>1, <1>3, <2>1, QueueAppend
    <2>3. Follows(q, {Up}, {Down}, was, FALSE)
      <3>1. AppendFollows(queue, Down, {Up}, {Down}) /\ Down # Up
        BY <1>1, <1>3, AllFollowAppend, EventFacts
      <3>2. Follows(Append(queue, Down), {Up}, {Down}, was, FALSE)
        BY <1>1, <1>3, <3>1, Zenon DEF AppendFollows
      <3> QED
        BY <2>1, <3>2
    <2>4. OnConnection(q, FALSE, gone, some)
      <3> HIDE DEF live, gone, some
      <3> QED
        BY <1>1, <1>3, <2>1, OnConnectionEnds
    <2>5. ASSUME NEW p \in Peers
          PROVE  /\ Follows(q, Joins(p), Leaves(p), shown[p] > 0, FALSE)
                 /\ BegunOnce(q, Joins(p), Leaves(p), shown[p])
                 /\ Follows(q, Shares(p), StopsSharing(p), p \in streamingPeers, FALSE)
      <3> DEFINE shows == shown[p] > 0
                 in == p \in room
                 lists == p \in streamingPeers
                 shares == p \in streams
      <3>1. /\ Down \in Leaves(p) /\ Down \in StopsSharing(p) /\ Down \notin Joins(p)
            /\ Joins(p) \cap Leaves(p) = {} /\ Shares(p) \cap StopsSharing(p) = {}
            /\ Down \notin Shares(p)
        BY EventFacts
      <3>2. /\ Follows(queue, Joins(p), Leaves(p), shows, in)
            /\ BegunOnce(queue, Joins(p), Leaves(p), shown[p]) /\ shown[p] \in Nat
            /\ Follows(queue, Shares(p), StopsSharing(p), lists, shares)
            /\ shows \in BOOLEAN /\ in \in BOOLEAN /\ lists \in BOOLEAN /\ shares \in BOOLEAN
        BY <1>2
      <3>3. BegunOnce(q, Joins(p), Leaves(p), shown[p])
        <4> HIDE DEF in
        <4> QED
          BY <1>1, <1>3, <2>1, <3>1, <3>2, OnceAppend
      <3>4. Follows(Append(queue, Down), Joins(p), Leaves(p), shows, FALSE)
        <4>1. AppendFollows(queue, Down, Joins(p), Leaves(p))
          BY <1>1, <1>3, <3>1, AllFollowAppend
        <4> QED
          BY <1>3, <3>1, <3>2, <4>1, Zenon DEF AppendFollows
      <3>5. Follows(Append(queue, Down), Shares(p), StopsSharing(p), lists, FALSE)
        <4>1. AppendFollows(queue, Down, Shares(p), StopsSharing(p))
          BY <1>1, <1>3, <3>1, AllFollowAppend
        <4> QED
          BY <1>3, <3>1, <3>2, <4>1, Zenon DEF AppendFollows
      <3> QED
        BY <2>1, <3>3, <3>4, <3>5
    <2>6. \A es : Waits(q, 1, Len(q), es) <=> Waits(queue, 1, Len(queue), es) \/ Down \in es
      BY <1>1, <1>3, <2>1, AnyAppend
    <2> QED
      BY <2>2, <2>3, <2>4, <2>5, <2>6
  <1>5. CASE q = queue /\ socket # "open"
    <2>1. live = FALSE /\ room = {} /\ streams = {}
      BY <1>5 DEF CallInv, CallTypes
    <2>2. \A p \in Peers : (p \in room) = FALSE /\ (p \in streams) = FALSE
      BY <2>1
    <2>3. \A p \in Peers : /\ Follows(q, Joins(p), Leaves(p), shown[p] > 0, FALSE)
                           /\ BegunOnce(q, Joins(p), Leaves(p), shown[p])
                           /\ Follows(q, Shares(p), StopsSharing(p), p \in streamingPeers, FALSE)
      BY <1>2, <1>5, <2>2
    <2> QED
      BY <1>1, <1>5, <2>1, <2>3
  <1> QED
    BY <1>4, <1>5

-----------------------------------------------------------------------------
\* The audio is left alone, and no call is shown as over that was not.
LEMMA AudioAlone ==
  ASSUME CallInv, UNCHANGED <<pool, wantsAudio, voiceRequested, screenRequested, cutOff>>,
         conn' = "disconnected" => conn = "disconnected", socket' # "none" => socket # "none"
  PROVE  AudioFollows'
  BY DEF CallInv, AudioFollows

\* What ends a watch waits before an event about something else is taken, and after.
LEMMA WatchesTail ==
  ASSUME CallInv, queue # <<>>, queue' = Tail(queue),
         UNCHANGED <<watched, coreWatched, hasty>>, watched \subseteq streamingPeers',
         Head(queue) # Down, \A p \in watched : Head(queue) \notin OfPeer(p),
         conn' = "disconnected" => conn = "disconnected"
  PROVE  WatchesFollow'
  <1>1. queue \in Seq(Events)
    BY DEF CallInv, CallTypes
  <1>2. \A es : Waits(queue, 1, Len(queue), es) <=>
                  Head(queue) \in es \/ Waits(queue', 1, Len(queue'), es)
    BY <1>1, AnyTail
  <1> QED
    BY <1>2 DEF CallInv, CallTypes, WatchesFollow

\* ... and whatever comes after it.
LEMMA WatchesAppend ==
  ASSUME CallInv, NEW x \in Events, queue' = Append(queue, x),
         UNCHANGED <<watched, streamingPeers, hasty, conn>>, coreWatched' \subseteq coreWatched,
         \A p \in watched : p \in coreWatched \ coreWatched' => x \in OfPeer(p),
         \A p \in coreWatched' : x \notin OfPeer(p)
  PROVE  WatchesFollow'
  <1>1. queue \in Seq(Events) /\ coreWatched \subseteq Peers
    BY DEF CallInv, CallTypes
  <1>2. \A es : Waits(queue', 1, Len(queue'), es) <=> Waits(queue, 1, Len(queue), es) \/ x \in es
    BY <1>1, AnyAppend
  <1>3. WatchesFollow
    BY DEF CallInv
  <1> QED
    BY <1>1, <1>2, <1>3 DEF WatchesFollow

\* An event that ends a watch is taken: the peer is not watched in the core, unless
\* its stream was joined in haste.
LEMMA WatchEnds ==
  ASSUME CallInv, queue # <<>>, queue' = Tail(queue), NEW p \in Peers,
         UNCHANGED <<coreWatched, hasty, conn>>, Head(queue) # Down,
         \A o \in Peers : Head(queue) \in OfPeer(o) <=> o = p,
         watched' = watched \ {p}, watched' \subseteq streamingPeers'
  PROVE  WatchesFollow'
  <1>1. /\ queue \in Seq(Events) /\ watched \subseteq Peers /\ coreWatched \subseteq Peers
        /\ WatchesFollow
    BY DEF CallInv, CallTypes
  <1>2. \A es : Waits(queue, 1, Len(queue), es) <=>
                  Head(queue) \in es \/ Waits(queue', 1, Len(queue'), es)
    BY <1>1, AnyTail
  <1>3. p \notin coreWatched \ hasty
    BY <1>1, <1>2 DEF WatchesFollow
  <1>4. \A o \in watched' \ (coreWatched \cup hasty) :
           Waits(queue', 1, Len(queue'), {Down} \cup OfPeer(o))
    <2> SUFFICES ASSUME NEW o \in watched' \ (coreWatched \cup hasty)
                 PROVE  Waits(queue', 1, Len(queue'), {Down} \cup OfPeer(o))
      OBVIOUS
    <2>1. o \in Peers /\ o # p /\ Waits(queue, 1, Len(queue), {Down} \cup OfPeer(o))
      BY <1>1 DEF WatchesFollow
    <2>2. Head(queue) \notin {Down} \cup OfPeer(o)
      BY <2>1
    <2> QED
      BY <1>2, <2>1, <2>2
  <1>5. \A o \in coreWatched \ hasty : ~Waits(queue', 1, Len(queue'), OfPeer(o))
    BY <1>1, <1>2 DEF WatchesFollow
  <1>6. coreWatched \ watched' \subseteq hasty
    BY <1>1, <1>3 DEF WatchesFollow
  <1> QED
    BY <1>1, <1>4, <1>5, <1>6 DEF WatchesFollow

-----------------------------------------------------------------------------
\* The handlers of the events.
LEMMA WsConnectedKeeps ==
  ASSUME CallInv, WsConnected
  PROVE  CallInv'
  <1>1. /\ queue # <<>> /\ queue \in Seq(Events) /\ Head(queue) = Up
        /\ UNCHANGED <<loggedIn, selected, shown, streamingPeers, watched, pool, wantsAudio,
                       voiceRequested, screenRequested, coreWatched, cutOff, hasty>>
    BY TakenIs DEF WsConnected, audio
  <1>2. /\ queue' = Tail(queue) /\ UNCHANGED <<socket, room, streams>>
        /\ \/ conn' = "connected" /\ statsOn' = TRUE
           \/ UNCHANGED <<conn, statsOn>> /\ socket = "none"
    <2>1. CASE loggedIn /\ selected
      BY <2>1 DEF WsConnected
    <2>2. CASE ~(loggedIn /\ selected)
      <3>1. socket = "none" /\ room = {} /\ streams = {}
        BY <2>2 DEF CallInv, CallTypes
      <3> QED
        BY <2>2, <3>1 DEF WsConnected, DisconnectQueued
    <2> QED
      BY <2>1, <2>2
  <1>3. Tail(queue) \in Seq(Events)
    BY <1>1, QueueTail
  <1>4. CallTypes'
    BY <1>1, <1>2, <1>3 DEF CallInv, CallTypes
  <1>5. ConnectionFollows'
    <2>1. statsOn <=> conn = "connected"
      BY DEF CallInv, ConnectionFollows
    <2> QED
      BY <1>1, <1>2, <2>1, TakenConnection, EventFacts
  <1>6. PeopleFollow'
    <2>1. \A p \in Peers : Head(queue) \notin Joins(p) \cup Leaves(p) \cup Shares(p)
                                                 \cup StopsSharing(p)
      BY <1>1, EventFacts
    <2>2. shown' \in [Peers -> Nat]
      BY <1>4 DEF CallTypes
    <2> QED
      BY <1>1, <1>2, <2>1, <2>2, TakenPeople
  <1>7. StreamsOnConnection'
    BY <1>1, <1>2, TakenStreams, EventFacts
  <1>8. WatchesFollow'
    <2>1. \A p \in watched : Head(queue) \notin OfPeer(p)
      BY <1>1, EventFacts DEF CallInv, CallTypes
    <2>2. watched \subseteq streamingPeers'
      BY <1>1 DEF CallInv, WatchesFollow
    <2> QED
      BY <1>1, <1>2, <2>1, <2>2, WatchesTail, EventFacts
  <1>9. AudioFollows'
    BY <1>1, <1>2, AudioAlone
  <1> QED
    BY <1>1, <1>2, <1>4, <1>5, <1>6, <1>7, <1>8, <1>9 DEF CallInv

\* A peer is listed, which it was not.
LEMMA PeerJoinedKeeps ==
  ASSUME CallInv, PeerJoined
  PROVE  CallInv'
  <1> DEFINE p == Head(queue).peer
  <1>1. /\ queue # <<>> /\ queue \in Seq(Events) /\ p \in Peers
        /\ Head(queue) = Event("joined", p)
        /\ queue' = Tail(queue) /\ shown' = [shown EXCEPT ![p] = @ + 1]
        /\ UNCHANGED <<loggedIn, selected, conn, statsOn, streamingPeers, watched, pool, wantsAudio,
                       voiceRequested, screenRequested, coreWatched, socket, room, streams,
                       cutOff, hasty>>
    BY TakenIs DEF PeerJoined, audio, core
  <1> HIDE DEF p
  <1>2. Tail(queue) \in Seq(Events)
    BY <1>1, QueueTail
  <1>3. shown \in [Peers -> Nat] /\ shown' \in [Peers -> Nat]
    BY <1>1 DEF CallInv, CallTypes
  <1>4. CallTypes'
    BY <1>1, <1>2, <1>3 DEF CallInv, CallTypes
  <1>5. /\ Head(queue) \notin {Up, Down} \cup AnyShare
        /\ \A o \in Peers :
              /\ Head(queue) \in Joins(o) <=> o = p
              /\ Head(queue) \notin Leaves(o) \cup StopsSharing(o) \cup Shares(o) \cup OfPeer(o)
    BY <1>1, PeerFacts
  <1>6. ConnectionFollows'
    <2>1. statsOn <=> conn = "connected"
      BY DEF CallInv, ConnectionFollows
    <2> QED
      BY <1>1, <1>5, <2>1, TakenConnection
  <1>7. PeopleFollow'
    <2>1. \A o \in Peers : shown'[o] = IF o = p THEN shown[o] + 1 ELSE shown[o]
      BY <1>1, <1>3
    <2> QED
      BY <1>1, <1>3, <1>5, <2>1, TakenPeople
  <1>8. StreamsOnConnection'
    BY <1>1, <1>5, TakenStreams
  <1>9. WatchesFollow'
    <2>1. watched \subseteq Peers /\ watched \subseteq streamingPeers'
      BY <1>1 DEF CallInv, CallTypes, WatchesFollow
    <2> QED
      BY <1>1, <1>5, <2>1, WatchesTail
  <1>10. AudioFollows'
    BY <1>1, AudioAlone
  <1> QED
    BY <1>1, <1>4, <1>6, <1>7, <1>8, <1>9, <1>10 DEF CallInv

\* A peer is listed no more, nor its stream.
LEMMA PeerLeftKeeps ==
  ASSUME CallInv, PeerLeft
  PROVE  CallInv'
  <1> DEFINE p == Head(queue).peer
  <1>1. /\ queue # <<>> /\ queue \in Seq(Events) /\ p \in Peers
        /\ Head(queue) = Event("left", p)
        /\ queue' = Tail(queue) /\ shown' = [shown EXCEPT ![p] = 0]
        /\ streamingPeers' = streamingPeers \ {p} /\ watched' = watched \ {p}
        /\ UNCHANGED <<loggedIn, selected, conn, statsOn, pool, wantsAudio,
                       voiceRequested, screenRequested, coreWatched, socket, room, streams,
                       cutOff, hasty>>
    BY TakenIs DEF PeerLeft, audio, core
  <1> HIDE DEF p
  <1>2. Tail(queue) \in Seq(Events)
    BY <1>1, QueueTail
  <1>3. shown \in [Peers -> Nat] /\ shown' \in [Peers -> Nat]
    BY <1>1 DEF CallInv, CallTypes
  <1>4. CallTypes'
    BY <1>1, <1>2, <1>3 DEF CallInv, CallTypes
  <1>5. /\ Head(queue) \notin {Up, Down} \cup AnyShare
        /\ \A o \in Peers :
              /\ Head(queue) \in Leaves(o) <=> o = p
              /\ Head(queue) \in StopsSharing(o) <=> o = p
              /\ Head(queue) \in OfPeer(o) <=> o = p
              /\ Head(queue) \notin Joins(o) \cup Shares(o)
    BY <1>1, PeerFacts
  <1>6. ConnectionFollows'
    <2>1. statsOn <=> conn = "connected"
      BY DEF CallInv, ConnectionFollows
    <2> QED
      BY <1>1, <1>5, <2>1, TakenConnection
  <1>7. PeopleFollow'
    <2>1. \A o \in Peers : shown'[o] = IF o = p THEN 0 ELSE shown[o]
      BY <1>1, <1>3
    <2> QED
      BY <1>1, <1>3, <1>5, <2>1, TakenPeople
  <1>8. StreamsOnConnection'
    BY <1>1, <1>5, TakenStreams
  <1>9. WatchesFollow'
    <2>1. watched' \subseteq streamingPeers'
      BY <1>1 DEF CallInv, WatchesFollow
    <2> QED
      BY <1>1, <1>5, <2>1, WatchEnds
  <1>10. AudioFollows'
    BY <1>1, AudioAlone
  <1> QED
    BY <1>1, <1>4, <1>6, <1>7, <1>8, <1>9, <1>10 DEF CallInv

-----------------------------------------------------------------------------
\* The tasks once none of them is the latest.
LEMMA OutdatedTasks ==
  ASSUME NEW tasks \in Seq(Tasks)
  PROVE  /\ Outdated(tasks) \in Seq(Tasks) /\ Len(Outdated(tasks)) = Len(tasks)
         /\ \A i \in 1..Len(tasks) : Outdated(tasks)[i].latest = FALSE
  <1>1. DOMAIN tasks = 1..Len(tasks) /\ Len(tasks) \in Nat
    OBVIOUS
  <1>2. \A i \in 1..Len(tasks) : tasks[i] \in Tasks
    OBVIOUS
  <1>3. \A i \in 1..Len(tasks) : [tasks[i] EXCEPT !.latest = FALSE] \in Tasks
    BY <1>2 DEF Tasks
  <1>4. \A i \in 1..Len(tasks) : [tasks[i] EXCEPT !.latest = FALSE].latest = FALSE
    BY <1>2 DEF Tasks
  <1>5. Outdated(tasks) = [i \in 1..Len(tasks) |-> [tasks[i] EXCEPT !.latest = FALSE]]
    BY <1>1 DEF Outdated
  <1> DEFINE f == [i \in 1..Len(tasks) |-> [tasks[i] EXCEPT !.latest = FALSE]]
             n == Len(tasks)
  <1>6. f \in [1..n -> Tasks]
    BY <1>3
  <1>7. \A i \in 1..n : f[i].latest = FALSE
    BY <1>4
  <1>8. Outdated(tasks) = f
    BY <1>5
  <1> HIDE DEF f, n
  <1>9. f \in Seq(Tasks) /\ Len(f) = n
    BY <1>1, <1>6 DEF n
  <1> QED
    BY <1>7, <1>8, <1>9 DEF n

\* Another task comes last.
LEMMA TasksAppend ==
  ASSUME NEW q \in Seq(Tasks), NEW x \in Tasks
  PROVE  /\ Append(q, x) \in Seq(Tasks) /\ Len(Append(q, x)) = Len(q) + 1
         /\ Append(q, x)[Len(q) + 1] = x
         /\ \A i \in 1..Len(q) : Append(q, x)[i] = q[i]
  OBVIOUS

\* What a task added to them, the latest one, makes of the pool.
LEMMA PoolGrows ==
  ASSUME NEW tasks \in Seq(Tasks), NEW do \in {"start", "stop"}, NEW grown,
         grown = Append(Outdated(tasks), [do |-> do, latest |-> TRUE, checked |-> FALSE])
  PROVE  /\ grown \in Seq(Tasks) /\ grown # <<>> /\ grown[Len(grown)].do = do
         /\ \A i \in 1..Len(grown) : grown[i].latest <=> i = Len(grown)
  <1> DEFINE task == [do |-> do, latest |-> TRUE, checked |-> FALSE]
             old == Outdated(tasks)
  <1>0. old \in Seq(Tasks) /\ Len(old) = Len(tasks)
    BY OutdatedTasks
  <1>1. /\ old \in Seq(Tasks) /\ Len(old) \in Nat
        /\ \A i \in 1..Len(old) : old[i].latest = FALSE
    <2>1. Len(tasks) \in Nat /\ Len(old) = Len(tasks)
      BY <1>0
    <2>2. \A i \in 1..Len(tasks) : old[i].latest = FALSE
      BY OutdatedTasks
    <2> HIDE DEF old
    <2> QED
      BY <1>0, <2>1, <2>2
  <1>2. task \in Tasks /\ task.do = do /\ task.latest = TRUE
    BY DEF Tasks
  <1> HIDE DEF task, old
  <1>3. grown = Append(old, task)
    BY DEF task, old
  <1>4. /\ grown \in Seq(Tasks) /\ Len(grown) = Len(old) + 1 /\ grown[Len(old) + 1] = task
        /\ \A i \in 1..Len(old) : grown[i] = old[i]
    <2>1. /\ Append(old, task) \in Seq(Tasks) /\ Len(Append(old, task)) = Len(old) + 1
          /\ Append(old, task)[Len(old) + 1] = task
          /\ \A i \in 1..Len(old) : Append(old, task)[i] = old[i]
      BY <1>1, <1>2, TasksAppend, Zenon
    <2> QED
      BY <1>3, <2>1, Zenon
  <1>5. \A i \in 1..Len(grown) : i \in 1..Len(old) \/ i = Len(old) + 1
    BY <1>1, <1>4
  <1>6. \A i \in 1..Len(grown) : grown[i].latest <=> i = Len(grown)
    BY <1>1, <1>2, <1>4, <1>5
  <1> QED
    BY <1>1, <1>2, <1>4, <1>6

\* The GUI thread asks for the audio to end, and for the screen.
LEMMA AudioStops ==
  ASSUME CallInv, AudioStop, screenRequested' = FALSE, socket' # "none" => cutOff'
  PROVE  pool' \in Seq(Tasks) /\ wantsAudio' \in BOOLEAN /\ AudioFollows'
  <1>1. pool \in Seq(Tasks)
    BY DEF CallInv, CallTypes
  <1>2. /\ pool' \in Seq(Tasks) /\ pool' # <<>> /\ pool'[Len(pool')].do = "stop"
        /\ \A i \in 1..Len(pool') : pool'[i].latest <=> i = Len(pool')
    BY <1>1, PoolGrows DEF AudioStop, Stopped
  <1>3. wantsAudio' = FALSE
    BY DEF AudioStop
  <1>4. (pool'[Len(pool')].do = "start") = wantsAudio'
    BY <1>2, <1>3
  <1> QED
    BY <1>2, <1>3, <1>4 DEF AudioFollows

\* A stream is listed.
LEMMA StreamingStartedKeeps ==
  ASSUME CallInv, StreamingStarted
  PROVE  CallInv'
  <1> DEFINE p == Head(queue).peer
  <1>1. /\ queue # <<>> /\ queue \in Seq(Events) /\ p \in Peers
        /\ Head(queue) = Event("streaming", p)
        /\ queue' = Tail(queue)
        /\ streamingPeers' = streamingPeers \cup {p} /\ watched' = watched
        /\ UNCHANGED <<loggedIn, selected, conn, statsOn, shown, pool, wantsAudio,
                       voiceRequested, screenRequested, coreWatched, socket, room, streams,
                       cutOff, hasty>>
    BY TakenIs DEF StreamingStarted, audio, core
  <1> HIDE DEF p
  <1>2. Tail(queue) \in Seq(Events)
    BY <1>1, QueueTail
  <1>3. shown \in [Peers -> Nat] /\ shown' \in [Peers -> Nat] /\ WatchesFollow
    BY <1>1 DEF CallInv, CallTypes
  <1>4. CallTypes'
    BY <1>1, <1>2, <1>3 DEF CallInv, CallTypes
  <1>5. /\ Head(queue) \notin {Up, Down}
        /\ Head(queue) \in AnyShare
        /\ \A o \in Peers :
              /\ Head(queue) \in Shares(o) <=> o = p
              /\ Head(queue) \notin Joins(o) \cup Leaves(o) \cup StopsSharing(o) \cup OfPeer(o)
    BY <1>1, PeerFacts
  <1>6. ConnectionFollows'
    <2>1. statsOn <=> conn = "connected"
      BY DEF CallInv, ConnectionFollows
    <2> QED
      BY <1>1, <1>5, <2>1, TakenConnection
  <1>7. PeopleFollow'
    BY <1>1, <1>3, <1>5, TakenPeople
  <1>8. StreamsOnConnection'
    BY <1>1, <1>5, TakenStreams
  <1>9. WatchesFollow'
    <2>1. watched \subseteq Peers /\ watched \subseteq streamingPeers'
      BY <1>1, <1>3 DEF CallInv, CallTypes, WatchesFollow
    <2> QED
      BY <1>1, <1>5, <2>1, WatchesTail
  <1>10. AudioFollows'
    BY <1>1, AudioAlone
  <1> QED
    BY <1>1, <1>4, <1>6, <1>7, <1>8, <1>9, <1>10 DEF CallInv

\* A stream is listed no more, nor marked as watched.
LEMMA StreamingStoppedKeeps ==
  ASSUME CallInv, StreamingStopped
  PROVE  CallInv'
  <1> DEFINE p == Head(queue).peer
  <1>1. /\ queue # <<>> /\ queue \in Seq(Events) /\ p \in Peers
        /\ Head(queue) = Event("stopped", p)
        /\ queue' = Tail(queue)
        /\ streamingPeers' = streamingPeers \ {p} /\ watched' = watched \ {p}
        /\ UNCHANGED <<loggedIn, selected, conn, statsOn, shown, pool, wantsAudio,
                       voiceRequested, screenRequested, coreWatched, socket, room, streams,
                       cutOff, hasty>>
    <2>1. watched \subseteq streamingPeers
      BY DEF CallInv, WatchesFollow
    <2> QED
      BY <2>1, TakenIs DEF StreamingStopped, audio, core
  <1> HIDE DEF p
  <1>2. Tail(queue) \in Seq(Events)
    BY <1>1, QueueTail
  <1>3. shown \in [Peers -> Nat] /\ shown' \in [Peers -> Nat] /\ WatchesFollow
    BY <1>1 DEF CallInv, CallTypes
  <1>4. CallTypes'
    BY <1>1, <1>2, <1>3 DEF CallInv, CallTypes
  <1>5. /\ Head(queue) \notin {Up, Down}
        /\ Head(queue) \notin AnyShare
        /\ \A o \in Peers :
              /\ Head(queue) \in StopsSharing(o) <=> o = p
              /\ Head(queue) \in OfPeer(o) <=> o = p
              /\ Head(queue) \notin Joins(o) \cup Leaves(o) \cup Shares(o)
    BY <1>1, PeerFacts
  <1>6. ConnectionFollows'
    <2>1. statsOn <=> conn = "connected"
      BY DEF CallInv, ConnectionFollows
    <2> QED
      BY <1>1, <1>5, <2>1, TakenConnection
  <1>7. PeopleFollow'
    BY <1>1, <1>3, <1>5, TakenPeople
  <1>8. StreamsOnConnection'
    BY <1>1, <1>5, TakenStreams
  <1>9. WatchesFollow'
    <2>1. watched' \subseteq streamingPeers'
      BY <1>1, <1>3 DEF WatchesFollow
    <2> QED
      BY <1>1, <1>5, <2>1, WatchEnds
  <1>10. AudioFollows'
    BY <1>1, AudioAlone
  <1> QED
    BY <1>1, <1>4, <1>6, <1>7, <1>8, <1>9, <1>10 DEF CallInv

\* A stream is marked as watched no more.
LEMMA StreamWatchRejectedKeeps ==
  ASSUME CallInv, StreamWatchRejected
  PROVE  CallInv'
  <1> DEFINE p == Head(queue).peer
  <1>1. /\ queue # <<>> /\ queue \in Seq(Events) /\ p \in Peers
        /\ Head(queue) = Event("rejected", p)
        /\ queue' = Tail(queue)
        /\ streamingPeers' = streamingPeers /\ watched' = watched \ {p}
        /\ UNCHANGED <<loggedIn, selected, conn, statsOn, shown, pool, wantsAudio,
                       voiceRequested, screenRequested, coreWatched, socket, room, streams,
                       cutOff, hasty>>
    BY TakenIs DEF StreamWatchRejected, audio, core, RejectedLeaves
  <1> HIDE DEF p
  <1>2. Tail(queue) \in Seq(Events)
    BY <1>1, QueueTail
  <1>3. shown \in [Peers -> Nat] /\ shown' \in [Peers -> Nat] /\ WatchesFollow
    BY <1>1 DEF CallInv, CallTypes
  <1>4. CallTypes'
    BY <1>1, <1>2, <1>3 DEF CallInv, CallTypes
  <1>5. /\ Head(queue) \notin {Up, Down}
        /\ Head(queue) \notin AnyShare
        /\ \A o \in Peers :
              /\ Head(queue) \in OfPeer(o) <=> o = p
              /\ Head(queue) \notin Joins(o) \cup Leaves(o) \cup Shares(o) \cup StopsSharing(o)
    BY <1>1, PeerFacts
  <1>6. ConnectionFollows'
    <2>1. statsOn <=> conn = "connected"
      BY DEF CallInv, ConnectionFollows
    <2> QED
      BY <1>1, <1>5, <2>1, TakenConnection
  <1>7. PeopleFollow'
    BY <1>1, <1>3, <1>5, TakenPeople
  <1>8. StreamsOnConnection'
    BY <1>1, <1>5, TakenStreams
  <1>9. WatchesFollow'
    <2>1. watched' \subseteq streamingPeers'
      BY <1>1, <1>3 DEF WatchesFollow
    <2> QED
      BY <1>1, <1>5, <2>1, WatchEnds
  <1>10. AudioFollows'
    BY <1>1, AudioAlone
  <1> QED
    BY <1>1, <1>4, <1>6, <1>7, <1>8, <1>9, <1>10 DEF CallInv

\* The lists are emptied, and whatever call there is ends.
LEMMA WsDisconnectedKeeps ==
  ASSUME CallInv, WsDisconnected
  PROVE  CallInv'
  <1>1. /\ queue # <<>> /\ queue \in Seq(Events) /\ Head(queue) = Down
        /\ queue' = Tail(queue) /\ conn' = "disconnected" /\ statsOn' = FALSE
        /\ shown' = Nobody /\ streamingPeers' = {} /\ watched' = {}
        /\ cutOff' = (cutOff \/ socket # "none")
        /\ UNCHANGED <<loggedIn, selected, voiceRequested, socket, room, streams>>
    BY TakenIs DEF WsDisconnected, ListsEnded, ClearLists
  <1>2. \/ /\ conn # "disconnected" /\ AudioStop /\ screenRequested' = FALSE
           /\ coreWatched' = {}
        \/ /\ conn = "disconnected"
           /\ UNCHANGED <<pool, wantsAudio, screenRequested, coreWatched, hasty>>
    BY DEF WsDisconnected, audio
  <1>3. Tail(queue) \in Seq(Events)
    BY <1>1, QueueTail
  <1>4. shown' \in [Peers -> Nat] /\ \A p \in Peers : shown'[p] = 0
    BY <1>1 DEF Nobody
  <1>5. /\ pool' \in Seq(Tasks) /\ wantsAudio' \in BOOLEAN
        /\ AudioFollows'
    <2>1. CASE conn = "disconnected"
      BY <1>1, <1>2, <2>1 DEF CallInv, CallTypes, AudioFollows
    <2>2. CASE conn # "disconnected"
      <3>1. AudioStop /\ screenRequested' = FALSE /\ (socket' # "none" => cutOff')
        BY <1>1, <1>2, <2>2
      <3> QED
        BY <3>1, AudioStops
    <2> QED
      BY <2>1, <2>2
  <1>6. CallTypes'
    BY <1>1, <1>2, <1>3, <1>4, <1>5 DEF CallInv, CallTypes
  <1>7. ConnectionFollows'
    BY <1>1, TakenConnection, EventFacts
  <1>8. PeopleFollow'
    <2>1. \A p \in Peers : /\ Head(queue) \in Leaves(p) /\ Head(queue) \in StopsSharing(p)
                           /\ Head(queue) \notin Joins(p) /\ Head(queue) \notin Shares(p)
      BY <1>1, EventFacts
    <2> QED
      BY <1>1, <1>4, <2>1, TakenPeople
  <1>9. StreamsOnConnection'
    BY <1>1, TakenStreams, EventFacts
  <1>10. WatchesFollow'
    BY <1>1, <1>2 DEF CallInv, WatchesFollow
  <1> QED
    BY <1>1, <1>5, <1>6, <1>7, <1>8, <1>9, <1>10 DEF CallInv

-----------------------------------------------------------------------------
\* The transport and the core on their own threads.
LEMMA SocketOpensKeeps ==
  ASSUME CallInv, SocketOpens
  PROVE  CallInv'
  <1> DEFINE x == Up
  <1>1. /\ queue \in Seq(Events) /\ queue' = Append(queue, x) /\ x \in Events /\ x # Down
        /\ UNCHANGED <<loggedIn, selected, conn, statsOn, shown, streamingPeers, watched, pool,
                       wantsAudio, voiceRequested, screenRequested, cutOff, hasty>>
    BY EventFacts DEF CallInv, CallTypes, SocketOpens, Happens, gui, audio, coreButRoom, Up
  <1>2. /\ streams \subseteq room /\ room \subseteq Peers /\ coreWatched \subseteq Peers
        /\ watched \subseteq streamingPeers /\ watched \subseteq Peers
    BY DEF CallInv, CallTypes, WatchesFollow
  <1>3. /\ socket = "opening" /\ socket' = "open"
        /\ room' = room /\ streams' = streams
        /\ coreWatched' = coreWatched
    BY DEF CallInv, SocketOpens, coreButRoom
  <1>4. /\ x = Up /\ x \notin AnyShare
        /\ \A o \in Peers : x \notin Joins(o) \cup Leaves(o) \cup Shares(o)
                                   \cup StopsSharing(o) \cup OfPeer(o)
    BY EventFacts
  <1> HIDE DEF x
  <1>5. Append(queue, x) \in Seq(Events)
    BY <1>1, QueueAppend
  <1>6. CallTypes'
    BY <1>1, <1>2, <1>3, <1>5 DEF CallInv, CallTypes
  <1>7. ConnectionFollows'
    BY <1>1, <1>3, <1>4, HappensConnection
  <1>8. PeopleFollow'
    BY <1>1, <1>2, <1>3, <1>4, HappensPeople
  <1>9. StreamsOnConnection'
    BY <1>1, <1>3, <1>4, HappensStreams
  <1>10. WatchesFollow'
    BY <1>1, <1>2, <1>3, <1>4, WatchesAppend
  <1>11. AudioFollows'
    BY <1>1, <1>3, AudioAlone
  <1>12. /\ socket # "none" => loggedIn /\ selected
         /\ socket # "open" => room = {}
    BY DEF CallInv
  <1> QED
    BY <1>1, <1>3, <1>6, <1>7, <1>8, <1>9, <1>10, <1>11, <1>12 DEF CallInv

\* A peer enters, which was not in the channel.
LEMMA PeerEntersKeeps ==
  ASSUME CallInv, NEW p \in Peers, PeerEnters(p)
  PROVE  CallInv'
  <1> DEFINE x == Event("joined", p)
  <1>1. /\ queue \in Seq(Events) /\ queue' = Append(queue, x) /\ x \in Events /\ x # Down
        /\ UNCHANGED <<loggedIn, selected, conn, statsOn, shown, streamingPeers, watched, pool,
                       wantsAudio, voiceRequested, screenRequested, cutOff, hasty>>
    BY PeerFacts DEF CallInv, CallTypes, PeerEnters, Happens, gui, audio, coreButRoom
  <1>2. /\ streams \subseteq room /\ room \subseteq Peers /\ coreWatched \subseteq Peers
        /\ watched \subseteq streamingPeers /\ watched \subseteq Peers
    BY DEF CallInv, CallTypes, WatchesFollow
  <1>3. /\ socket' = socket /\ socket = "open"
        /\ p \notin room /\ room' = room \cup {p} /\ streams' = streams
        /\ coreWatched' = coreWatched
    BY DEF CallInv, PeerEnters, coreButRoom
  <1>4. /\ x # Up /\ x \notin AnyShare
        /\ \A o \in Peers :
              /\ x \in Joins(o) <=> o = p
              /\ x \notin Leaves(o) \cup Shares(o) \cup StopsSharing(o) \cup OfPeer(o)
    BY PeerFacts
  <1> HIDE DEF x
  <1>5. Append(queue, x) \in Seq(Events)
    BY <1>1, QueueAppend
  <1>6. CallTypes'
    BY <1>1, <1>2, <1>3, <1>5 DEF CallInv, CallTypes
  <1>7. ConnectionFollows'
    BY <1>1, <1>3, <1>4, HappensConnection
  <1>8. PeopleFollow'
    BY <1>1, <1>2, <1>3, <1>4, HappensPeople
  <1>9. StreamsOnConnection'
    BY <1>1, <1>3, <1>4, HappensStreams
  <1>10. WatchesFollow'
    BY <1>1, <1>2, <1>3, <1>4, WatchesAppend
  <1>11. AudioFollows'
    BY <1>1, <1>3, AudioAlone
  <1>12. /\ socket # "none" => loggedIn /\ selected
         /\ socket # "open" => room = {}
    BY DEF CallInv
  <1> QED
    BY <1>1, <1>3, <1>6, <1>7, <1>8, <1>9, <1>10, <1>11, <1>12 DEF CallInv

\* A peer leaves; the core stops watching it first.
LEMMA PeerLeavesKeeps ==
  ASSUME CallInv, NEW p \in Peers, PeerLeaves(p)
  PROVE  CallInv'
  <1> DEFINE x == Event("left", p)
  <1>1. /\ queue \in Seq(Events) /\ queue' = Append(queue, x) /\ x \in Events /\ x # Down
        /\ UNCHANGED <<loggedIn, selected, conn, statsOn, shown, streamingPeers, watched, pool,
                       wantsAudio, voiceRequested, screenRequested, cutOff, hasty>>
    BY PeerFacts DEF CallInv, CallTypes, PeerLeaves, Happens, gui, audio, coreButRoom
  <1>2. /\ streams \subseteq room /\ room \subseteq Peers /\ coreWatched \subseteq Peers
        /\ watched \subseteq streamingPeers /\ watched \subseteq Peers
    BY DEF CallInv, CallTypes, WatchesFollow
  <1>3. /\ socket' = socket
        /\ room' = room \ {p} /\ streams' = streams \ {p}
        /\ coreWatched' = coreWatched \ {p}
    BY DEF CallInv, PeerLeaves, coreButRoom
  <1>4. /\ x # Up /\ x \notin AnyShare
        /\ \A o \in Peers :
              /\ x \in Leaves(o) <=> o = p
              /\ x \in StopsSharing(o) <=> o = p
              /\ x \in OfPeer(o) <=> o = p
              /\ x \notin Joins(o) \cup Shares(o)
    BY PeerFacts
  <1> HIDE DEF x
  <1>5. Append(queue, x) \in Seq(Events)
    BY <1>1, QueueAppend
  <1>6. CallTypes'
    BY <1>1, <1>2, <1>3, <1>5 DEF CallInv, CallTypes
  <1>7. ConnectionFollows'
    BY <1>1, <1>3, <1>4, HappensConnection
  <1>8. PeopleFollow'
    BY <1>1, <1>2, <1>3, <1>4, HappensPeople
  <1>9. StreamsOnConnection'
    BY <1>1, <1>3, <1>4, HappensStreams
  <1>10. WatchesFollow'
    BY <1>1, <1>2, <1>3, <1>4, WatchesAppend
  <1>11. AudioFollows'
    BY <1>1, <1>3, AudioAlone
  <1>12. /\ socket # "none" => loggedIn /\ selected
         /\ socket # "open" => room = {}
    BY DEF CallInv
  <1> QED
    BY <1>1, <1>3, <1>6, <1>7, <1>8, <1>9, <1>10, <1>11, <1>12 DEF CallInv

\* A peer in the channel shares a screen.
LEMMA PeerSharesKeeps ==
  ASSUME CallInv, NEW p \in Peers, PeerShares(p)
  PROVE  CallInv'
  <1> DEFINE x == Event("streaming", p)
  <1>1. /\ queue \in Seq(Events) /\ queue' = Append(queue, x) /\ x \in Events /\ x # Down
        /\ UNCHANGED <<loggedIn, selected, conn, statsOn, shown, streamingPeers, watched, pool,
                       wantsAudio, voiceRequested, screenRequested, cutOff, hasty>>
    BY PeerFacts DEF CallInv, CallTypes, PeerShares, Happens, gui, audio, coreButRoom
  <1>2. /\ streams \subseteq room /\ room \subseteq Peers /\ coreWatched \subseteq Peers
        /\ watched \subseteq streamingPeers /\ watched \subseteq Peers
    BY DEF CallInv, CallTypes, WatchesFollow
  <1>3. /\ socket' = socket /\ socket = "open"
        /\ p \in room /\ room' = room /\ streams' = streams \cup {p}
        /\ coreWatched' = coreWatched
    BY DEF CallInv, PeerShares, coreButRoom
  <1>4. /\ x # Up /\ x \in AnyShare
        /\ \A o \in Peers :
              /\ x \in Shares(o) <=> o = p
              /\ x \notin Joins(o) \cup Leaves(o) \cup StopsSharing(o) \cup OfPeer(o)
    BY PeerFacts
  <1> HIDE DEF x
  <1>5. Append(queue, x) \in Seq(Events)
    BY <1>1, QueueAppend
  <1>6. CallTypes'
    BY <1>1, <1>2, <1>3, <1>5 DEF CallInv, CallTypes
  <1>7. ConnectionFollows'
    BY <1>1, <1>3, <1>4, HappensConnection
  <1>8. PeopleFollow'
    BY <1>1, <1>2, <1>3, <1>4, HappensPeople
  <1>9. StreamsOnConnection'
    BY <1>1, <1>3, <1>4, HappensStreams
  <1>10. WatchesFollow'
    BY <1>1, <1>2, <1>3, <1>4, WatchesAppend
  <1>11. AudioFollows'
    BY <1>1, <1>3, AudioAlone
  <1>12. /\ socket # "none" => loggedIn /\ selected
         /\ socket # "open" => room = {}
    BY DEF CallInv
  <1> QED
    BY <1>1, <1>3, <1>6, <1>7, <1>8, <1>9, <1>10, <1>11, <1>12 DEF CallInv

\* It stops; the core stops watching it first.
LEMMA PeerStopsKeeps ==
  ASSUME CallInv, NEW p \in Peers, PeerStops(p)
  PROVE  CallInv'
  <1> DEFINE x == Event("stopped", p)
  <1>1. /\ queue \in Seq(Events) /\ queue' = Append(queue, x) /\ x \in Events /\ x # Down
        /\ UNCHANGED <<loggedIn, selected, conn, statsOn, shown, streamingPeers, watched, pool,
                       wantsAudio, voiceRequested, screenRequested, cutOff, hasty>>
    BY PeerFacts DEF CallInv, CallTypes, PeerStops, Happens, gui, audio, coreButRoom
  <1>2. /\ streams \subseteq room /\ room \subseteq Peers /\ coreWatched \subseteq Peers
        /\ watched \subseteq streamingPeers /\ watched \subseteq Peers
    BY DEF CallInv, CallTypes, WatchesFollow
  <1>3. /\ socket' = socket
        /\ room' = room /\ streams' = streams \ {p}
        /\ coreWatched' = coreWatched \ {p}
    BY DEF CallInv, PeerStops, coreButRoom
  <1>4. /\ x # Up /\ x \notin AnyShare
        /\ \A o \in Peers :
              /\ x \in StopsSharing(o) <=> o = p
              /\ x \in OfPeer(o) <=> o = p
              /\ x \notin Joins(o) \cup Leaves(o) \cup Shares(o)
    BY PeerFacts
  <1> HIDE DEF x
  <1>5. Append(queue, x) \in Seq(Events)
    BY <1>1, QueueAppend
  <1>6. CallTypes'
    BY <1>1, <1>2, <1>3, <1>5 DEF CallInv, CallTypes
  <1>7. ConnectionFollows'
    BY <1>1, <1>3, <1>4, HappensConnection
  <1>8. PeopleFollow'
    BY <1>1, <1>2, <1>3, <1>4, HappensPeople
  <1>9. StreamsOnConnection'
    BY <1>1, <1>3, <1>4, HappensStreams
  <1>10. WatchesFollow'
    BY <1>1, <1>2, <1>3, <1>4, WatchesAppend
  <1>11. AudioFollows'
    BY <1>1, <1>3, AudioAlone
  <1>12. /\ socket # "none" => loggedIn /\ selected
         /\ socket # "open" => room = {}
    BY DEF CallInv
  <1> QED
    BY <1>1, <1>3, <1>6, <1>7, <1>8, <1>9, <1>10, <1>11, <1>12 DEF CallInv

\* A watch is refused; the core ends it first.
LEMMA ServerRejectsKeeps ==
  ASSUME CallInv, NEW p \in Peers, ServerRejects(p)
  PROVE  CallInv'
  <1> DEFINE x == Event("rejected", p)
  <1>1. /\ queue \in Seq(Events) /\ queue' = Append(queue, x) /\ x \in Events /\ x # Down
        /\ UNCHANGED <<loggedIn, selected, conn, statsOn, shown, streamingPeers, watched, pool,
                       wantsAudio, voiceRequested, screenRequested, cutOff, hasty>>
    BY PeerFacts DEF CallInv, CallTypes, ServerRejects, Happens, gui, audio, coreButRoom
  <1>2. /\ streams \subseteq room /\ room \subseteq Peers /\ coreWatched \subseteq Peers
        /\ watched \subseteq streamingPeers /\ watched \subseteq Peers
    BY DEF CallInv, CallTypes, WatchesFollow
  <1>3. /\ socket' = socket
        /\ room' = room /\ streams' = streams
        /\ coreWatched' = coreWatched \ {p}
    BY DEF CallInv, ServerRejects, coreButRoom
  <1>4. /\ x # Up /\ x \notin AnyShare
        /\ \A o \in Peers :
              /\ x \in OfPeer(o) <=> o = p
              /\ x \notin Joins(o) \cup Leaves(o) \cup Shares(o) \cup StopsSharing(o)
    BY PeerFacts
  <1> HIDE DEF x
  <1>5. Append(queue, x) \in Seq(Events)
    BY <1>1, QueueAppend
  <1>6. CallTypes'
    BY <1>1, <1>2, <1>3, <1>5 DEF CallInv, CallTypes
  <1>7. ConnectionFollows'
    BY <1>1, <1>3, <1>4, HappensConnection
  <1>8. PeopleFollow'
    BY <1>1, <1>2, <1>3, <1>4, HappensPeople
  <1>9. StreamsOnConnection'
    BY <1>1, <1>3, <1>4, HappensStreams
  <1>10. WatchesFollow'
    BY <1>1, <1>2, <1>3, <1>4, WatchesAppend
  <1>11. AudioFollows'
    BY <1>1, <1>3, AudioAlone
  <1>12. /\ socket # "none" => loggedIn /\ selected
         /\ socket # "open" => room = {}
    BY DEF CallInv
  <1> QED
    BY <1>1, <1>3, <1>6, <1>7, <1>8, <1>9, <1>10, <1>11, <1>12 DEF CallInv

\* The connection is lost, or was never made.
LEMMA SocketLostKeeps ==
  ASSUME CallInv, SocketLost
  PROVE  CallInv'
  <1>1. /\ queue' = EndQueued /\ socket' = "none" /\ room' = {} /\ streams' = {}
        /\ UNCHANGED <<loggedIn, selected, conn, statsOn, shown, streamingPeers, watched, pool,
                       wantsAudio, voiceRequested, screenRequested, coreWatched, cutOff, hasty>>
    BY DEF SocketLost, gui, audio, coreButRoom
  <1>2. CallTypes /\ (statsOn <=> conn = "connected") /\ WatchesFollow
    BY DEF CallInv, ConnectionFollows
  <1>3. /\ EndQueued \in Seq(Events)
        /\ Follows(EndQueued, {Up}, {Down}, conn = "connected", FALSE)
        /\ \A p \in Peers :
              /\ Follows(EndQueued, Joins(p), Leaves(p), shown[p] > 0, FALSE)
              /\ BegunOnce(EndQueued, Joins(p), Leaves(p), shown[p])
              /\ Follows(EndQueued, Shares(p), StopsSharing(p), p \in streamingPeers, FALSE)
        /\ OnConnection(EndQueued, FALSE, conn = "disconnected", streamingPeers # {})
    BY Disconnects
  <1>4. \A es : (Waits(queue', 1, Len(queue'), es) <=> Waits(queue, 1, Len(queue), es))
                   \/ Down \in es
    BY <1>1, Disconnects
  <1>5. \A es : Waits(queue, 1, Len(queue), es) => Waits(queue', 1, Len(queue'), es)
    BY <1>1, Disconnects
  <1>6. CallTypes'
    BY <1>1, <1>2, <1>3 DEF CallTypes
  <1>7. ConnectionFollows'
    <2>1. (socket' = "open") = FALSE
      BY <1>1
    <2> QED
      BY <1>1, <1>2, <1>3, <2>1 DEF ConnectionFollows
  <1>8. PeopleFollow'
    <2>1. \A p \in Peers : (p \in room') = FALSE /\ (p \in streams') = FALSE
      BY <1>1
    <2> QED
      BY <1>1, <1>3, <2>1 DEF PeopleFollow
  <1>9. StreamsOnConnection'
    <2>1. (socket' = "open") = FALSE
      BY <1>1
    <2> QED
      BY <1>1, <1>3, <2>1 DEF StreamsOnConnection
  <1>10. WatchesFollow'
    <2>1. \A p \in Peers : Down \notin OfPeer(p)
      BY EventFacts
    <2>2. coreWatched \subseteq Peers /\ watched \subseteq Peers
      BY <1>2 DEF CallTypes
    <2> QED
      BY <1>1, <1>2, <1>4, <1>5, <2>1, <2>2 DEF WatchesFollow
  <1>11. AudioFollows'
    BY <1>1, AudioAlone
  <1> QED
    BY <1>1, <1>6, <1>7, <1>8, <1>9, <1>10, <1>11 DEF CallInv

-----------------------------------------------------------------------------
\* The GUI thread.  A call that is left, by the user or with the account.
LEMMA CallLeft ==
  ASSUME CallInv, queue' = DisconnectQueued, socket' = "none", room' = {}, streams' = {},
         ClearLists, hasty' = {}, coreWatched' = {}, conn' = "disconnected", statsOn' = FALSE,
         AudioStop, screenRequested' = FALSE, UNCHANGED <<voiceRequested, cutOff>>,
         loggedIn' \in BOOLEAN, selected' \in BOOLEAN
  PROVE  CallInv'
  <1>1. CallTypes /\ shown' = Nobody /\ streamingPeers' = {} /\ watched' = {}
    BY DEF CallInv, ClearLists
  <1>2. queue' = EndQueued \/ (queue' = queue /\ socket # "open")
    BY DEF DisconnectQueued, EndQueued
  <1>3. /\ queue' \in Seq(Events)
        /\ Follows(queue', {Up}, {Down}, conn = "connected", FALSE)
        /\ \A p \in Peers :
              /\ Follows(queue', Joins(p), Leaves(p), shown[p] > 0, FALSE)
              /\ BegunOnce(queue', Joins(p), Leaves(p), shown[p])
              /\ Follows(queue', Shares(p), StopsSharing(p), p \in streamingPeers, FALSE)
        /\ OnConnection(queue', FALSE, conn = "disconnected", streamingPeers # {})
    BY <1>2, Disconnects
  <1>4. shown' \in [Peers -> Nat] /\ \A p \in Peers : shown'[p] = 0
    BY <1>1 DEF Nobody
  <1>5. pool' \in Seq(Tasks) /\ wantsAudio' \in BOOLEAN /\ AudioFollows'
    BY AudioStops
  <1>6. CallTypes'
    BY <1>1, <1>3, <1>4, <1>5 DEF CallTypes
  <1>7. ConnectionFollows'
    <2>1. (socket' = "open") = FALSE /\ (conn' = "connected") = FALSE
      OBVIOUS
    <2>2. Follows(queue', {Up}, {Down}, FALSE, FALSE)
      BY <1>3, FollowsUnlisted
    <2> QED
      BY <2>1, <2>2 DEF ConnectionFollows
  <1>8. PeopleFollow'
    <2> SUFFICES ASSUME NEW p \in Peers
                 PROVE  /\ Follows(queue', Joins(p), Leaves(p), shown'[p] > 0, p \in room')
                        /\ BegunOnce(queue', Joins(p), Leaves(p), shown'[p])
                        /\ Follows(queue', Shares(p), StopsSharing(p), p \in streamingPeers',
                                   p \in streams')
      BY DEF PeopleFollow
    <2>1. /\ (p \in room') = FALSE /\ (p \in streams') = FALSE /\ (p \in streamingPeers') = FALSE
          /\ (shown'[p] > 0) = FALSE /\ shown'[p] = 0
      BY <1>1, <1>4
    <2>2. /\ Follows(queue', Joins(p), Leaves(p), FALSE, FALSE)
          /\ Follows(queue', Shares(p), StopsSharing(p), FALSE, FALSE)
      BY <1>3, FollowsUnlisted
    <2>3. BegunOnce(queue', Joins(p), Leaves(p), 0)
      BY <1>3, BegunUnlisted
    <2> QED
      BY <2>1, <2>2, <2>3
  <1>9. StreamsOnConnection'
    <2>1. (socket' = "open") = FALSE /\ (streamingPeers' # {}) = FALSE
      BY <1>1
    <2>2. \A g, h, g1 \in BOOLEAN :
             OnConnection(queue', FALSE, g, h) => OnConnection(queue', FALSE, g1, FALSE)
      BY <1>3, OnConnectionLeft
    <2>3. OnConnection(queue', FALSE, conn' = "disconnected", FALSE)
      BY <1>3, <2>2, Zenon
    <2> QED
      BY <2>1, <2>3 DEF StreamsOnConnection
  <1>10. WatchesFollow'
    BY <1>1 DEF WatchesFollow
  <1> QED
    BY <1>5, <1>6, <1>7, <1>8, <1>9, <1>10 DEF CallInv

\* The user leaves the channel.
LEMMA LeaveVoiceChannelKeeps ==
  ASSUME CallInv, LeaveVoiceChannel
  PROVE  CallInv'
  <1>1. loggedIn' \in BOOLEAN /\ selected' \in BOOLEAN
    BY DEF CallInv, CallTypes, LeaveVoiceChannel
  <1> QED
    BY <1>1, CallLeft DEF LeaveVoiceChannel

\* ... or logs out.
LEMMA LogoutKeeps ==
  ASSUME CallInv, Logout
  PROVE  CallInv'
  <1>1. loggedIn' \in BOOLEAN /\ selected' \in BOOLEAN
    BY DEF Logout
  <1> QED
    BY <1>1, CallLeft DEF Logout

\* The user joins a channel, which ends the call there was.
LEMMA JoinVoiceChannelKeeps ==
  ASSUME CallInv, JoinVoiceChannel
  PROVE  CallInv'
  <1> DEFINE leaves == conn # "disconnected"
             before == IF leaves THEN Stopped(pool) ELSE pool
  <1>1. /\ loggedIn = TRUE /\ loggedIn' = loggedIn /\ selected' = TRUE /\ conn' = "connecting"
        /\ pool' = Started(before) /\ wantsAudio' = TRUE /\ screenRequested' = TRUE
        /\ queue' = DisconnectQueued /\ socket' \in {"opening", "none"}
        /\ room' = {} /\ streams' = {} /\ cutOff' = FALSE /\ voiceRequested' = voiceRequested
        /\ \/ /\ leaves /\ shown' = Nobody /\ streamingPeers' = {} /\ watched' = {}
              /\ coreWatched' = {} /\ hasty' = {} /\ statsOn' = FALSE
           \/ ~leaves /\ UNCHANGED <<shown, streamingPeers, watched, coreWatched, hasty, statsOn>>
    BY DEF JoinVoiceChannel, ClearLists, ScreenOnJoin, CallInv, CallTypes
  <1>2. /\ CallTypes /\ WatchesFollow /\ (statsOn <=> conn = "connected")
    BY DEF CallInv, ConnectionFollows
  <1>3. queue' = EndQueued \/ (queue' = queue /\ socket # "open")
    BY <1>1 DEF DisconnectQueued, EndQueued
  <1>4. /\ queue' \in Seq(Events)
        /\ Follows(queue', {Up}, {Down}, conn = "connected", FALSE)
        /\ \A p \in Peers :
              /\ Follows(queue', Joins(p), Leaves(p), shown[p] > 0, FALSE)
              /\ BegunOnce(queue', Joins(p), Leaves(p), shown[p])
              /\ Follows(queue', Shares(p), StopsSharing(p), p \in streamingPeers, FALSE)
        /\ OnConnection(queue', FALSE, conn = "disconnected", streamingPeers # {})
    BY <1>3, Disconnects
  <1>5. /\ \A es : (Waits(queue', 1, Len(queue'), es) <=> Waits(queue, 1, Len(queue), es))
                      \/ Down \in es
        /\ \A es : Waits(queue, 1, Len(queue), es) => Waits(queue', 1, Len(queue'), es)
    BY <1>3, Disconnects
  <1>6. /\ pool' \in Seq(Tasks) /\ pool' # <<>> /\ pool'[Len(pool')].do = "start"
        /\ \A i \in 1..Len(pool') : pool'[i].latest <=> i = Len(pool')
    <2>1. Stopped(pool) \in Seq(Tasks)
      BY <1>2, PoolGrows DEF CallTypes, Stopped
    <2>2. before \in Seq(Tasks)
      BY <1>2, <2>1 DEF CallTypes
    <2> HIDE DEF before
    <2>3. pool' = Append(Outdated(before), [do |-> "start", latest |-> TRUE, checked |-> FALSE])
      BY <1>1 DEF Started
    <2>4. "start" \in {"start", "stop"}
      OBVIOUS
    <2> QED
      BY <2>2, <2>3, <2>4, PoolGrows, Zenon
  <1> HIDE DEF leaves, before
  <1>7. CallTypes'
    <2>1. Nobody \in [Peers -> Nat]
      BY DEF Nobody
    <2> QED
      BY <1>1, <1>2, <1>4, <1>6, <2>1 DEF CallTypes
  <1>8. ConnectionFollows'
    <2>1. (socket' = "open") = FALSE /\ (conn' = "connected") = FALSE
      BY <1>1
    <2>2. Follows(queue', {Up}, {Down}, FALSE, FALSE)
      BY <1>4, FollowsUnlisted
    <2>3. ~statsOn'
      BY <1>1, <1>2 DEF leaves
    <2> QED
      BY <2>1, <2>2, <2>3 DEF ConnectionFollows
  <1>9. PeopleFollow'
    <2> SUFFICES ASSUME NEW p \in Peers
                 PROVE  /\ Follows(queue', Joins(p), Leaves(p), shown'[p] > 0, p \in room')
                        /\ BegunOnce(queue', Joins(p), Leaves(p), shown'[p])
                        /\ Follows(queue', Shares(p), StopsSharing(p), p \in streamingPeers',
                                   p \in streams')
      BY DEF PeopleFollow
    <2>1. (p \in room') = FALSE /\ (p \in streams') = FALSE
      BY <1>1
    <2>2. CASE leaves
      <3>1. shown' = Nobody /\ streamingPeers' = {}
        BY <1>1, <2>2
      <3>2. (p \in streamingPeers') = FALSE /\ (shown'[p] > 0) = FALSE /\ shown'[p] = 0
        BY <3>1 DEF Nobody
      <3>3. /\ Follows(queue', Joins(p), Leaves(p), FALSE, FALSE)
            /\ Follows(queue', Shares(p), StopsSharing(p), FALSE, FALSE)
        BY <1>4, FollowsUnlisted
      <3>4. BegunOnce(queue', Joins(p), Leaves(p), 0)
        BY <1>4, BegunUnlisted
      <3> QED
        BY <2>1, <3>2, <3>3, <3>4
    <2>3. CASE ~leaves
      BY <1>1, <1>4, <2>1, <2>3
    <2> QED
      BY <2>2, <2>3
  <1>10. StreamsOnConnection'
    <2>1. (socket' = "open") = FALSE /\ (conn' = "disconnected") = FALSE
      BY <1>1
    <2>2. OnConnection(queue', FALSE, FALSE, streamingPeers' # {})
      <3>1. CASE leaves
        <4>1. (streamingPeers' # {}) = FALSE
          BY <1>1, <3>1
        <4>2. \A g, h, g1 \in BOOLEAN :
                 OnConnection(queue', FALSE, g, h) => OnConnection(queue', FALSE, g1, FALSE)
          BY <1>4, OnConnectionLeft
        <4>3. OnConnection(queue', FALSE, FALSE, FALSE)
          BY <1>4, <4>2, Zenon
        <4> QED
          BY <4>1, <4>3
      <3>2. CASE ~leaves
        <4>1. streamingPeers' = streamingPeers
          BY <1>1, <3>2
        <4>2. \A g, h \in BOOLEAN :
                 OnConnection(queue', FALSE, g, h) => OnConnection(queue', FALSE, FALSE, h)
          BY DEF OnConnection
        <4>3. OnConnection(queue', FALSE, FALSE, streamingPeers # {})
          BY <1>4, <4>2, Zenon
        <4> QED
          BY <4>1, <4>3
      <3> QED
        BY <3>1, <3>2
    <2> QED
      BY <2>1, <2>2 DEF StreamsOnConnection
  <1>11. WatchesFollow'
    <2>1. CASE leaves
      BY <1>1, <2>1 DEF WatchesFollow
    <2>2. CASE ~leaves
      <3>1. \A p \in Peers : Down \notin OfPeer(p)
        BY EventFacts
      <3>2. /\ UNCHANGED <<watched, streamingPeers, coreWatched, hasty>> /\ conn' = "connecting"
            /\ coreWatched \subseteq Peers /\ watched \subseteq Peers
        BY <1>1, <1>2, <2>2 DEF CallTypes
      <3> QED
        BY <1>2, <1>5, <3>1, <3>2 DEF WatchesFollow
    <2> QED
      BY <2>1, <2>2
  <1>12. AudioFollows'
    BY <1>1, <1>6 DEF AudioFollows
  <1> QED
    BY <1>1, <1>7, <1>8, <1>9, <1>10, <1>11, <1>12 DEF CallInv

\* The user watches a stream, perhaps while its end waits.
LEMMA JoinStreamKeeps ==
  ASSUME CallInv, NEW p \in Peers, JoinStream(p)
  PROVE  CallInv'
  <1>1. /\ p \in streamingPeers \ watched /\ watched' = watched \cup {p}
        /\ coreWatched' = coreWatched \cup {p}
        /\ hasty' = IF Waiting(p) THEN hasty \cup {p} ELSE hasty
        /\ UNCHANGED <<loggedIn, selected, conn, statsOn, shown, streamingPeers, queue, pool,
                       wantsAudio, voiceRequested, screenRequested, socket, room, streams,
                       cutOff>>
    BY DEF JoinStream, audio
  <1>2. /\ CallTypes /\ ConnectionFollows /\ PeopleFollow /\ StreamsOnConnection
        /\ WatchesFollow /\ AudioFollows
    BY DEF CallInv
  \* Whatever waits about the peer, or the end of the connection, makes the haste.
  <1>3. Waits(queue, 1, Len(queue), {Down} \cup OfPeer(p)) => Waiting(p)
    <2> SUFFICES ASSUME NEW k \in 1..Len(queue), queue[k] \in {Down} \cup OfPeer(p)
                 PROVE  Waiting(p)
      BY DEF Waits
    <2>1. queue[k] \in Contents(queue)
      BY DEF Contents
    <2>2. \/ queue[k].type = "disconnected"
          \/ queue[k].type \in {"left", "stopped", "rejected"} /\ queue[k].peer = p
      BY DEF Down, OfPeer, Event
    <2> QED
      BY <2>1, <2>2 DEF Waiting
  <1>4. \A es, fs : Waits(queue, 1, Len(queue), es) /\ es \subseteq fs =>
                      Waits(queue, 1, Len(queue), fs)
    BY DEF Waits
  <1>5. conn = "disconnected" => Waits(queue, 1, Len(queue), {Down})
    BY <1>1, <1>2 DEF StreamsOnConnection, OnConnection
  <1>6. ~Waiting(p) => /\ conn # "disconnected"
                       /\ ~Waits(queue, 1, Len(queue), OfPeer(p))
    BY <1>3, <1>4, <1>5
  <1>7. WatchesFollow'
    BY <1>1, <1>2, <1>6 DEF WatchesFollow
  <1>8. CallTypes'
    BY <1>1, <1>2 DEF CallTypes
  <1>9. ConnectionFollows' /\ PeopleFollow' /\ StreamsOnConnection' /\ AudioFollows'
    BY <1>1, <1>2 DEF ConnectionFollows, PeopleFollow, StreamsOnConnection, AudioFollows
  <1> QED
    BY <1>1, <1>7, <1>8, <1>9 DEF CallInv

\* ... and no longer.
LEMMA LeaveStreamKeeps ==
  ASSUME CallInv, NEW p \in Peers, LeaveStream(p)
  PROVE  CallInv'
  <1>1. /\ watched' = watched \ {p} /\ coreWatched' = coreWatched \ {p}
        /\ hasty' = hasty \ {p}
        /\ UNCHANGED <<loggedIn, selected, conn, statsOn, shown, streamingPeers, queue, pool,
                       wantsAudio, voiceRequested, screenRequested, socket, room, streams,
                       cutOff>>
    BY DEF LeaveStream, audio
  <1>2. /\ CallTypes /\ ConnectionFollows /\ PeopleFollow /\ StreamsOnConnection
        /\ WatchesFollow /\ AudioFollows
    BY DEF CallInv
  <1>3. WatchesFollow'
    BY <1>1, <1>2 DEF WatchesFollow
  <1>4. CallTypes'
    BY <1>1, <1>2 DEF CallTypes
  <1>5. ConnectionFollows' /\ PeopleFollow' /\ StreamsOnConnection' /\ AudioFollows'
    BY <1>1, <1>2 DEF ConnectionFollows, PeopleFollow, StreamsOnConnection, AudioFollows
  <1> QED
    BY <1>1, <1>3, <1>4, <1>5 DEF CallInv

\* The user logs in, or nothing happens.
LEMMA LoginKeeps ==
  ASSUME CallInv, Login \/ UNCHANGED callVars
  PROVE  CallInv'
  <1>1. /\ loggedIn' \in BOOLEAN
        /\ loggedIn => loggedIn'
        /\ UNCHANGED <<selected, conn, statsOn, shown, streamingPeers, watched, queue, pool,
                       wantsAudio, voiceRequested, screenRequested, coreWatched, socket, room,
                       streams, cutOff, hasty>>
    BY DEF Login, callVars, gui, audio, core, CallInv, CallTypes
  <1>2. /\ CallTypes /\ ConnectionFollows /\ PeopleFollow /\ StreamsOnConnection
        /\ WatchesFollow /\ AudioFollows
    BY DEF CallInv
  <1>3. CallTypes'
    BY <1>1, <1>2 DEF CallTypes
  <1>4. /\ ConnectionFollows' /\ PeopleFollow' /\ StreamsOnConnection' /\ AudioFollows'
        /\ WatchesFollow'
    BY <1>1, <1>2 DEF ConnectionFollows, PeopleFollow, StreamsOnConnection, AudioFollows,
       WatchesFollow
  <1> QED
    BY <1>1, <1>3, <1>4 DEF CallInv

-----------------------------------------------------------------------------
\* The pool: its first task goes on, or is done.
LEMMA FirstDone ==
  ASSUME pool \in Seq(Tasks), NEW i \in Running
  PROVE  /\ i = 1 /\ Len(pool) \in Nat /\ Len(pool) >= 1 /\ pool[1] \in Tasks
         /\ Done(i) \in Seq(Tasks) /\ Len(Done(i)) = Len(pool) - 1
         /\ \A k \in 1..(Len(pool) - 1) : Done(i)[k] = pool[k + 1]
  <1>1. i = 1 /\ Len(pool) \in Nat /\ Len(pool) >= 1
    BY DEF Running
  <1>2. Done(i) = SubSeq(pool, 1, 0) \o SubSeq(pool, 2, Len(pool))
    BY <1>1 DEF Done
  <1>3. SubSeq(pool, 1, 0) = <<>>
    OBVIOUS
  <1>4. /\ SubSeq(pool, 2, Len(pool)) \in Seq(Tasks)
        /\ Len(SubSeq(pool, 2, Len(pool))) = Len(pool) - 1
        /\ \A k \in 1..(Len(pool) - 1) : SubSeq(pool, 2, Len(pool))[k] = pool[k + 1]
    BY <1>1
  <1>5. Done(i) = SubSeq(pool, 2, Len(pool))
    BY <1>2, <1>3, <1>4
  <1>6. pool[1] \in Tasks
    BY <1>1
  <1>7. /\ Done(i) \in Seq(Tasks) /\ Len(Done(i)) = Len(pool) - 1
        /\ \A k \in 1..(Len(pool) - 1) : Done(i)[k] = pool[k + 1]
    BY <1>4, <1>5, Zenon
  <1> QED
    BY <1>1, <1>6, <1>7

\* What is left of the invariant when only the pool and the core's voice change.
LEMMA PoolAlone ==
  ASSUME CallInv, pool' \in Seq(Tasks), voiceRequested' \in BOOLEAN, AudioFollows',
         UNCHANGED <<gui, queue, wantsAudio, screenRequested, coreWatched, socket, room,
                     streams, cutOff, hasty>>
  PROVE  CallInv'
  <1>1. UNCHANGED <<loggedIn, selected, conn, statsOn, shown, streamingPeers, watched>>
    BY DEF gui
  <1>2. CallTypes /\ ConnectionFollows /\ PeopleFollow /\ StreamsOnConnection /\ WatchesFollow
    BY DEF CallInv
  <1>3. CallTypes'
    BY <1>1, <1>2 DEF CallTypes
  <1>4. ConnectionFollows' /\ PeopleFollow' /\ StreamsOnConnection' /\ WatchesFollow'
    BY <1>1, <1>2 DEF ConnectionFollows, PeopleFollow, StreamsOnConnection, WatchesFollow
  <1> QED
    BY <1>1, <1>3, <1>4 DEF CallInv

\* A task that is not the last one is done.
LEMMA PoolShifts ==
  ASSUME AudioFollows, pool \in Seq(Tasks), Len(pool) > 1, pool' \in Seq(Tasks),
         Len(pool') = Len(pool) - 1, \A k \in 1..(Len(pool) - 1) : pool'[k] = pool[k + 1],
         UNCHANGED <<gui, wantsAudio, screenRequested, socket, cutOff>>
  PROVE  AudioFollows'
  <1>1. Len(pool) \in Nat /\ pool' # <<>> /\ pool # <<>>
    OBVIOUS
  <1>2. pool'[Len(pool')] = pool[Len(pool)]
    BY <1>1
  <1>3. \A k \in 1..Len(pool') : k + 1 \in 1..Len(pool) /\ pool'[k] = pool[k + 1]
    BY <1>1
  <1>4. \A k \in 1..Len(pool') : pool'[k].latest <=> k = Len(pool')
    BY <1>1, <1>3 DEF AudioFollows
  <1>5. (pool'[Len(pool')].do = "start") = wantsAudio'
    BY <1>1, <1>2 DEF AudioFollows
  <1> QED
    BY <1>1, <1>4, <1>5 DEF AudioFollows, gui

\* A start goes on if it is the latest task.
LEMMA AudioCheckKeeps ==
  ASSUME CallInv, AudioCheck
  PROVE  CallInv'
  <1>1. pool \in Seq(Tasks) /\ AudioFollows /\ voiceRequested \in BOOLEAN
    BY DEF CallInv, CallTypes
  <1>2. PICK i \in Running :
           pool' = IF pool[i].latest THEN [pool EXCEPT ![i].checked = TRUE] ELSE Done(i)
    BY DEF AudioCheck
  <1>3. UNCHANGED <<gui, queue, wantsAudio, core, cutOff, hasty>>
    BY DEF AudioCheck
  <1>4. /\ i = 1 /\ Len(pool) \in Nat /\ Len(pool) >= 1 /\ pool[1] \in Tasks
        /\ Done(i) \in Seq(Tasks) /\ Len(Done(i)) = Len(pool) - 1
        /\ \A k \in 1..(Len(pool) - 1) : Done(i)[k] = pool[k + 1]
    BY <1>1, FirstDone
  <1>5. pool' \in Seq(Tasks) /\ AudioFollows'
    <2>1. CASE pool[1].latest
      <3>1. pool' = [pool EXCEPT ![1] = [pool[1] EXCEPT !.checked = TRUE]]
        BY <1>2, <1>4, <2>1
      <3>2. /\ [pool[1] EXCEPT !.checked = TRUE] \in Tasks
            /\ [pool[1] EXCEPT !.checked = TRUE].latest = pool[1].latest
            /\ [pool[1] EXCEPT !.checked = TRUE].do = pool[1].do
        BY <1>4 DEF Tasks
      <3>3. /\ pool' \in Seq(Tasks) /\ Len(pool') = Len(pool)
            /\ \A k \in 1..Len(pool) : pool'[k].latest = pool[k].latest /\ pool'[k].do = pool[k].do
        BY <1>1, <1>4, <3>1, <3>2
      <3>4. Len(pool) = 1
        BY <1>1, <1>4, <2>1 DEF AudioFollows
      <3> QED
        BY <1>1, <1>3, <1>4, <3>3, <3>4 DEF AudioFollows, gui, core
    <2>2. CASE ~pool[1].latest
      <3>1. pool' = Done(i)
        BY <1>2, <1>4, <2>2
      <3>2. Len(pool) > 1 /\ pool # <<>>
        BY <1>1, <1>4, <2>2 DEF AudioFollows
      <3> QED
        BY <1>1, <1>3, <1>4, <3>1, <3>2, PoolShifts DEF core
    <2> QED
      BY <2>1, <2>2
  <1> QED
    BY <1>1, <1>3, <1>5, PoolAlone DEF core

\* The core is asked for what the task says.
LEMMA AudioCallKeeps ==
  ASSUME CallInv, AudioCall
  PROVE  CallInv'
  <1>1. pool \in Seq(Tasks) /\ AudioFollows /\ wantsAudio \in BOOLEAN
    BY DEF CallInv, CallTypes
  <1>2. PICK i \in Running : voiceRequested' = (pool[i].do = "start") /\ pool' = Done(i)
    BY DEF AudioCall
  <1>3. UNCHANGED <<gui, queue, wantsAudio, screenRequested, coreWatched, socket, room,
                    streams, cutOff, hasty>>
    BY DEF AudioCall
  <1>4. /\ i = 1 /\ Len(pool) \in Nat /\ Len(pool) >= 1 /\ pool[1] \in Tasks
        /\ Done(i) \in Seq(Tasks) /\ Len(Done(i)) = Len(pool) - 1
        /\ \A k \in 1..(Len(pool) - 1) : Done(i)[k] = pool[k + 1]
    BY <1>1, FirstDone
  <1>5. AudioFollows'
    <2>1. CASE Len(pool) = 1
      <3>1. pool' = <<>>
        BY <1>2, <1>4, <2>1
      <3>2. voiceRequested' = wantsAudio'
        <4>1. pool # <<>>
          BY <2>1
        <4>2. pool[i] = pool[Len(pool)]
          BY <1>4, <2>1, Zenon
        <4>3. (pool[i].do = "start") = wantsAudio
          BY <1>1, <4>1, <4>2 DEF AudioFollows
        <4> QED
          BY <1>2, <1>3, <4>3
      <3> QED
        BY <1>1, <1>3, <3>1, <3>2 DEF AudioFollows, gui
    <2>2. CASE Len(pool) > 1
      BY <1>1, <1>2, <1>3, <1>4, <2>2, PoolShifts
    <2> QED
      BY <1>4, <2>1, <2>2
  <1>6. voiceRequested' \in BOOLEAN
    BY <1>2
  <1> QED
    BY <1>2, <1>3, <1>4, <1>5, <1>6, PoolAlone

-----------------------------------------------------------------------------
\* At first nothing is shown, and nothing waits.
LEMMA CallInitially ==
  ASSUME CallInit
  PROVE  CallInv
  <1>1. Len(queue) = 0 /\ Len(pool) = 0 /\ queue \in Seq(Events) /\ pool \in Seq(Tasks)
    BY DEF CallInit
  <1>2. CallTypes
    BY <1>1 DEF CallInit, CallTypes, Nobody
  <1>3. \A s, e : Follows(queue, s, e, FALSE, FALSE) /\ BegunOnce(queue, s, e, 0)
    BY <1>1 DEF Follows, BegunOnce
  <1>4. ConnectionFollows
    <2>1. (conn = "connected") = FALSE /\ (socket = "open") = FALSE /\ ~statsOn
      BY DEF CallInit
    <2> QED
      BY <1>3, <2>1 DEF ConnectionFollows
  <1>5. PeopleFollow
    <2>1. \A p \in Peers : /\ shown[p] = 0 /\ (shown[p] > 0) = FALSE /\ (p \in room) = FALSE
                           /\ (p \in streamingPeers) = FALSE /\ (p \in streams) = FALSE
      BY DEF CallInit, Nobody
    <2> QED
      BY <1>3, <2>1 DEF PeopleFollow
  <1>6. StreamsOnConnection
    BY <1>1 DEF CallInit, StreamsOnConnection, OnConnection
  <1>7. WatchesFollow
    BY DEF CallInit, WatchesFollow
  <1>8. AudioFollows
    <2>1. \A i \in 1..Len(pool) : pool[i].latest <=> i = Len(pool)
      BY <1>1
    <2> QED
      BY <2>1 DEF CallInit, AudioFollows
  <1> QED
    BY <1>2, <1>4, <1>5, <1>6, <1>7, <1>8 DEF CallInv, CallInit

\* The invariant: whatever the threads do and in whatever order, the events that wait
\* explain how what the application shows differs from the call.
THEOREM CallInvariant == CallSpec => []CallInv
  <1>1. CallInit => CallInv
    BY CallInitially
  <1>2. CallInv /\ [CallNext]_callVars => CallInv'
    <2> SUFFICES ASSUME CallInv, [CallNext]_callVars PROVE CallInv'
      OBVIOUS
    <2>1. CASE LeaveVoiceChannel
      BY <2>1, LeaveVoiceChannelKeeps
    <2>2. CASE JoinVoiceChannel
      BY <2>2, JoinVoiceChannelKeeps
    <2>3. CASE Logout
      BY <2>3, LogoutKeeps
    <2>4. CASE Login \/ UNCHANGED callVars
      BY <2>4, LoginKeeps
    <2>5. CASE AudioCheck
      BY <2>5, AudioCheckKeeps
    <2>6. CASE AudioCall
      BY <2>6, AudioCallKeeps
    <2>7. CASE Handle
      BY <2>7, WsConnectedKeeps, WsDisconnectedKeeps, PeerJoinedKeeps, PeerLeftKeeps,
         StreamingStartedKeeps, StreamingStoppedKeeps, StreamWatchRejectedKeeps DEF Handle
    <2>8. CASE SocketOpens
      BY <2>8, SocketOpensKeeps
    <2>9. CASE SocketLost
      BY <2>9, SocketLostKeeps
    <2>10. ASSUME NEW p \in Peers, JoinStream(p) \/ LeaveStream(p)
           PROVE  CallInv'
      BY <2>10, JoinStreamKeeps, LeaveStreamKeeps
    <2>11. ASSUME NEW p \in Peers, PeerEnters(p) \/ PeerLeaves(p) \/ PeerShares(p)
                                     \/ PeerStops(p) \/ ServerRejects(p)
           PROVE  CallInv'
      BY <2>11, PeerEntersKeeps, PeerLeavesKeeps, PeerSharesKeeps, PeerStopsKeeps,
         ServerRejectsKeeps
    <2> QED
      BY <2>1, <2>2, <2>3, <2>4, <2>5, <2>6, <2>7, <2>8, <2>9, <2>10, <2>11 DEF CallNext
  <1> QED
    BY <1>1, <1>2, PTL DEF CallSpec

\* Nothing waits: the connection, the people and the streams are shown as they are.
LEMMA ShownOnceHandled ==
  ASSUME CallInv
  PROVE  ShownAsIs
  <1>1. /\ CallTypes /\ ConnectionFollows /\ PeopleFollow /\ WatchesFollow /\ AudioFollows
    BY DEF CallInv
  <1>2. CallTypeOK
    <2>1. \A i \in 1..Len(queue) : queue[i].peer \in Peers \cup {NoPeer}
      <3>1. \A e \in Events : e.peer \in Peers \cup {NoPeer}
        BY DEF Events, Up, Down, Event
      <3>2. \A i \in 1..Len(queue) : queue[i] \in Events
        BY <1>1 DEF CallTypes
      <3> QED
        BY <3>1, <3>2
    <2>2. \A e \in Contents(queue) : e.peer \in Peers \cup {NoPeer}
      BY <2>1 DEF Contents
    <2>3. \A i \in 1..Len(pool) : pool[i].latest => i = Len(pool)
      BY <1>1 DEF AudioFollows
    <2> QED
      BY <1>1, <2>2, <2>3 DEF CallTypeOK, CallTypes
  <1>3. ASSUME queue = <<>>
        PROVE  \A s, e : \A l, r \in BOOLEAN : Follows(queue, s, e, l, r) => l = r
    BY <1>3, FollowsAtRest
  <1>4. ConnectionShown
    <2> SUFFICES ASSUME queue = <<>>
                 PROVE  (conn = "connected") = (socket = "open") /\ statsOn = (conn = "connected")
      BY DEF ConnectionShown
    <2>1. (conn = "connected") = (socket = "open")
      BY <1>1, <1>3, Zenon DEF ConnectionFollows
    <2>2. statsOn \in BOOLEAN /\ (statsOn <=> conn = "connected")
      BY <1>1 DEF CallTypes, ConnectionFollows
    <2> QED
      BY <2>1, <2>2
  <1>5. PeopleShown
    <2> SUFFICES ASSUME queue = <<>>
                 PROVE  /\ shown = [p \in Peers |-> IF p \in room THEN 1 ELSE 0]
                        /\ streamingPeers = streams
      BY DEF PeopleShown
    <2>1. ASSUME NEW p \in Peers
          PROVE  /\ shown[p] = (IF p \in room THEN 1 ELSE 0)
                 /\ (p \in streamingPeers <=> p \in streams)
      <3>1. /\ Follows(queue, Joins(p), Leaves(p), shown[p] > 0, p \in room)
            /\ Follows(queue, Shares(p), StopsSharing(p), p \in streamingPeers, p \in streams)
            /\ shown[p] \in {0, 1}
        BY <1>1 DEF PeopleFollow, BegunOnce
      <3> DEFINE n == shown[p] > 0
                 in == p \in room
                 lists == p \in streamingPeers
                 shares == p \in streams
      <3>2. /\ n \in BOOLEAN /\ in \in BOOLEAN /\ lists \in BOOLEAN /\ shares \in BOOLEAN
            /\ Follows(queue, Joins(p), Leaves(p), n, in)
            /\ Follows(queue, Shares(p), StopsSharing(p), lists, shares)
        BY <3>1
      <3> HIDE DEF n, in, lists, shares
      <3>3. n = in /\ lists = shares
        BY <1>3, <3>2, Zenon
      <3> QED
        BY <3>1, <3>3 DEF n, in, lists, shares
    <2>2. shown \in [Peers -> Nat] /\ streamingPeers \subseteq Peers /\ streams \subseteq Peers
      BY <1>1 DEF CallTypes
    <2> QED
      BY <2>1, <2>2
  <1>6. WatchedShown
    <2> SUFFICES ASSUME queue = <<>>
                 PROVE  watched \ hasty = coreWatched \ hasty
      BY DEF WatchedShown
    <2>1. \A es : ~Waits(queue, 1, Len(queue), es)
      BY DEF Waits
    <2>2. watched \subseteq coreWatched \cup hasty /\ coreWatched \ watched \subseteq hasty
      BY <1>1, <2>1 DEF WatchesFollow
    <2> QED
      BY <2>2
  <1> QED
    BY <1>2, <1>4, <1>5, <1>6 DEF ShownAsIs

\* Nothing waits, and no task either: the core was asked for what the user asked for.
LEMMA MediaOnceHandled ==
  ASSUME CallInv
  PROVE  MediaAsAsked
  <1>1. CallTypes /\ AudioFollows /\ ConnectionShown
    BY ShownOnceHandled DEF CallInv, ShownAsIs
  <1>2. AudioAsAsked
    BY <1>1 DEF AudioAsAsked, AudioFollows, AllHandled
  <1>3. CallHasMedia
    <2> SUFFICES ASSUME AllHandled, conn = "connected", ~cutOff
                 PROVE  voiceRequested /\ screenRequested
      BY DEF CallHasMedia
    <2>1. socket = "open"
      BY <1>1 DEF ConnectionShown, AllHandled
    <2> QED
      BY <1>1, <2>1 DEF AudioFollows, AllHandled
  <1> QED
    BY <1>2, <1>3 DEF MediaAsAsked

\* What the application shows of a call is the call, once its queue is empty: the
\* connection, its people once each, its streams and those watched in the core.
THEOREM CallIsShownAsIs == CallSpec => []ShownAsIs
  BY CallInvariant, ShownOnceHandled, PTL

\* What the application asks of the core is what the user asked of it, once the queue
\* and the pool are empty.
THEOREM MediaAreAsAsked == CallSpec => []MediaAsAsked
  BY CallInvariant, MediaOnceHandled, PTL
=============================================================================
