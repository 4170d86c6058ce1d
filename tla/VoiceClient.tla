------------------------------ MODULE VoiceClient ------------------------------
(***************************************************************************)
(* The voice half of GoogleWebRtcClient (google_webrtc_client.cpp) with    *)
(* the life of its GoogleWebRtcVoiceSessions.                              *)
(*                                                                         *)
(* Threads.  "pool" starts and stops voice (the bridge's one-thread pool), *)
(* "gui" changes settings, "socket" brings what the server sends and says  *)
(* that signaling came or went, "rtc" is libwebrtc's signaling thread and  *)
(* "worker" runs recoveries.  The transport reports open and closed in     *)
(* turn.                                                                   *)
(*                                                                         *)
(* voice_lifecycle_mutex is the variable lifecycle.  A section under       *)
(* `mutex` is an action; what it computed is applied later, outside it.    *)
(* Volumes are left out: they travel with `enabled` in the same updates.   *)
(***************************************************************************)
EXTENDS Naturals, Sequences, FiniteSets

CONSTANTS
    None,
    Sessions,     \* voice sessions; one that nobody refers to is used again
    Mids,         \* receive tracks of a session
    Peers,
    Scenes        \* bounds on one behaviour, each with the sessions and tracks
                  \* that take part, the settings that change ("microphone" or
                  \* "hearing"), and how many answers and recoveries may be under
                  \* way at once

Threads == {"pool", "gui", "socket", "rtc", "worker"}

ASSUME VoiceClientConstants ==
    /\ None \notin Sessions \cup Mids \cup Peers \cup Threads
    /\ Scenes \subseteq [sessions : SUBSET Sessions, mids : SUBSET Mids,
                         adjusts : SUBSET {"microphone", "hearing"},
                         answers : Nat, failures : Nat]

VARIABLES
    scene,            \* the bounds of this behaviour; it never changes
    connected,        \* Transport::connected()
    voice_requested, voice_muted, voice_deafened,
    voice_peer_muted, \* peers that are muted
    voice_session,    \* the session, which is its own token, or None
    voice_bindings,
    lifecycle,        \* the thread that holds voice_lifecycle_mutex
    call,             \* what each thread is doing
    open,             \* sessions with a PeerConnection
    microphone,       \* whether a session's microphone track is enabled
    offered,          \* sessions whose offer was sent
    answers,          \* whose offers the server has still to answer, in order;
                      \* None stands for any session that was closed meanwhile
    answered,         \* whether a session was given the answer to its own offer
    tracks,           \* tracks a session has got from its answer
    enabled,          \* tracks of a session that are heard
    scheduled,        \* sessions whose recovery_scheduled is set
    recovery_queue,
    gaveUp,           \* the last session could not be started
    lateMute,         \* the mute setting changed while a session was created
    overlapped        \* tracks whose last updates were computed side by side

settings == <<voice_requested, voice_muted, voice_deafened, voice_peer_muted>>
current  == <<voice_session, voice_bindings>>
webrtc   == <<open, microphone, offered, answered, tracks>>
recovery == <<scheduled, recovery_queue>>
history  == <<gaveUp, lateMute, overlapped>>

\* Without scene, which no action of the program touches.
vars == <<connected, settings, current, lifecycle, call, webrtc, answers,
          enabled, recovery, history>>

Idle == [step |-> "idle", next |-> "idle", session |-> None, value |-> FALSE,
         updates |-> {}]

Steps == {"idle", "start", "create", "install", "apply", "stop", "close", "mic"}

Updates == [session : Sessions, mid : Mids, enabled : BOOLEAN]

Calls == [step : Steps, next : {"idle", "start"}, session : Sessions \cup {None},
          value : BOOLEAN, updates : SUBSET Updates]

Do(t, step) == call' = [call EXCEPT ![t] = [@ EXCEPT !.step = step]]

Return(t) == call' = [call EXCEPT ![t] = [Idle EXCEPT !.step = call[t].next]]

-----------------------------------------------------------------------------
\* voice_update_locked: whether a track is to be heard.
Wanted(m, bindings, deafened, mutes) ==
    /\ bindings[m] # None
    /\ ~deafened /\ bindings[m] \notin mutes

UpdateOf(s, m, bindings, deafened, mutes) ==
    [session |-> s, mid |-> m, enabled |-> Wanted(m, bindings, deafened, mutes)]

Bound(bindings) == {m \in Mids : bindings[m] # None}

Pending(t, m) == \E u \in call[t].updates : u.mid = m

\* A thread that has computed updates for the tracks ms, and what it makes of
\* the tracks whose updates overlap.
Compute(t, s, ms, bindings, deafened, mutes) ==
    LET ups == IF s = None THEN {}
               ELSE {UpdateOf(s, m, bindings, deafened, mutes) : m \in ms}
        mids == {u.mid : u \in ups}
        side == {m \in mids : \E o \in Threads \ {t} : Pending(o, m)}
    IN  /\ call' = [call EXCEPT ![t] =
                       IF ups = {} THEN Idle
                       ELSE [Idle EXCEPT !.step = "apply", !.updates = ups]]
        /\ overlapped' = (overlapped \ mids) \cup side

\* set_remote_track_enabled finds no track in a closed session.
ApplyUpdate(t) ==
    /\ call[t].step = "apply"
    /\ \E u \in call[t].updates :
        /\ enabled' = IF u.session \notin open THEN enabled
                      ELSE [enabled EXCEPT ![u.session] =
                               IF u.enabled THEN @ \cup {u.mid} ELSE @ \ {u.mid}]
        /\ IF call[t].updates = {u}
           THEN /\ Return(t)
                /\ lifecycle' = IF lifecycle = t THEN None ELSE lifecycle
           ELSE /\ call' = [call EXCEPT ![t].updates = @ \ {u}]
                /\ UNCHANGED lifecycle
    /\ UNCHANGED <<connected, settings, current, webrtc, answers, recovery, history>>

-----------------------------------------------------------------------------
\* A session that nobody knows of any more, or never did.
Unknown(s) ==
    /\ s \notin open
    /\ \A t \in Threads : /\ call[t].session # s
                          /\ \A u \in call[t].updates : u.session # s

\* A PeerConnection is closed: its answers and its token fit nothing any more.
Without(s, queue) == [i \in 1..Len(queue) |-> IF queue[i] = s THEN None ELSE queue[i]]

ClosePc(s) ==
    /\ open' = open \ {s}
    /\ microphone' = [microphone EXCEPT ![s] = FALSE]
    /\ offered' = offered \ {s}
    /\ answered' = [answered EXCEPT ![s] = None]
    /\ tracks' = [tracks EXCEPT ![s] = {}]
    /\ enabled' = [enabled EXCEPT ![s] = {}]
    /\ scheduled' = scheduled \ {s}
    /\ answers' = Without(s, answers)
    /\ recovery_queue' = Without(s, recovery_queue)

\* The condition for a session, when it is created and when it is retained.
MayStart == voice_requested /\ voice_session = None /\ connected

\* start_voice_if_requested: the first section.
StartVoiceIfRequested(t) ==
    /\ call[t].step = "start" /\ lifecycle = None
    /\ IF MayStart
       THEN /\ \E s \in scene.sessions : Unknown(s)
            /\ lifecycle' = t
            /\ call' = [call EXCEPT ![t] = [@ EXCEPT !.step = "create",
                           !.session = CHOOSE s \in scene.sessions : Unknown(s),
                           !.value = ~voice_muted]]
              /\ gaveUp' = FALSE /\ lateMute' = FALSE
       ELSE Return(t) /\ UNCHANGED <<lifecycle, gaveUp, lateMute>>
    /\ UNCHANGED <<connected, settings, current, webrtc, answers, enabled, recovery,
                   overlapped>>

\* GoogleWebRtcVoiceSession::start; a new track is heard until it is told not to.
CreateSession(t) ==
    LET s == call[t].session IN
    /\ call[t].step = "create"
    /\ \/ /\ open' = open \cup {s}
          /\ microphone' = [microphone EXCEPT ![s] = call[t].value]
          /\ enabled' = [enabled EXCEPT ![s] = Mids]
          /\ Do(t, "install")
          /\ UNCHANGED <<lifecycle, gaveUp>>
       \/ /\ gaveUp' = TRUE
          /\ lifecycle' = None
          /\ Return(t)
          /\ UNCHANGED <<open, microphone, enabled>>
    /\ UNCHANGED <<connected, settings, current, offered, answered, tracks, answers,
                   recovery, lateMute, overlapped>>

\* Mutant: a session that is no longer wanted is forgotten and not closed.
ForgetUnwanted(t) ==
    /\ Return(t) /\ lifecycle' = None
    /\ UNCHANGED <<webrtc, enabled, recovery, answers>>

\* next->close() for a session that is not retained.
DropUnwanted(t) ==
    /\ ClosePc(call[t].session)
    /\ Return(t) /\ lifecycle' = None

\* start_voice_if_requested: the last section.
InstallSession(t) ==
    LET s == call[t].session IN
    /\ call[t].step = "install"
    /\ IF MayStart
       THEN /\ voice_session' = s
            /\ Compute(t, s, Bound(voice_bindings), voice_bindings, voice_deafened,
                       voice_peer_muted)
            /\ lifecycle' = IF Bound(voice_bindings) = {} THEN None ELSE lifecycle
            /\ UNCHANGED <<webrtc, answers, enabled, recovery>>
       ELSE /\ DropUnwanted(t)
            /\ UNCHANGED <<voice_session, overlapped>>
    /\ UNCHANGED <<connected, settings, voice_bindings, gaveUp, lateMute>>

\* stop_voice_session: the session is taken, and closed after that.
StopVoiceSession(t) ==
    /\ call[t].step = "stop" /\ lifecycle = None
    /\ voice_session' = None
    /\ voice_bindings' = [m \in Mids |-> None]
    /\ IF voice_session = None
       THEN Return(t) /\ UNCHANGED lifecycle
       ELSE /\ lifecycle' = t
            /\ call' = [call EXCEPT ![t] = [@ EXCEPT !.step = "close",
                           !.session = voice_session]]
    /\ UNCHANGED <<connected, settings, webrtc, answers, enabled, recovery, history>>

\* GoogleWebRtcVoiceSession::close.
CloseSession(t) ==
    /\ call[t].step = "close"
    /\ ClosePc(call[t].session)
    /\ lifecycle' = None
    /\ Return(t)
    /\ UNCHANGED <<connected, settings, current, history>>

-----------------------------------------------------------------------------
StartVoice ==
    /\ call["pool"] = Idle
    /\ voice_requested' = TRUE
    /\ Do("pool", "start")
    /\ UNCHANGED <<connected, voice_muted, voice_deafened, voice_peer_muted, current,
                   lifecycle, webrtc, answers, enabled, recovery, history>>

StopVoice ==
    /\ call["pool"] = Idle
    /\ voice_requested' = FALSE
    /\ Do("pool", "stop")
    /\ UNCHANGED <<connected, voice_muted, voice_deafened, voice_peer_muted, current,
                   lifecycle, webrtc, answers, enabled, recovery, history>>

\* on_signaling_state; a new connection owes no answers to the old one's offers.
SignalingState(up) ==
    /\ call["socket"] = Idle
    /\ connected # up
    /\ connected' = up
    /\ answers' = <<>>
    /\ Do("socket", IF up THEN "start" ELSE "stop")
    /\ UNCHANGED <<settings, current, lifecycle, webrtc, enabled, recovery, history>>

\* on_local_description: the offer is sent if the session is still open.
SendOffer(s) ==
    /\ s \in open \ offered /\ Len(answers) < scene.answers
    /\ offered' = offered \cup {s}
    /\ answers' = IF connected THEN Append(answers, s) ELSE answers
    /\ UNCHANGED <<connected, settings, current, lifecycle, call, open, microphone,
                   answered, tracks, enabled, recovery, history>>

\* apply_answer.  An answer does not say which offer it is for; libwebrtc takes
\* the first one that a session gets after its offer, and reports the tracks.
ApplyAnswer ==
    /\ call["socket"] = Idle /\ lifecycle = None /\ answers # <<>>
    /\ answers' = Tail(answers)
    /\ IF voice_session \in offered /\ answered[voice_session] = None
       THEN answered' = [answered EXCEPT ![voice_session] =
                            IF Head(answers) = voice_session THEN "own" ELSE "foreign"]
       ELSE UNCHANGED answered
    /\ UNCHANGED <<connected, settings, current, lifecycle, call, open, microphone,
                   offered, tracks, enabled, recovery, history>>

\* OnTrack and on_remote_track.
RemoteTrack(s, m) ==
    /\ call["rtc"] = Idle
    /\ s \in open /\ answered[s] # None /\ m \in scene.mids \ tracks[s]
    /\ tracks' = [tracks EXCEPT ![s] = @ \cup {m}]
    /\ Compute("rtc", voice_session, {m}, voice_bindings, voice_deafened,
               voice_peer_muted)
    /\ UNCHANGED <<connected, settings, current, lifecycle, open, microphone, offered,
                   answered, answers, enabled, recovery, gaveUp, lateMute>>

\* apply_binding.
ApplyBinding(m, p) ==
    LET bindings == [voice_bindings EXCEPT ![m] = p] IN
    /\ call["socket"] = Idle /\ connected
    /\ m \in scene.mids /\ voice_bindings[m] # p
    /\ voice_bindings' = bindings
    /\ Compute("socket", voice_session, {m}, bindings, voice_deafened, voice_peer_muted)
    /\ UNCHANGED <<connected, settings, voice_session, lifecycle, webrtc, answers,
                   enabled, recovery, gaveUp, lateMute>>

\* remove_peer: nothing is computed, the server unbinds the peer's tracks.
RemovePeer(p) ==
    /\ call["socket"] = Idle /\ connected
    /\ voice_peer_muted' = voice_peer_muted \ {p}
    /\ voice_peer_muted' # voice_peer_muted
    /\ UNCHANGED <<connected, voice_requested, voice_muted, voice_deafened, current,
                   lifecycle, call, webrtc, answers, enabled, recovery, history>>

\* Mutant: the microphone of the session is left as it is.
MicrophoneLeft == Idle

\* What set_muted has left to do outside the mutex.
MicrophoneCall ==
    IF voice_session = None THEN Idle
    ELSE [Idle EXCEPT !.step = "mic", !.session = voice_session, !.value = voice_muted]

\* set_muted; a session that is being created has read the old value.
SetMuted ==
    /\ call["gui"] = Idle /\ "microphone" \in scene.adjusts
    /\ voice_muted' = ~voice_muted
    /\ call' = [call EXCEPT !["gui"] = MicrophoneCall]
    /\ lateMute' = \E t \in Threads : /\ call[t].step \in {"create", "install"}
                                      /\ call[t].value = voice_muted'
    /\ UNCHANGED <<connected, voice_requested, voice_deafened, voice_peer_muted,
                   current, lifecycle, webrtc, answers, enabled, recovery, gaveUp,
                   overlapped>>

\* set_microphone_enabled.
SetMicrophoneEnabled ==
    /\ call["gui"].step = "mic"
    /\ microphone' = IF call["gui"].session \notin open THEN microphone
                     ELSE [microphone EXCEPT ![call["gui"].session] = call["gui"].value]
    /\ Return("gui")
    /\ UNCHANGED <<connected, settings, current, lifecycle, open, offered, answered,
                   tracks, answers, enabled, recovery, history>>

SetDeafened ==
    /\ call["gui"] = Idle /\ "hearing" \in scene.adjusts
    /\ voice_deafened' = ~voice_deafened
    /\ Compute("gui", voice_session, Bound(voice_bindings), voice_bindings,
               ~voice_deafened, voice_peer_muted)
    /\ UNCHANGED <<connected, voice_requested, voice_muted, voice_peer_muted, current,
                   lifecycle, webrtc, answers, enabled, recovery, gaveUp, lateMute>>

SetPeerMuted(p, mute) ==
    LET mutes == IF mute THEN voice_peer_muted \cup {p} ELSE voice_peer_muted \ {p} IN
    /\ call["gui"] = Idle /\ "hearing" \in scene.adjusts
    /\ mutes # voice_peer_muted
    /\ voice_peer_muted' = mutes
    /\ Compute("gui", voice_session, Bound(voice_bindings), voice_bindings,
               voice_deafened, mutes)
    /\ UNCHANGED <<connected, voice_requested, voice_muted, voice_deafened, current,
                   lifecycle, webrtc, answers, enabled, recovery, gaveUp, lateMute>>

-----------------------------------------------------------------------------
\* Mutant: the comparison is the wrong way round.
OtherToken(token) == voice_session # token

\* A recovery is only for the session that it was scheduled for.
OwnToken(token) == voice_session = token

\* A session that has got its own answer.
Joined(s) == s \in open /\ answered[s] = "own"

\* on_state reports Failed.  ICE gives up on a session that has the answer to
\* another one's offer, but only long after all answers have come.
ConnectionFails(s) ==
    /\ s \in open \ scheduled /\ answered[s] # None
    /\ Len(recovery_queue) < scene.failures
    /\ ~Joined(s) => answers = <<>>
    /\ scheduled' = scheduled \cup {s}
    /\ recovery_queue' = Append(recovery_queue, s)
    /\ UNCHANGED <<connected, settings, current, lifecycle, call, webrtc, answers,
                   enabled, history>>

\* Mutant: the session that failed is stopped, and that is all.
StopOnly == [Idle EXCEPT !.step = "stop"]

\* What a recovery does: stop_voice_session and start_voice_if_requested.
StopThenStart == [Idle EXCEPT !.step = "stop", !.next = "start"]

\* run_recovery and the beginning of recover_voice_session.
RecoverVoiceSession ==
    /\ call["worker"] = Idle /\ recovery_queue # <<>>
    /\ recovery_queue' = Tail(recovery_queue)
    /\ IF voice_requested /\ OwnToken(Head(recovery_queue)) /\ connected
       THEN call' = [call EXCEPT !["worker"] = StopThenStart]
       ELSE UNCHANGED call
    /\ UNCHANGED <<connected, settings, current, lifecycle, webrtc, answers, enabled,
                   scheduled, history>>

-----------------------------------------------------------------------------
Init ==
    /\ scene \in Scenes
    /\ connected = FALSE
    /\ voice_requested = FALSE /\ voice_muted = FALSE /\ voice_deafened = FALSE
    /\ voice_peer_muted = {}
    /\ voice_session = None /\ voice_bindings = [m \in Mids |-> None]
    /\ lifecycle = None
    /\ call = [t \in Threads |-> Idle]
    /\ open = {} /\ microphone = [s \in Sessions |-> FALSE]
    /\ offered = {} /\ answers = <<>> /\ answered = [s \in Sessions |-> None]
    /\ tracks = [s \in Sessions |-> {}] /\ enabled = [s \in Sessions |-> {}]
    /\ scheduled = {} /\ recovery_queue = <<>>
    /\ gaveUp = FALSE /\ lateMute = FALSE /\ overlapped = {}

Proceed(t) ==
    \/ StartVoiceIfRequested(t) \/ CreateSession(t) \/ InstallSession(t)
    \/ StopVoiceSession(t) \/ CloseSession(t) \/ ApplyUpdate(t)

Webrtc ==
    \/ \E s \in Sessions : SendOffer(s)
    \/ \E s \in Sessions, m \in Mids : RemoteTrack(s, m)

UserCalls ==
    \/ StartVoice \/ StopVoice \/ SetMuted \/ SetDeafened
    \/ \E p \in Peers, mute \in BOOLEAN : SetPeerMuted(p, mute)

ServerCalls ==
    \/ \E up \in BOOLEAN : SignalingState(up)
    \/ \E m \in Mids, p \in Peers \cup {None} : ApplyBinding(m, p)
    \/ \E p \in Peers : RemovePeer(p)

Next == UNCHANGED scene /\
    \/ \E t \in Threads : Proceed(t)
    \/ SetMicrophoneEnabled \/ ApplyAnswer \/ RecoverVoiceSession
    \/ \E s \in Sessions : ConnectionFails(s)
    \/ Webrtc \/ UserCalls \/ ServerCalls

\* Threads that are at work go on, the server answers, and ICE gives up on a
\* session that cannot connect.  Nobody has to call anything.
Fairness ==
    /\ \A t \in Threads : WF_vars(Proceed(t))
    /\ WF_vars(SetMicrophoneEnabled) /\ WF_vars(RecoverVoiceSession)
    /\ SF_vars(ApplyAnswer) /\ WF_vars(Webrtc)
    /\ \A s \in Sessions : WF_vars(~Joined(s) /\ ConnectionFails(s))

Spec == Init /\ [][Next]_<<scene, vars>> /\ Fairness

-----------------------------------------------------------------------------
TypeOK ==
    /\ scene \in Scenes
    /\ connected \in BOOLEAN /\ voice_requested \in BOOLEAN
    /\ voice_muted \in BOOLEAN /\ voice_deafened \in BOOLEAN
    /\ voice_peer_muted \subseteq Peers
    /\ voice_session \in Sessions \cup {None}
    /\ voice_bindings \in [Mids -> Peers \cup {None}]
    /\ lifecycle \in Threads \cup {None}
    /\ call \in [Threads -> Calls]
    /\ open \subseteq Sessions /\ offered \subseteq Sessions /\ scheduled \subseteq Sessions
    /\ microphone \in [Sessions -> BOOLEAN]
    /\ answers \in Seq(Sessions \cup {None}) /\ Len(answers) <= scene.answers
    /\ recovery_queue \in Seq(Sessions \cup {None}) /\ Len(recovery_queue) <= scene.failures
    /\ answered \in [Sessions -> {None, "own", "foreign"}]
    /\ tracks \in [Sessions -> SUBSET Mids] /\ enabled \in [Sessions -> SUBSET Mids]
    /\ gaveUp \in BOOLEAN /\ lateMute \in BOOLEAN /\ overlapped \subseteq Mids

\* Every session that has a PeerConnection is the client's session or is in the
\* hands of the thread that holds the lifecycle mutex: whatever start_voice,
\* stop_voice, reconnects and recoveries do to one another, none is left running.
NoOrphanSession ==
    /\ TypeOK
    /\ \A s \in open :
          s = voice_session \/ (lifecycle # None /\ call[lifecycle].session = s)

\* At rest there is a session exactly if voice is requested and signaling is up,
\* unless the last attempt to start one failed.  Needs start_voice_if_requested to
\* check its conditions again when it installs the session.
SessionAsRequested ==
    (\A t \in Threads : call[t] = Idle) =>
        /\ voice_session # None => voice_requested /\ connected
        /\ voice_requested /\ connected /\ ~gaveUp => voice_session # None

\* Once set_muted has returned, the microphone of the session is as it says, for
\* sessions that replace the present one too.  The exception is a setting that
\* changed after start_voice_if_requested read it and before the session was
\* installed: set_muted then finds no session to tell.
MicrophoneAsSet ==
    (voice_session \in open /\ call["gui"].step # "mic" /\ ~lateMute)
        => microphone[voice_session] = ~voice_muted

\* Nobody is heard whom the user does not want to hear, nor anything on a track
\* that carries nobody, once the updates were applied.  Excepted are tracks for
\* which two threads computed updates side by side: they are applied outside the
\* mutex, and the older one may come last.
SilencedAreSilent ==
    voice_session \in open =>
        \A m \in tracks[voice_session] \ overlapped :
            \/ m \notin enabled[voice_session]
            \/ \E t \in Threads : Pending(t, m)
            \/ voice_bindings[m] \in Peers \ voice_peer_muted /\ ~voice_deafened

\* The user's settings take effect in both directions, through every replacement of
\* the session and its tracks.
SettingsTakeEffect == MicrophoneAsSet /\ SilencedAreSilent

\* While voice stays requested and signaling up, the client always comes to have a
\* session with the server's answer to its own offer: recovery heals sessions
\* that failed or were given the answer to an earlier session's offer.
VoiceHeals ==
    (voice_requested /\ connected) ~>
        (~voice_requested \/ ~connected \/ gaveUp
            \/ (voice_session # None /\ Joined(voice_session)))
=============================================================================
