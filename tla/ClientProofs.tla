----------------------------- MODULE ClientProofs -----------------------------
(***************************************************************************)
(* Proofs about two parts of the desktop client, each by an invariant of   *)
(* its own.                                                                *)
(*                                                                         *)
(* VoiceClient, for any sessions, tracks, peers and bounds: no session is  *)
(* left running, the session is as requested, and what the user has set    *)
(* takes effect on the microphone and on what is heard.                    *)
(*                                                                         *)
(* UpdateManager with the swap of files that it does, for any versions,    *)
(* entries and files, any size of the archive and any number of checks     *)
(* and of failing renames: what is offered was announced by a signed       *)
(* manifest, and an update is installed as a whole or not at all, and no   *)
(* file is lost.                                                           *)
(***************************************************************************)
EXTENDS VoiceClient, UpdateManager, FiniteSetTheorems, WellFoundedInduction, TLAPS

\* What each thread runs, and what its caller still has to do.
InOrder(t) ==
    LET c == call[t] IN
    /\ c.step = "apply" <=> c.updates # {}
    /\ c.next = IF t = "worker" /\ c.step \in {"stop", "close"} THEN "start" ELSE "idle"
    /\ t = "gui" => c.step \in {"idle", "apply", "mic"}
    /\ t = "rtc" => c.step \in {"idle", "apply"}
    /\ c.step = "mic" => t = "gui"
    /\ c.step \in {"create", "install", "close", "mic"} => c.session \in Sessions

\* The lifecycle mutex is held from the first section of a function to its end;
\* start_voice_if_requested applies the updates of a new session under it.
Locked(t) ==
    /\ call[t].step \in {"create", "install", "close"} => lifecycle = t
    /\ lifecycle = t => call[t].step \in {"create", "install", "close", "apply"}

Threaded == \A t \in Threads : InOrder(t) /\ Locked(t)

\* The open sessions, at rest and in the hands of the holder of the mutex.
SessionHeld(t) ==
    LET c == call[t] IN
    /\ c.step \in {"create", "install", "close"} => voice_session = None
    /\ c.step = "create" => open = {}
    /\ c.step \in {"install", "close"} => open = {c.session}

SessionOwned ==
    /\ \A t \in Threads : SessionHeld(t)
    /\ (\A t \in Threads : call[t].step \notin {"create", "install", "close"})
          => open = {voice_session} \ {None}

\* A session that is not wanted any more is about to be stopped, and one that
\* is wanted is about to be started.
Starting(t) ==
    \/ call[t].step \in {"start", "create", "install"}
    \/ t = "worker" /\ call[t].step \in {"stop", "close"}

SessionWanted ==
    /\ call["pool"].step \in {"stop", "close"} => ~voice_requested
    /\ call["socket"].step \in {"stop", "close"} => ~connected
    /\ voice_session # None =>
          /\ voice_requested \/ call["pool"].step = "stop"
          /\ connected \/ call["socket"].step = "stop"
    /\ voice_requested /\ connected /\ ~gaveUp /\ voice_session = None
          => \E t \in Threads : Starting(t)

\* The microphone: set_muted is about to tell the session, or the session has
\* read the setting, or the setting changed after that.
MicrophoneHeld(t) ==
    LET c == call[t] IN
    /\ c.step \in {"create", "install"} =>
          /\ lateMute \/ (c.value <=> ~voice_muted)
          /\ call["gui"].step = "mic" => call["gui"].session # c.session
    /\ c.step = "install" => (microphone[c.session] <=> c.value)

MicrophoneTold ==
    /\ \A t \in Threads : MicrophoneHeld(t)
    /\ call["gui"].step = "mic" => (call["gui"].value <=> ~voice_muted)
    /\ voice_session \in open /\ ~lateMute
          => \/ microphone[voice_session] <=> ~voice_muted
             \/ call["gui"].step = "mic" /\ call["gui"].session = voice_session

\* A session that is not open yet has no tracks, and no update is for it.
Fresh(s) ==
    /\ answered[s] = None /\ tracks[s] = {}
    /\ \A t \in Threads : \A u \in call[t].updates : u.session # s

SessionsFresh ==
    /\ \A s \in Sessions : s \notin open => answered[s] = None /\ tracks[s] = {}
    /\ \A t \in Threads : call[t].step \in {"create", "install"} => Fresh(call[t].session)

\* What is to be heard by now.
Heard(m) == Wanted(m, voice_bindings, voice_deafened, voice_peer_muted)

\* One thread at most has an update for a track that is not overlapped, it has
\* one, and it lets nobody be heard who is not to be.
UpdatesSound ==
    /\ \A t \in Threads : \A u, v \in call[t].updates : u.mid = v.mid => u = v
    /\ \A t, o \in Threads : \A u \in call[t].updates, v \in call[o].updates :
          u.mid = v.mid /\ u.mid \notin overlapped => t = o
    /\ \A t \in Threads : \A u \in call[t].updates :
          u.mid \notin overlapped /\ u.session = voice_session /\ u.enabled => Heard(u.mid)

TracksSound ==
    voice_session \in open => \A m \in tracks[voice_session] \ overlapped :
        /\ \A t \in Threads : \A u \in call[t].updates :
              u.mid = m => u.session = voice_session
        /\ (\A t \in Threads : ~Pending(t, m)) /\ m \in enabled[voice_session] => Heard(m)

IInv ==
    /\ TypeOK /\ Threaded /\ SessionOwned /\ SessionWanted
    /\ MicrophoneTold /\ SessionsFresh /\ UpdatesSound /\ TracksSound
-----------------------------------------------------------------------------
\* The five threads of the client.
LEMMA ThreadsDistinct ==
  /\ "pool" \in Threads /\ "gui" \in Threads /\ "socket" \in Threads
  /\ "rtc" \in Threads /\ "worker" \in Threads
  /\ None \notin Threads
  BY VoiceClientConstants DEF Threads

\* A thread that is in no function has nothing left to do.
LEMMA IdleFacts ==
  /\ Idle \in Calls /\ Idle.step = "idle" /\ Idle.next = "idle" /\ Idle.session = None
  /\ Idle.value = FALSE /\ Idle.updates = {}
  BY DEF Idle, Calls, Steps

\* The parts of the place where a thread is.
LEMMA CallTyped ==
  ASSUME TypeOK, NEW t \in Threads
  PROVE  /\ call[t].step \in Steps /\ call[t].next \in {"idle", "start"}
         /\ call[t].session \in Sessions \cup {None}
         /\ call[t].value \in BOOLEAN /\ call[t].updates \subseteq Updates
  BY DEF TypeOK, Calls

\* A thread is at c now; the others are where they were.
Moved(t, c) ==
    /\ call' \in [Threads -> Calls]
    /\ c \in Calls /\ call'[t] = c
    /\ \A o \in Threads \ {t} : call'[o] = call[o]

\* A step that replaces the place of one thread moves that thread.
LEMMA MovedTo ==
  ASSUME TypeOK, NEW t \in Threads, NEW c \in Calls, call' = [call EXCEPT ![t] = c]
  PROVE  Moved(t, c)
  BY DEF TypeOK, Moved

\* The steps of a thread: within a function, into a section that works on a
\* session, back to the caller, and on with the updates it has computed.
Gone(t, c, step) ==
    /\ Moved(t, c) /\ c.step = step /\ c.next = call[t].next
    /\ c.session = call[t].session /\ c.value = call[t].value
    /\ c.updates = call[t].updates

Entered(t, c, step, s, value) ==
    /\ Moved(t, c) /\ c.step = step /\ c.next = call[t].next /\ c.session = s
    /\ c.value = value /\ c.updates = call[t].updates

Returned(t, c) ==
    /\ Moved(t, c) /\ c.step = call[t].next /\ c.next = "idle" /\ c.session = None
    /\ c.value = FALSE /\ c.updates = {}

Computed(t, c, s, ms, bindings, deafened, mutes) ==
    /\ Moved(t, c) /\ c.next = "idle" /\ c.session = None /\ c.value = FALSE
    /\ s = None \/ ms = {} => c = Idle /\ overlapped' = overlapped
    /\ s # None /\ ms # {} =>
         /\ c.step = "apply"
         /\ c.updates = {UpdateOf(s, m, bindings, deafened, mutes) : m \in ms}
         /\ overlapped' = (overlapped \ ms)
              \cup {m \in ms : \E o \in Threads \ {t} : Pending(o, m)}

\* A thread that goes on within a function keeps what it works on.
LEMMA Goes ==
  ASSUME TypeOK, NEW t \in Threads, NEW step \in Steps, Do(t, step)
  PROVE  \E c : Gone(t, c, step)
  <1> DEFINE c == [call[t] EXCEPT !.step = step]
  <1>1. c \in Calls /\ call' = [call EXCEPT ![t] = c]
    BY DEF TypeOK, Calls, Do
  <1>2. /\ c.step = step /\ c.next = call[t].next /\ c.session = call[t].session
        /\ c.value = call[t].value /\ c.updates = call[t].updates
    BY DEF TypeOK, Calls
  <1> QED
    BY <1>1, <1>2, MovedTo DEF Gone

\* A thread that enters a section works on its session and value from now on.
LEMMA Enters ==
  ASSUME TypeOK, NEW t \in Threads, NEW step \in Steps, NEW s \in Sessions,
         NEW value \in BOOLEAN,
         call' = [call EXCEPT ![t] =
                    [call[t] EXCEPT !.step = step, !.session = s, !.value = value]]
  PROVE  \E c : Entered(t, c, step, s, value)
  <1> PICK o \in Calls : o = call[t]
    BY DEF TypeOK
  <1> DEFINE c == [o EXCEPT !.step = step, !.session = s, !.value = value]
  <1>1. /\ c \in Calls /\ c.step = step /\ c.next = o.next /\ c.session = s
        /\ c.value = value /\ c.updates = o.updates
    BY DEF Calls
  <1> QED
    BY <1>1, MovedTo DEF Entered

\* A thread that returns goes on with what its caller has left.
LEMMA Returns ==
  ASSUME TypeOK, NEW t \in Threads, Return(t)
  PROVE  \E c : Returned(t, c)
  <1> DEFINE c == [Idle EXCEPT !.step = call[t].next]
  <1>1. call[t].next \in {"idle", "start"}
    BY CallTyped
  <1>2. /\ c \in Calls /\ c.step = call[t].next /\ c.next = "idle" /\ c.session = None
        /\ c.value = FALSE /\ c.updates = {}
    BY <1>1 DEF Idle, Calls, Steps
  <1> QED
    BY <1>2, MovedTo DEF Return, Returned

\* What is computed for a track is an update.
LEMMA UpdateTyped ==
  ASSUME NEW s \in Sessions, NEW m \in Mids, NEW bindings, NEW deafened, NEW mutes
  PROVE  UpdateOf(s, m, bindings, deafened, mutes) \in Updates
  <1> DEFINE wanted == Wanted(m, bindings, deafened, mutes)
  <1>1. wanted \in BOOLEAN
    BY DEF Wanted
  <1>2. UpdateOf(s, m, bindings, deafened, mutes)
          = [session |-> s, mid |-> m, enabled |-> wanted]
    BY DEF UpdateOf
  <1> HIDE DEF wanted
  <1> QED
    BY <1>1, <1>2 DEF Updates

\* Compute replaces the place of one thread and marks the tracks that overlap.
LEMMA Computes ==
  ASSUME TypeOK, NEW t \in Threads, NEW s \in Sessions \cup {None}, NEW ms \in SUBSET Mids,
         NEW bindings, NEW deafened \in BOOLEAN, NEW mutes,
         Compute(t, s, ms, bindings, deafened, mutes)
  PROVE  \E c : Computed(t, c, s, ms, bindings, deafened, mutes)
  <1> DEFINE all == {UpdateOf(s, m, bindings, deafened, mutes) : m \in ms}
             ups == IF s = None THEN {} ELSE all
             mids == {u.mid : u \in ups}
             side == {m \in mids : \E o \in Threads \ {t} : Pending(o, m)}
             c == IF ups = {} THEN Idle ELSE [Idle EXCEPT !.step = "apply", !.updates = ups]
  <1>1. call' = [call EXCEPT ![t] = c] /\ overlapped' = (overlapped \ mids) \cup side
    BY DEF Compute
  <1>2. s \in Sessions => all \subseteq Updates
    BY UpdateTyped
  <1>3. \A m \in ms : UpdateOf(s, m, bindings, deafened, mutes).mid = m
    BY DEF UpdateOf
  <1>4. all = {} <=> ms = {}
    OBVIOUS
  <1>5. CASE s = None \/ ms = {}
    <2>1. ups = {} /\ mids = {} /\ side = {} /\ c = Idle
      BY <1>4, <1>5
    <2>2. overlapped' = overlapped
      BY <1>1, <2>1
    <2>3. Moved(t, Idle)
      BY <1>1, <2>1, MovedTo, IdleFacts
    <2> QED
      BY <1>5, <2>2, <2>3, IdleFacts DEF Computed
  <1>6. CASE s # None /\ ms # {}
    <2>1. ups = all /\ ups # {} /\ ups \subseteq Updates
      BY <1>2, <1>4, <1>6
    <2>2. mids = ms
      BY <1>3, <2>1
    <2>3. c = [Idle EXCEPT !.step = "apply", !.updates = ups]
      BY <2>1
    <2> HIDE DEF ups
    <2>4. /\ c \in Calls /\ c.step = "apply" /\ c.next = "idle" /\ c.session = None
          /\ c.value = FALSE /\ c.updates = ups
      BY <2>1, <2>3 DEF Idle, Calls, Steps
    <2> HIDE DEF c
    <2>5. Moved(t, c)
      BY <1>1, <2>4, MovedTo
    <2>6. overlapped' = (overlapped \ ms)
                          \cup {m \in ms : \E o \in Threads \ {t} : Pending(o, m)}
      BY <1>1, <2>2
    <2> QED
      BY <1>6, <2>1, <2>4, <2>5, <2>6 DEF Computed
  <1> QED
    BY <1>5, <1>6

\* A thread that takes a session over keeps the value it works with.
LEMMA Takes ==
  ASSUME TypeOK, NEW t \in Threads, NEW step \in Steps, NEW s \in Sessions,
         call' = [call EXCEPT ![t] = [call[t] EXCEPT !.step = step, !.session = s]]
  PROVE  \E c : Entered(t, c, step, s, call[t].value)
  <1> PICK o \in Calls : o = call[t]
    BY DEF TypeOK
  <1> DEFINE c == [o EXCEPT !.step = step, !.session = s]
  <1>1. /\ c \in Calls /\ c.step = step /\ c.next = o.next /\ c.session = s
        /\ c.value = o.value /\ c.updates = o.updates
    BY DEF Calls
  <1> QED
    BY <1>1, MovedTo DEF Entered

\* Without leaves a sequence of sessions, of the same length.
LEMMA WithoutTyped ==
  ASSUME NEW q \in Seq(Sessions \cup {None}), NEW s
  PROVE  Without(s, q) \in Seq(Sessions \cup {None}) /\ Len(Without(s, q)) = Len(q)
  BY DEF Without

\* Updates computed by a thread that had none: the tracks that other threads
\* have updates for become overlapped, and the new updates fit what is wanted.
\* A session that becomes the client's is fresh; on the tracks that are left
\* alone, nobody loses the right to be heard.
LEMMA ComputeSound ==
  ASSUME TypeOK, UpdatesSound, TracksSound,
         NEW t \in Threads, call[t].updates = {}, NEW c, NEW ms \in SUBSET Mids,
         NEW s \in Sessions \cup {None}, NEW bindings, NEW deafened, NEW mutes,
         Computed(t, c, s, ms, bindings, deafened, mutes),
         voice_session' = s, voice_bindings' = bindings, voice_deafened' = deafened,
         voice_peer_muted' = mutes, UNCHANGED <<open, enabled>>,
         s = voice_session \/ (s \in Sessions /\ Fresh(s) /\ tracks' = tracks),
         s \in Sessions => tracks'[s] \subseteq tracks[s] \cup ms,
         \A m \in Mids \ ms : Heard(m) => Heard(m)'
  PROVE  UpdatesSound' /\ TracksSound'
  <1> USE VoiceClientConstants, IdleFacts
  <1> DEFINE Right(m) == Wanted(m, bindings, deafened, mutes)
             side == {m \in ms : \E o \in Threads \ {t} : Pending(o, m)}
  <1>1. \A m : Heard(m)' <=> Right(m)
    BY DEF Heard
  <1>2. \A o \in Threads \ {t} : call'[o] = call[o]
    BY DEF Computed, Moved
  <1>3. \A o \in Threads : \A u \in call[o].updates :
           u.session \in Sessions /\ u.mid \in Mids
    BY DEF TypeOK, Calls, Updates
  <1>4. CASE s = None \/ ms = {}
    <2>1. call'[t].updates = {} /\ overlapped' = overlapped
      BY <1>4 DEF Computed, Moved
    <2>2. \A o \in Threads : call'[o].updates = call[o].updates
      BY <1>2, <2>1
    <2>3. s # None => \A m \in Mids : Heard(m) => Heard(m)'
      BY <1>4
    <2>4. UpdatesSound'
      <3>1. ASSUME NEW o \in Threads, NEW u \in call[o].updates, u.mid \notin overlapped,
                   u.session = s, u.enabled
            PROVE  Heard(u.mid)'
        BY <1>3, <2>3, <3>1 DEF UpdatesSound, Fresh
      <3> QED
        BY <2>1, <2>2, <3>1 DEF UpdatesSound
    <2>5. TracksSound'
      BY <1>4, <2>1, <2>2, <2>3 DEF TracksSound, Pending, Fresh, TypeOK
    <2> QED
      BY <2>4, <2>5
  <1>5. CASE s # None /\ ms # {}
    <2>1. /\ call'[t].updates = {UpdateOf(s, m, bindings, deafened, mutes) : m \in ms}
          /\ overlapped' = (overlapped \ ms) \cup side
      BY <1>5 DEF Computed, Moved
    <2>2. \A u \in call'[t].updates :
             u.mid \in ms /\ u.session = s /\ (u.enabled => Right(u.mid))
      BY <2>1 DEF UpdateOf
    <2>3. \A u, v \in call'[t].updates : u.mid = v.mid => u = v
      BY <2>1 DEF UpdateOf
    <2>4. \A m \in ms : \E u \in call'[t].updates : u.mid = m
      <3>1. \A m \in ms : UpdateOf(s, m, bindings, deafened, mutes).mid = m
        BY DEF UpdateOf
      <3> QED
        BY <2>1, <3>1
    <2>5. \A o \in Threads \ {t} : \A u \in call'[o].updates :
             u.mid \in ms => u.mid \in overlapped'
      BY <1>2, <2>1 DEF Pending
    <2>6. \A m \in Mids : m \notin ms /\ m \notin overlapped' => m \notin overlapped
      BY <2>1
    <2>7. UpdatesSound'
      <3>1. \A o \in Threads : \A u, v \in call'[o].updates : u.mid = v.mid => u = v
        BY <1>2, <2>3 DEF UpdatesSound
      <3>2. ASSUME NEW o \in Threads, NEW p \in Threads,
                   NEW u \in call'[o].updates, NEW v \in call'[p].updates,
                   u.mid = v.mid, u.mid \notin overlapped'
            PROVE  o = p
        BY <1>2, <1>3, <2>2, <2>5, <2>6, <3>2 DEF UpdatesSound
      <3>3. ASSUME NEW o \in Threads, NEW u \in call'[o].updates, u.mid \notin overlapped',
                   u.session = s, u.enabled
            PROVE  Heard(u.mid)'
        BY <1>1, <1>2, <1>3, <2>2, <2>5, <2>6, <3>3 DEF UpdatesSound, Fresh
      <3> QED
        BY <3>1, <3>2, <3>3 DEF UpdatesSound
    <2>8. ASSUME s \in open, NEW m \in tracks'[s] \ overlapped'
          PROVE  /\ \A o \in Threads : \A u \in call'[o].updates :
                       u.mid = m => u.session = s
                 /\ (\A o \in Threads : ~Pending(o, m)') /\ m \in enabled[s] => Heard(m)'
      <3>1. s \in Sessions /\ tracks[s] \subseteq Mids
        BY <1>5 DEF TypeOK
      <3>2. CASE m \in ms
        BY <1>2, <2>2, <2>4, <2>5, <2>8, <3>2 DEF Pending
      <3>3. CASE m \notin ms
        <4>1. m \in tracks[s] \ overlapped /\ m \in Mids /\ s = voice_session
          BY <2>6, <2>8, <3>1, <3>3 DEF Fresh
        <4>2. \A o \in Threads : \A u \in call'[o].updates : u.mid = m => u.session = s
          BY <1>2, <2>2, <2>8, <4>1 DEF TracksSound
        <4>3. (\A o \in Threads : ~Pending(o, m)') => \A o \in Threads : ~Pending(o, m)
          BY <1>2 DEF Pending
        <4> QED
          BY <2>8, <3>3, <4>1, <4>2, <4>3 DEF TracksSound
      <3> QED
        BY <3>2, <3>3
    <2>9. TracksSound'
      BY <2>8 DEF TracksSound
    <2> QED
      BY <2>7, <2>9
  <1> QED
    BY <1>4, <1>5

\* The updates that a step computes for tracks keep the types.
LEMMA ComputedTyped ==
  ASSUME TypeOK, NEW t, NEW c, NEW s, NEW ms \in SUBSET Mids, NEW bindings, NEW deafened,
         NEW mutes, Computed(t, c, s, ms, bindings, deafened, mutes)
  PROVE  overlapped' \subseteq Mids /\ call' \in [Threads -> Calls]
  BY DEF Computed, Moved, TypeOK

\* No thread has a new update: nothing changes about what is still to be applied.
LEMMA UpdatesKept ==
  ASSUME UpdatesSound, \A o \in Threads : call'[o].updates \subseteq call[o].updates,
         UNCHANGED <<voice_session, voice_bindings, voice_deafened, voice_peer_muted,
                     overlapped>>
  PROVE  UpdatesSound'
  <1>1. \A m : Heard(m)' <=> Heard(m)
    BY DEF Heard
  <1> QED
    BY <1>1 DEF UpdatesSound

\* Nobody enters create or install: the sessions that are being made stay fresh.
LEMMA FreshKept ==
  ASSUME SessionsFresh, UNCHANGED <<open, answered, tracks>>,
         \A o \in Threads : call'[o].updates \subseteq call[o].updates,
         \A o \in Threads : call'[o].step \in {"create", "install"} => call'[o] = call[o]
  PROVE  SessionsFresh'
  <1>1. ASSUME NEW o \in Threads, call'[o].step \in {"create", "install"}
        PROVE  Fresh(call[o].session)'
    <2>1. call'[o] = call[o] /\ Fresh(call[o].session)
      BY <1>1 DEF SessionsFresh
    <2> QED
      BY <2>1 DEF Fresh
  <1> QED
    BY <1>1 DEF SessionsFresh

\* The new session is one that nobody knows of: no update and no set_muted is
\* under way for it.
LEMMA StartVoiceIfRequestedStep ==
  ASSUME IInv, NEW t \in Threads, StartVoiceIfRequested(t), UNCHANGED scene
  PROVE  IInv'
  <1> USE VoiceClientConstants, ThreadsDistinct, IdleFacts
  <1>1. /\ call[t].step = "start" /\ lifecycle = None /\ call[t].next = "idle"
        /\ call[t].updates = {} /\ t \in {"pool", "socket", "worker"}
    BY DEF StartVoiceIfRequested, IInv, Threaded, InOrder, Locked, Threads
  <1>2. UNCHANGED <<connected, voice_requested, voice_muted, voice_deafened,
                  voice_peer_muted, voice_session, voice_bindings, open, microphone,
                  offered, answered, tracks, answers, enabled, scheduled,
                  recovery_queue, overlapped>>
    BY DEF StartVoiceIfRequested, settings, current, webrtc, recovery, history
  <1>3. CASE MayStart
    <2>1. PICK c : /\ \E s \in Sessions : /\ Unknown(s)
                                          /\ Entered(t, c, "create", s, ~voice_muted)
                   /\ lifecycle' = t /\ gaveUp' = FALSE /\ lateMute' = FALSE
      <3>1. scene.sessions \subseteq Sessions
        BY DEF IInv, TypeOK
      <3>2. PICK s \in Sessions :
              /\ Unknown(s)
              /\ call' = [call EXCEPT ![t] =
                    [call[t] EXCEPT !.step = "create", !.session = s, !.value = ~voice_muted]]
        BY <1>3, <3>1 DEF StartVoiceIfRequested
      <3>3. "create" \in Steps /\ (~voice_muted) \in BOOLEAN
        BY DEF Steps
      <3>4. \E c : Entered(t, c, "create", s, ~voice_muted)
        BY <3>2, <3>3, Enters DEF IInv
      <3> QED
        BY <1>3, <3>2, <3>4 DEF StartVoiceIfRequested
    <2>2. TypeOK'
      BY <1>1, <1>2, <1>3, <2>1 DEF IInv, TypeOK, Moved, Entered, MayStart
    <2>3. Threaded'
      BY <1>1, <1>2, <1>3, <2>1
         DEF IInv, Threaded, InOrder, Locked, Moved, Entered, MayStart
    <2>4. SessionOwned'
      BY <1>1, <1>2, <1>3, <2>1
         DEF IInv, SessionOwned, SessionHeld, Moved, Entered, MayStart, Threaded,
             Locked
    <2>5. SessionWanted'
      BY <1>1, <1>2, <1>3, <2>1
         DEF IInv, SessionWanted, Starting, Moved, Entered, MayStart
    <2>6. MicrophoneTold'
      <3>1. MicrophoneHeld(t)'
        <4>1. call'[t] = c /\ c.step = "create" /\ t # "gui" /\ call'["gui"] = call["gui"]
          BY <1>1, <2>1 DEF Moved, Entered
        <4>2. c.value <=> ~voice_muted
          BY <2>1 DEF Entered
        <4>3. call["gui"].session # c.session
          BY <2>1 DEF Entered, Unknown
        <4> QED
          BY <1>2, <4>1, <4>2, <4>3 DEF MicrophoneHeld
      <3>2. ASSUME NEW o \in Threads \ {t} PROVE MicrophoneHeld(o)'
        BY <1>1, <1>2, <2>1, <3>2 DEF IInv, MicrophoneHeld, Moved, Entered, Threaded, Locked
      <3>3. call'["gui"] = call["gui"]
        BY <1>1, <2>1 DEF Moved, Entered
      <3>4. voice_session \notin open
        BY <1>3 DEF IInv, MayStart, TypeOK
      <3> QED
        BY <1>1, <1>2, <2>1, <3>1, <3>2, <3>3, <3>4 DEF IInv, MicrophoneTold
    <2>7. SessionsFresh'
      BY <1>1, <1>2, <1>3, <2>1
         DEF IInv, SessionsFresh, Fresh, Moved, Entered, MayStart, Unknown,
             Threaded, Locked
    <2>8. UpdatesSound'
      <3>1. \A o \in Threads : call'[o].updates \subseteq call[o].updates
        BY <1>1, <1>2, <1>3, <2>1 DEF Moved, Entered
      <3> QED
        BY <1>2, <3>1, UpdatesKept DEF IInv
    <2>9. TracksSound'
      BY <1>1, <1>2, <1>3, <2>1
         DEF IInv, TracksSound, Pending, Heard, Moved, Entered, MayStart
    <2> QED
      BY <2>2, <2>3, <2>4, <2>5, <2>6, <2>7, <2>8, <2>9 DEF IInv
  <1>4. CASE ~MayStart
    <2>1. PICK c : Returned(t, c) /\ UNCHANGED <<lifecycle, gaveUp, lateMute>>
      BY <1>4, Returns DEF StartVoiceIfRequested, IInv
    <2>2. TypeOK'
      BY <1>1, <1>2, <1>4, <2>1 DEF IInv, TypeOK, Moved, Returned, MayStart
    <2>3. Threaded'
      BY <1>1, <1>2, <1>4, <2>1
         DEF IInv, Threaded, InOrder, Locked, Moved, Returned, MayStart
    <2>4. SessionOwned'
      BY <1>1, <1>2, <1>4, <2>1
         DEF IInv, SessionOwned, SessionHeld, Moved, Returned, MayStart, Threaded,
             Locked
    <2>5. SessionWanted'
      BY <1>1, <1>2, <1>4, <2>1
         DEF IInv, SessionWanted, Starting, Moved, Returned, MayStart
    <2>6. MicrophoneTold'
      BY <1>1, <1>2, <1>4, <2>1
         DEF IInv, MicrophoneTold, MicrophoneHeld, Moved, Returned, MayStart,
             TypeOK, Unknown, Threaded, Locked
    <2>7. SessionsFresh'
      BY <1>1, <1>2, <1>4, <2>1, ZenonT(40)
         DEF IInv, SessionsFresh, Fresh, Moved, Returned, MayStart, Unknown,
             Threaded, Locked
    <2>8. UpdatesSound'
      <3>1. \A o \in Threads : call'[o].updates \subseteq call[o].updates
        BY <1>1, <1>2, <1>4, <2>1 DEF Moved, Returned
      <3> QED
        BY <1>2, <3>1, UpdatesKept DEF IInv
    <2>9. TracksSound'
      BY <1>1, <1>2, <1>4, <2>1
         DEF IInv, TracksSound, Pending, Heard, Moved, Returned, MayStart
    <2> QED
      BY <2>2, <2>3, <2>4, <2>5, <2>6, <2>7, <2>8, <2>9 DEF IInv
  <1> QED
    BY <1>3, <1>4

\* The mutex is held and no other session is open.
LEMMA CreateSessionStep ==
  ASSUME IInv, NEW t \in Threads, CreateSession(t), UNCHANGED scene
  PROVE  IInv'
  <1> USE VoiceClientConstants, ThreadsDistinct, IdleFacts
  <1>1. /\ call[t].step = "create" /\ lifecycle = t /\ call[t].next = "idle"
        /\ call[t].updates = {} /\ t \in {"pool", "socket", "worker"}
        /\ call[t].session \in Sessions
    BY CallTyped DEF CreateSession, IInv, Threaded, InOrder, Locked, Threads
  <1>2. UNCHANGED <<connected, voice_requested, voice_muted, voice_deafened,
                  voice_peer_muted, voice_session, voice_bindings, offered, answered,
                  tracks, answers, scheduled, recovery_queue, lateMute, overlapped>>
    BY DEF CreateSession, settings, current, webrtc, recovery, history
  <1>3. CASE /\ open' = open \cup {call[t].session}
             /\ microphone' = [microphone EXCEPT ![call[t].session] = call[t].value]
             /\ enabled' = [enabled EXCEPT ![call[t].session] = Mids]
             /\ Do(t, "install") /\ UNCHANGED <<lifecycle, gaveUp>>
    <2>1. PICK c : Gone(t, c, "install") /\ call[t].value \in BOOLEAN
      <3>1. "install" \in Steps
        BY DEF Steps
      <3> QED
        BY <1>3, <3>1, Goes, CallTyped DEF IInv
    <2>2. TypeOK'
      BY <1>1, <1>2, <1>3, <2>1 DEF IInv, TypeOK, Moved, Gone
    <2>3. Threaded'
      BY <1>1, <1>2, <1>3, <2>1 DEF IInv, Threaded, InOrder, Locked, Moved, Gone
    <2>4. SessionOwned'
      BY <1>1, <1>2, <1>3, <2>1
         DEF IInv, SessionOwned, SessionHeld, Moved, Gone, TypeOK, Threaded, Locked
    <2>5. SessionWanted'
      BY <1>1, <1>2, <1>3, <2>1
         DEF IInv, SessionWanted, Starting, Moved, Gone, SessionOwned, SessionHeld
    <2>6. MicrophoneTold'
      BY <1>1, <1>2, <1>3, <2>1
         DEF IInv, MicrophoneTold, MicrophoneHeld, Moved, Gone, TypeOK, Threaded,
             Locked, SessionOwned, SessionHeld
    <2>7. SessionsFresh'
      <3>1. Fresh(call[t].session)
        BY <1>1 DEF IInv, SessionsFresh
      <3>2. \A o \in Threads : call'[o].updates = call[o].updates
        BY <2>1 DEF Moved, Gone
      <3>3. Fresh(c.session)'
        BY <1>2, <2>1, <3>1, <3>2 DEF Fresh, Gone
      <3>4. ASSUME NEW o \in Threads \ {t} PROVE call'[o].step \notin {"create", "install"}
        BY <1>1, <2>1, <3>4 DEF IInv, Moved, Gone, Threaded, Locked
      <3>5. call'[t].session = c.session
        BY <2>1 DEF Moved, Gone
      <3> QED
        BY <1>2, <1>3, <3>1, <3>3, <3>4, <3>5 DEF IInv, SessionsFresh, Fresh
    <2>8. UpdatesSound'
      <3>1. \A o \in Threads : call'[o].updates \subseteq call[o].updates
        BY <1>1, <1>2, <1>3, <2>1 DEF Moved, Gone
      <3> QED
        BY <1>2, <3>1, UpdatesKept DEF IInv
    <2>9. TracksSound'
      BY <1>1, <1>2, <1>3, <2>1
         DEF IInv, TracksSound, Pending, Heard, Moved, Gone, SessionOwned,
             SessionHeld, TypeOK
    <2> QED
      BY <2>2, <2>3, <2>4, <2>5, <2>6, <2>7, <2>8, <2>9 DEF IInv
  <1>4. CASE /\ gaveUp' = TRUE /\ lifecycle' = None /\ Return(t)
             /\ UNCHANGED <<open, microphone, enabled>>
    <2>1. PICK c : Returned(t, c)
      BY <1>4, Returns DEF IInv
    <2>2. TypeOK'
      BY <1>1, <1>2, <1>4, <2>1 DEF IInv, TypeOK, Moved, Returned
    <2>3. Threaded'
      BY <1>1, <1>2, <1>4, <2>1 DEF IInv, Threaded, InOrder, Locked, Moved, Returned
    <2>4. SessionOwned'
      BY <1>1, <1>2, <1>4, <2>1
         DEF IInv, SessionOwned, SessionHeld, Moved, Returned, TypeOK, Threaded,
             Locked
    <2>5. SessionWanted'
      BY <1>1, <1>2, <1>4, <2>1
         DEF IInv, SessionWanted, Starting, Moved, Returned, SessionOwned,
             SessionHeld
    <2>6. MicrophoneTold'
      BY <1>1, <1>2, <1>4, <2>1
         DEF IInv, MicrophoneTold, MicrophoneHeld, Moved, Returned, TypeOK,
             Threaded, Locked, SessionOwned, SessionHeld
    <2>7. SessionsFresh'
      BY <1>1, <1>2, <1>4, <2>1
         DEF IInv, SessionsFresh, Fresh, Moved, Returned, Threaded, Locked
    <2>8. UpdatesSound'
      <3>1. \A o \in Threads : call'[o].updates \subseteq call[o].updates
        BY <1>1, <1>2, <1>4, <2>1 DEF Moved, Returned
      <3> QED
        BY <1>2, <3>1, UpdatesKept DEF IInv
    <2>9. TracksSound'
      BY <1>1, <1>2, <1>4, <2>1
         DEF IInv, TracksSound, Pending, Heard, Moved, Returned, SessionOwned,
             SessionHeld, TypeOK
    <2> QED
      BY <2>2, <2>3, <2>4, <2>5, <2>6, <2>7, <2>8, <2>9 DEF IInv
  <1> QED
    BY <1>3, <1>4 DEF CreateSession

\* The setting that was read is told to the new session already; the updates of its
\* tracks are the first ones.  A session that is not retained is closed again.
LEMMA InstallSessionStep ==
  ASSUME IInv, NEW t \in Threads, InstallSession(t), UNCHANGED scene
  PROVE  IInv'
  <1> USE VoiceClientConstants, ThreadsDistinct, IdleFacts
  <1>1. /\ call[t].step = "install" /\ lifecycle = t /\ call[t].next = "idle"
        /\ call[t].updates = {} /\ t \in {"pool", "socket", "worker"}
        /\ call[t].session \in Sessions
    BY CallTyped DEF InstallSession, IInv, Threaded, InOrder, Locked, Threads
  <1>2. UNCHANGED <<connected, voice_requested, voice_muted, voice_deafened,
                  voice_peer_muted, voice_bindings, gaveUp, lateMute>>
    BY DEF InstallSession, settings, current, history
  <1>3. CASE MayStart
    <2>1. PICK c : /\ Computed(t, c, call[t].session, Bound(voice_bindings), voice_bindings,
                               voice_deafened, voice_peer_muted)
                   /\ voice_session' = call[t].session
                   /\ lifecycle' = IF Bound(voice_bindings) = {} THEN None ELSE lifecycle
                   /\ UNCHANGED <<open, microphone, offered, answered, tracks, answers,
                                  enabled, scheduled, recovery_queue>>
      <3>1. Bound(voice_bindings) \in SUBSET Mids /\ voice_deafened \in BOOLEAN
        BY DEF IInv, TypeOK, Bound
      <3> QED
        BY <1>1, <1>3, <3>1, Computes DEF InstallSession, webrtc, recovery, IInv
    <2>2. TypeOK'
      <3>1. Bound(voice_bindings) \in SUBSET Mids
        BY DEF Bound
      <3>2. overlapped' \subseteq Mids /\ call' \in [Threads -> Calls]
        BY <1>1, <1>2, <1>3, <2>1, <3>1, ComputedTyped DEF IInv
      <3> QED
        BY <1>1, <1>2, <1>3, <2>1, <3>2 DEF IInv, TypeOK
    <2>3. Threaded'
      BY <1>1, <1>2, <1>3, <2>1
         DEF IInv, Threaded, InOrder, Locked, Moved, Computed, MayStart
    <2>4. SessionOwned'
      BY <1>1, <1>2, <1>3, <2>1
         DEF IInv, SessionOwned, SessionHeld, Moved, Computed, MayStart, TypeOK,
             Threaded, Locked
    <2>5. SessionWanted'
      BY <1>1, <1>2, <1>3, <2>1
         DEF IInv, SessionWanted, Starting, Moved, Computed, MayStart, SessionOwned,
             SessionHeld
    <2>6. MicrophoneTold'
      BY <1>1, <1>2, <1>3, <2>1
         DEF IInv, MicrophoneTold, MicrophoneHeld, Moved, Computed, MayStart,
             TypeOK, Threaded, Locked, SessionOwned, SessionHeld
    <2>7. SessionsFresh'
      BY <1>1, <1>2, <1>3, <2>1
         DEF IInv, SessionsFresh, Fresh, Moved, Computed, MayStart, TypeOK,
             Threaded, Locked
    <2>8. UpdatesSound' /\ TracksSound'
      <3>1. Bound(voice_bindings) \in SUBSET Mids
        BY DEF Bound
      <3>2. \A k \in Mids \ Bound(voice_bindings) : Heard(k) => Heard(k)'
        BY <1>1, <1>2, <1>3, <2>1 DEF Heard, Wanted, Bound
      <3>3. /\ UpdatesSound /\ TracksSound /\ call[t].updates = {} /\ TypeOK
            /\ Fresh(call[t].session) /\ tracks[call[t].session] = {}
        BY <1>1 DEF IInv, SessionsFresh, Fresh
      <3> QED
        BY <1>1, <1>2, <1>3, <2>1, <3>1, <3>2, <3>3, ComputeSound
    <2> QED
      BY <2>2, <2>3, <2>4, <2>5, <2>6, <2>7, <2>8 DEF IInv
  <1>4. CASE ~MayStart
    <2>1. PICK c : /\ Returned(t, c) /\ lifecycle' = None
                   /\ UNCHANGED <<voice_session, overlapped>>
                   /\ open' = open \ {call[t].session}
                   /\ microphone' = [microphone EXCEPT ![call[t].session] = FALSE]
                   /\ offered' = offered \ {call[t].session}
                   /\ scheduled' = scheduled \ {call[t].session}
                   /\ answered' = [answered EXCEPT ![call[t].session] = None]
                   /\ tracks' = [tracks EXCEPT ![call[t].session] = {}]
                   /\ enabled' = [enabled EXCEPT ![call[t].session] = {}]
                   /\ answers' = Without(call[t].session, answers)
                   /\ recovery_queue' = Without(call[t].session, recovery_queue)
      BY <1>4, Returns DEF InstallSession, DropUnwanted, ClosePc, IInv
    <2>2. TypeOK'
      BY <1>1, <1>2, <1>4, <2>1, WithoutTyped
         DEF IInv, TypeOK, Moved, Returned, MayStart
    <2>3. Threaded'
      BY <1>1, <1>2, <1>4, <2>1
         DEF IInv, Threaded, InOrder, Locked, Moved, Returned, MayStart
    <2>4. SessionOwned'
      BY <1>1, <1>2, <1>4, <2>1, ZenonT(40)
         DEF IInv, SessionOwned, SessionHeld, Moved, Returned, MayStart, TypeOK,
             Threaded, Locked
    <2>5. SessionWanted'
      BY <1>1, <1>2, <1>4, <2>1
         DEF IInv, SessionWanted, Starting, Moved, Returned, MayStart, SessionOwned,
             SessionHeld
    <2>6. MicrophoneTold'
      BY <1>1, <1>2, <1>4, <2>1
         DEF IInv, MicrophoneTold, MicrophoneHeld, Moved, Returned, MayStart,
             TypeOK, Threaded, Locked, SessionOwned, SessionHeld
    <2>7. SessionsFresh'
      BY <1>1, <1>2, <1>4, <2>1
         DEF IInv, SessionsFresh, Fresh, Moved, Returned, MayStart, TypeOK,
             Threaded, Locked
    <2>8. UpdatesSound'
      BY <1>1, <1>2, <1>4, <2>1 DEF IInv, UpdatesSound, Heard, Moved, Returned, MayStart
    <2>9. TracksSound'
      BY <1>1, <1>2, <1>4, <2>1
         DEF IInv, TracksSound, Pending, Heard, Moved, Returned, MayStart
    <2> QED
      BY <2>2, <2>3, <2>4, <2>5, <2>6, <2>7, <2>8, <2>9 DEF IInv
  <1> QED
    BY <1>3, <1>4

\* Updates that are under way for the session now fit none.
LEMMA StopVoiceSessionStep ==
  ASSUME IInv, NEW t \in Threads, StopVoiceSession(t), UNCHANGED scene
  PROVE  IInv'
  <1> USE VoiceClientConstants, ThreadsDistinct, IdleFacts
  <1>1. /\ call[t].step = "stop" /\ lifecycle = None /\ voice_session' = None
        /\ voice_bindings' = [m \in Mids |-> None]
        /\ call[t].next = IF t = "worker" THEN "start" ELSE "idle"
        /\ call[t].updates = {} /\ t \in {"pool", "socket", "worker"}
    BY DEF StopVoiceSession, IInv, Threaded, InOrder, Locked, Threads
  <1>2. UNCHANGED <<connected, voice_requested, voice_muted, voice_deafened,
                  voice_peer_muted, open, microphone, offered, answered, tracks,
                  answers, enabled, scheduled, recovery_queue, gaveUp, lateMute,
                  overlapped>>
    BY DEF StopVoiceSession, settings, webrtc, recovery, history
  <1>3. CASE voice_session = None
    <2>1. PICK c : Returned(t, c) /\ UNCHANGED lifecycle
      BY <1>3, Returns DEF StopVoiceSession, IInv
    <2>2. TypeOK'
      BY <1>1, <1>2, <1>3, <2>1 DEF IInv, TypeOK, Moved, Returned, Threaded, Locked
    <2>3. Threaded'
      BY <1>1, <1>2, <1>3, <2>1
         DEF IInv, Threaded, InOrder, Locked, Moved, Returned, TypeOK
    <2>4. SessionOwned'
      BY <1>1, <1>2, <1>3, <2>1
         DEF IInv, SessionOwned, SessionHeld, Moved, Returned, TypeOK, Threaded,
             Locked
    <2>5. SessionWanted'
      BY <1>1, <1>2, <1>3, <2>1
         DEF IInv, SessionWanted, Starting, Moved, Returned, Threads
    <2>6. MicrophoneTold'
      BY <1>1, <1>2, <1>3, <2>1, ZenonT(40)
         DEF IInv, MicrophoneTold, MicrophoneHeld, Moved, Returned, TypeOK,
             Threaded, Locked
    <2>7. SessionsFresh'
      BY <1>1, <1>2, <1>3, <2>1
         DEF IInv, SessionsFresh, Fresh, Moved, Returned, Threaded, Locked
    <2>8. UpdatesSound'
      BY <1>1, <1>2, <1>3, <2>1, CallTyped
         DEF IInv, UpdatesSound, Heard, Moved, Returned, Updates
    <2>9. TracksSound'
      BY <1>1, <1>2, <1>3, <2>1
         DEF IInv, TracksSound, Pending, Heard, Moved, Returned, TypeOK
    <2> QED
      BY <2>2, <2>3, <2>4, <2>5, <2>6, <2>7, <2>8, <2>9 DEF IInv
  <1>4. CASE voice_session # None
    <2>1. PICK c : Entered(t, c, "close", voice_session, call[t].value) /\ lifecycle' = t
      <3>1. "close" \in Steps /\ voice_session \in Sessions
        BY <1>4 DEF Steps, IInv, TypeOK
      <3> QED
        BY <1>4, <3>1, Takes DEF StopVoiceSession, IInv
    <2>2. TypeOK'
      BY <1>1, <1>2, <1>4, <2>1 DEF IInv, TypeOK, Moved, Entered, Threaded, Locked
    <2>3. Threaded'
      BY <1>1, <1>2, <1>4, <2>1
         DEF IInv, Threaded, InOrder, Locked, Moved, Entered, TypeOK
    <2>4. SessionOwned'
      <3>1. \A o \in Threads : call[o].step \notin {"create", "install", "close"}
        BY <1>1 DEF IInv, Threaded, Locked
      <3>2. open = {voice_session}
        BY <1>4, <3>1 DEF IInv, SessionOwned
      <3>3. SessionHeld(t)' /\ call'[t].step = "close"
        BY <1>1, <1>2, <2>1, <3>2 DEF Moved, Entered, SessionHeld
      <3>4. ASSUME NEW o \in Threads \ {t} PROVE SessionHeld(o)'
        BY <2>1, <3>1 DEF Moved, Entered, SessionHeld
      <3> QED
        BY <3>3, <3>4 DEF SessionOwned
    <2>5. SessionWanted'
      BY <1>1, <1>2, <1>4, <2>1
         DEF IInv, SessionWanted, Starting, Moved, Entered, Threads
    <2>6. MicrophoneTold'
      BY <1>1, <1>2, <1>4, <2>1
         DEF IInv, MicrophoneTold, MicrophoneHeld, Moved, Entered, TypeOK, Threaded,
             Locked
    <2>7. SessionsFresh'
      BY <1>1, <1>2, <1>4, <2>1
         DEF IInv, SessionsFresh, Fresh, Moved, Entered, Threaded, Locked
    <2>8. UpdatesSound'
      BY <1>1, <1>2, <1>4, <2>1, CallTyped
         DEF IInv, UpdatesSound, Heard, Moved, Entered, Updates
    <2>9. TracksSound'
      BY <1>1, <1>2, <1>4, <2>1
         DEF IInv, TracksSound, Pending, Heard, Moved, Entered, TypeOK
    <2> QED
      BY <2>2, <2>3, <2>4, <2>5, <2>6, <2>7, <2>8, <2>9 DEF IInv
  <1> QED
    BY <1>3, <1>4

\* Nobody but the holder of the mutex knows the session.
LEMMA CloseSessionStep ==
  ASSUME IInv, NEW t \in Threads, CloseSession(t), UNCHANGED scene
  PROVE  IInv'
  <1> USE VoiceClientConstants, ThreadsDistinct, IdleFacts
  <1>1. /\ call[t].step = "close" /\ lifecycle = t /\ lifecycle' = None
        /\ call[t].next = IF t = "worker" THEN "start" ELSE "idle"
        /\ call[t].updates = {} /\ t \in {"pool", "socket", "worker"}
        /\ call[t].session \in Sessions
    BY CallTyped DEF CloseSession, IInv, Threaded, InOrder, Locked, Threads
  <1>2. UNCHANGED <<connected, voice_requested, voice_muted, voice_deafened,
                  voice_peer_muted, voice_session, voice_bindings, gaveUp, lateMute,
                  overlapped>>
    BY DEF CloseSession, settings, current, history
  <1>3. PICK c : /\ Returned(t, c)
                 /\ open' = open \ {call[t].session}
                 /\ microphone' = [microphone EXCEPT ![call[t].session] = FALSE]
                 /\ offered' = offered \ {call[t].session}
                 /\ scheduled' = scheduled \ {call[t].session}
                 /\ answered' = [answered EXCEPT ![call[t].session] = None]
                 /\ tracks' = [tracks EXCEPT ![call[t].session] = {}]
                 /\ enabled' = [enabled EXCEPT ![call[t].session] = {}]
                 /\ answers' = Without(call[t].session, answers)
                 /\ recovery_queue' = Without(call[t].session, recovery_queue)
    BY Returns DEF CloseSession, ClosePc, IInv
  <1>4. TypeOK'
    BY <1>1, <1>2, <1>3, WithoutTyped DEF IInv, TypeOK, Moved, Returned
  <1>5. Threaded'
    BY <1>1, <1>2, <1>3 DEF IInv, Threaded, InOrder, Locked, Moved, Returned
  <1>6. SessionOwned'
    BY <1>1, <1>2, <1>3, ZenonT(40)
       DEF IInv, SessionOwned, SessionHeld, Moved, Returned, TypeOK, Threaded,
           Locked
  <1>7. SessionWanted'
    BY <1>1, <1>2, <1>3
       DEF IInv, SessionWanted, Starting, Moved, Returned, Threads, SessionOwned,
           SessionHeld
  <1>8. MicrophoneTold'
    BY <1>1, <1>2, <1>3, SMTT(30)
       DEF IInv, MicrophoneTold, MicrophoneHeld, Moved, Returned, TypeOK, Threaded,
           Locked, SessionOwned, SessionHeld
  <1>9. SessionsFresh'
    BY <1>1, <1>2, <1>3, SMTT(30)
       DEF IInv, SessionsFresh, Fresh, Moved, Returned, TypeOK, Threaded, Locked
  <1>10. UpdatesSound'
    <2>1. \A o \in Threads : call'[o].updates \subseteq call[o].updates
      BY <1>1, <1>2, <1>3 DEF Moved, Returned
    <2> QED
      BY <1>2, <2>1, UpdatesKept DEF IInv
  <1>11. TracksSound'
    BY <1>1, <1>2, <1>3
       DEF IInv, TracksSound, Pending, Heard, Moved, Returned, TypeOK, SessionOwned,
           SessionHeld
  <1> QED
    BY <1>4, <1>5, <1>6, <1>7, <1>8, <1>9, <1>10, <1>11 DEF IInv

\* start_voice sets the request and goes on to start a session.
LEMMA StartVoiceStep ==
  ASSUME IInv, StartVoice, UNCHANGED scene
  PROVE  IInv'
  <1> USE VoiceClientConstants, ThreadsDistinct, IdleFacts
  <1>1. /\ call["pool"] = Idle /\ voice_requested' = TRUE
    BY DEF StartVoice, IInv, Threaded, InOrder, Locked, Threads
  <1>2. UNCHANGED <<connected, voice_muted, voice_deafened, voice_peer_muted,
                  voice_session, voice_bindings, lifecycle, open, microphone, offered,
                  answered, tracks, answers, enabled, scheduled, recovery_queue, gaveUp,
                  lateMute, overlapped>>
    BY DEF StartVoice, settings, current, webrtc, recovery, history
  <1>3. PICK c : Gone("pool", c, "start")
    <2>1. "start" \in Steps
      BY DEF Steps
    <2> QED
      BY <2>1, Goes DEF StartVoice, IInv
  <1>4. TypeOK'
    BY <1>1, <1>2, <1>3 DEF IInv, TypeOK, Moved, Gone
  <1>5. Threaded'
    BY <1>1, <1>2, <1>3 DEF IInv, Threaded, InOrder, Locked, Moved, Gone
  <1>6. SessionOwned'
    BY <1>1, <1>2, <1>3 DEF IInv, SessionOwned, SessionHeld, Moved, Gone
  <1>7. SessionWanted'
    BY <1>1, <1>2, <1>3 DEF IInv, SessionWanted, Starting, Moved, Gone
  <1>8. MicrophoneTold'
    BY <1>1, <1>2, <1>3 DEF IInv, MicrophoneTold, MicrophoneHeld, Moved, Gone
  <1>9. SessionsFresh'
    BY <1>1, <1>2, <1>3 DEF IInv, SessionsFresh, Fresh, Moved, Gone
  <1>10. UpdatesSound'
    <2>1. \A o \in Threads : call'[o].updates \subseteq call[o].updates
      BY <1>1, <1>2, <1>3 DEF Moved, Gone
    <2> QED
      BY <1>2, <2>1, UpdatesKept DEF IInv
  <1>11. TracksSound'
    BY <1>1, <1>2, <1>3 DEF IInv, TracksSound, Pending, Heard, Moved, Gone
  <1> QED
    BY <1>4, <1>5, <1>6, <1>7, <1>8, <1>9, <1>10, <1>11 DEF IInv

\* stop_voice withdraws the request and goes on to stop the session.
LEMMA StopVoiceStep ==
  ASSUME IInv, StopVoice, UNCHANGED scene
  PROVE  IInv'
  <1> USE VoiceClientConstants, ThreadsDistinct, IdleFacts
  <1>1. /\ call["pool"] = Idle /\ voice_requested' = FALSE
    BY DEF StopVoice, IInv, Threaded, InOrder, Locked, Threads
  <1>2. UNCHANGED <<connected, voice_muted, voice_deafened, voice_peer_muted,
                  voice_session, voice_bindings, lifecycle, open, microphone, offered,
                  answered, tracks, answers, enabled, scheduled, recovery_queue, gaveUp,
                  lateMute, overlapped>>
    BY DEF StopVoice, settings, current, webrtc, recovery, history
  <1>3. PICK c : Gone("pool", c, "stop")
    <2>1. "stop" \in Steps
      BY DEF Steps
    <2> QED
      BY <2>1, Goes DEF StopVoice, IInv
  <1>4. TypeOK'
    BY <1>1, <1>2, <1>3 DEF IInv, TypeOK, Moved, Gone
  <1>5. Threaded'
    BY <1>1, <1>2, <1>3 DEF IInv, Threaded, InOrder, Locked, Moved, Gone
  <1>6. SessionOwned'
    BY <1>1, <1>2, <1>3 DEF IInv, SessionOwned, SessionHeld, Moved, Gone
  <1>7. SessionWanted'
    BY <1>1, <1>2, <1>3 DEF IInv, SessionWanted, Starting, Moved, Gone
  <1>8. MicrophoneTold'
    BY <1>1, <1>2, <1>3 DEF IInv, MicrophoneTold, MicrophoneHeld, Moved, Gone
  <1>9. SessionsFresh'
    BY <1>1, <1>2, <1>3 DEF IInv, SessionsFresh, Fresh, Moved, Gone
  <1>10. UpdatesSound'
    <2>1. \A o \in Threads : call'[o].updates \subseteq call[o].updates
      BY <1>1, <1>2, <1>3 DEF Moved, Gone
    <2> QED
      BY <1>2, <2>1, UpdatesKept DEF IInv
  <1>11. TracksSound'
    BY <1>1, <1>2, <1>3 DEF IInv, TracksSound, Pending, Heard, Moved, Gone
  <1> QED
    BY <1>4, <1>5, <1>6, <1>7, <1>8, <1>9, <1>10, <1>11 DEF IInv

\* on_signaling_state goes on to start or to stop the session; no answer is due.
LEMMA SignalingStateStep ==
  ASSUME IInv, NEW up \in BOOLEAN, SignalingState(up), UNCHANGED scene
  PROVE  IInv'
  <1> USE VoiceClientConstants, ThreadsDistinct, IdleFacts
  <1>1. /\ call["socket"] = Idle /\ connected # up /\ connected' = up /\ answers' = <<>>
    BY DEF SignalingState, IInv, Threaded, InOrder, Locked, Threads
  <1>2. UNCHANGED <<voice_requested, voice_muted, voice_deafened,
                  voice_peer_muted, voice_session, voice_bindings, lifecycle, open,
                  microphone, offered, answered, tracks, enabled, scheduled,
                  recovery_queue, gaveUp, lateMute, overlapped>>
    BY DEF SignalingState, settings, current, webrtc, recovery, history
  <1>3. PICK c : Gone("socket", c, IF up THEN "start" ELSE "stop")
    <2>1. (IF up THEN "start" ELSE "stop") \in Steps
      BY DEF Steps
    <2> QED
      BY <2>1, Goes DEF SignalingState, IInv
  <1>4. TypeOK'
    BY <1>1, <1>2, <1>3 DEF IInv, TypeOK, Moved, Gone
  <1>5. Threaded'
    BY <1>1, <1>2, <1>3 DEF IInv, Threaded, InOrder, Locked, Moved, Gone
  <1>6. SessionOwned'
    BY <1>1, <1>2, <1>3 DEF IInv, SessionOwned, SessionHeld, Moved, Gone
  <1>7. SessionWanted'
    BY <1>1, <1>2, <1>3 DEF IInv, SessionWanted, Starting, Moved, Gone, TypeOK
  <1>8. MicrophoneTold'
    BY <1>1, <1>2, <1>3 DEF IInv, MicrophoneTold, MicrophoneHeld, Moved, Gone
  <1>9. SessionsFresh'
    <2>1. \A o \in Threads : call'[o].updates = call[o].updates
      BY <1>3 DEF Moved, Gone
    <2>2. \A o \in Threads : call'[o].step \in {"create", "install"} => call'[o] = call[o]
      BY <1>3 DEF Moved, Gone
    <2> QED
      BY <1>2, <2>1, <2>2, FreshKept DEF IInv
  <1>10. UpdatesSound'
    <2>1. \A o \in Threads : call'[o].updates \subseteq call[o].updates
      BY <1>1, <1>2, <1>3 DEF Moved, Gone
    <2> QED
      BY <1>2, <2>1, UpdatesKept DEF IInv
  <1>11. TracksSound'
    BY <1>1, <1>2, <1>3 DEF IInv, TracksSound, Pending, Heard, Moved, Gone
  <1> QED
    BY <1>4, <1>5, <1>6, <1>7, <1>8, <1>9, <1>10, <1>11 DEF IInv

\* on_local_description: the offer of an open session is sent, once.
LEMMA SendOfferStep ==
  ASSUME IInv, NEW s \in Sessions, SendOffer(s), UNCHANGED scene
  PROVE  IInv'
  <1> USE VoiceClientConstants, ThreadsDistinct, IdleFacts
  <1>1. /\ s \in open \ offered /\ Len(answers) < scene.answers
        /\ offered' = offered \cup {s}
    BY DEF SendOffer, IInv, Threaded, InOrder, Locked, Threads
  <1>2. UNCHANGED <<connected, voice_requested, voice_muted, voice_deafened,
                  voice_peer_muted, voice_session, voice_bindings, lifecycle, open,
                  microphone, answered, tracks, enabled, scheduled, recovery_queue,
                  gaveUp, lateMute, overlapped, call>>
    BY DEF SendOffer, settings, current, webrtc, recovery, history
  <1>3. /\ answers' \in Seq(Sessions \cup {None}) /\ Len(answers') <= scene.answers
    <2>1. answers \in Seq(Sessions \cup {None}) /\ scene.answers \in Nat
      BY DEF IInv, TypeOK
    <2> QED
      BY <1>1, <2>1 DEF SendOffer
  <1>4. TypeOK'
    BY <1>1, <1>2, <1>3 DEF IInv, TypeOK, Moved
  <1>5. Threaded'
    BY <1>1, <1>2, <1>3 DEF IInv, Threaded, InOrder, Locked, Moved
  <1>6. SessionOwned'
    BY <1>1, <1>2, <1>3 DEF IInv, SessionOwned, SessionHeld, Moved
  <1>7. SessionWanted'
    BY <1>1, <1>2, <1>3 DEF IInv, SessionWanted, Starting, Moved
  <1>8. MicrophoneTold'
    BY <1>1, <1>2, <1>3 DEF IInv, MicrophoneTold, MicrophoneHeld, Moved
  <1>9. SessionsFresh'
    BY <1>1, <1>2, <1>3 DEF IInv, SessionsFresh, Fresh, Moved
  <1>10. UpdatesSound'
    BY <1>1, <1>2, <1>3 DEF IInv, UpdatesSound, Heard, Moved
  <1>11. TracksSound'
    BY <1>1, <1>2, <1>3 DEF IInv, TracksSound, Pending, Heard, Moved
  <1> QED
    BY <1>4, <1>5, <1>6, <1>7, <1>8, <1>9, <1>10, <1>11 DEF IInv

\* Only the client's session, which is open, gets an answer.
LEMMA ApplyAnswerStep ==
  ASSUME IInv, ApplyAnswer, UNCHANGED scene
  PROVE  IInv'
  <1> USE VoiceClientConstants, ThreadsDistinct, IdleFacts
  <1>1. /\ call["socket"] = Idle /\ lifecycle = None /\ answers # <<>>
        /\ answers' = Tail(answers)
    BY DEF ApplyAnswer, IInv, Threaded, InOrder, Locked, Threads
  <1>2. UNCHANGED <<connected, voice_requested, voice_muted, voice_deafened,
                  voice_peer_muted, voice_session, voice_bindings, lifecycle, open,
                  microphone, offered, tracks, enabled, scheduled, recovery_queue,
                  gaveUp, lateMute, overlapped, call>>
    BY DEF ApplyAnswer, settings, current, webrtc, recovery, history
  <1>3. /\ answers' \in Seq(Sessions \cup {None}) /\ Len(answers') <= scene.answers
        /\ answered' \in [Sessions -> {None, "own", "foreign"}]
        /\ \A s \in Sessions : s # voice_session => answered'[s] = answered[s]
        /\ open = {voice_session} \ {None}
    <2>1. answers \in Seq(Sessions \cup {None}) /\ scene.answers \in Nat
      BY DEF IInv, TypeOK
    <2>2. answers' \in Seq(Sessions \cup {None}) /\ Len(answers') <= scene.answers
      BY <1>1, <2>1 DEF IInv, TypeOK
    <2>3. /\ answered' \in [Sessions -> {None, "own", "foreign"}]
          /\ \A s \in Sessions : s # voice_session => answered'[s] = answered[s]
      BY ZenonT(40) DEF ApplyAnswer, IInv, TypeOK
    <2>4. open = {voice_session} \ {None}
      BY <1>1 DEF IInv, SessionOwned, Threaded, Locked
    <2> QED
      BY <2>2, <2>3, <2>4
  <1>4. TypeOK'
    BY <1>1, <1>2, <1>3 DEF IInv, TypeOK, Moved
  <1>5. Threaded'
    BY <1>1, <1>2, <1>3 DEF IInv, Threaded, InOrder, Locked, Moved
  <1>6. SessionOwned'
    BY <1>1, <1>2, <1>3 DEF IInv, SessionOwned, SessionHeld, Moved
  <1>7. SessionWanted'
    BY <1>1, <1>2, <1>3 DEF IInv, SessionWanted, Starting, Moved
  <1>8. MicrophoneTold'
    BY <1>1, <1>2, <1>3 DEF IInv, MicrophoneTold, MicrophoneHeld, Moved
  <1>9. SessionsFresh'
    BY <1>1, <1>2, <1>3 DEF IInv, SessionsFresh, Fresh, Moved, Threaded, Locked, TypeOK
  <1>10. UpdatesSound'
    BY <1>1, <1>2, <1>3 DEF IInv, UpdatesSound, Heard, Moved
  <1>11. TracksSound'
    BY <1>1, <1>2, <1>3 DEF IInv, TracksSound, Pending, Heard, Moved
  <1> QED
    BY <1>4, <1>5, <1>6, <1>7, <1>8, <1>9, <1>10, <1>11 DEF IInv

\* The update of a track that is not overlapped is the newest one.
LEMMA ApplyUpdateStep ==
  ASSUME IInv, NEW t \in Threads, ApplyUpdate(t), UNCHANGED scene
  PROVE  IInv'
  <1> USE VoiceClientConstants, ThreadsDistinct, IdleFacts
  <1>1. /\ call[t].step = "apply" /\ call[t].next = "idle"
    BY DEF ApplyUpdate, IInv, Threaded, InOrder, Locked, Threads
  <1>2. UNCHANGED <<connected, voice_requested, voice_muted, voice_deafened,
                  voice_peer_muted, voice_session, voice_bindings, open, microphone,
                  offered, answered, tracks, answers, scheduled, recovery_queue, gaveUp,
                  lateMute, overlapped>>
    BY DEF ApplyUpdate, settings, current, webrtc, recovery, history
  <1>3. PICK c, u : /\ u \in call[t].updates /\ Moved(t, c)
                    /\ c.next = "idle" /\ c.updates = call[t].updates \ {u}
                    /\ c.step = IF c.updates = {} THEN "idle" ELSE "apply"
                    /\ lifecycle' = IF c.updates = {} /\ lifecycle = t THEN None
                                    ELSE lifecycle
                    /\ enabled' = IF u.session \notin open THEN enabled
                                  ELSE [enabled EXCEPT ![u.session] =
                                          IF u.enabled THEN @ \cup {u.mid} ELSE @ \ {u.mid}]
    <2>1. PICK u \in call[t].updates :
            /\ enabled' = IF u.session \notin open THEN enabled
                          ELSE [enabled EXCEPT ![u.session] =
                                  IF u.enabled THEN @ \cup {u.mid} ELSE @ \ {u.mid}]
            /\ IF call[t].updates = {u}
               THEN /\ Return(t)
                    /\ lifecycle' = IF lifecycle = t THEN None ELSE lifecycle
               ELSE /\ call' = [call EXCEPT ![t].updates = @ \ {u}]
                    /\ UNCHANGED lifecycle
      BY DEF ApplyUpdate
    <2>2. CASE call[t].updates = {u}
      <3>1. PICK c : Returned(t, c)
        BY <2>1, <2>2, Returns DEF IInv
      <3> QED
        BY <1>1, <2>1, <2>2, <3>1 DEF Returned
    <2>3. CASE call[t].updates # {u}
      <3>1. PICK o \in Calls : o = call[t]
        BY DEF IInv, TypeOK
      <3> DEFINE c == [o EXCEPT !.updates = o.updates \ {u}]
      <3>2. /\ c \in Calls /\ c.step = o.step /\ c.next = o.next
            /\ c.updates = o.updates \ {u}
        BY DEF Calls
      <3>3. call' = [call EXCEPT ![t] = c]
        BY <2>1, <2>3, <3>1 DEF IInv, TypeOK
      <3>4. Moved(t, c)
        BY <3>2, <3>3, MovedTo DEF IInv
      <3>5. c.updates # {}
        BY <2>1, <2>3, <3>1, <3>2
      <3> QED
        BY <1>1, <2>1, <2>3, <3>1, <3>2, <3>4, <3>5
    <2> QED
      BY <2>2, <2>3
  <1>4. TypeOK'
    BY <1>1, <1>2, <1>3, CallTyped DEF IInv, TypeOK, Moved, Updates
  <1>5. Threaded'
    BY <1>1, <1>2, <1>3 DEF IInv, Threaded, InOrder, Locked, Moved
  <1>6. SessionOwned'
    BY <1>1, <1>2, <1>3 DEF IInv, SessionOwned, SessionHeld, Moved
  <1>7. SessionWanted'
    BY <1>1, <1>2, <1>3 DEF IInv, SessionWanted, Starting, Moved
  <1>8. MicrophoneTold'
    <2>1. /\ \A o \in Threads :
                call'[o].step \in {"create", "install", "mic"} => call'[o] = call[o]
          /\ call["gui"].step = "mic" => call'["gui"] = call["gui"]
      BY <1>1, <1>3 DEF Moved
    <2>2. \A o \in Threads : MicrophoneHeld(o)'
      BY <1>2, <2>1 DEF IInv, MicrophoneTold, MicrophoneHeld
    <2> QED
      BY <1>2, <2>1, <2>2 DEF IInv, MicrophoneTold
  <1>9. SessionsFresh'
    <2>1. \A o \in Threads : call'[o].updates \subseteq call[o].updates
      BY <1>3 DEF Moved
    <2>2. \A o \in Threads : call'[o].step \in {"create", "install"} => call'[o] = call[o]
      BY <1>3 DEF Moved
    <2> QED
      BY <1>2, <2>1, <2>2, FreshKept DEF IInv
  <1>10. UpdatesSound'
    <2>1. \A o \in Threads : call'[o].updates \subseteq call[o].updates
      BY <1>1, <1>2, <1>3 DEF Moved
    <2> QED
      BY <1>2, <2>1, UpdatesKept DEF IInv
  <1>11. TracksSound'
    <2>1. \A o \in Threads : call'[o].updates \subseteq call[o].updates
      BY <1>3 DEF Moved
    <2>2. ASSUME voice_session \in open, NEW m \in tracks[voice_session] \ overlapped,
                 \A o \in Threads : ~Pending(o, m)', m \in enabled'[voice_session]
          PROVE  Heard(m)
      <3>1. voice_session \in Sessions /\ enabled \in [Sessions -> SUBSET Mids]
        BY <2>2 DEF IInv, TypeOK
      <3>2. CASE u.mid = m
        <4>1. u.session = voice_session
          BY <1>3, <2>2, <3>2 DEF IInv, TracksSound
        <4>2. u.enabled
          BY <1>3, <2>2, <3>1, <3>2, <4>1
        <4> QED
          BY <1>3, <2>2, <3>2, <4>1, <4>2 DEF IInv, UpdatesSound
      <3>3. CASE u.mid # m
        <4>1. \A o \in Threads : ~Pending(o, m)
          BY <1>3, <2>2, <3>3 DEF Pending, Moved
        <4>2. m \in enabled[voice_session]
          BY <1>3, <2>2, <3>1, <3>3
        <4> QED
          BY <2>2, <4>1, <4>2 DEF IInv, TracksSound
      <3> QED
        BY <3>2, <3>3
    <2> QED
      BY <1>2, <2>1, <2>2 DEF IInv, TracksSound, Heard
  <1> QED
    BY <1>4, <1>5, <1>6, <1>7, <1>8, <1>9, <1>10, <1>11 DEF IInv

\* The track is new to the session, which may not be the client's.
LEMMA RemoteTrackStep ==
  ASSUME IInv, NEW s \in Sessions, NEW m \in Mids, RemoteTrack(s, m), UNCHANGED scene
  PROVE  IInv'
  <1> USE VoiceClientConstants, ThreadsDistinct, IdleFacts
  <1>1. /\ call["rtc"] = Idle /\ s \in open /\ answered[s] # None /\ m \in Mids
        /\ tracks' = [tracks EXCEPT ![s] = @ \cup {m}]
        /\ \A k \in Sessions \ {s} : tracks'[k] = tracks[k]
    BY DEF RemoteTrack, IInv, Threaded, InOrder, Locked, Threads, TypeOK
  <1>2. UNCHANGED <<connected, voice_requested, voice_muted, voice_deafened,
                  voice_peer_muted, voice_session, voice_bindings, lifecycle, open,
                  microphone, offered, answered, answers, enabled, scheduled,
                  recovery_queue, gaveUp, lateMute>>
    BY DEF RemoteTrack, settings, current, webrtc, recovery, history
  <1>3. PICK c, ms : /\ ms \in SUBSET Mids /\ ms = {m}
                     /\ Computed("rtc", c, voice_session, ms, voice_bindings, voice_deafened,
                                 voice_peer_muted)
    <2>1. PICK ms \in SUBSET Mids :
            /\ ms = {m}
            /\ Compute("rtc", voice_session, ms, voice_bindings, voice_deafened,
                       voice_peer_muted)
      BY DEF RemoteTrack
    <2>2. voice_deafened \in BOOLEAN /\ voice_session \in Sessions \cup {None}
      BY DEF IInv, TypeOK
    <2> QED
      BY <2>1, <2>2, Computes DEF IInv
  <1>4. TypeOK'
    <2>1. ms \in SUBSET Mids
      BY <1>3
    <2>2. overlapped' \subseteq Mids /\ call' \in [Threads -> Calls]
      BY <1>1, <1>2, <1>3, <2>1, ComputedTyped DEF IInv
    <2> QED
      BY <1>1, <1>2, <1>3, <2>2 DEF IInv, TypeOK
  <1>5. Threaded'
    BY <1>1, <1>2, <1>3, SMTT(30) DEF IInv, Threaded, InOrder, Locked, Moved, Computed
  <1>6. SessionOwned'
    BY <1>1, <1>2, <1>3 DEF IInv, SessionOwned, SessionHeld, Moved, Computed
  <1>7. SessionWanted'
    BY <1>1, <1>2, <1>3 DEF IInv, SessionWanted, Starting, Moved, Computed
  <1>8. MicrophoneTold'
    BY <1>1, <1>2, <1>3 DEF IInv, MicrophoneTold, MicrophoneHeld, Moved, Computed
  <1>9. SessionsFresh'
    <2>1. ASSUME NEW o \in Threads, call'[o].step \in {"create", "install"}
          PROVE  Fresh(call[o].session)'
      <3>1. call'[o] = call[o] /\ voice_session = None /\ call[o].session \in Sessions
        BY <1>1, <1>2, <1>3, <2>1
           DEF IInv, Computed, Moved, SessionOwned, SessionHeld, Threaded, InOrder
      <3>2. \A k \in Threads : call'[k].updates = call[k].updates
        BY <1>1, <1>2, <1>3, <3>1 DEF Computed, Moved
      <3>3. Fresh(call[o].session)
        BY <2>1, <3>1 DEF IInv, SessionsFresh
      <3> QED
        BY <1>1, <1>2, <1>3, <3>1, <3>2, <3>3 DEF Fresh
    <2> QED
      BY <1>1, <1>2, <1>3, <2>1 DEF IInv, SessionsFresh
  <1>10. UpdatesSound' /\ TracksSound'
    <2>1. ms \in SUBSET Mids
      BY <1>3
    <2>2. \A k \in Mids \ ms : Heard(k) => Heard(k)'
      BY <1>1, <1>2, <1>3 DEF Heard, Wanted, Bound
    <2>3. /\ UpdatesSound /\ TracksSound /\ call["rtc"].updates = {} /\ TypeOK
          /\ voice_session \in Sessions \cup {None}
          /\ voice_session \in Sessions =>
                tracks'[voice_session] \subseteq tracks[voice_session] \cup ms
      BY <1>1, <1>3 DEF IInv, TypeOK
    <2> QED
      BY <1>1, <1>2, <1>3, <2>1, <2>2, <2>3, ComputeSound
  <1> QED
    BY <1>4, <1>5, <1>6, <1>7, <1>8, <1>9, <1>10 DEF IInv

\* A voice binding of the server is stored and its track's update computed.
LEMMA ApplyBindingStep ==
  ASSUME IInv, NEW m \in Mids, NEW p \in Peers \cup {None}, ApplyBinding(m, p), UNCHANGED scene
  PROVE  IInv'
  <1> USE VoiceClientConstants, ThreadsDistinct, IdleFacts
  <1>1. /\ call["socket"] = Idle /\ connected
        /\ voice_bindings' = [voice_bindings EXCEPT ![m] = p]
        /\ voice_bindings' \in [Mids -> Peers \cup {None}]
        /\ \A k \in Mids \ {m} : voice_bindings'[k] = voice_bindings[k]
    BY DEF ApplyBinding, IInv, Threaded, InOrder, Locked, Threads, TypeOK
  <1>2. UNCHANGED <<connected, voice_requested, voice_muted, voice_deafened,
                  voice_peer_muted, voice_session, lifecycle, open, microphone, offered,
                  answered, tracks, answers, enabled, scheduled, recovery_queue, gaveUp,
                  lateMute>>
    BY DEF ApplyBinding, settings, current, webrtc, recovery, history
  <1>3. PICK c, ms, bs : /\ ms \in SUBSET Mids /\ ms = {m} /\ voice_bindings' = bs
                         /\ Computed("socket", c, voice_session, ms, bs, voice_deafened,
                                     voice_peer_muted)
    <2>1. PICK ms \in SUBSET Mids, bs \in [Mids -> Peers \cup {None}] :
            /\ ms = {m} /\ voice_bindings' = bs
            /\ Compute("socket", voice_session, ms, bs, voice_deafened, voice_peer_muted)
      <3> DEFINE bindings == [voice_bindings EXCEPT ![m] = p]
      <3>1. /\ voice_bindings' = bindings /\ bindings \in [Mids -> Peers \cup {None}]
            /\ Compute("socket", voice_session, {m}, bindings, voice_deafened,
                       voice_peer_muted)
        BY DEF ApplyBinding, IInv, TypeOK
      <3> HIDE DEF bindings
      <3> QED
        BY <3>1
    <2>2. voice_deafened \in BOOLEAN /\ voice_session \in Sessions \cup {None}
      BY DEF IInv, TypeOK
    <2> QED
      BY <2>1, <2>2, Computes DEF IInv
  <1>4. TypeOK'
    <2>1. ms \in SUBSET Mids
      BY <1>3
    <2>2. overlapped' \subseteq Mids /\ call' \in [Threads -> Calls]
      BY <1>1, <1>2, <1>3, <2>1, ComputedTyped DEF IInv
    <2> QED
      BY <1>1, <1>2, <1>3, <2>2 DEF IInv, TypeOK
  <1>5. Threaded'
    BY <1>1, <1>2, <1>3 DEF IInv, Threaded, InOrder, Locked, Moved, Computed
  <1>6. SessionOwned'
    BY <1>1, <1>2, <1>3 DEF IInv, SessionOwned, SessionHeld, Moved, Computed
  <1>7. SessionWanted'
    BY <1>1, <1>2, <1>3 DEF IInv, SessionWanted, Starting, Moved, Computed
  <1>8. MicrophoneTold'
    BY <1>1, <1>2, <1>3 DEF IInv, MicrophoneTold, MicrophoneHeld, Moved, Computed
  <1>9. SessionsFresh'
    <2>1. ASSUME NEW o \in Threads, call'[o].step \in {"create", "install"}
          PROVE  Fresh(call[o].session)'
      <3>1. call'[o] = call[o] /\ voice_session = None /\ call[o].session \in Sessions
        BY <1>1, <1>2, <1>3, <2>1
           DEF IInv, Computed, Moved, SessionOwned, SessionHeld, Threaded, InOrder
      <3>2. \A k \in Threads : call'[k].updates = call[k].updates
        BY <1>1, <1>2, <1>3, <3>1 DEF Computed, Moved
      <3>3. Fresh(call[o].session)
        BY <2>1, <3>1 DEF IInv, SessionsFresh
      <3> QED
        BY <1>1, <1>2, <1>3, <3>1, <3>2, <3>3 DEF Fresh
    <2> QED
      BY <1>1, <1>2, <1>3, <2>1 DEF IInv, SessionsFresh
  <1>10. UpdatesSound' /\ TracksSound'
    <2>1. ms \in SUBSET Mids
      BY <1>3
    <2>2. \A k \in Mids \ ms : Heard(k) => Heard(k)'
      BY <1>1, <1>2, <1>3 DEF Heard, Wanted, Bound
    <2>3. /\ UpdatesSound /\ TracksSound /\ call["socket"].updates = {} /\ TypeOK
          /\ voice_session \in Sessions \cup {None}
      BY <1>1 DEF IInv, TypeOK
    <2> QED
      BY <1>1, <1>2, <1>3, <2>1, <2>2, <2>3, ComputeSound
  <1> QED
    BY <1>4, <1>5, <1>6, <1>7, <1>8, <1>9, <1>10 DEF IInv

\* Nobody loses the right to be heard, and nothing is computed.
LEMMA RemovePeerStep ==
  ASSUME IInv, NEW p \in Peers, RemovePeer(p), UNCHANGED scene
  PROVE  IInv'
  <1> USE VoiceClientConstants, ThreadsDistinct, IdleFacts
  <1>1. /\ voice_peer_muted' = voice_peer_muted \ {p}
        /\ \A m : Heard(m) => Heard(m)'
    BY DEF RemovePeer, IInv, Threaded, InOrder, Locked, Threads, Heard, Wanted, current
  <1>2. UNCHANGED <<connected, voice_requested, voice_muted, voice_deafened,
                  voice_session, voice_bindings, lifecycle, open, microphone, offered,
                  answered, tracks, answers, enabled, scheduled, recovery_queue, gaveUp,
                  lateMute, overlapped, call>>
    BY DEF RemovePeer, settings, current, webrtc, recovery, history
  <1>3. /\ TypeOK'
    BY <1>1, <1>2 DEF IInv, TypeOK
  <1>4. TypeOK'
    BY <1>1, <1>2, <1>3 DEF IInv, TypeOK, Moved
  <1>5. Threaded'
    BY <1>1, <1>2, <1>3 DEF IInv, Threaded, InOrder, Locked, Moved
  <1>6. SessionOwned'
    BY <1>1, <1>2, <1>3 DEF IInv, SessionOwned, SessionHeld, Moved
  <1>7. SessionWanted'
    BY <1>1, <1>2, <1>3 DEF IInv, SessionWanted, Starting, Moved
  <1>8. MicrophoneTold'
    BY <1>1, <1>2, <1>3 DEF IInv, MicrophoneTold, MicrophoneHeld, Moved
  <1>9. SessionsFresh'
    BY <1>1, <1>2, <1>3 DEF IInv, SessionsFresh, Fresh, Moved
  <1>10. UpdatesSound'
    BY <1>1, <1>2, <1>3 DEF IInv, UpdatesSound, Heard, Moved
  <1>11. TracksSound'
    BY <1>1, <1>2 DEF IInv, TracksSound, Pending
  <1> QED
    BY <1>4, <1>5, <1>6, <1>7, <1>8, <1>9, <1>10, <1>11 DEF IInv

\* A session that is being created has read the old value: lateMute says so.
LEMMA SetMutedStep ==
  ASSUME IInv, SetMuted, UNCHANGED scene
  PROVE  IInv'
  <1> USE VoiceClientConstants, ThreadsDistinct, IdleFacts
  <1>1. /\ call["gui"] = Idle /\ voice_muted' = ~voice_muted
        /\ call' = [call EXCEPT !["gui"] = MicrophoneCall]
        /\ \A t \in Threads : call[t].step \in {"create", "install"} =>
              voice_session = None /\ (lateMute' \/ (call[t].value <=> ~voice_muted'))
        /\ lateMute' \in BOOLEAN
    <2>1. /\ call["gui"] = Idle /\ voice_muted' = ~voice_muted
          /\ call' = [call EXCEPT !["gui"] = MicrophoneCall]
          /\ lateMute' \in BOOLEAN
          /\ lateMute' <=> \E t \in Threads : /\ call[t].step \in {"create", "install"}
                                              /\ call[t].value = voice_muted'
      BY DEF SetMuted
    <2>2. ASSUME NEW t \in Threads, call[t].step \in {"create", "install"}
          PROVE  voice_session = None /\ (lateMute' \/ (call[t].value <=> ~voice_muted'))
      <3>1. voice_session = None
        BY <2>2 DEF IInv, SessionOwned, SessionHeld
      <3>2. call[t].value \in BOOLEAN /\ voice_muted' \in BOOLEAN
        BY <2>1, CallTyped DEF IInv
      <3> QED
        BY <2>1, <2>2, <3>1, <3>2
    <2> QED
      BY <2>1, <2>2
  <1>2. UNCHANGED <<connected, voice_requested, voice_deafened,
                  voice_peer_muted, voice_session, voice_bindings, lifecycle, open,
                  microphone, offered, answered, tracks, answers, enabled, scheduled,
                  recovery_queue, gaveUp, overlapped>>
    BY DEF SetMuted, settings, current, webrtc, recovery, history
  <1>3. CASE voice_session = None
    <2>1. PICK c : Moved("gui", c) /\ c = Idle
      BY <1>1, <1>3, MovedTo DEF MicrophoneCall, IInv
    <2>2. TypeOK'
      BY <1>1, <1>2, <1>3, <2>1 DEF IInv, TypeOK, Moved
    <2>3. Threaded'
      BY <1>1, <1>2, <1>3, <2>1 DEF IInv, Threaded, InOrder, Locked, Moved
    <2>4. SessionOwned'
      BY <1>1, <1>2, <1>3, <2>1 DEF IInv, SessionOwned, SessionHeld, Moved
    <2>5. SessionWanted'
      BY <1>1, <1>2, <1>3, <2>1 DEF IInv, SessionWanted, Starting, Moved
    <2>6. MicrophoneTold'
      <3>1. /\ \A o \in Threads :
                  call'[o].step \in {"create", "install"} => call'[o] = call[o]
            /\ call'["gui"].step # "mic"
        BY <1>1, <2>1 DEF Moved
      <3>2. \A o \in Threads : MicrophoneHeld(o)'
        BY <1>1, <1>2, <3>1 DEF IInv, MicrophoneTold, MicrophoneHeld
      <3>3. voice_session \notin open
        BY <1>3 DEF IInv, TypeOK
      <3> QED
        BY <1>2, <3>1, <3>2, <3>3 DEF MicrophoneTold
    <2>7. SessionsFresh'
      BY <1>1, <1>2, <1>3, <2>1 DEF IInv, SessionsFresh, Fresh, Moved
    <2>8. UpdatesSound'
      <3>1. \A o \in Threads : call'[o].updates \subseteq call[o].updates
        BY <1>1, <1>2, <1>3, <2>1 DEF Moved
      <3> QED
        BY <1>2, <3>1, UpdatesKept DEF IInv
    <2>9. TracksSound'
      BY <1>1, <1>2, <1>3, <2>1 DEF IInv, TracksSound, Pending, Heard, Moved
    <2> QED
      BY <2>2, <2>3, <2>4, <2>5, <2>6, <2>7, <2>8, <2>9 DEF IInv
  <1>4. CASE voice_session # None
    <2>1. PICK c : /\ Moved("gui", c) /\ c.step = "mic" /\ c.next = "idle" /\ c.updates = {}
                   /\ c.session = voice_session /\ c.session \in Sessions
                   /\ (c.value <=> voice_muted)
      <3>1. PICK s \in Sessions, b \in BOOLEAN : s = voice_session /\ b = voice_muted
        BY <1>4 DEF IInv, TypeOK
      <3> DEFINE c == [Idle EXCEPT !.step = "mic", !.session = s, !.value = b]
      <3>2. /\ c \in Calls /\ c.step = "mic" /\ c.next = "idle" /\ c.updates = {}
            /\ c.session = s /\ c.value = b
        BY DEF Idle, Calls, Steps
      <3>3. call' = [call EXCEPT !["gui"] = c]
        BY <1>1, <1>4, <3>1 DEF MicrophoneCall
      <3> HIDE DEF c
      <3>4. Moved("gui", c)
        BY <3>2, <3>3, MovedTo DEF IInv
      <3> QED
        BY <3>1, <3>2, <3>4
    <2>2. TypeOK'
      BY <1>1, <1>2, <1>4, <2>1 DEF IInv, TypeOK, Moved
    <2>3. Threaded'
      BY <1>1, <1>2, <1>4, <2>1 DEF IInv, Threaded, InOrder, Locked, Moved
    <2>4. SessionOwned'
      BY <1>1, <1>2, <1>4, <2>1 DEF IInv, SessionOwned, SessionHeld, Moved
    <2>5. SessionWanted'
      BY <1>1, <1>2, <1>4, <2>1 DEF IInv, SessionWanted, Starting, Moved
    <2>6. MicrophoneTold'
      BY <1>1, <1>2, <1>4, <2>1 DEF IInv, MicrophoneTold, MicrophoneHeld, Moved
    <2>7. SessionsFresh'
      BY <1>1, <1>2, <1>4, <2>1 DEF IInv, SessionsFresh, Fresh, Moved
    <2>8. UpdatesSound'
      <3>1. \A o \in Threads : call'[o].updates \subseteq call[o].updates
        BY <1>1, <1>2, <1>4, <2>1 DEF Moved
      <3> QED
        BY <1>2, <3>1, UpdatesKept DEF IInv
    <2>9. TracksSound'
      BY <1>1, <1>2, <1>4, <2>1 DEF IInv, TracksSound, Pending, Heard, Moved
    <2> QED
      BY <2>2, <2>3, <2>4, <2>5, <2>6, <2>7, <2>8, <2>9 DEF IInv
  <1> QED
    BY <1>3, <1>4

\* set_muted tells the session that it found; a newer one has read the setting.
LEMMA SetMicrophoneEnabledStep ==
  ASSUME IInv, SetMicrophoneEnabled, UNCHANGED scene
  PROVE  IInv'
  <1> USE VoiceClientConstants, ThreadsDistinct, IdleFacts
  <1>1. /\ call["gui"].step = "mic" /\ call["gui"].next = "idle" /\ call["gui"].updates = {}
        /\ call["gui"].session \in Sessions
        /\ microphone' = IF call["gui"].session \notin open THEN microphone
                         ELSE [microphone EXCEPT ![call["gui"].session] = call["gui"].value]
    BY CallTyped DEF SetMicrophoneEnabled, IInv, Threaded, InOrder, Locked, Threads
  <1>2. UNCHANGED <<connected, voice_requested, voice_muted, voice_deafened,
                  voice_peer_muted, voice_session, voice_bindings, lifecycle, open,
                  offered, answered, tracks, answers, enabled, scheduled,
                  recovery_queue, gaveUp, lateMute, overlapped>>
    BY DEF SetMicrophoneEnabled, settings, current, webrtc, recovery, history
  <1>3. PICK c : Returned("gui", c)
    BY Returns DEF SetMicrophoneEnabled, IInv
  <1>4. TypeOK'
    BY <1>1, <1>2, <1>3, CallTyped DEF IInv, TypeOK, Moved, Returned
  <1>5. Threaded'
    BY <1>1, <1>2, <1>3 DEF IInv, Threaded, InOrder, Locked, Moved, Returned
  <1>6. SessionOwned'
    BY <1>1, <1>2, <1>3 DEF IInv, SessionOwned, SessionHeld, Moved, Returned
  <1>7. SessionWanted'
    BY <1>1, <1>2, <1>3 DEF IInv, SessionWanted, Starting, Moved, Returned
  <1>8. MicrophoneTold'
    <2>1. /\ \A o \in Threads :
                call'[o].step \in {"create", "install"} => call'[o] = call[o]
          /\ call'["gui"].step # "mic"
      BY <1>1, <1>3 DEF Moved, Returned
    <2>2. \A s \in Sessions : s # call["gui"].session => microphone'[s] = microphone[s]
      BY <1>1 DEF IInv, TypeOK
    <2>3. ASSUME NEW o \in Threads PROVE MicrophoneHeld(o)'
      <3>1. call'[o].step \in {"create", "install"} =>
              call[o].session \in Sessions /\ call[o].session # call["gui"].session
        BY <1>1, <2>1 DEF IInv, MicrophoneTold, MicrophoneHeld, Threaded, InOrder
      <3> QED
        BY <1>2, <2>1, <2>2, <3>1 DEF IInv, MicrophoneTold, MicrophoneHeld
    <2>4. voice_session \in open /\ ~lateMute =>
            (microphone'[voice_session] <=> ~voice_muted)
      <3>1. CASE voice_session \in open /\ call["gui"].session = voice_session
        <4>1. microphone'[voice_session] = call["gui"].value
          BY <1>1, <3>1 DEF IInv, TypeOK
        <4> QED
          BY <1>1, <4>1 DEF IInv, MicrophoneTold
      <3>2. CASE voice_session \in open /\ call["gui"].session # voice_session
        <4>1. microphone'[voice_session] = microphone[voice_session]
          BY <2>2, <3>2 DEF IInv, TypeOK
        <4> QED
          BY <3>2, <4>1 DEF IInv, MicrophoneTold
      <3> QED
        BY <3>1, <3>2
    <2> QED
      BY <1>2, <2>1, <2>3, <2>4 DEF MicrophoneTold
  <1>9. SessionsFresh'
    <2>1. \A o \in Threads : call'[o].updates = call[o].updates
      BY <1>1, <1>3 DEF Moved, Returned
    <2>2. \A o \in Threads : call'[o].step \in {"create", "install"} => call'[o] = call[o]
      BY <1>1, <1>3 DEF Moved, Returned
    <2> QED
      BY <1>2, <2>1, <2>2, FreshKept DEF IInv
  <1>10. UpdatesSound'
    <2>1. \A o \in Threads : call'[o].updates \subseteq call[o].updates
      BY <1>1, <1>2, <1>3 DEF Moved, Returned
    <2> QED
      BY <1>2, <2>1, UpdatesKept DEF IInv
  <1>11. TracksSound'
    BY <1>1, <1>2, <1>3 DEF IInv, TracksSound, Pending, Heard, Moved, Returned
  <1> QED
    BY <1>4, <1>5, <1>6, <1>7, <1>8, <1>9, <1>10, <1>11 DEF IInv

\* Tracks that are not bound are not heard before and after.
LEMMA SetDeafenedStep ==
  ASSUME IInv, SetDeafened, UNCHANGED scene
  PROVE  IInv'
  <1> USE VoiceClientConstants, ThreadsDistinct, IdleFacts
  <1>1. /\ call["gui"] = Idle /\ voice_deafened' = ~voice_deafened
    BY DEF SetDeafened, IInv, Threaded, InOrder, Locked, Threads
  <1>2. UNCHANGED <<connected, voice_requested, voice_muted, voice_peer_muted,
                  voice_session, voice_bindings, lifecycle, open, microphone, offered,
                  answered, tracks, answers, enabled, scheduled, recovery_queue, gaveUp,
                  lateMute>>
    BY DEF SetDeafened, settings, current, webrtc, recovery, history
  <1>3. PICK c, d : /\ d \in BOOLEAN /\ voice_deafened' = d
                    /\ Computed("gui", c, voice_session, Bound(voice_bindings), voice_bindings,
                                d, voice_peer_muted)
    <2>1. PICK d \in BOOLEAN :
            /\ voice_deafened' = d
            /\ Compute("gui", voice_session, Bound(voice_bindings), voice_bindings, d,
                       voice_peer_muted)
      BY DEF SetDeafened
    <2>2. /\ Bound(voice_bindings) \in SUBSET Mids
          /\ voice_session \in Sessions \cup {None}
      BY DEF IInv, TypeOK, Bound
    <2> QED
      BY <2>1, <2>2, Computes DEF IInv
  <1>4. TypeOK'
    <2>1. Bound(voice_bindings) \in SUBSET Mids
      BY DEF Bound
    <2>2. overlapped' \subseteq Mids /\ call' \in [Threads -> Calls]
      BY <1>1, <1>2, <1>3, <2>1, ComputedTyped DEF IInv
    <2> QED
      BY <1>1, <1>2, <1>3, <2>2 DEF IInv, TypeOK
  <1>5. Threaded'
    BY <1>1, <1>2, <1>3 DEF IInv, Threaded, InOrder, Locked, Moved, Computed
  <1>6. SessionOwned'
    BY <1>1, <1>2, <1>3 DEF IInv, SessionOwned, SessionHeld, Moved, Computed
  <1>7. SessionWanted'
    BY <1>1, <1>2, <1>3 DEF IInv, SessionWanted, Starting, Moved, Computed
  <1>8. MicrophoneTold'
    BY <1>1, <1>2, <1>3 DEF IInv, MicrophoneTold, MicrophoneHeld, Moved, Computed
  <1>9. SessionsFresh'
    <2>1. ASSUME NEW o \in Threads, call'[o].step \in {"create", "install"}
          PROVE  Fresh(call[o].session)'
      <3>1. call'[o] = call[o] /\ voice_session = None /\ call[o].session \in Sessions
        BY <1>1, <1>2, <1>3, <2>1
           DEF IInv, Computed, Moved, SessionOwned, SessionHeld, Threaded, InOrder
      <3>2. \A k \in Threads : call'[k].updates = call[k].updates
        BY <1>1, <1>2, <1>3, <3>1 DEF Computed, Moved
      <3>3. Fresh(call[o].session)
        BY <2>1, <3>1 DEF IInv, SessionsFresh
      <3> QED
        BY <1>1, <1>2, <1>3, <3>1, <3>2, <3>3 DEF Fresh
    <2> QED
      BY <1>1, <1>2, <1>3, <2>1 DEF IInv, SessionsFresh
  <1>10. UpdatesSound' /\ TracksSound'
    <2>1. Bound(voice_bindings) \in SUBSET Mids
      BY DEF Bound
    <2>2. \A k \in Mids \ Bound(voice_bindings) : Heard(k) => Heard(k)'
      BY <1>1, <1>2, <1>3 DEF Heard, Wanted, Bound
    <2>3. /\ UpdatesSound /\ TracksSound /\ call["gui"].updates = {} /\ TypeOK
          /\ voice_session \in Sessions \cup {None}
      BY <1>1 DEF IInv, TypeOK
    <2> QED
      BY <1>1, <1>2, <1>3, <2>1, <2>2, <2>3, ComputeSound
  <1> QED
    BY <1>4, <1>5, <1>6, <1>7, <1>8, <1>9, <1>10 DEF IInv

\* set_peer_muted stores the choice and computes the updates of the peer's tracks.
LEMMA SetPeerMutedStep ==
  ASSUME IInv, NEW p \in Peers, NEW mute \in BOOLEAN, SetPeerMuted(p, mute), UNCHANGED scene
  PROVE  IInv'
  <1> USE VoiceClientConstants, ThreadsDistinct, IdleFacts
  <1>1. /\ call["gui"] = Idle
    BY DEF SetPeerMuted, IInv, Threaded, InOrder, Locked, Threads
  <1>2. UNCHANGED <<connected, voice_requested, voice_muted, voice_deafened,
                  voice_session, voice_bindings, lifecycle, open, microphone, offered,
                  answered, tracks, answers, enabled, scheduled, recovery_queue, gaveUp,
                  lateMute>>
    BY DEF SetPeerMuted, settings, current, webrtc, recovery, history
  <1>3. PICK c, mutes : /\ mutes \in SUBSET Peers /\ voice_peer_muted' = mutes
                        /\ Computed("gui", c, voice_session, Bound(voice_bindings),
                                    voice_bindings, voice_deafened, mutes)
    <2>1. PICK mutes \in SUBSET Peers :
            /\ voice_peer_muted' = mutes
            /\ Compute("gui", voice_session, Bound(voice_bindings), voice_bindings,
                       voice_deafened, mutes)
      <3> DEFINE ps == IF mute THEN voice_peer_muted \cup {p} ELSE voice_peer_muted \ {p}
      <3>1. ps \in SUBSET Peers
        BY DEF IInv, TypeOK
      <3>2. /\ voice_peer_muted' = ps
            /\ Compute("gui", voice_session, Bound(voice_bindings), voice_bindings,
                       voice_deafened, ps)
        BY DEF SetPeerMuted
      <3> HIDE DEF ps
      <3> QED
        BY <3>1, <3>2
    <2>2. /\ Bound(voice_bindings) \in SUBSET Mids /\ voice_deafened \in BOOLEAN
          /\ voice_session \in Sessions \cup {None}
      BY DEF IInv, TypeOK, Bound
    <2> QED
      BY <2>1, <2>2, Computes DEF IInv
  <1>4. TypeOK'
    <2>1. Bound(voice_bindings) \in SUBSET Mids
      BY DEF Bound
    <2>2. overlapped' \subseteq Mids /\ call' \in [Threads -> Calls]
      BY <1>1, <1>2, <1>3, <2>1, ComputedTyped DEF IInv
    <2> QED
      BY <1>1, <1>2, <1>3, <2>2 DEF IInv, TypeOK
  <1>5. Threaded'
    BY <1>1, <1>2, <1>3 DEF IInv, Threaded, InOrder, Locked, Moved, Computed
  <1>6. SessionOwned'
    BY <1>1, <1>2, <1>3 DEF IInv, SessionOwned, SessionHeld, Moved, Computed
  <1>7. SessionWanted'
    BY <1>1, <1>2, <1>3 DEF IInv, SessionWanted, Starting, Moved, Computed
  <1>8. MicrophoneTold'
    BY <1>1, <1>2, <1>3 DEF IInv, MicrophoneTold, MicrophoneHeld, Moved, Computed
  <1>9. SessionsFresh'
    <2>1. ASSUME NEW o \in Threads, call'[o].step \in {"create", "install"}
          PROVE  Fresh(call[o].session)'
      <3>1. call'[o] = call[o] /\ voice_session = None /\ call[o].session \in Sessions
        BY <1>1, <1>2, <1>3, <2>1
           DEF IInv, Computed, Moved, SessionOwned, SessionHeld, Threaded, InOrder
      <3>2. \A k \in Threads : call'[k].updates = call[k].updates
        BY <1>1, <1>2, <1>3, <3>1 DEF Computed, Moved
      <3>3. Fresh(call[o].session)
        BY <2>1, <3>1 DEF IInv, SessionsFresh
      <3> QED
        BY <1>1, <1>2, <1>3, <3>1, <3>2, <3>3 DEF Fresh
    <2> QED
      BY <1>1, <1>2, <1>3, <2>1 DEF IInv, SessionsFresh
  <1>10. UpdatesSound' /\ TracksSound'
    <2>1. Bound(voice_bindings) \in SUBSET Mids
      BY DEF Bound
    <2>2. \A k \in Mids \ Bound(voice_bindings) : Heard(k) => Heard(k)'
      BY <1>1, <1>2, <1>3 DEF Heard, Wanted, Bound
    <2>3. /\ UpdatesSound /\ TracksSound /\ call["gui"].updates = {} /\ TypeOK
          /\ voice_session \in Sessions \cup {None}
      BY <1>1 DEF IInv, TypeOK
    <2> QED
      BY <1>1, <1>2, <1>3, <2>1, <2>2, <2>3, ComputeSound
  <1> QED
    BY <1>4, <1>5, <1>6, <1>7, <1>8, <1>9, <1>10 DEF IInv

\* The PeerConnection of a session fails, which only asks for a recovery.
LEMMA ConnectionFailsStep ==
  ASSUME IInv, NEW s \in Sessions, ConnectionFails(s), UNCHANGED scene
  PROVE  IInv'
  <1> USE VoiceClientConstants, ThreadsDistinct, IdleFacts
  <1>1. /\ Len(recovery_queue) < scene.failures /\ scheduled' = scheduled \cup {s}
        /\ recovery_queue' = Append(recovery_queue, s)
    BY DEF ConnectionFails, IInv, Threaded, InOrder, Locked, Threads
  <1>2. UNCHANGED <<connected, voice_requested, voice_muted, voice_deafened,
                  voice_peer_muted, voice_session, voice_bindings, lifecycle, open,
                  microphone, offered, answered, tracks, answers, enabled, gaveUp,
                  lateMute, overlapped, call>>
    BY DEF ConnectionFails, settings, current, webrtc, history
  <1>3. /\ recovery_queue' \in Seq(Sessions \cup {None})
        /\ Len(recovery_queue') <= scene.failures
    <2>1. recovery_queue \in Seq(Sessions \cup {None}) /\ scene.failures \in Nat
      BY DEF IInv, TypeOK
    <2> QED
      BY <1>1, <2>1
  <1>4. TypeOK'
    BY <1>1, <1>2, <1>3 DEF IInv, TypeOK, Moved
  <1>5. Threaded'
    BY <1>1, <1>2, <1>3 DEF IInv, Threaded, InOrder, Locked, Moved
  <1>6. SessionOwned'
    BY <1>1, <1>2, <1>3 DEF IInv, SessionOwned, SessionHeld, Moved
  <1>7. SessionWanted'
    BY <1>1, <1>2, <1>3 DEF IInv, SessionWanted, Starting, Moved
  <1>8. MicrophoneTold'
    BY <1>1, <1>2, <1>3 DEF IInv, MicrophoneTold, MicrophoneHeld, Moved
  <1>9. SessionsFresh'
    BY <1>1, <1>2, <1>3 DEF IInv, SessionsFresh, Fresh, Moved
  <1>10. UpdatesSound'
    BY <1>1, <1>2, <1>3 DEF IInv, UpdatesSound, Heard, Moved
  <1>11. TracksSound'
    BY <1>1, <1>2, <1>3 DEF IInv, TracksSound, Pending, Heard, Moved
  <1> QED
    BY <1>4, <1>5, <1>6, <1>7, <1>8, <1>9, <1>10, <1>11 DEF IInv

\* A recovery stops the session and is then bound to start another.
LEMMA RecoverVoiceSessionStep ==
  ASSUME IInv, RecoverVoiceSession, UNCHANGED scene
  PROVE  IInv'
  <1> USE VoiceClientConstants, ThreadsDistinct, IdleFacts
  <1>1. /\ call["worker"] = Idle /\ recovery_queue # <<>>
        /\ recovery_queue' = Tail(recovery_queue)
        /\ recovery_queue' \in Seq(Sessions \cup {None})
        /\ Len(recovery_queue') <= scene.failures
    BY DEF RecoverVoiceSession, IInv, Threaded, InOrder, Locked, Threads, TypeOK
  <1>2. UNCHANGED <<connected, voice_requested, voice_muted, voice_deafened,
                  voice_peer_muted, voice_session, voice_bindings, lifecycle, open,
                  microphone, offered, answered, tracks, answers, enabled, scheduled,
                  gaveUp, lateMute, overlapped>>
    BY DEF RecoverVoiceSession, settings, current, webrtc, recovery, history
  <1>3. CASE call' = call
    <2>1. PICK c : c = call["worker"]
      OBVIOUS
    <2>2. TypeOK'
      BY <1>1, <1>2, <1>3, <2>1 DEF IInv, TypeOK, Moved
    <2>3. Threaded'
      BY <1>1, <1>2, <1>3, <2>1 DEF IInv, Threaded, InOrder, Locked, Moved
    <2>4. SessionOwned'
      BY <1>1, <1>2, <1>3, <2>1 DEF IInv, SessionOwned, SessionHeld, Moved
    <2>5. SessionWanted'
      BY <1>1, <1>2, <1>3, <2>1 DEF IInv, SessionWanted, Starting, Moved
    <2>6. MicrophoneTold'
      BY <1>1, <1>2, <1>3, <2>1 DEF IInv, MicrophoneTold, MicrophoneHeld, Moved
    <2>7. SessionsFresh'
      BY <1>1, <1>2, <1>3, <2>1 DEF IInv, SessionsFresh, Fresh, Moved
    <2>8. UpdatesSound'
      BY <1>1, <1>2, <1>3, <2>1 DEF IInv, UpdatesSound, Heard, Moved
    <2>9. TracksSound'
      BY <1>1, <1>2, <1>3, <2>1 DEF IInv, TracksSound, Pending, Heard, Moved
    <2> QED
      BY <2>2, <2>3, <2>4, <2>5, <2>6, <2>7, <2>8, <2>9 DEF IInv
  <1>4. CASE call' = [call EXCEPT !["worker"] = StopThenStart]
    <2>1. PICK c : /\ Moved("worker", c) /\ c.step = "stop" /\ c.next = "start"
                   /\ c.updates = {} /\ c.session = None
      <3>1. /\ StopThenStart \in Calls
            /\ StopThenStart.step = "stop" /\ StopThenStart.next = "start"
            /\ StopThenStart.updates = {} /\ StopThenStart.session = None
        BY DEF StopThenStart, Idle, Calls, Steps
      <3> QED
        BY <1>4, <3>1, MovedTo DEF IInv
    <2>2. TypeOK'
      BY <1>1, <1>2, <1>4, <2>1 DEF IInv, TypeOK, Moved
    <2>3. Threaded'
      BY <1>1, <1>2, <1>4, <2>1 DEF IInv, Threaded, InOrder, Locked, Moved
    <2>4. SessionOwned'
      BY <1>1, <1>2, <1>4, <2>1 DEF IInv, SessionOwned, SessionHeld, Moved
    <2>5. SessionWanted'
      BY <1>1, <1>2, <1>4, <2>1 DEF IInv, SessionWanted, Starting, Moved
    <2>6. MicrophoneTold'
      BY <1>1, <1>2, <1>4, <2>1 DEF IInv, MicrophoneTold, MicrophoneHeld, Moved
    <2>7. SessionsFresh'
      BY <1>1, <1>2, <1>4, <2>1 DEF IInv, SessionsFresh, Fresh, Moved
    <2>8. UpdatesSound'
      BY <1>1, <1>2, <1>4, <2>1 DEF IInv, UpdatesSound, Heard, Moved
    <2>9. TracksSound'
      BY <1>1, <1>2, <1>4, <2>1 DEF IInv, TracksSound, Pending, Heard, Moved
    <2> QED
      BY <2>2, <2>3, <2>4, <2>5, <2>6, <2>7, <2>8, <2>9 DEF IInv
  <1> QED
    BY <1>3, <1>4 DEF RecoverVoiceSession

-----------------------------------------------------------------------------
\* The client begins without session, request and track.
LEMMA VoiceInit == Init => IInv
  <1> SUFFICES ASSUME Init PROVE IInv
    OBVIOUS
  <1> USE VoiceClientConstants, ThreadsDistinct, IdleFacts
  <1>1. \A t \in Threads : call[t] = Idle
    BY DEF Init
  <1>2. /\ scene.answers \in Nat /\ scene.failures \in Nat
        /\ <<>> \in Seq(Sessions \cup {None})
    BY DEF Init
  <1>3. TypeOK
    <2>1. /\ microphone \in [Sessions -> BOOLEAN]
          /\ answered \in [Sessions -> {None, "own", "foreign"}]
          /\ tracks \in [Sessions -> SUBSET Mids] /\ enabled \in [Sessions -> SUBSET Mids]
      BY DEF Init
    <2>2. Len(answers) <= scene.answers /\ Len(recovery_queue) <= scene.failures
      BY <1>2 DEF Init
    <2>3. call \in [Threads -> Calls] /\ voice_bindings \in [Mids -> Peers \cup {None}]
      BY DEF Init
    <2> QED
      BY <1>2, <2>1, <2>2, <2>3 DEF Init, TypeOK
  <1>4. Threaded
    BY <1>1 DEF Init, Threaded, InOrder, Locked
  <1>5. SessionOwned /\ SessionWanted
    BY <1>1 DEF Init, SessionOwned, SessionHeld, SessionWanted
  <1>6. MicrophoneTold /\ SessionsFresh
    BY <1>1 DEF Init, MicrophoneTold, MicrophoneHeld, SessionsFresh
  <1>7. UpdatesSound /\ TracksSound
    BY <1>1 DEF Init, UpdatesSound, TracksSound
  <1> QED
    BY <1>3, <1>4, <1>5, <1>6, <1>7 DEF IInv

\* Every step of the client keeps the invariant.
LEMMA VoiceNext == IInv /\ [Next]_<<scene, vars>> => IInv'
  <1> SUFFICES ASSUME IInv, [Next]_<<scene, vars>> PROVE IInv'
    OBVIOUS
  <1>1. CASE UNCHANGED <<scene, vars>>
    <2> USE <1>1 DEF vars, settings, current, webrtc, recovery, history
    <2>1. TypeOK' /\ Threaded'
      BY DEF IInv, TypeOK, Threaded, InOrder, Locked
    <2>2. SessionOwned' /\ SessionWanted'
      BY DEF IInv, SessionOwned, SessionHeld, SessionWanted, Starting
    <2>3. MicrophoneTold' /\ SessionsFresh'
      BY DEF IInv, MicrophoneTold, MicrophoneHeld, SessionsFresh, Fresh
    <2>4. UpdatesSound' /\ TracksSound'
      BY DEF IInv, UpdatesSound, TracksSound, Pending, Heard
    <2> QED
      BY <2>1, <2>2, <2>3, <2>4 DEF IInv
  <1>2. ASSUME UNCHANGED scene, NEW t \in Threads, Proceed(t) PROVE IInv'
    BY <1>2, StartVoiceIfRequestedStep, CreateSessionStep, InstallSessionStep,
       StopVoiceSessionStep, CloseSessionStep, ApplyUpdateStep DEF Proceed
  <1>3. ASSUME UNCHANGED scene, Webrtc \/ UserCalls \/ ServerCalls PROVE IInv'
    BY <1>3, SendOfferStep, RemoteTrackStep, StartVoiceStep, StopVoiceStep, SetMutedStep,
       SetDeafenedStep, SetPeerMutedStep, SignalingStateStep, ApplyBindingStep,
       RemovePeerStep DEF Webrtc, UserCalls, ServerCalls
  <1>4. CASE Next
    BY <1>2, <1>3, <1>4, SetMicrophoneEnabledStep, ApplyAnswerStep,
       RecoverVoiceSessionStep, ConnectionFailsStep DEF Next
  <1> QED
    BY <1>1, <1>4

\* The inductive invariant: what each thread of google_webrtc_client.cpp is doing,
\* and what that says of the mutex, the session, the microphone and the tracks.
THEOREM VoiceInvariant == Spec => []IInv
  BY VoiceInit, VoiceNext, PTL DEF Spec

\* No order of start_voice, stop_voice, reconnects and recoveries leaves a
\* PeerConnection open that the client does not know of.
THEOREM NoSessionIsOrphaned == Spec => []NoOrphanSession
  <1>1. IInv => NoOrphanSession
    <2> SUFFICES ASSUME IInv, NEW s \in open
                 PROVE  \/ s = voice_session
                        \/ lifecycle # None /\ call[lifecycle].session = s
      BY DEF IInv, NoOrphanSession
    <2>1. CASE \A t \in Threads : call[t].step \notin {"create", "install", "close"}
      BY <2>1 DEF IInv, SessionOwned
    <2>2. CASE \E t \in Threads : call[t].step \in {"create", "install", "close"}
      <3>1. PICK t \in Threads : call[t].step \in {"create", "install", "close"}
        BY <2>2
      <3>2. lifecycle = t /\ SessionHeld(t)
        BY <3>1 DEF IInv, Threaded, Locked, SessionOwned
      <3> QED
        BY <3>1, <3>2, ThreadsDistinct DEF SessionHeld
    <2> QED
      BY <2>1, <2>2
  <1> QED
    BY <1>1, VoiceInvariant, PTL

\* At rest there is a session exactly if voice is requested and signaling is up,
\* unless the last attempt to start one failed.
THEOREM SessionIsAsRequested == Spec => []SessionAsRequested
  <1>1. IInv => SessionAsRequested
    <2> SUFFICES ASSUME IInv, \A t \in Threads : call[t] = Idle
                 PROVE  /\ voice_session # None => voice_requested /\ connected
                        /\ voice_requested /\ connected /\ ~gaveUp => voice_session # None
      BY DEF SessionAsRequested
    <2>1. \A t \in Threads : call[t].step = "idle"
      BY IdleFacts
    <2> QED
      BY <2>1, ThreadsDistinct DEF IInv, SessionWanted, Starting
  <1> QED
    BY <1>1, VoiceInvariant, PTL

\* Whatever sessions replace one another, the microphone is as set_muted says and
\* nobody is heard whom set_deafened or set_peer_muted silenced; the exceptions are
\* the settings and the updates that lateMute and overlapped record.
THEOREM SettingsAreApplied == Spec => []SettingsTakeEffect
  <1>1. IInv => MicrophoneAsSet
    <2> SUFFICES ASSUME IInv, voice_session \in open, call["gui"].step # "mic", ~lateMute
                 PROVE  microphone[voice_session] = ~voice_muted
      BY DEF MicrophoneAsSet
    <2>1. microphone[voice_session] \in BOOLEAN /\ voice_muted \in BOOLEAN
      BY DEF IInv, TypeOK
    <2>2. microphone[voice_session] <=> ~voice_muted
      BY DEF IInv, MicrophoneTold
    <2> QED
      BY <2>1, <2>2
  <1>2. IInv => SilencedAreSilent
    <2> SUFFICES ASSUME IInv, voice_session \in open,
                        NEW m \in tracks[voice_session] \ overlapped,
                        m \in enabled[voice_session], \A t \in Threads : ~Pending(t, m)
                 PROVE  voice_bindings[m] \in Peers \ voice_peer_muted /\ ~voice_deafened
      BY DEF SilencedAreSilent
    <2>1. Heard(m)
      BY DEF IInv, TracksSound
    <2>2. voice_bindings[m] \in Peers \cup {None}
      BY DEF IInv, TypeOK
    <2> QED
      BY <2>1, <2>2 DEF Heard, Wanted
  <1> QED
    BY <1>1, <1>2, VoiceInvariant, PTL DEF SettingsTakeEffect

-----------------------------------------------------------------------------
(***************************************************************************)
(* The updater and the swap of files.  SwapInv says where every file is,   *)
(* by the phase of the swap and the entry it has reached: those done,      *)
(* those under way and those still to come on the way forward, and what is *)
(* left to put back on the way back.                                       *)
(***************************************************************************)
\* The entry that is being moved forward.
BeingMoved == IF phase \in {"backup", "install"} THEN {entry} ELSE {}

\* What the next entries of a rollback are.
ToUninstall == IF phase = "undo_install" THEN {e \in installed : e <= entry} ELSE {}
ToRestore == CASE phase = "undo_install" -> backedUp
               [] phase = "undo_backup" -> {e \in backedUp : e <= entry}
               [] OTHER -> {}

\* A directory holds files of the old version, of the new one, or none.
Kinds == {"none", "old", "new"}
Contents == [Paths -> Kinds]

\* What the swap works on.
SwapTyped ==
    /\ image \in BOOLEAN
    /\ tree \in [Dirs -> Contents]
    /\ phase \in Moving \cup {"idle", "ok", "failed"}
    /\ phase \in Moving => entry \in Entries
    /\ backedUp \subseteq Entries /\ installed \subseteq Entries
    /\ attempt \in 0..2 /\ failures \in Nat /\ attempt <= failures
    /\ rootBefore \in Contents /\ payloadBefore \in Contents

\* What the entries being or having been installed consist of is new, and the
\* payload never holds anything else: moving it back overwrites and takes nothing old.
OnlyNewMoves ==
    /\ \A p \in Paths : tree["payload"][p] # "old"
    /\ phase \in {"backup", "install", "undo_install"} =>
        \A p \in Paths : p[1] \in installed \/ (phase = "install" /\ p[1] = entry) =>
            tree["root"][p] # "old"
    /\ phase = "undo_install" => entry \in installed

\* On the way forward: entries are done, under way or as they were.
DoneUpTo ==
    /\ \A p \in Paths : p[1] \in installed =>
        tree["root"][p] = payloadBefore[p] /\ tree["payload"][p] = "none"
    /\ \A p \in Paths : p[1] \notin installed \cup BeingMoved =>
        tree["root"][p] = rootBefore[p] /\ tree["payload"][p] = payloadBefore[p]
    /\ \A p \in Paths : payloadBefore[p] # "none" =>
        p[1] \in installed \/ (phase # "ok" /\ p[1] >= entry)
    /\ \A e \in installed : \E p \in FilesOf(e) : payloadBefore[p] # "none"

\* The entry under way lies in two of the directories, file by file.
UnderWay ==
    /\ \A e \in installed : e < entry
    /\ \E p \in FilesOf(entry) : payloadBefore[p] # "none"
    /\ phase = "backup" => \A p \in FilesOf(entry) :
        /\ tree["payload"][p] = payloadBefore[p]
        /\ \/ tree["root"][p] = rootBefore[p]
           \/ tree["root"][p] = "none" /\ tree["old"][p] = rootBefore[p]
    /\ phase = "install" => \A p \in FilesOf(entry) :
        \/ tree["payload"][p] = payloadBefore[p] /\ tree["root"][p] = "none"
        \/ tree["payload"][p] = "none" /\ tree["root"][p] = payloadBefore[p]

\* What was replaced lies in the backup and will be moved back.
Replaced(p) == tree["old"][p] = rootBefore[p] /\ p[1] \in backedUp

Forward ==
    /\ phase \in {"backup", "install", "ok"} => DoneUpTo
    /\ phase \in {"backup", "install"} =>
        /\ UnderWay
        /\ \A p \in Paths : rootBefore[p] # "none" =>
            (p[1] \in installed \/ (phase = "install" /\ p[1] = entry) => Replaced(p))

\* On the way back, with no entry half moved and no move of the rollback failed.
Backward ==
    phase \in Undoing \cup {"failed"} /\ ~torn /\ ~undoFailed =>
        /\ \A p \in Paths : rootBefore[p] # "none" =>
            /\ \/ tree["root"][p] = rootBefore[p]
               \/ tree["old"][p] = rootBefore[p] /\ p[1] \in ToRestore
            /\ phase = "undo_install" /\ p[1] \in installed => Replaced(p)
        /\ \A p \in Paths :
            /\ \/ tree["payload"][p] = payloadBefore[p]
               \/ /\ p[1] \in ToUninstall /\ tree["payload"][p] = "none"
                  /\ tree["root"][p] = payloadBefore[p]
            /\ p[1] \in ToUninstall => tree["root"][p] \in {"none", payloadBefore[p]}

\* The one file of an AppImage.
Client == <<1, 1>>

\* It lies in one of two directories.
InOneOf(d, e) ==
    \/ tree[d][Client] # "none" /\ tree[e][Client] = "none"
    \/ tree[d][Client] = "none" /\ tree[e][Client] # "none"

\* Until the sixth failure the file lies where the swap will find it.
ImageSafe ==
    image =>
        /\ \A d \in Dirs : \A p \in Paths \ ImagePaths : tree[d][p] = "none"
        /\ failures < 6 =>
            /\ phase \in {"idle", "ok", "failed"} => tree["root"][Client] # "none"
            /\ phase \in {"backup", "install", "undo_backup"} => entry = 1
            /\ phase = "backup" =>
                /\ InOneOf("root", "old") /\ backedUp = {} /\ installed = {}
                /\ rootBefore[Client] # "none"
            /\ phase = "install" =>
                /\ InOneOf("payload", "root") /\ tree["old"][Client] # "none"
                /\ backedUp = {1} /\ installed = {}
            /\ phase = "undo_backup" =>
                InOneOf("old", "root") /\ backedUp = {1} /\ failures >= 3 + attempt
            /\ phase # "undo_install"

SwapInv == SwapTyped /\ OnlyNewMoves /\ Forward /\ Backward /\ ImageSafe /\ NoFileLost

\* The updater is blocked exactly while a swap goes on.
Blocked == state = "applying" <=> phase # "idle"

\* A signed manifest announced a newer version.
Announced == manifest.signed /\ manifest.version > Current

\* What the updater waits for.
Waiting ==
    /\ \A r, s \in replies : r = s
    /\ \A r \in replies :
        /\ r \in [kind : {"manifest", "signature", "archive"}, gen : {generation},
                  endless : BOOLEAN]
        /\ state = IF r.kind = "archive" THEN "downloading" ELSE "checking"
    /\ process => state = "extracting"

\* What is offered, fetched and ready is what was announced, or swept away.
Offered ==
    /\ state \in {"updateAvailable", "downloading", "extracting"} \/ payload # "none" =>
        Announced
    /\ payload \in {"none", "announced", "swept"}
    /\ payload # "none" => state \in {"readyToApply", "applying", "error", "quit"}
    /\ payload = "swept" => swept
    /\ state = "extracting" => file = "announced" \/ (file = "swept" /\ swept)

\* All that holds of the updater and the files.
ManagerInv ==
    /\ generation \in Nat /\ ManagerTypeOK /\ Waiting /\ Offered /\ NoticeAsDismissed
    /\ Blocked /\ SwapInv

-----------------------------------------------------------------------------
\* Numbers have a least one among them, and finitely many a greatest.
LEMMA LeastNumber ==
  ASSUME NEW T, T \subseteq Nat, T # {}
  PROVE  \E x \in T : \A y \in T : x <= y
  <1>1. PICK x \in T : \A y \in T : ~(<<y, x>> \in OpToRel(<, Nat))
    BY NatLessThanWellFounded, WFMin
  <1>2. \A y \in T : ~(y < x)
    BY <1>1 DEF OpToRel
  <1> QED
    BY <1>2

\* ... and numbers up to a bound a greatest.
LEMMA GreatestExists ==
  ASSUME NEW n \in Nat, NEW T, T \subseteq 0..n, T # {}
  PROVE  \E x \in T : \A y \in T : x >= y
  <1> DEFINE U == {m \in 0..n : n - m \in T}
  <1>1. U \subseteq Nat
    OBVIOUS
  <1>2. U # {}
    <2>1. PICK t \in T : t \in 0..n
      OBVIOUS
    <2>2. n - t \in 0..n /\ n - (n - t) = t
      BY <2>1
    <2>3. n - t \in U
      BY <2>1, <2>2
    <2> QED
      BY <2>3
  <1> HIDE DEF U
  <1>3. PICK u \in U : \A v \in U : u <= v
    BY <1>1, <1>2, LeastNumber
  <1>4. u \in 0..n /\ n - u \in T
    BY <1>3 DEF U
  <1>5. \A y \in T : n - u >= y
    <2> SUFFICES ASSUME NEW y \in T PROVE n - u >= y
      OBVIOUS
    <2>1. y \in 0..n /\ n - y \in 0..n /\ n - (n - y) = y
      OBVIOUS
    <2>2. n - y \in U
      BY <2>1 DEF U
    <2> QED
      BY <1>3, <1>4, <2>1, <2>2
  <1> QED
    BY <1>4, <1>5

\* The next entry of the loop ...
LEMMA MinEntry ==
  ASSUME NEW T, T \subseteq Entries, T # {}
  PROVE  Min(T) \in T /\ \A y \in T : Min(T) <= y
  <1>1. T \subseteq Nat
    BY InstallSwapConstants DEF Entries
  <1> QED
    BY <1>1, LeastNumber DEF Min

\* ... and of the rollback.
LEMMA MaxEntry ==
  ASSUME NEW T, T \subseteq Entries, T # {}
  PROVE  Max(T) \in T /\ \A y \in T : Max(T) >= y
  <1>1. NumEntries \in Nat /\ T \subseteq 0..NumEntries
    BY InstallSwapConstants DEF Entries
  <1> QED
    BY <1>1, GreatestExists DEF Max

\* The entry a path is of.
LEMMA PathTyped ==
  ASSUME NEW p \in Paths
  PROVE  p[1] \in Entries /\ p[1] \in Nat /\ p[2] \in Nat
  BY InstallSwapConstants DEF Paths, Entries

\* The file that is moved next is one of the entry.
LEMMA FirstHeld ==
  ASSUME NEW d \in Dirs, NEW e, Held(d, e) # {}
  PROVE  First(Held(d, e)) \in Held(d, e)
  <1> DEFINE T == {p[2] : p \in Held(d, e)}
  <1>1. \A p \in Held(d, e) : p \in Paths /\ p[2] \in Nat
    BY PathTyped DEF Held, FilesOf
  <1>2. T \subseteq Nat /\ T # {}
    BY <1>1
  <1>3. PICK x \in T : \A y \in T : x <= y
    BY <1>2, LeastNumber
  <1>4. PICK p \in Held(d, e) : x = p[2]
    BY <1>3
  <1>5. \A q \in Held(d, e) : p[2] <= q[2]
    BY <1>3, <1>4
  <1> QED
    BY <1>4, <1>5 DEF First

-----------------------------------------------------------------------------
\* Where a file is moved from and to.
LEMMA Directions ==
  /\ phase = "backup" => From = "root" /\ To = "old"
  /\ phase = "install" => From = "payload" /\ To = "root"
  /\ phase = "undo_install" => From = "root" /\ To = "payload"
  /\ phase = "undo_backup" => From = "old" /\ To = "root"
  BY DEF From, To

\* One file of the entry moves, and nothing is overwritten.
Moves(d, e, p) ==
    /\ p \in Paths /\ p[1] = entry /\ d # e
    /\ tree[d][p] # "none" /\ tree[e][p] = "none"
    /\ tree'[e][p] = tree[d][p] /\ tree'[d][p] = "none"
    /\ \A f \in Dirs : \A q \in Paths : q # p \/ f \notin {d, e} => tree'[f][q] = tree[f][q]

\* MoveFile moves one file in one of the four directions.
LEMMA MoveEffect ==
  ASSUME SwapTyped, MoveFile
  PROVE  /\ From \in Dirs /\ To \in Dirs
         /\ tree' \in [Dirs -> Contents]
         /\ \E p \in Paths : Moves(From, To, p)
  <1>1. From \in Dirs /\ To \in Dirs /\ From # To
    BY Directions DEF MoveFile, Moving, Undoing, Dirs
  <1>2. First(Held(From, entry)) \in Held(From, entry)
    BY <1>1, FirstHeld DEF MoveFile
  <1>3. PICK p \in Held(From, entry) :
           /\ tree[To][p] = "none"
           /\ tree' = [tree EXCEPT ![To][p] = tree[From][p], ![From][p] = "none"]
    BY <1>2 DEF MoveFile, AlreadyThere
  <1>4. p \in Paths /\ p[1] = entry /\ tree[From][p] # "none"
    BY <1>3 DEF Held, FilesOf
  <1> DEFINE d == From
             e == To
  <1>5. /\ tree' = [tree EXCEPT ![e][p] = tree[d][p], ![d][p] = "none"]
        /\ d \in Dirs /\ e \in Dirs /\ d # e
    BY <1>1, <1>3
  <1> HIDE DEF d, e
  <1>6. tree \in [Dirs -> [Paths -> Kinds]] /\ "none" \in Kinds
    BY DEF SwapTyped, Contents, Kinds
  <1>7. tree' \in [Dirs -> [Paths -> Kinds]]
    BY <1>4, <1>5, <1>6
  <1>8. /\ tree'[e][p] = tree[d][p] /\ tree'[d][p] = "none"
        /\ \A f \in Dirs : \A q \in Paths : q # p \/ f \notin {d, e} => tree'[f][q] = tree[f][q]
    BY <1>4, <1>5, <1>6
  <1> QED
    BY <1>1, <1>3, <1>4, <1>7, <1>8 DEF Moves, Contents, d, e

-----------------------------------------------------------------------------
\* A file is moved, forward or back.
LEMMA MoveStep ==
  ASSUME SwapInv, UNCHANGED <<image, backupSwept>>, MoveFile
  PROVE  SwapInv'
  <1>1. /\ UNCHANGED <<phase, entry, backedUp, installed, failures, rootBefore, payloadBefore,
                       torn, undoFailed>>
        /\ attempt' = 0 /\ phase \in Moving
    BY DEF MoveFile, before
  <1>2. PICK p \in Paths : Moves(From, To, p)
    BY MoveEffect DEF SwapInv
  <1>3. SwapTyped'
    BY <1>1, MoveEffect DEF SwapInv, SwapTyped
  <1>4. p[1] = entry /\ p[1] \in Entries /\ p[1] \in Nat /\ p \in FilesOf(entry)
    BY <1>2, PathTyped DEF Moves, FilesOf
  <1>5. Dirs = {"root", "old", "payload"}
    BY DEF Dirs
  <1>6. CASE phase = "backup"
    <2>1. Moves("root", "old", p)
      BY <1>2, <1>6, Directions
    <2>2. OnlyNewMoves' /\ NoFileLost'
      BY <1>1, <1>5, <1>6, <2>1 DEF SwapInv, OnlyNewMoves, NoFileLost, Moves, Paths
    <2>3. entry \notin installed
      BY <1>4, <1>6 DEF SwapInv, Forward, UnderWay
    <2>4. DoneUpTo'
      BY <1>1, <1>4, <1>5, <1>6, <2>1, <2>3 DEF SwapInv, Forward, DoneUpTo, Moves, BeingMoved
    <2>5. UnderWay'
      BY <1>1, <1>4, <1>5, <1>6, <2>1 DEF SwapInv, Forward, UnderWay, Moves, FilesOf
    <2>6. Forward'
      BY <1>1, <1>4, <1>5, <1>6, <2>1, <2>3, <2>4, <2>5 DEF SwapInv, Forward, Replaced, Moves
    <2>7. Backward'
      BY <1>1, <1>6 DEF Backward, Undoing
    <2>8. ImageSafe'
      BY <1>1, <1>5, <1>6, <2>1 DEF SwapInv, ImageSafe, InOneOf, Moves, Client, ImagePaths
    <2> QED
      BY <1>3, <2>2, <2>6, <2>7, <2>8 DEF SwapInv
  <1>7. CASE phase = "install"
    <2>1. Moves("payload", "root", p)
      BY <1>2, <1>7, Directions
    <2>2. OnlyNewMoves' /\ NoFileLost'
      BY <1>1, <1>5, <1>7, <2>1 DEF SwapInv, OnlyNewMoves, NoFileLost, Moves, Paths
    <2>3. entry \notin installed
      BY <1>4, <1>7 DEF SwapInv, Forward, UnderWay
    <2>4. DoneUpTo'
      BY <1>1, <1>4, <1>5, <1>7, <2>1, <2>3 DEF SwapInv, Forward, DoneUpTo, Moves, BeingMoved
    <2>5. UnderWay'
      BY <1>1, <1>4, <1>5, <1>7, <2>1 DEF SwapInv, Forward, UnderWay, Moves, FilesOf
    <2>6. Forward'
      BY <1>1, <1>4, <1>5, <1>7, <2>1, <2>3, <2>4, <2>5 DEF SwapInv, Forward, Replaced, Moves
    <2>7. Backward'
      BY <1>1, <1>7 DEF Backward, Undoing
    <2>8. ImageSafe'
      BY <1>1, <1>5, <1>7, <2>1 DEF SwapInv, ImageSafe, InOneOf, Moves, Client, ImagePaths
    <2> QED
      BY <1>3, <2>2, <2>6, <2>7, <2>8 DEF SwapInv
  <1>8. CASE phase = "undo_install"
    <2>1. Moves("root", "payload", p)
      BY <1>2, <1>8, Directions
    <2>2. OnlyNewMoves' /\ NoFileLost'
      BY <1>1, <1>4, <1>5, <1>8, <2>1 DEF SwapInv, OnlyNewMoves, NoFileLost, Moves, Paths
    <2>3. Forward'
      BY <1>1, <1>8 DEF Forward
    <2>4. Backward'
      <3> SUFFICES ASSUME ~torn, ~undoFailed
                   PROVE  Backward'
        BY <1>1 DEF Backward
      <3>1. /\ ToUninstall' = ToUninstall /\ ToRestore' = ToRestore
            /\ entry \in installed /\ entry \in ToUninstall
        BY <1>1, <1>4, <1>8 DEF ToUninstall, ToRestore, SwapInv, OnlyNewMoves
      <3>2. \A q \in Paths : rootBefore[q] # "none" =>
               /\ \/ tree["root"][q] = rootBefore[q]
                  \/ tree["old"][q] = rootBefore[q] /\ q[1] \in ToRestore
               /\ q[1] \in installed => Replaced(q)
        BY <1>8 DEF SwapInv, Backward, Undoing
      <3>3. \A q \in Paths : tree'["old"][q] = tree["old"][q]
        BY <1>5, <2>1 DEF Moves
      <3>4. \A q \in Paths : rootBefore'[q] # "none" =>
               /\ \/ tree'["root"][q] = rootBefore'[q]
                  \/ tree'["old"][q] = rootBefore'[q] /\ q[1] \in ToRestore'
               /\ q[1] \in installed' => Replaced(q)'
        <4> SUFFICES ASSUME NEW q \in Paths, rootBefore[q] # "none"
                     PROVE  /\ \/ tree'["root"][q] = rootBefore[q]
                               \/ tree'["old"][q] = rootBefore[q] /\ q[1] \in ToRestore
                            /\ q[1] \in installed => Replaced(q)'
          BY <1>1, <3>1
        <4>1. q[1] \in installed => Replaced(q)'
          BY <1>1, <3>2, <3>3 DEF Replaced
        <4>2. CASE q = p
          <5>1. Replaced(p)
            BY <1>4, <3>1, <3>2, <4>2
          <5>2. tree'["old"][q] = rootBefore[q] /\ q[1] \in ToRestore
            BY <1>8, <3>3, <4>2, <5>1 DEF Replaced, ToRestore
          <5> QED
            BY <4>1, <5>2
        <4>3. CASE q # p
          <5>1. tree'["root"][q] = tree["root"][q]
            BY <1>5, <2>1, <4>3 DEF Moves
          <5> QED
            BY <3>2, <3>3, <4>1, <5>1
        <4> QED
          BY <4>2, <4>3
      <3>5. \A q \in Paths :
               /\ \/ tree["payload"][q] = payloadBefore[q]
                  \/ /\ q[1] \in ToUninstall /\ tree["payload"][q] = "none"
                     /\ tree["root"][q] = payloadBefore[q]
               /\ q[1] \in ToUninstall => tree["root"][q] \in {"none", payloadBefore[q]}
        BY <1>8 DEF SwapInv, Backward, Undoing
      <3>6. \A q \in Paths :
               /\ \/ tree'["payload"][q] = payloadBefore'[q]
                  \/ /\ q[1] \in ToUninstall' /\ tree'["payload"][q] = "none"
                     /\ tree'["root"][q] = payloadBefore'[q]
               /\ q[1] \in ToUninstall' => tree'["root"][q] \in {"none", payloadBefore'[q]}
        BY <1>1, <1>4, <1>5, <2>1, <3>1, <3>5 DEF Moves
      <3> QED
        BY <3>4, <3>6 DEF Backward
    <2>5. ImageSafe'
      BY <1>1, <1>5, <1>8, <2>1 DEF SwapInv, ImageSafe, Moves, Client, ImagePaths
    <2> QED
      BY <1>3, <2>2, <2>3, <2>4, <2>5 DEF SwapInv
  <1>9. CASE phase = "undo_backup"
    <2>1. Moves("old", "root", p)
      BY <1>2, <1>9, Directions
    <2>2. OnlyNewMoves' /\ NoFileLost'
      BY <1>1, <1>5, <1>9, <2>1 DEF SwapInv, OnlyNewMoves, NoFileLost, Moves, Paths
    <2>3. Forward'
      BY <1>1, <1>9 DEF Forward
    <2>4. Backward'
      <3>1. ToUninstall' = {} /\ ToUninstall = {} /\ ToRestore' = ToRestore
        BY <1>1, <1>9 DEF ToUninstall, ToRestore
      <3> QED
        BY <1>1, <1>5, <1>9, <2>1, <3>1 DEF SwapInv, Backward, Moves
    <2>5. ImageSafe'
      BY <1>1, <1>5, <1>9, <2>1 DEF SwapInv, SwapTyped, ImageSafe, InOneOf, Moves, Client,
         ImagePaths
    <2> QED
      BY <1>3, <2>2, <2>3, <2>4, <2>5 DEF SwapInv
  <1> QED
    BY <1>1, <1>6, <1>7, <1>8, <1>9 DEF Moving, Undoing

-----------------------------------------------------------------------------
\* A rollback begins with the last entry, or goes on with the one before.
LEMMA UndoStarts ==
  ASSUME NEW inst \in SUBSET Entries, NEW back \in SUBSET Entries, Go(UndoFrom(inst, back))
  PROVE  /\ phase' \in Undoing \cup {"failed"}
         /\ phase' \in Undoing => entry' \in Entries
         /\ inst # {} => /\ phase' = "undo_install" /\ entry' \in inst
                         /\ \A e \in inst : e <= entry'
         /\ inst = {} /\ back # {} => /\ phase' = "undo_backup" /\ entry' \in back
                                      /\ \A e \in back : e <= entry'
         /\ inst = {} /\ back = {} => phase' = "failed"
  <1>1. CASE inst # {}
    <2>1. phase' = "undo_install" /\ entry' = Max(inst)
      BY <1>1 DEF Go, UndoFrom
    <2> QED
      BY <1>1, <2>1, MaxEntry DEF Undoing
  <1>2. CASE inst = {} /\ back # {}
    <2>1. phase' = "undo_backup" /\ entry' = Max(back)
      BY <1>2 DEF Go, UndoFrom
    <2> QED
      BY <1>2, <2>1, MaxEntry DEF Undoing
  <1>3. CASE inst = {} /\ back = {}
    <2>1. phase' = "failed"
      BY <1>3 DEF Go, UndoFrom
    <2> QED
      BY <1>3, <2>1 DEF Undoing
  <1> QED
    BY <1>1, <1>2, <1>3

\* What is left to do when the rollback begins.
LEMMA LeftAtFirst ==
  ASSUME SwapTyped, UNCHANGED <<installed, backedUp>>, Go(UndoFrom(installed, backedUp))
  PROVE  ToUninstall' = installed /\ ToRestore' = backedUp
  <1>1. installed \in SUBSET Entries /\ backedUp \in SUBSET Entries
    BY DEF SwapTyped
  <1>2. CASE installed # {}
    BY <1>1, <1>2, UndoStarts DEF ToUninstall, ToRestore
  <1>3. CASE installed = {} /\ backedUp # {}
    BY <1>1, <1>3, UndoStarts DEF ToUninstall, ToRestore
  <1>4. CASE installed = {} /\ backedUp = {}
    BY <1>1, <1>4, UndoStarts DEF ToUninstall, ToRestore
  <1> QED
    BY <1>2, <1>3, <1>4

\* The entries below one.
LEMMA Below ==
  ASSUME NEW S, S \subseteq Nat, NEW n \in Nat
  PROVE  /\ {e \in S : e <= n} \ {n} = {e \in S : e < n}
         /\ \A m \in {e \in S : e < n} : (\A e \in {x \in S : x < n} : e <= m) =>
               {e \in S : e <= m} = {e \in S : e < n}
  <1>1. {e \in S : e <= n} \ {n} = {e \in S : e < n}
    <2>1. \A e \in S : e < n <=> e <= n /\ e # n
      OBVIOUS
    <2> QED
      BY <2>1
  <1>2. ASSUME NEW m \in {e \in S : e < n}, \A e \in {x \in S : x < n} : e <= m
        PROVE  {e \in S : e <= m} = {e \in S : e < n}
    <2>1. m \in Nat /\ m < n /\ \A e \in S : e \in Nat
      OBVIOUS
    <2>2. \A e \in S : e < n <=> e <= m
      BY <1>2, <2>1
    <2> QED
      BY <2>2
  <1> QED
    BY <1>1, <1>2

\* ... and when it goes on.
LEMMA LeftAfter ==
  ASSUME SwapTyped, UNCHANGED <<installed, backedUp>>, phase \in Undoing, Go(AfterUndo)
  PROVE  /\ ToUninstall' = ToUninstall \ {entry}
         /\ phase = "undo_install" => ToRestore' = backedUp
         /\ phase = "undo_backup" => ToRestore' = ToRestore \ {entry}
         /\ phase' \in Undoing \cup {"failed"}
         /\ phase' \in Undoing => entry' \in Entries
         /\ phase' = "undo_install" => phase = "undo_install" /\ entry' \in installed
  <1>1. /\ installed \in SUBSET Entries /\ backedUp \in SUBSET Entries
        /\ entry \in Nat /\ installed \subseteq Nat /\ backedUp \subseteq Nat
    BY InstallSwapConstants DEF SwapTyped, Entries, Moving
  <1>2. CASE phase = "undo_install"
    <2> DEFINE inst == {e \in installed : e < entry}
    <2>1. Go(UndoFrom(inst, backedUp)) /\ inst \in SUBSET Entries
      BY <1>1, <1>2 DEF AfterUndo
    <2>2. ToUninstall \ {entry} = inst
      BY <1>1, <1>2, Below DEF ToUninstall
    <2>3. \A e \in inst : e \in Nat /\ e \in installed
      BY <1>1
    <2> HIDE DEF inst
    <2>4. CASE inst # {}
      <3>1. phase' = "undo_install" /\ entry' \in inst /\ \A e \in inst : e <= entry'
        BY <1>1, <2>1, <2>4, UndoStarts
      <3>2. ToUninstall' = inst
        <4>1. ToUninstall' = {e \in installed : e <= entry'}
          BY <3>1 DEF ToUninstall
        <4> QED
          BY <1>1, <3>1, <4>1, Below DEF inst
      <3> QED
        BY <1>1, <1>2, <2>1, <2>2, <2>3, <3>1, <3>2 DEF ToRestore, Undoing
    <2>5. CASE inst = {} /\ backedUp # {}
      BY <1>1, <1>2, <2>1, <2>2, <2>5, UndoStarts DEF ToRestore, ToUninstall
    <2>6. CASE inst = {} /\ backedUp = {}
      BY <1>1, <1>2, <2>1, <2>2, <2>6, UndoStarts DEF ToRestore, ToUninstall
    <2> QED
      BY <2>4, <2>5, <2>6
  <1>3. CASE phase = "undo_backup"
    <2> DEFINE back == {e \in backedUp : e < entry}
               inst == {}
    <2>1. Go(UndoFrom(inst, back)) /\ back \in SUBSET Entries /\ inst \in SUBSET Entries
      BY <1>1, <1>3 DEF AfterUndo
    <2>2. ToRestore \ {entry} = back
      BY <1>1, <1>3, Below DEF ToRestore
    <2>3. inst = {} /\ ToUninstall = {}
      BY <1>3 DEF ToUninstall
    <2> HIDE DEF inst, back
    <2>4. CASE back # {}
      <3>1. phase' = "undo_backup" /\ entry' \in back /\ \A e \in back : e <= entry'
        BY <2>1, <2>3, <2>4, UndoStarts
      <3>2. ToRestore' = back
        <4>1. ToRestore' = {e \in backedUp : e <= entry'}
          BY <3>1 DEF ToRestore
        <4> QED
          BY <1>1, <3>1, <4>1, Below DEF back
      <3> QED
        BY <1>3, <2>1, <2>2, <2>3, <3>1, <3>2 DEF ToUninstall, Undoing
    <2>5. CASE back = {}
      BY <1>3, <2>1, <2>2, <2>3, <2>5, UndoStarts DEF ToRestore, ToUninstall
    <2> QED
      BY <2>4, <2>5
  <1> QED
    BY <1>2, <1>3 DEF Undoing

-----------------------------------------------------------------------------
\* Of an AppImage only the one file can be held.
LEMMA HeldClient ==
  ASSUME ImageSafe, image, NEW d \in Dirs, NEW e, Held(d, e) # {}
  PROVE  tree[d][Client] # "none" /\ First(Held(d, e)) = Client
  <1>1. \A p \in Held(d, e) : p = Client /\ tree[d][p] # "none"
    BY DEF ImageSafe, Held, FilesOf, Client, ImagePaths
  <1> QED
    BY <1>1, FirstHeld

\* A move fails for good: for the third time, or because the file is there already.
GivesUp ==
    /\ phase \in Moving /\ Held(From, entry) # {}
    /\ MoveFails(HalfMoved)
    /\ tree' = tree /\ failures' \in Nat /\ failures' >= failures
    /\ \/ AlreadyThere(First(Held(From, entry))) /\ failures' = failures
       \/ attempt = 2 /\ failures' = failures + 1

\* Only six failures leave no client.
LEMMA GivesUpImage ==
  ASSUME SwapInv, UNCHANGED image, GivesUp
  PROVE  ImageSafe'
  <1> SUFFICES ASSUME image PROVE ImageSafe'
    BY DEF ImageSafe
  <1>1. /\ tree' = tree /\ ImageSafe /\ failures \in Nat /\ failures' \in Nat
        /\ failures' >= failures /\ UNCHANGED <<backedUp, installed, rootBefore>> /\ attempt' = 0
        /\ installed \in SUBSET Entries /\ backedUp \in SUBSET Entries
        /\ From \in Dirs /\ Client \in Paths
    <2>1. From \in Dirs
      BY Directions DEF GivesUp, Moving, Undoing, Dirs
    <2>2. Client \in Paths
      BY InstallSwapConstants DEF Client, ImagePaths, Paths
    <2> QED
      BY <2>1, <2>2 DEF GivesUp, MoveFails, before, SwapInv, SwapTyped
  <1> SUFFICES ASSUME failures' < 6
               PROVE  ImageSafe'
    BY <1>1 DEF ImageSafe
  <1>2. failures < 6 /\ tree[From][Client] # "none" /\ First(Held(From, entry)) = Client
    BY <1>1, HeldClient DEF GivesUp
  <1>3. CASE phase = "backup"
    <2>1. installed = {} /\ backedUp = {} /\ From = "root"
      BY <1>1, <1>2, <1>3, Directions DEF ImageSafe
    <2>2. phase' = "failed"
      <3>1. Go(UndoFrom(installed, backedUp))
        BY <1>3 DEF GivesUp, MoveFails, Undoing
      <3> QED
        BY <1>1, <2>1, <3>1, UndoStarts
    <2> QED
      BY <1>1, <1>2, <2>1, <2>2 DEF ImageSafe
  <1>4. CASE phase = "install"
    <2>1. /\ installed = {} /\ backedUp = {1} /\ From = "payload" /\ To = "root"
          /\ InOneOf("payload", "root") /\ tree["old"][Client] # "none"
      BY <1>1, <1>2, <1>4, Directions DEF ImageSafe
    <2>2. phase' = "undo_backup" /\ entry' = 1
      <3>1. Go(UndoFrom(installed, backedUp))
        BY <1>4 DEF GivesUp, MoveFails, Undoing
      <3> QED
        BY <1>1, <2>1, <3>1, UndoStarts
    <2>3. tree["root"][Client] = "none"
      BY <1>2, <2>1 DEF InOneOf
    <2>4. attempt = 2 /\ failures' = failures + 1 /\ attempt <= failures
      BY <1>2, <2>1, <2>3 DEF GivesUp, AlreadyThere, SwapInv, SwapTyped
    <2>5. failures' >= 3 + attempt' /\ InOneOf("old", "root")'
      BY <1>1, <2>1, <2>3, <2>4 DEF InOneOf
    <2> QED
      BY <1>1, <2>1, <2>2, <2>5 DEF ImageSafe
  <1>5. CASE phase = "undo_backup"
    <2>1. InOneOf("old", "root") /\ failures >= 3 + attempt /\ From = "old" /\ To = "root"
      BY <1>1, <1>2, <1>5, Directions DEF ImageSafe
    <2>2. ~AlreadyThere(First(Held(From, entry)))
      BY <1>2, <2>1 DEF InOneOf, AlreadyThere
    <2>3. failures' >= 6
      BY <1>1, <2>1, <2>2 DEF GivesUp
    <2> QED
      BY <1>1, <2>3
  <1>6. phase # "undo_install"
    BY <1>1, <1>2 DEF ImageSafe
  <1> QED
    BY <1>3, <1>4, <1>5, <1>6 DEF GivesUp, Moving, Undoing

\* What was not half moved can be restored.
LEMMA GivesUpStep ==
  ASSUME SwapInv, UNCHANGED <<image, backupSwept>>, GivesUp
  PROVE  SwapInv'
  <1>1. /\ UNCHANGED <<tree, backedUp, installed, rootBefore, payloadBefore>>
        /\ attempt' = 0 /\ failures' \in Nat
        /\ installed \in SUBSET Entries /\ backedUp \in SUBSET Entries
    BY DEF GivesUp, MoveFails, before, SwapInv, SwapTyped
  <1>2. ImageSafe' /\ NoFileLost'
    BY <1>1, GivesUpImage DEF SwapInv, NoFileLost
  <1>3. CASE phase \in {"backup", "install"}
    <2>1. Go(UndoFrom(installed, backedUp)) /\ torn' = HalfMoved
      BY <1>3 DEF GivesUp, MoveFails, Undoing
    <2>2. /\ phase' \in Undoing \cup {"failed"} /\ (phase' \in Undoing => entry' \in Entries)
          /\ phase' = "undo_install" => entry' \in installed
          /\ installed # {} => phase' = "undo_install"
      BY <1>1, <2>1, UndoStarts DEF Undoing
    <2>3. SwapTyped'
      BY <1>1, <2>2, InstallSwapConstants DEF SwapInv, SwapTyped, Moving
    <2>4. OnlyNewMoves'
      BY <1>1, <1>3, <2>2 DEF SwapInv, OnlyNewMoves, Undoing
    <2>5. Forward'
      BY <2>2 DEF Forward, Undoing
    <2>6. Backward'
      <3> SUFFICES ASSUME ~HalfMoved PROVE Backward'
        BY <2>1 DEF Backward
      <3>1. ToUninstall' = installed /\ ToRestore' = backedUp
        BY <1>1, <2>1, LeftAtFirst DEF SwapInv
      <3>2. DoneUpTo /\ UnderWay /\ (\A e \in installed : e < entry) /\ entry \in Nat
        BY <1>3, InstallSwapConstants
           DEF SwapInv, SwapTyped, Forward, UnderWay, Moving, Entries
      <3>3. entry \notin installed
        BY <3>2
      <3>4. \A p \in Paths : rootBefore[p] # "none" =>
               (p[1] \in installed \/ (phase = "install" /\ p[1] = entry) => Replaced(p))
        BY <1>3 DEF SwapInv, Forward
      <3>5. \A p \in Paths : p[1] = entry =>
               /\ tree["payload"][p] = payloadBefore[p]
               /\ phase = "backup" => tree["root"][p] = rootBefore[p]
        <4>1. CASE phase = "backup"
          BY <3>2, <4>1 DEF HalfMoved, UnderWay, FilesOf
        <4>2. CASE phase = "install"
          BY <3>2, <4>2 DEF HalfMoved, FilesOf
        <4> QED
          BY <1>3, <4>1, <4>2
      <3>6. \A p \in Paths : rootBefore[p] # "none" =>
               /\ \/ tree["root"][p] = rootBefore[p]
                  \/ tree["old"][p] = rootBefore[p] /\ p[1] \in backedUp
               /\ p[1] \in installed => Replaced(p)
        BY <1>3, <3>2, <3>4, <3>5 DEF DoneUpTo, BeingMoved, Replaced
      <3>7. \A p \in Paths :
               /\ \/ tree["payload"][p] = payloadBefore[p]
                  \/ /\ p[1] \in installed /\ tree["payload"][p] = "none"
                     /\ tree["root"][p] = payloadBefore[p]
               /\ p[1] \in installed => tree["root"][p] \in {"none", payloadBefore[p]}
        BY <1>3, <3>2, <3>5 DEF DoneUpTo, BeingMoved
      <3> QED
        BY <1>1, <3>1, <3>6, <3>7 DEF Backward, Replaced
    <2> QED
      BY <1>2, <2>3, <2>4, <2>5, <2>6 DEF SwapInv
  <1>4. CASE phase \in Undoing
    <2>1. Go(AfterUndo) /\ undoFailed' = TRUE
      BY <1>4 DEF GivesUp, MoveFails
    <2>2. /\ phase' \in Undoing \cup {"failed"} /\ (phase' \in Undoing => entry' \in Entries)
          /\ phase' = "undo_install" => phase = "undo_install" /\ entry' \in installed
      BY <1>1, <1>4, <2>1, LeftAfter DEF SwapInv
    <2>3. SwapTyped'
      BY <1>1, <2>2, InstallSwapConstants DEF SwapInv, SwapTyped, Moving
    <2>4. OnlyNewMoves'
      BY <1>1, <2>2 DEF SwapInv, OnlyNewMoves, Undoing
    <2>5. Forward' /\ Backward'
      BY <2>1, <2>2 DEF Forward, Backward, Undoing
    <2> QED
      BY <1>2, <2>3, <2>4, <2>5 DEF SwapInv
  <1> QED
    BY <1>3, <1>4 DEF GivesUp, Moving

\* A rename fails, or the file is there already.
LEMMA FailureStep ==
  ASSUME SwapInv, UNCHANGED <<image, backupSwept>>, RenameFails \/ DestinationExists
  PROVE  SwapInv'
  <1>0. failures \in Nat /\ attempt \in 0..2 /\ attempt <= failures
    BY DEF SwapInv, SwapTyped
  <1>1. CASE DestinationExists
    <2>1. GivesUp
      BY <1>0, <1>1 DEF DestinationExists, GivesUp
    <2> QED
      BY <2>1, GivesUpStep
  <1>2. CASE RenameFails /\ ~TriesAgain
    <2>1. GivesUp
      BY <1>0, <1>2 DEF RenameFails, TriesAgain, GivesUp
    <2> QED
      BY <2>1, GivesUpStep
  <1>3. CASE RenameFails /\ TriesAgain
    <2>1. /\ UNCHANGED <<tree, phase, entry, backedUp, installed, rootBefore, payloadBefore,
                         torn, undoFailed>>
          /\ attempt' = attempt + 1 /\ failures' = failures + 1 /\ attempt < 2
      BY <1>3 DEF RenameFails, TriesAgain, before
    <2>2. SwapTyped'
      BY <1>0, <2>1 DEF SwapInv, SwapTyped
    <2>3. OnlyNewMoves' /\ NoFileLost'
      BY <2>1 DEF SwapInv, OnlyNewMoves, NoFileLost
    <2>4. Forward'
      BY <2>1 DEF SwapInv, Forward, DoneUpTo, UnderWay, Replaced, BeingMoved
    <2>5. Backward'
      BY <2>1 DEF SwapInv, Backward, Replaced, ToRestore, ToUninstall
    <2>6. ImageSafe'
      BY <1>0, <2>1 DEF SwapInv, ImageSafe, InOneOf
    <2> QED
      BY <2>2, <2>3, <2>4, <2>5, <2>6 DEF SwapInv
  <1> QED
    BY <1>1, <1>2, <1>3

-----------------------------------------------------------------------------
\* Nothing of the entry is left to move.
LEMMA HeldNone ==
  ASSUME NEW d, NEW e, Held(d, e) = {}
  PROVE  \A p \in Paths : p[1] = e => tree[d][p] = "none"
  BY DEF Held, FilesOf

\* The old entry lies in the backup, and what is put in its place is new.
LEMMA BackedUpStep ==
  ASSUME SwapInv, UNCHANGED <<image, backupSwept>>, BackedUp
  PROVE  SwapInv'
  <1>1. /\ phase = "backup" /\ phase' = "install"
        /\ UNCHANGED <<tree, entry, installed, attempt, failures, rootBefore, payloadBefore,
                       torn, undoFailed>>
        /\ backedUp' = IF \E p \in FilesOf(entry) : rootBefore[p] # "none"
                       THEN backedUp \cup {entry} ELSE backedUp
    BY DEF BackedUp, before, RememberBackup
  <1>2. \A p \in Paths : p[1] = entry => tree["root"][p] = "none"
    BY HeldNone DEF BackedUp
  <1>3. entry \in Entries /\ backedUp' \subseteq Entries
    BY <1>1 DEF SwapInv, SwapTyped, Moving
  <1>4. SwapTyped'
    BY <1>1, <1>3 DEF SwapInv, SwapTyped, Moving
  <1>5. OnlyNewMoves' /\ NoFileLost'
    BY <1>1, <1>2 DEF SwapInv, OnlyNewMoves, NoFileLost
  <1>6. DoneUpTo'
    BY <1>1 DEF SwapInv, Forward, DoneUpTo, BeingMoved
  <1>7. UnderWay'
    BY <1>1, <1>2 DEF SwapInv, Forward, UnderWay, FilesOf
  <1>8. \A p \in Paths : rootBefore[p] # "none" =>
           (p[1] \in installed \/ p[1] = entry => Replaced(p)')
    <2> SUFFICES ASSUME NEW p \in Paths, rootBefore[p] # "none",
                        p[1] \in installed \/ p[1] = entry
                 PROVE  tree["old"][p] = rootBefore[p] /\ p[1] \in backedUp'
      BY <1>1 DEF Replaced
    <2>1. CASE p[1] = entry
      <3>1. p \in FilesOf(entry)
        BY <2>1 DEF FilesOf
      <3>2. tree["old"][p] = rootBefore[p]
        BY <1>1, <1>2, <2>1, <3>1 DEF SwapInv, Forward, UnderWay
      <3> QED
        BY <1>1, <2>1, <3>1, <3>2
    <2>2. CASE p[1] # entry
      BY <1>1, <2>2 DEF SwapInv, Forward, Replaced
    <2> QED
      BY <2>1, <2>2
  <1>9. Forward'
    BY <1>1, <1>6, <1>7, <1>8 DEF Forward
  <1>10. Backward'
    BY <1>1 DEF Backward, Undoing
  <1>11. ImageSafe'
    <2> SUFFICES ASSUME image, failures < 6 PROVE ImageSafe'
      BY <1>1 DEF SwapInv, ImageSafe
    <2>1. /\ entry = 1 /\ InOneOf("root", "old") /\ backedUp = {} /\ installed = {}
          /\ rootBefore[Client] # "none"
      BY <1>1 DEF SwapInv, ImageSafe
    <2>2. Client \in Paths /\ Client[1] = 1 /\ Client \in FilesOf(1)
      BY InstallSwapConstants DEF Client, ImagePaths, Paths, FilesOf
    <2>3. tree["root"][Client] = "none" /\ tree["old"][Client] # "none"
      BY <1>2, <2>1, <2>2 DEF InOneOf
    <2>4. backedUp' = {1}
      BY <1>1, <2>1, <2>2
    <2>5. tree["payload"][Client] # "none"
      <3>1. PICK p \in FilesOf(entry) :
               payloadBefore[p] # "none" /\ tree["payload"][p] = payloadBefore[p]
        BY <1>1 DEF SwapInv, Forward, UnderWay
      <3>2. p \in Paths /\ tree["payload"][p] # "none"
        BY <3>1 DEF FilesOf
      <3>3. p = Client
        BY <3>2 DEF SwapInv, ImageSafe, Dirs, ImagePaths, Client
      <3> QED
        BY <3>2, <3>3
    <2> QED
      BY <1>1, <2>1, <2>3, <2>4, <2>5 DEF SwapInv, ImageSafe, InOneOf
  <1> QED
    BY <1>4, <1>5, <1>9, <1>10, <1>11 DEF SwapInv

\* The loop goes on with the next entry of the payload that holds a file.
LEMMA NextIs ==
  ASSUME NEW es \in SUBSET Entries, Go(NextEntry(es))
  PROVE  /\ phase' \in {"ok", "backup"}
         /\ phase' = "ok" => \A e \in es : Held("payload", e) = {}
         /\ phase' = "backup" =>
               /\ entry' \in es /\ Held("payload", entry') # {}
               /\ \A e \in es : Held("payload", e) # {} => entry' <= e
  <1> DEFINE T == {e \in es : Held("payload", e) # {}}
  <1>1. Go(IF T = {} THEN [phase |-> "ok", entry |-> 0]
           ELSE [phase |-> "backup", entry |-> Min(T)])
    BY DEF NextEntry
  <1>2. T \subseteq Entries
    OBVIOUS
  <1>3. CASE T = {}
    <2>1. phase' = "ok"
      BY <1>1, <1>3 DEF Go
    <2> QED
      BY <1>3, <2>1
  <1>4. CASE T # {}
    <2>1. phase' = "backup" /\ entry' = Min(T)
      BY <1>1, <1>4 DEF Go
    <2>2. Min(T) \in T /\ \A y \in T : Min(T) <= y
      BY <1>2, <1>4, MinEntry
    <2> QED
      BY <2>1, <2>2
  <1> QED
    BY <1>3, <1>4

\* The entry is done, and the loop goes on with one that lies as it did.
LEMMA InstalledStep ==
  ASSUME SwapInv, UNCHANGED <<image, backupSwept>>, Installed
  PROVE  SwapInv'
  <1>1. /\ phase = "install" /\ installed' = installed \cup {entry}
        /\ UNCHANGED <<tree, backedUp, attempt, failures, rootBefore, payloadBefore, torn,
                       undoFailed>>
        /\ Go(NextEntry({e \in Entries : e > entry}))
    BY DEF Installed, before
  <1>2. \A p \in Paths : p[1] = entry => tree["payload"][p] = "none"
    BY HeldNone DEF Installed
  <1>3. entry \in Entries /\ entry \in Nat /\ installed \subseteq Nat
        /\ \A e \in Entries : e \in Nat
    BY <1>1, InstallSwapConstants DEF SwapInv, SwapTyped, Moving, Entries
  <1>4. /\ phase' \in {"ok", "backup"}
        /\ phase' = "ok" => \A e \in Entries : e > entry => Held("payload", e) = {}
        /\ phase' = "backup" =>
              /\ entry' \in Entries /\ entry' > entry /\ Held("payload", entry') # {}
              /\ \A e \in Entries : e > entry /\ Held("payload", e) # {} => entry' <= e
    BY <1>1, NextIs
  <1>5. SwapTyped'
    <2>1. installed' \subseteq Entries
      BY <1>1, <1>3 DEF SwapInv, SwapTyped
    <2>2. /\ phase' \in Moving \cup {"idle", "ok", "failed"}
          /\ phase' \in Moving => entry' \in Entries
      BY <1>4 DEF Moving, Undoing
    <2> QED
      BY <1>1, <2>1, <2>2 DEF SwapInv, SwapTyped
  <1>6. OnlyNewMoves' /\ NoFileLost'
    BY <1>1, <1>4 DEF SwapInv, OnlyNewMoves, NoFileLost
  <1>7. DoneUpTo /\ UnderWay /\ \A e \in installed : e < entry
    BY <1>1 DEF SwapInv, Forward, UnderWay
  <1>8. phase' = "backup" => \A e \in installed' : e < entry'
    <2> SUFFICES ASSUME phase' = "backup", NEW e \in installed' PROVE e < entry'
      OBVIOUS
    <2>1. entry' \in Nat /\ e \in Nat /\ entry \in Nat /\ entry' > entry
      BY <1>1, <1>3, <1>4
    <2>2. e < entry \/ e = entry
      BY <1>1, <1>7
    <2> QED
      BY <2>1, <2>2
  \* Every file of an entry that comes later is where it was.
  <1>9. \A p \in Paths : p[1] > entry =>
           tree["root"][p] = rootBefore[p] /\ tree["payload"][p] = payloadBefore[p]
    BY <1>1, <1>3, <1>7, PathTyped DEF DoneUpTo, BeingMoved
  <1>10. \A p \in Paths : payloadBefore[p] # "none" /\ p[1] > entry =>
            p \in FilesOf(p[1]) /\ Held("payload", p[1]) # {}
    BY <1>9 DEF Held, FilesOf
  <1>11. DoneUpTo'
    <2>1. \A p \in Paths : p[1] \in installed' =>
             tree["root"][p] = payloadBefore[p] /\ tree["payload"][p] = "none"
      <3>1. \A p \in Paths : p[1] = entry => tree["root"][p] = payloadBefore[p]
        BY <1>1, <1>2, <1>7 DEF UnderWay, FilesOf
      <3> QED
        BY <1>1, <1>2, <1>7, <3>1 DEF DoneUpTo
    <2>2. \A p \in Paths : p[1] \notin installed' =>
             tree["root"][p] = rootBefore[p] /\ tree["payload"][p] = payloadBefore[p]
      BY <1>1, <1>7 DEF DoneUpTo, BeingMoved
    <2>3. \A p \in Paths : payloadBefore[p] # "none" =>
             p[1] \in installed' \/ (phase' # "ok" /\ p[1] >= entry')
      <3> SUFFICES ASSUME NEW p \in Paths, payloadBefore[p] # "none", p[1] \notin installed'
                   PROVE  phase' # "ok" /\ p[1] >= entry'
        OBVIOUS
      <3>1. p[1] >= entry /\ p[1] # entry /\ p[1] \in Entries /\ p[1] \in Nat
        BY <1>1, <1>7, PathTyped DEF DoneUpTo
      <3>2. Held("payload", p[1]) # {} /\ p[1] > entry
        BY <1>3, <1>10, <3>1
      <3> QED
        BY <1>3, <1>4, <3>1, <3>2
    <2>4. \A e \in installed' : \E p \in FilesOf(e) : payloadBefore[p] # "none"
      BY <1>1, <1>7 DEF DoneUpTo, UnderWay
    <2> QED
      BY <1>1, <2>1, <2>2, <2>3, <2>4 DEF DoneUpTo, BeingMoved, FilesOf
  <1>12. ASSUME phase' = "backup" PROVE UnderWay'
    <2>1. \A e \in installed' : e < entry'
      BY <1>8, <1>12
    <2>2. \A p \in FilesOf(entry') :
             tree["root"][p] = rootBefore[p] /\ tree["payload"][p] = payloadBefore[p]
      BY <1>4, <1>9, <1>12 DEF FilesOf
    <2>3. \E p \in FilesOf(entry') : payloadBefore[p] # "none"
      <3>1. PICK p \in FilesOf(entry') : tree["payload"][p] # "none"
        BY <1>4, <1>12 DEF Held
      <3> QED
        BY <2>2, <3>1
    <2> QED
      BY <1>1, <1>12, <2>1, <2>2, <2>3 DEF UnderWay, FilesOf
  <1>13. Forward'
    <2>1. \A p \in Paths : rootBefore[p] # "none" => (p[1] \in installed' => Replaced(p)')
      BY <1>1 DEF SwapInv, Forward, Replaced
    <2> QED
      BY <1>1, <1>4, <1>11, <1>12, <2>1 DEF Forward
  <1>14. Backward'
    BY <1>4 DEF Backward, Undoing
  <1>15. ImageSafe'
    <2> SUFFICES ASSUME image, failures < 6 PROVE ImageSafe'
      BY <1>1 DEF SwapInv, ImageSafe
    <2>1. entry = 1 /\ InOneOf("payload", "root") /\ Client \in Paths /\ Client[1] = 1
      BY <1>1, InstallSwapConstants DEF SwapInv, ImageSafe, Client, ImagePaths, Paths
    <2>2. tree["root"][Client] # "none"
      BY <1>2, <2>1 DEF InOneOf
    <2>3. phase' = "ok"
      <3> SUFFICES ASSUME phase' = "backup" PROVE FALSE
        BY <1>4
      <3>1. PICK p \in Paths : p[1] = entry' /\ tree["payload"][p] # "none"
        BY <1>4 DEF Held, FilesOf
      <3>2. p = Client
        BY <3>1 DEF SwapInv, ImageSafe, Dirs, ImagePaths, Client
      <3> QED
        BY <1>3, <1>4, <2>1, <3>1, <3>2
    <2> QED
      BY <1>1, <2>2, <2>3 DEF SwapInv, ImageSafe
  <1> QED
    BY <1>5, <1>6, <1>13, <1>14, <1>15 DEF SwapInv

\* An entry of the rollback is where it was.
LEMMA UndoneStep ==
  ASSUME SwapInv, UNCHANGED <<image, backupSwept>>, Undone
  PROVE  SwapInv'
  <1>1. /\ phase \in Undoing /\ Go(AfterUndo)
        /\ UNCHANGED <<tree, backedUp, installed, attempt, failures, rootBefore, payloadBefore,
                       torn, undoFailed>>
    BY DEF Undone, before
  <1>2. \A p \in Paths : p[1] = entry => tree[From][p] = "none"
    BY HeldNone DEF Undone
  <1>3. /\ ToUninstall' = ToUninstall \ {entry}
        /\ phase = "undo_install" => ToRestore' = backedUp /\ ToRestore = backedUp
        /\ phase = "undo_backup" => ToRestore' = ToRestore \ {entry}
        /\ phase' \in Undoing \cup {"failed"} /\ (phase' \in Undoing => entry' \in Entries)
        /\ phase' = "undo_install" => phase = "undo_install" /\ entry' \in installed
    BY <1>1, LeftAfter DEF SwapInv, ToRestore
  <1>4. SwapTyped'
    BY <1>1, <1>3 DEF SwapInv, SwapTyped, Moving
  <1>5. OnlyNewMoves' /\ NoFileLost' /\ Forward'
    BY <1>1, <1>3 DEF SwapInv, OnlyNewMoves, NoFileLost, Forward, Undoing
  <1>6. Backward'
    <2> SUFFICES ASSUME ~torn, ~undoFailed PROVE Backward'
      BY <1>1 DEF Backward
    <2>1. \A p \in Paths : rootBefore[p] # "none" =>
             /\ \/ tree["root"][p] = rootBefore[p]
                \/ tree["old"][p] = rootBefore[p] /\ p[1] \in ToRestore
             /\ phase = "undo_install" /\ p[1] \in installed => Replaced(p)
      BY <1>1 DEF SwapInv, Backward
    <2>2. \A p \in Paths :
             /\ \/ tree["payload"][p] = payloadBefore[p]
                \/ /\ p[1] \in ToUninstall /\ tree["payload"][p] = "none"
                   /\ tree["root"][p] = payloadBefore[p]
             /\ p[1] \in ToUninstall => tree["root"][p] \in {"none", payloadBefore[p]}
      BY <1>1 DEF SwapInv, Backward
    <2>3. CASE phase = "undo_install"
      <3>1. \A p \in Paths : p[1] = entry => tree["root"][p] = "none"
        BY <1>2, <2>3, Directions
      <3> QED
        BY <1>1, <1>3, <2>1, <2>2, <2>3, <3>1 DEF Backward, Replaced
    <2>4. CASE phase = "undo_backup"
      <3>1. \A p \in Paths : p[1] = entry => tree["old"][p] = "none"
        BY <1>2, <2>4, Directions
      <3>2. ToUninstall = {} /\ ToUninstall' = {} /\ phase' # "undo_install"
        BY <1>3, <2>4 DEF ToUninstall
      <3> QED
        BY <1>1, <1>3, <2>1, <2>2, <2>4, <3>1, <3>2 DEF Backward
    <2> QED
      BY <1>1, <2>3, <2>4 DEF Undoing
  <1>7. ImageSafe'
    <2> SUFFICES ASSUME image, failures < 6 PROVE ImageSafe'
      BY <1>1 DEF SwapInv, ImageSafe
    <2>1. /\ phase = "undo_backup" /\ entry = 1 /\ InOneOf("old", "root") /\ backedUp = {1}
          /\ Client \in Paths /\ Client[1] = 1
      BY <1>1, InstallSwapConstants DEF SwapInv, ImageSafe, Undoing, Client, ImagePaths, Paths
    <2>2. tree["root"][Client] # "none"
      <3>1. tree["old"][Client] = "none"
        BY <1>2, <2>1, Directions
      <3> QED
        BY <2>1, <3>1 DEF InOneOf
    <2>3. phase' = "failed"
      <3>1. Go(UndoFrom({}, {e \in backedUp : e < entry}))
        BY <1>1, <2>1 DEF AfterUndo
      <3>2. {e \in backedUp : e < entry} = {}
        BY <2>1
      <3> QED
        BY <3>1, <3>2 DEF Go, UndoFrom
    <2> QED
      BY <1>1, <2>2, <2>3 DEF SwapInv, ImageSafe
  <1> QED
    BY <1>4, <1>5, <1>6, <1>7 DEF SwapInv

\* Every step of a swap keeps what holds of the files, and the swap goes on.
LEMMA SwapStepKeeps ==
  ASSUME SwapInv, UNCHANGED <<image, backupSwept>>, SwapStep
  PROVE  SwapInv' /\ phase # "idle" /\ phase' # "idle"
  <1>1. SwapInv'
    BY MoveStep, FailureStep, BackedUpStep, InstalledStep, UndoneStep DEF SwapStep
  <1>2. phase # "idle"
    BY DEF SwapStep, MoveFile, RenameFails, DestinationExists, BackedUp, Installed, Undone,
       Moving, Undoing
  <1>3. \A i, b : UndoFrom(i, b).phase # "idle"
    BY DEF UndoFrom
  <1>4. \A es : NextEntry(es).phase # "idle"
    <2> SUFFICES ASSUME NEW es PROVE NextEntry(es).phase # "idle"
      OBVIOUS
    <2> DEFINE names == {e \in es : Held("payload", e) # {}}
    <2>1. NextEntry(es) = IF names = {} THEN [phase |-> "ok", entry |-> 0]
                          ELSE [phase |-> "backup", entry |-> Min(names)]
      BY DEF NextEntry
    <2> HIDE DEF names
    <2> QED
      BY <2>1
  <1>5. MoveFails(HalfMoved) => phase' # "idle"
    BY <1>3 DEF MoveFails, Go, AfterUndo
  <1>6. phase' # "idle"
    <2>1. CASE MoveFile
      BY <1>2, <2>1 DEF MoveFile
    <2>2. CASE RenameFails
      BY <1>2, <1>5, <2>2 DEF RenameFails
    <2>3. CASE DestinationExists
      BY <1>5, <2>3 DEF DestinationExists
    <2>4. CASE BackedUp
      BY <2>4 DEF BackedUp
    <2>5. CASE Installed
      BY <1>4, <2>5 DEF Installed, Go
    <2>6. CASE Undone
      BY <1>3, <2>6 DEF Undone, Go, AfterUndo
    <2> QED
      BY <2>1, <2>2, <2>3, <2>4, <2>5, <2>6 DEF SwapStep
  <1> QED
    BY <1>1, <1>2, <1>6

\* An empty directory.
LEMMA EmptyTyped ==
  /\ Empty \in Contents /\ \A p \in Paths : Empty[p] = "none"
  /\ \A ps : Holding(ps, "new") \in Contents /\ \A p \in Paths : Holding(ps, "new")[p] # "old"
  /\ \A ps : \A p \in Paths \ ps : Holding(ps, "new")[p] = "none"
  BY DEF Empty, Holding, Contents, Kinds

\* A swap begins with the first entry of the payload, and with nothing moved.
LEMMA SwapBeginsKeeps ==
  ASSUME SwapInv, UNCHANGED <<image, backupSwept>>, phase = "idle", SwapBegins
  PROVE  SwapInv' /\ phase' # "idle"
  <1>1. /\ tree' = IF image /\ ~Missing THEN [tree EXCEPT !["old"] = Empty] ELSE tree
        /\ rootBefore' = tree["root"] /\ payloadBefore' = tree["payload"]
        /\ backedUp' = {} /\ installed' = {} /\ torn' = FALSE /\ undoFailed' = FALSE
        /\ attempt' = attempt /\ failures' = failures
    BY DEF SwapBegins
  <1>2. /\ tree \in [Dirs -> Contents] /\ Dirs = {"root", "old", "payload"}
        /\ image \in BOOLEAN
    BY DEF SwapInv, SwapTyped, Dirs
  <1>3. /\ tree' \in [Dirs -> Contents]
        /\ tree'["root"] = tree["root"] /\ tree'["payload"] = tree["payload"]
        /\ \A p \in Paths : tree'["old"][p] = tree["old"][p] \/ (image /\ tree'["old"][p] = "none")
    BY <1>1, <1>2, EmptyTyped
  <1>4. tree["root"] \in Contents /\ tree["payload"] \in Contents
    BY <1>2
  <1>5. NoFileLost'
    BY <1>1 DEF SwapInv, NoFileLost
  <1>6. phase' \in {"failed", "backup"} => OnlyNewMoves'
    BY <1>1, <1>3 DEF SwapInv, OnlyNewMoves
  <1>7. image => \A d \in Dirs : \A p \in Paths \ ImagePaths : tree'[d][p] = "none"
    BY <1>2, <1>3 DEF SwapInv, ImageSafe
  <1>8. image /\ failures < 6 => tree["root"][Client] # "none"
    BY DEF SwapInv, ImageSafe
  <1>9. CASE Missing
    <2>1. phase' = "failed"
      BY <1>9 DEF SwapBegins, Go
    <2>2. SwapTyped'
      BY <1>1, <1>3, <1>4, <2>1 DEF SwapInv, SwapTyped, Moving, Undoing
    <2>3. Forward' /\ Backward'
      BY <1>1, <1>3, <2>1 DEF Forward, Backward, ToUninstall, ToRestore
    <2>4. ImageSafe'
      BY <1>1, <1>3, <1>7, <1>8, <2>1 DEF ImageSafe
    <2> QED
      BY <1>5, <1>6, <2>1, <2>2, <2>3, <2>4 DEF SwapInv
  <1>10. CASE ~Missing
    <2>1. PICK e \in Entries : Held("payload", e) # {}
      BY <1>10 DEF Missing
    <2>2. Go(NextEntry(Entries)) /\ Entries \in SUBSET Entries
      BY <1>10 DEF SwapBegins
    <2>3. /\ phase' = "backup" /\ entry' \in Entries /\ Held("payload", entry') # {}
          /\ \A x \in Entries : Held("payload", x) # {} => entry' <= x
      BY <2>1, <2>2, NextIs
    <2>4. SwapTyped'
      BY <1>1, <1>3, <1>4, <2>3 DEF SwapInv, SwapTyped, Moving, Undoing
    <2>5. DoneUpTo'
      <3>1. \A p \in Paths : tree["payload"][p] # "none" => p[1] >= entry'
        <4> SUFFICES ASSUME NEW p \in Paths, tree["payload"][p] # "none"
                     PROVE  p[1] >= entry'
          OBVIOUS
        <4>1. p \in Held("payload", p[1]) /\ p[1] \in Entries
          BY PathTyped DEF Held, FilesOf
        <4>2. entry' <= p[1] /\ entry' \in Nat /\ p[1] \in Nat
          BY <2>3, <4>1, PathTyped, InstallSwapConstants DEF Entries
        <4> QED
          BY <4>2
      <3> QED
        BY <1>1, <1>3, <2>3, <3>1 DEF DoneUpTo, BeingMoved
    <2>6. UnderWay'
      <3>1. \E p \in FilesOf(entry') : tree["payload"][p] # "none"
        BY <2>3 DEF Held
      <3> QED
        BY <1>1, <1>3, <2>3, <3>1 DEF UnderWay, FilesOf
    <2>7. Forward' /\ Backward'
      BY <1>1, <2>3, <2>5, <2>6 DEF Forward, Backward, Undoing
    <2>8. ImageSafe'
      <3> SUFFICES ASSUME image PROVE ImageSafe'
        BY <1>1 DEF ImageSafe, SwapBegins
      <3>1. Held("root", 1) # {}
        BY <1>10 DEF Missing
      <3>2. tree["root"][Client] # "none"
        <4>1. PICK p \in Paths : tree["root"][p] # "none"
          BY <3>1 DEF Held, FilesOf
        <4>2. p = Client
          BY <1>2, <4>1 DEF SwapInv, ImageSafe, Client, ImagePaths
        <4> QED
          BY <4>1, <4>2
      <3>3. entry' = 1
        <4>1. PICK p \in Paths : p[1] = entry' /\ tree["payload"][p] # "none"
          BY <2>3 DEF Held, FilesOf
        <4>2. p = Client
          BY <1>2, <4>1 DEF SwapInv, ImageSafe, Client, ImagePaths
        <4> QED
          BY <4>1, <4>2 DEF Client
      <3>4. Client \in Paths
        BY InstallSwapConstants DEF Client, ImagePaths, Paths
      <3>5. tree'["old"][Client] = "none"
        BY <1>1, <1>2, <1>10, <3>4, EmptyTyped
      <3> QED
        BY <1>1, <1>3, <1>7, <2>3, <3>2, <3>3, <3>5 DEF ImageSafe, InOneOf
    <2> QED
      BY <1>5, <1>6, <2>3, <2>4, <2>7, <2>8 DEF SwapInv
  <1>11. phase' # "idle"
    <2>1. Missing => phase' = "failed"
      BY DEF SwapBegins, Go
    <2>2. ~Missing => phase' \in {"ok", "backup"}
      BY NextIs DEF SwapBegins
    <2> QED
      BY <2>1, <2>2
  <1> QED
    BY <1>9, <1>10, <1>11

\* A swap that has ended leaves the files as they are.
LEMMA SwapReturnsKeeps ==
  ASSUME SwapInv, UNCHANGED <<image, backupSwept>>, phase \in {"ok", "failed"}, SwapReturns
  PROVE  SwapInv' /\ phase' = "idle"
  <1>1. /\ phase' = "idle" /\ backedUp' = {} /\ installed' = {}
        /\ rootBefore' = Empty /\ payloadBefore' = Empty
        /\ UNCHANGED <<tree, attempt, failures>>
    BY DEF SwapReturns
  <1>2. SwapTyped'
    BY <1>1, EmptyTyped DEF SwapInv, SwapTyped, Moving, Undoing
  <1>3. OnlyNewMoves' /\ NoFileLost'
    BY <1>1 DEF SwapInv, OnlyNewMoves, NoFileLost
  <1>4. Forward' /\ Backward'
    BY <1>1 DEF Forward, Backward, Undoing
  <1>5. ImageSafe'
    BY <1>1 DEF SwapInv, ImageSafe
  <1> QED
    BY <1>1, <1>2, <1>3, <1>4, <1>5 DEF SwapInv

\* Between two swaps the updater writes the payload and empties its directories.
LEMMA IdleKeeps ==
  ASSUME SwapInv, phase = "idle", SwapIdle, UNCHANGED image,
         tree' \in [Dirs -> Contents], tree'["root"] = tree["root"],
         \A p \in Paths : tree'["payload"][p] # "old",
         image => \A d \in Dirs : \A p \in Paths \ ImagePaths : tree'[d][p] = "none",
         NoFileLost'
  PROVE  SwapInv'
  <1>1. /\ phase' = "idle"
        /\ UNCHANGED <<entry, backedUp, installed, attempt, failures, rootBefore, payloadBefore>>
    BY DEF SwapIdle, before
  <1>2. SwapTyped'
    BY <1>1 DEF SwapInv, SwapTyped, Moving, Undoing
  <1>3. OnlyNewMoves'
    BY <1>1 DEF OnlyNewMoves
  <1>4. Forward' /\ Backward'
    BY <1>1 DEF Forward, Backward, Undoing
  <1>5. ImageSafe'
    BY <1>1 DEF SwapInv, ImageSafe
  <1> QED
    BY <1>2, <1>3, <1>4, <1>5 DEF SwapInv

\* The updater unpacks files of the new version.
LEMMA UnpackedKeeps ==
  ASSUME SwapInv, phase = "idle", SwapIdle, UNCHANGED <<image, backupSwept>>,
         NEW ps \in SUBSET NewFiles, Unpacked(ps)
  PROVE  SwapInv'
  <1>1. /\ tree \in [Dirs -> Contents] /\ Dirs = {"root", "old", "payload"}
        /\ tree' = [tree EXCEPT !["payload"] = Holding(ps, "new")]
    BY DEF SwapInv, SwapTyped, Dirs, Unpacked
  <1>2. /\ tree' \in [Dirs -> Contents]
        /\ tree'["root"] = tree["root"] /\ tree'["old"] = tree["old"]
        /\ tree'["payload"] = Holding(ps, "new")
    BY <1>1, EmptyTyped
  <1>3. \A p \in Paths : tree'["payload"][p] # "old"
    BY <1>2, EmptyTyped
  <1>4. image => \A d \in Dirs : \A p \in Paths \ ImagePaths : tree'[d][p] = "none"
    <2>1. image => \A p \in Paths \ ImagePaths : Holding(ps, "new")[p] = "none"
      BY EmptyTyped DEF NewFiles
    <2> QED
      BY <1>1, <1>2, <2>1 DEF SwapInv, ImageSafe
  <1>5. NoFileLost'
    BY <1>2 DEF SwapInv, NoFileLost
  <1> QED
    BY <1>2, <1>3, <1>4, <1>5, IdleKeeps

-----------------------------------------------------------------------------
\* What the swap's invariant says of the types, for the updater's.
LEMMA SwapTypes ==
  ASSUME SwapInv'
  PROVE  SwapTypeOK' /\ image' \in BOOLEAN
  BY DEF SwapInv, SwapTyped, SwapTypeOK, Contents, Kinds

\* What holds of the updater besides.
ManagerSide ==
    /\ generation \in Nat /\ ManagerTypeOK /\ Waiting /\ Offered /\ NoticeAsDismissed /\ Blocked

\* No other reply is under way than the one that ends, and it ends the waiting.
LEMMA TheReply ==
  ASSUME Waiting, NEW r \in replies
  PROVE  /\ replies \ {r} = {} /\ r.gen = generation
         /\ r.kind \in {"manifest", "signature", "archive"}
         /\ state = IF r.kind = "archive" THEN "downloading" ELSE "checking"
         /\ ~process
  BY DEF Waiting

\* A new request is a reply that waits, and of its kind.
LEMMA RequestTyped ==
  ASSUME NEW kind \in {"manifest", "signature", "archive"}, NEW gen
  PROVE  /\ Request(kind, gen) \in [kind : {"manifest", "signature", "archive"},
                                    gen : {gen}, endless : BOOLEAN]
         /\ Request(kind, gen).kind = kind /\ Request(kind, gen).gen = gen
  BY DEF Request

\* While nothing is checked or fetched no reply is under way.
LEMMA NoReply ==
  ASSUME Waiting, state \notin {"checking", "downloading"}
  PROVE  replies = {}
  BY DEF Waiting

\* Only what has a valid signature was announced, so an announcement is a manifest.
LEMMA AnnouncedIsManifest ==
  ASSUME Announced
  PROVE  manifest # NoManifest
  BY DEF Announced, NoManifest

\* A check begins only when no reply is under way.
LEMMA CheckForUpdatesKeeps ==
  ASSUME ManagerSide, state # "applying", UNCHANGED phase, CheckForUpdates, SwapTypeOK',
         image' \in BOOLEAN
  PROVE  ManagerSide'
  <1>1. /\ generation \in Nat /\ generation' = generation + 1 /\ state' = "checking"
        /\ state \notin Busy
        /\ replies' = replies \cup {Request("manifest", generation + 1)}
        /\ manifest' = NoManifest /\ payload' = "none"
        /\ UNCHANGED <<fetched, bytes, file, process>>
    BY DEF CheckForUpdates, BusyNow, ManagerSide
  <1>2. replies = {} /\ ~process
    BY <1>1, NoReply DEF ManagerSide, Waiting, Busy
  <1>3. replies' = {Request("manifest", generation')}
    BY <1>1, <1>2
  <1>4. Waiting'
    BY <1>1, <1>2, <1>3, RequestTyped DEF Waiting
  <1>5. ManagerTypeOK'
    BY <1>1, <1>3, RequestTyped DEF ManagerSide, ManagerTypeOK, Busy
  <1>6. Offered' /\ NoticeAsDismissed' /\ Blocked'
    BY <1>1 DEF ManagerSide, Offered, NoticeAsDismissed, Blocked
  <1> QED
    BY <1>1, <1>4, <1>5, <1>6 DEF ManagerSide

\* A reply that goes on and on stays the only one.
LEMMA SendsOnKeeps ==
  ASSUME ManagerSide, UNCHANGED phase, NEW r \in replies, SendsOn(r), SwapTypeOK',
         image' \in BOOLEAN
  PROVE  ManagerSide'
  <1> DEFINE on == [r EXCEPT !.endless = TRUE]
  <1>1. /\ generation \in Nat /\ generation \in 1..generation
        /\ r \in [kind : {"manifest", "signature", "archive"}, gen : {generation},
                  endless : BOOLEAN]
        /\ r.kind \in {"manifest", "signature"} /\ state = "checking" /\ ~process
        /\ replies \ {r} = {}
    BY TheReply DEF SendsOn, Small, ManagerSide, ManagerTypeOK, Waiting
  <1>2. /\ UNCHANGED <<state, generation, fetched, manifest, bytes, file, process, payload,
                       dismissed, noticeVisible, swept>>
        /\ replies' = {on}
    BY <1>1 DEF SendsOn, cleanup
  <1>3. /\ on \in [kind : {"manifest", "signature", "archive"}, gen : {generation},
                   endless : BOOLEAN]
        /\ on.kind \in {"manifest", "signature"}
    BY <1>1
  <1> HIDE DEF on
  <1>4. Waiting'
    BY <1>1, <1>2, <1>3 DEF Waiting
  <1>5. ManagerTypeOK'
    BY <1>1, <1>2, <1>3 DEF ManagerSide, ManagerTypeOK
  <1>6. Offered' /\ NoticeAsDismissed' /\ Blocked'
    BY <1>2 DEF ManagerSide, Offered, NoticeAsDismissed, Blocked, Announced
  <1> QED
    BY <1>1, <1>2, <1>4, <1>5, <1>6 DEF ManagerSide

\* The one reply of a check is followed by one more, or by none.
LEMMA ManifestReplyKeeps ==
  ASSUME ManagerSide, UNCHANGED phase, NEW r \in replies, ManifestReply(r), SwapTypeOK',
         image' \in BOOLEAN
  PROVE  ManagerSide'
  <1>1. /\ generation \in Nat /\ generation \in 1..generation
        /\ r.kind = "manifest" /\ r.gen = generation /\ state = "checking" /\ ~process
        /\ replies \ {r} = {}
    BY TheReply DEF ManifestReply, ManagerSide, ManagerTypeOK
  <1>2. /\ UNCHANGED <<generation, manifest, bytes, file, process, payload, dismissed,
                       noticeVisible, swept>>
        /\ fetched' \in Manifests \cup {NoManifest}
        /\ \/ state' = state /\ replies' = {Request("signature", generation)}
           \/ state' = "error" /\ replies' = {}
    BY <1>1 DEF ManifestReply, Fail, ManagerSide, ManagerTypeOK, cleanup
  <1>3. Waiting'
    BY <1>1, <1>2, RequestTyped DEF Waiting
  <1>4. ManagerTypeOK'
    BY <1>1, <1>2, RequestTyped DEF ManagerSide, ManagerTypeOK
  <1>5. Offered' /\ NoticeAsDismissed' /\ Blocked'
    BY <1>1, <1>2 DEF ManagerSide, Offered, NoticeAsDismissed, Blocked, Announced
  <1> QED
    BY <1>1, <1>2, <1>3, <1>4, <1>5 DEF ManagerSide

\* Only a manifest with a valid signature and a newer version is offered.
LEMMA SignatureReplyKeeps ==
  ASSUME ManagerSide, UNCHANGED phase, NEW r \in replies, SignatureReply(r), SwapTypeOK',
         image' \in BOOLEAN
  PROVE  ManagerSide'
  <1>1. /\ generation \in Nat
        /\ r.kind = "signature" /\ state = "checking" /\ ~process /\ replies \ {r} = {}
    BY TheReply DEF SignatureReply, ManagerSide
  <1>2. /\ UNCHANGED <<generation, bytes, file, process, payload, dismissed, swept>>
        /\ replies' = {} /\ fetched' = NoManifest
        /\ \/ state' = "error" /\ manifest' = manifest
           \/ /\ fetched.signed /\ manifest' = fetched
              /\ \/ /\ fetched.version > Current /\ state' = "updateAvailable"
                    /\ noticeVisible' = (fetched.version # dismissed)
                 \/ state' = "upToDate"
    BY <1>1 DEF SignatureReply, SignatureValid, Newer, Fail, cleanup
  <1>3. payload = "none"
    BY <1>1 DEF ManagerSide, Offered
  <1>4. Waiting'
    BY <1>1, <1>2 DEF Waiting
  <1>5. ManagerTypeOK'
    BY <1>2 DEF ManagerSide, ManagerTypeOK
  <1>6. Offered' /\ NoticeAsDismissed' /\ Blocked'
    BY <1>1, <1>2, <1>3 DEF ManagerSide, Offered, NoticeAsDismissed, Blocked, Announced
  <1> QED
    BY <1>1, <1>2, <1>4, <1>5, <1>6 DEF ManagerSide

\* A download is of what was offered.
LEMMA DownloadUpdateKeeps ==
  ASSUME ManagerSide, UNCHANGED phase, DownloadUpdate, SwapTypeOK', image' \in BOOLEAN
  PROVE  ManagerSide'
  <1>1. /\ generation \in Nat /\ state = "updateAvailable" /\ Announced
        /\ UNCHANGED <<fetched, manifest, process, payload, dismissed, swept>>
    BY DEF DownloadUpdate, ManagerSide, Offered, cleanup
  <1>2. replies = {} /\ ~process /\ payload = "none"
    BY <1>1, NoReply DEF ManagerSide, Waiting, Offered
  <1>3. \/ state' = "error" /\ UNCHANGED <<generation, replies, bytes, file>>
        \/ /\ state' = "downloading" /\ generation' = generation + 1
           /\ replies' = {Request("archive", generation + 1)}
           /\ bytes' = 0 /\ file' \in {"announced", "other"}
    BY <1>2 DEF DownloadUpdate, Fail
  <1>4. Waiting'
    BY <1>1, <1>2, <1>3, RequestTyped DEF Waiting
  <1>5. ManagerTypeOK'
    BY <1>1, <1>2, <1>3, UpdateManagerConstants, RequestTyped DEF ManagerSide, ManagerTypeOK, Busy
  <1>6. Offered' /\ NoticeAsDismissed' /\ Blocked'
    BY <1>1, <1>2, <1>3 DEF ManagerSide, Offered, NoticeAsDismissed, Blocked, Announced
  <1> QED
    BY <1>1, <1>3, <1>4, <1>5, <1>6 DEF ManagerSide

\* A download that fails leaves nothing under way.
LEMMA DownloadFailsKeeps ==
  ASSUME ManagerSide, UNCHANGED phase, NEW r \in replies, r.kind = "archive", DownloadFails(r),
         SwapTypeOK', image' \in BOOLEAN
  PROVE  ManagerSide'
  <1>1. generation \in Nat /\ state = "downloading" /\ ~process /\ replies \ {r} = {}
    BY TheReply DEF ManagerSide
  <1>2. /\ UNCHANGED <<generation, fetched, manifest, process, payload, dismissed, swept>>
        /\ state' = "error" /\ replies' = {} /\ bytes' = 0 /\ file' = "none"
    BY <1>1 DEF DownloadFails, Fail, cleanup
  <1>3. Waiting'
    BY <1>1, <1>2 DEF Waiting
  <1>4. ManagerTypeOK'
    BY <1>2, UpdateManagerConstants DEF ManagerSide, ManagerTypeOK
  <1>5. Offered' /\ NoticeAsDismissed' /\ Blocked'
    BY <1>1, <1>2 DEF ManagerSide, Offered, NoticeAsDismissed, Blocked, Announced
  <1> QED
    BY <1>1, <1>2, <1>3, <1>4, <1>5 DEF ManagerSide

\* Another chunk, or the end of the download.
LEMMA ReadyReadKeeps ==
  ASSUME ManagerSide, UNCHANGED phase, NEW r \in replies,
         ReadyRead(r) \/ WatchdogFires(r) \/ ConnectionBreaks(r), SwapTypeOK', image' \in BOOLEAN
  PROVE  ManagerSide'
  <1>1. r.kind = "archive"
    BY DEF ReadyRead, WatchdogFires, ConnectionBreaks
  <1>2. CASE DownloadFails(r)
    BY <1>1, <1>2, DownloadFailsKeeps
  <1>3. CASE ~DownloadFails(r)
    <2>1. /\ bytes # Size /\ bytes' = bytes + 1
          /\ UNCHANGED <<state, generation, replies, fetched, manifest, file, process, payload,
                         noticeVisible, dismissed, swept>>
      BY <1>3 DEF ReadyRead, WatchdogFires, ConnectionBreaks, TooMuch, cleanup
    <2>2. ManagerTypeOK'
      BY <2>1, UpdateManagerConstants DEF ManagerSide, ManagerTypeOK
    <2> QED
      BY <2>1, <2>2 DEF ManagerSide, Waiting, Offered, NoticeAsDismissed, Blocked, Announced
  <1> QED
    BY <1>2, <1>3

\* A dismissal is of the version that is offered.
LEMMA DismissNoticeKeeps ==
  ASSUME ManagerSide, UNCHANGED phase, DismissNotice, SwapTypeOK', image' \in BOOLEAN
  PROVE  ManagerSide'
  <1>1. /\ UNCHANGED <<state, generation, replies, fetched, manifest, bytes, file, process,
                       payload, swept>>
        /\ noticeVisible' = FALSE /\ dismissed' = DismissedVersion
    BY DEF DismissNotice, cleanup
  <1>2. NoticeAsDismissed'
    <2>1. state = "updateAvailable" => dismissed' = manifest.version
      BY <1>1, AnnouncedIsManifest DEF ManagerSide, Offered, DismissedVersion
    <2> QED
      BY <1>1, <2>1 DEF NoticeAsDismissed
  <1>3. ManagerTypeOK'
    BY <1>1 DEF ManagerSide, ManagerTypeOK
  <1> QED
    BY <1>1, <1>2, <1>3 DEF ManagerSide, Waiting, Offered, Blocked, Announced

\* What does not touch the installed files keeps all that holds.
LEMMA NetworkKeeps ==
  ASSUME ManagerInv, state # "applying", Network, UNCHANGED <<image, swapVars>>
  PROVE  ManagerInv'
  <1>1. UNCHANGED <<phase, tree, backupSwept>> /\ SwapIdle /\ phase = "idle"
    <2>1. UNCHANGED backupSwept
      BY DEF Network, CheckForUpdates, DownloadUpdate, DismissNotice, SendsOn, ManifestReply,
         SignatureReply, ReadyRead, WatchdogFires, ConnectionBreaks, DownloadFails, cleanup
    <2> QED
      BY <2>1 DEF swapVars, SwapIdle, before, ManagerInv, Blocked
  <1>2. SwapInv'
    <2>1. /\ tree' \in [Dirs -> Contents] /\ \A p \in Paths : tree'["payload"][p] # "old"
          /\ image => \A d \in Dirs : \A p \in Paths \ ImagePaths : tree'[d][p] = "none"
          /\ NoFileLost'
      BY <1>1 DEF ManagerInv, SwapInv, SwapTyped, OnlyNewMoves, ImageSafe, NoFileLost
    <2> QED
      BY <1>1, <2>1, IdleKeeps DEF ManagerInv
  <1>3. SwapTypeOK' /\ image' \in BOOLEAN
    BY <1>2, SwapTypes
  <1>4. ManagerSide
    BY DEF ManagerInv, ManagerSide
  <1>5. ManagerSide'
    <2>1. CASE CheckForUpdates
      BY <1>1, <1>3, <1>4, <2>1, CheckForUpdatesKeeps
    <2>2. CASE DownloadUpdate
      BY <1>1, <1>3, <1>4, <2>2, DownloadUpdateKeeps
    <2>3. CASE DismissNotice
      BY <1>1, <1>3, <1>4, <2>3, DismissNoticeKeeps
    <2>4. ASSUME NEW r \in replies, ManifestReply(r) PROVE ManagerSide'
      BY <1>1, <1>3, <1>4, <2>4, ManifestReplyKeeps
    <2>5. ASSUME NEW r \in replies, SignatureReply(r) PROVE ManagerSide'
      BY <1>1, <1>3, <1>4, <2>5, SignatureReplyKeeps
    <2>6. ASSUME NEW r \in replies, ReadyRead(r) \/ WatchdogFires(r) \/ ConnectionBreaks(r)
          PROVE  ManagerSide'
      BY <1>1, <1>3, <1>4, <2>6, ReadyReadKeeps
    <2>7. ASSUME NEW r \in replies, SendsOn(r) PROVE ManagerSide'
      BY <1>1, <1>3, <1>4, <2>7, SendsOnKeeps
    <2> QED
      BY <2>1, <2>2, <2>3, <2>4, <2>5, <2>6, <2>7 DEF Network
  <1> QED
    BY <1>2, <1>5 DEF ManagerInv, ManagerSide

\* What is unpacked, or ready to be applied, has the announced digest.
LEMMA DownloadFinishesKeeps ==
  ASSUME ManagerInv, state # "applying", NEW r \in replies, DownloadFinishes(r),
         UNCHANGED image
  PROVE  ManagerInv'
  <1>1. /\ generation \in Nat /\ phase = "idle" /\ r.kind = "archive"
        /\ state = "downloading" /\ ~process /\ replies \ {r} = {} /\ payload = "none"
        /\ Announced /\ image \in BOOLEAN
    BY TheReply DEF DownloadFinishes, ManagerInv, Blocked, Offered, SwapInv, SwapTyped
  <1>2. /\ UNCHANGED <<generation, fetched, manifest, dismissed, swept, backupSwept, phase>>
        /\ replies' = {} /\ SwapIdle
        /\ \/ /\ state' = "error" /\ bytes' = 0 /\ file' = "none"
              /\ UNCHANGED <<process, payload, tree>>
           \/ /\ file = "announced" /\ state' = "extracting" /\ Unpacked({})
              /\ UNCHANGED <<bytes, file, payload>>
           \/ /\ file = "announced" /\ state' = "readyToApply" /\ payload' = file
              /\ Unpacked(NewFiles) /\ UNCHANGED <<bytes, file, process>>
    BY <1>1 DEF DownloadFinishes, Fail, cleanup, ArchiveMatches, SwapIdle
  <1>3. SwapInv'
    <2>1. CASE UNCHANGED tree
      <3>1. /\ tree' \in [Dirs -> Contents] /\ \A p \in Paths : tree'["payload"][p] # "old"
            /\ image => \A d \in Dirs : \A p \in Paths \ ImagePaths : tree'[d][p] = "none"
            /\ NoFileLost'
        BY <1>2, <2>1 DEF ManagerInv, SwapInv, SwapTyped, OnlyNewMoves, ImageSafe, NoFileLost
      <3> QED
        BY <1>1, <1>2, <2>1, <3>1, IdleKeeps DEF ManagerInv
    <2>2. CASE Unpacked({}) \/ Unpacked(NewFiles)
      BY <1>1, <1>2, <2>2, UnpackedKeeps DEF ManagerInv
    <2> QED
      BY <1>2, <2>1, <2>2
  <1>4. SwapTypeOK' /\ image' \in BOOLEAN
    BY <1>3, SwapTypes
  <1>5. Waiting'
    BY <1>1, <1>2 DEF Waiting
  <1>6. ManagerTypeOK'
    BY <1>1, <1>2, <1>4, UpdateManagerConstants DEF ManagerInv, ManagerTypeOK, Busy
  <1>7. Offered' /\ NoticeAsDismissed' /\ Blocked'
    BY <1>1, <1>2 DEF ManagerInv, Offered, NoticeAsDismissed, Blocked, Announced
  <1> QED
    BY <1>1, <1>2, <1>3, <1>5, <1>6, <1>7 DEF ManagerInv

\* What the process wrote is of the archive with the announced digest.
LEMMA ExtractionFinishesKeeps ==
  ASSUME ManagerInv, state # "applying", ExtractionFinishes, UNCHANGED image
  PROVE  ManagerInv'
  <1>1. /\ generation \in Nat /\ phase = "idle" /\ state = "extracting" /\ payload = "none"
        /\ Announced /\ (file = "announced" \/ (file = "swept" /\ swept))
        /\ image \in BOOLEAN
    BY DEF ExtractionFinishes, ManagerInv, Blocked, Waiting, Offered, SwapInv, SwapTyped
  <1>2. replies = {}
    BY <1>1, NoReply DEF ManagerInv
  <1>3. /\ UNCHANGED <<generation, replies, fetched, manifest, bytes, file, dismissed, swept,
                       backupSwept, phase>>
        /\ SwapIdle /\ process' = FALSE
        /\ \/ state' = "error" /\ UNCHANGED <<payload, tree>>
           \/ /\ state' = "readyToApply" /\ payload' = file
              /\ \E ps \in SUBSET NewFiles : Unpacked(ps)
    BY DEF ExtractionFinishes, Fail, cleanup, SwapIdle, Written
  <1>4. SwapInv'
    <2>1. CASE UNCHANGED tree
      <3>1. /\ tree' \in [Dirs -> Contents] /\ \A p \in Paths : tree'["payload"][p] # "old"
            /\ image => \A d \in Dirs : \A p \in Paths \ ImagePaths : tree'[d][p] = "none"
            /\ NoFileLost'
        BY <1>3, <2>1 DEF ManagerInv, SwapInv, SwapTyped, OnlyNewMoves, ImageSafe, NoFileLost
      <3> QED
        BY <1>1, <1>3, <2>1, <3>1, IdleKeeps DEF ManagerInv
    <2>2. ASSUME NEW ps \in SUBSET NewFiles, Unpacked(ps) PROVE SwapInv'
      BY <1>1, <1>3, <2>2, UnpackedKeeps DEF ManagerInv
    <2> QED
      BY <1>3, <2>1, <2>2
  <1>5. SwapTypeOK' /\ image' \in BOOLEAN
    BY <1>4, SwapTypes
  <1>6. ManagerTypeOK'
    BY <1>1, <1>3, <1>5 DEF ManagerInv, ManagerTypeOK
  <1>7. Waiting' /\ Offered' /\ NoticeAsDismissed' /\ Blocked'
    BY <1>1, <1>2, <1>3 DEF ManagerInv, Waiting, Offered, NoticeAsDismissed, Blocked, Announced
  <1> QED
    BY <1>1, <1>3, <1>4, <1>6, <1>7 DEF ManagerInv

\* The thread is blocked from the beginning of the swap ...
LEMMA ApplyAndRestartKeeps ==
  ASSUME ManagerInv, state # "applying", ApplyAndRestart, UNCHANGED image
  PROVE  ManagerInv'
  <1>1. /\ generation \in Nat /\ phase = "idle" /\ state = "readyToApply" /\ Announced
        /\ state' = "applying" /\ SwapBegins
        /\ UNCHANGED <<generation, replies, fetched, manifest, bytes, file, process, payload,
                       noticeVisible, dismissed, swept, backupSwept>>
    BY DEF ApplyAndRestart, ManagerInv, Blocked, Offered, cleanup
  <1>2. replies = {} /\ ~process
    BY <1>1, NoReply DEF ManagerInv, Waiting
  <1>3. SwapInv' /\ phase' # "idle"
    BY <1>1, SwapBeginsKeeps DEF ManagerInv
  <1>4. SwapTypeOK' /\ image' \in BOOLEAN
    BY <1>3, SwapTypes
  <1>5. ManagerTypeOK'
    BY <1>1, <1>4 DEF ManagerInv, ManagerTypeOK, Busy
  <1>6. Waiting' /\ Offered' /\ NoticeAsDismissed' /\ Blocked'
    BY <1>1, <1>2, <1>3 DEF ManagerInv, Waiting, Offered, NoticeAsDismissed, Blocked, Announced
  <1> QED
    BY <1>1, <1>3, <1>5, <1>6 DEF ManagerInv

\* ... to its end.
LEMMA SwapEndsKeeps ==
  ASSUME ManagerInv, SwapEnds, UNCHANGED image
  PROVE  ManagerInv'
  <1>1. /\ generation \in Nat /\ state = "applying" /\ phase \in {"ok", "failed"}
        /\ state' \in {"error", "quit"} /\ SwapReturns
        /\ UNCHANGED <<generation, replies, fetched, manifest, bytes, file, process, payload,
                       noticeVisible, dismissed, swept, backupSwept>>
    BY DEF SwapEnds, ManagerInv, cleanup
  <1>2. replies = {} /\ ~process
    BY <1>1, NoReply DEF ManagerInv, Waiting
  <1>3. SwapInv' /\ phase' = "idle"
    BY <1>1, SwapReturnsKeeps DEF ManagerInv
  <1>4. SwapTypeOK' /\ image' \in BOOLEAN
    BY <1>3, SwapTypes
  <1>5. ManagerTypeOK'
    BY <1>1, <1>4 DEF ManagerInv, ManagerTypeOK
  <1>6. Waiting' /\ Offered' /\ NoticeAsDismissed' /\ Blocked'
    BY <1>1, <1>2, <1>3 DEF ManagerInv, Waiting, Offered, NoticeAsDismissed, Blocked, Announced
  <1> QED
    BY <1>1, <1>3, <1>5, <1>6 DEF ManagerInv

\* The cleanup deletes no file of the old version that it does not own up to.
LEMMA CleanupKeeps ==
  ASSUME ManagerInv, state # "applying", CleanupUpdateDir, UNCHANGED image
  PROVE  ManagerInv'
  <1>1. /\ generation \in Nat /\ phase = "idle" /\ SwapIdle /\ phase' = phase
        /\ UNCHANGED <<state, generation, replies, fetched, manifest, bytes, process,
                       noticeVisible, dismissed>>
        /\ swept' = (state \in {"downloading", "extracting"} \/ payload # "none")
        /\ payload' = IF payload = "none" THEN "none" ELSE "swept"
        /\ file' = IF state \in {"downloading", "extracting"} THEN "swept" ELSE file
        /\ tree' = [tree EXCEPT !["old"] = Empty, !["payload"] = Empty]
        /\ backupSwept' = (backupSwept \/ tree["old"] # Empty)
    BY DEF CleanupUpdateDir, ManagerInv, Blocked, SwapIdle
  <1>2. /\ tree \in [Dirs -> Contents] /\ Dirs = {"root", "old", "payload"}
        /\ image \in BOOLEAN
    BY DEF ManagerInv, SwapInv, SwapTyped, Dirs
  <1>3. /\ tree' \in [Dirs -> Contents]
        /\ tree'["root"] = tree["root"] /\ tree'["payload"] = Empty /\ tree'["old"] = Empty
    BY <1>1, <1>2, EmptyTyped
  <1>4. SwapInv'
    <2>1. \A p \in Paths : tree'["payload"][p] # "old"
      BY <1>3, EmptyTyped
    <2>2. image => \A d \in Dirs : \A p \in Paths \ ImagePaths : tree'[d][p] = "none"
      BY <1>2, <1>3, EmptyTyped DEF ManagerInv, SwapInv, ImageSafe
    <2>3. NoFileLost'
      <3>1. backupSwept' \/ tree["old"] = tree'["old"]
        BY <1>1, <1>3
      <3> QED
        BY <1>1, <1>3, <3>1 DEF ManagerInv, SwapInv, NoFileLost
    <2> QED
      BY <1>1, <1>3, <2>1, <2>2, <2>3, IdleKeeps DEF ManagerInv
  <1>5. SwapTypeOK' /\ image' \in BOOLEAN
    BY <1>4, SwapTypes
  <1>6. ManagerTypeOK'
    BY <1>1, <1>5 DEF ManagerInv, ManagerTypeOK
  <1>7. Waiting' /\ NoticeAsDismissed' /\ Blocked'
    BY <1>1 DEF ManagerInv, Waiting, NoticeAsDismissed, Blocked
  <1>8. Offered'
    BY <1>1 DEF ManagerInv, Offered, Announced
  <1> QED
    BY <1>1, <1>4, <1>6, <1>7, <1>8 DEF ManagerInv

-----------------------------------------------------------------------------
\* The files at the start.
LEMMA ManagerStarts ==
  ASSUME ManagerInit
  PROVE  ManagerInv
  <1>1. /\ phase = "idle" /\ backedUp = {} /\ installed = {} /\ attempt = 0 /\ failures = 0
        /\ rootBefore = Empty /\ payloadBefore = Empty /\ image \in BOOLEAN
        /\ tree = [d \in Dirs |-> IF d = "root" THEN Holding(OldFiles, "old") ELSE Empty]
    BY DEF ManagerInit, SwapInit
  <1>2. /\ Dirs = {"root", "old", "payload"} /\ tree["root"] = Holding(OldFiles, "old")
        /\ tree["old"] = Empty /\ tree["payload"] = Empty
    BY <1>1 DEF Dirs
  <1>3. Holding(OldFiles, "old") \in Contents
    BY DEF Holding, Contents, Kinds
  <1>4. \A p \in Paths : Holding(OldFiles, "old")[p] = IF p \in OldFiles THEN "old" ELSE "none"
    BY DEF Holding
  <1>5. SwapTyped
    BY <1>1, <1>3, EmptyTyped DEF SwapTyped, Moving, Undoing
  <1>6. OnlyNewMoves /\ Forward /\ Backward
    BY <1>1, <1>2, EmptyTyped DEF OnlyNewMoves, Forward, Backward, Undoing
  <1>7. ImageSafe
    <2>1. Client \in Paths /\ (image => Client \in OldFiles)
      BY InstallSwapConstants DEF Client, ImagePaths, Paths, OldFiles
    <2>2. image => \A d \in Dirs : \A p \in Paths \ ImagePaths : tree[d][p] = "none"
      BY <1>2, <1>4, EmptyTyped DEF OldFiles
    <2> QED
      BY <1>1, <1>2, <1>4, <2>1, <2>2 DEF ImageSafe
  <1>8. NoFileLost
    BY <1>2, <1>4 DEF NoFileLost, OldFiles, Paths
  <1>9. SwapInv
    BY <1>5, <1>6, <1>7, <1>8 DEF SwapInv
  <1>10. SwapTypeOK
    BY <1>5 DEF SwapTyped, SwapTypeOK, Contents, Kinds
  <1>11. /\ state = "idle" /\ generation = 0 /\ replies = {}
         /\ fetched = NoManifest /\ manifest = NoManifest
         /\ bytes = 0 /\ file = "none" /\ process = FALSE /\ payload = "none"
    BY DEF ManagerInit
  <1>12. ManagerTypeOK
    BY <1>1, <1>10, <1>11, UpdateManagerConstants DEF ManagerTypeOK
  <1>13. Waiting /\ Offered /\ NoticeAsDismissed /\ Blocked
    BY <1>1, <1>11 DEF Waiting, Offered, NoticeAsDismissed, Blocked
  <1> QED
    BY <1>9, <1>11, <1>12, <1>13 DEF ManagerInv

\* Every step keeps what holds of the updater and of the files.
LEMMA ManagerStepKeeps ==
  ASSUME ManagerInv, [ManagerNext]_<<image, updaterVars>>
  PROVE  ManagerInv'
  <1>1. CASE UNCHANGED image /\ state # "applying" /\ Network /\ UNCHANGED swapVars
    BY <1>1, NetworkKeeps
  <1>2. CASE UNCHANGED image /\ state # "applying" /\ Files
    BY <1>2, ExtractionFinishesKeeps, ApplyAndRestartKeeps, CleanupKeeps, DownloadFinishesKeeps
       DEF Files
  <1>3. CASE UNCHANGED image /\ SwapStep /\ UNCHANGED managerVars
    <2>1. /\ UNCHANGED <<state, generation, replies, fetched, manifest, bytes, file, process,
                         payload, noticeVisible, dismissed, swept, backupSwept>>
      BY <1>3 DEF managerVars, cleanup
    <2>2. SwapInv' /\ phase # "idle" /\ phase' # "idle"
      BY <1>3, <2>1, SwapStepKeeps DEF ManagerInv
    <2>3. SwapTypeOK' /\ image' \in BOOLEAN
      BY <2>2, SwapTypes
    <2>4. ManagerTypeOK'
      BY <2>1, <2>3 DEF ManagerInv, ManagerTypeOK
    <2> QED
      BY <2>1, <2>2, <2>4
         DEF ManagerInv, Waiting, Offered, NoticeAsDismissed, Blocked, Announced
  <1>4. CASE UNCHANGED image /\ SwapEnds
    BY <1>4, SwapEndsKeeps
  <1>5. CASE UNCHANGED <<image, updaterVars>>
    <2>1. UNCHANGED <<image, state, generation, replies, fetched, manifest, bytes, file, process,
                      payload, noticeVisible, dismissed, swept, backupSwept, tree, phase, entry,
                      backedUp, installed, attempt, failures, rootBefore, payloadBefore, torn,
                      undoFailed>>
      BY <1>5 DEF updaterVars, managerVars, cleanup, swapVars
    <2>2. SwapTyped' /\ OnlyNewMoves' /\ NoFileLost'
      BY <2>1 DEF ManagerInv, SwapInv, SwapTyped, OnlyNewMoves, NoFileLost
    <2>3. Forward'
      BY <2>1 DEF ManagerInv, SwapInv, Forward, DoneUpTo, UnderWay, Replaced, BeingMoved
    <2>4. Backward'
      BY <2>1 DEF ManagerInv, SwapInv, Backward, Replaced, ToRestore, ToUninstall
    <2>5. ImageSafe'
      BY <2>1 DEF ManagerInv, SwapInv, ImageSafe, InOneOf
    <2>6. ManagerTypeOK'
      BY <2>1 DEF ManagerInv, ManagerTypeOK, SwapTypeOK
    <2> QED
      BY <2>1, <2>2, <2>3, <2>4, <2>5, <2>6
         DEF ManagerInv, SwapInv, Waiting, Offered, NoticeAsDismissed, Blocked, Announced
  <1> QED
    BY <1>1, <1>2, <1>3, <1>4, <1>5 DEF ManagerNext

\* What the updater relies on holds in every state: one reply at most is under way, what
\* is ready was announced, and every file of a swap is where the swap's phase says.
THEOREM ManagerInvariant == ManagerSpec => []ManagerInv
  <1> QED
    BY ManagerStarts, ManagerStepKeeps, PTL DEF ManagerSpec

\* What is offered, fetched and kept ready was announced by a signed manifest of a newer
\* version; replies never overlap, and a dismissed notice stays away.
THEOREM OfferIsSound == ManagerSpec => []OfferSound
  <1>1. ManagerInv => OfferSound
    <2> SUFFICES ASSUME ManagerInv PROVE OfferSound
      OBVIOUS
    <2>1. ManagerTypeOK /\ NoticeAsDismissed
      BY DEF ManagerInv
    <2>2. PayloadVerified
      BY DEF ManagerInv, Offered, Announced, PayloadVerified
    <2>3. Cardinality(replies) <= 1
      <3>1. CASE replies = {}
        BY <3>1, FS_EmptySet
      <3>2. CASE replies # {}
        <4>1. PICK r \in replies : replies = {r}
          BY <3>2 DEF ManagerInv, Waiting
        <4>2. Cardinality({r}) = 1
          BY FS_Singleton
        <4> QED
          BY <4>1, <4>2
      <3> QED
        BY <3>1, <3>2
    <2>4. OneRequest
      BY <2>3 DEF ManagerInv, Waiting, OneRequest
    <2> QED
      BY <2>1, <2>2, <2>4 DEF OfferSound
  <1> QED
    BY <1>1, ManagerInvariant, PTL

\* No file of the old version is lost, a swap installs all entries or nothing, and an
\* AppImage stays in its place, however the renames fail.
THEOREM InstallationIsKept == ManagerSpec => []InstallationKept
  <1>1. ManagerInv => InstallationKept
    <2> SUFFICES ASSUME ManagerInv PROVE InstallationKept
      OBVIOUS
    <2>1. NoFileLost
      BY DEF ManagerInv, SwapInv
    <2>2. ASSUME phase = "ok", NEW p \in Paths
          PROVE  tree["root"][p] =
                   IF \E q \in FilesOf(p[1]) : payloadBefore[q] # "none" THEN payloadBefore[p]
                   ELSE rootBefore[p]
      <3>1. DoneUpTo /\ BeingMoved = {}
        BY <2>2 DEF ManagerInv, SwapInv, Forward, BeingMoved
      <3>2. p[1] \in installed <=> \E q \in FilesOf(p[1]) : payloadBefore[q] # "none"
        BY <2>2, <3>1 DEF DoneUpTo, FilesOf
      <3> QED
        BY <3>1, <3>2 DEF DoneUpTo
    <2>3. ASSUME phase = "failed", ~torn, ~undoFailed
          PROVE  /\ tree["payload"] = payloadBefore
                 /\ \A p \in Paths : rootBefore[p] # "none" => tree["root"][p] = rootBefore[p]
      <3>1. ToUninstall = {} /\ ToRestore = {}
        BY <2>3 DEF ToUninstall, ToRestore
      <3>2. \A p \in Paths : tree["payload"][p] = payloadBefore[p]
        BY <2>3, <3>1 DEF ManagerInv, SwapInv, Backward
      <3>3. tree["payload"] \in [Paths -> Kinds] /\ payloadBefore \in [Paths -> Kinds]
        BY DEF ManagerInv, SwapInv, SwapTyped, Contents, Dirs
      <3>4. tree["payload"] = payloadBefore
        BY <3>2, <3>3
      <3> QED
        BY <2>3, <3>1, <3>4 DEF ManagerInv, SwapInv, Backward
    <2>4. ImagePresent
      <3> SUFFICES ASSUME image, phase \in {"ok", "failed"}, failures < 6
                   PROVE  Held("root", 1) # {}
        BY DEF ImagePresent
      <3>1. tree["root"][Client] # "none"
        BY DEF ManagerInv, SwapInv, ImageSafe
      <3>2. Client \in Paths /\ Client[1] = 1
        BY InstallSwapConstants DEF Client, ImagePaths, Paths
      <3> QED
        BY <3>1, <3>2 DEF Held, FilesOf
    <2> QED
      BY <2>1, <2>2, <2>3, <2>4 DEF InstallationKept, AllOrNothing
  <1> QED
    BY <1>1, ManagerInvariant, PTL
=============================================================================
