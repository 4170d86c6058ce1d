--------------------------- MODULE MediaConnections ---------------------------
(***************************************************************************)
(* The PeerConnections of one session (media_connections.cpp): one for     *)
(* each connection id, replaced by every new offer, with the tracks that   *)
(* it has brought.  The routers keep weak pointers to the tracks; this is  *)
(* what keeps them alive.                                                  *)
(*                                                                         *)
(* Threads.  Offers are accepted on the WebSocket thread.  libdatachannel  *)
(* reports tracks, failures and closed tracks on threads of its own, one   *)
(* callback of a PeerConnection at a time.  close() is called by that      *)
(* session's on_close, by WebSocketServer::stop from any thread, and by    *)
(* the destructor, which runs late if an offer is being accepted.          *)
(*                                                                         *)
(* Every section under `mutex` is an action.  Nothing is closed under it:  *)
(* what was taken out of `connections` is closed later, and the callbacks  *)
(* of a closed track come later still.  Local descriptions and candidates  *)
(* change nothing here and are left out.                                   *)
(***************************************************************************)
EXTENDS Naturals, FiniteSets

CONSTANTS
    Nil,
    ConnectionIds,   \* signaling::ConnectionId: voice and screen
    Pcs,             \* rtc::PeerConnections that accept_offer will create
    Tracks,          \* rtc::Tracks that they will bring
    Mids


VARIABLES
    held,          \* Session::media_connections_ is set
    connections,   \* the PeerConnection and the tracks of each connection
    offer,         \* the accept_offer that is under way
    made,          \* for which connection each PeerConnection was created
    negotiated,    \* PeerConnections that have their remote description
    brought,       \* the PeerConnection that has brought each track
    arriving,      \* onTrack callbacks under way
    hooked,        \* tracks with an onClosed callback
    closing,       \* taken out of `connections`, but not closed yet
    closed,        \* closed PeerConnections and tracks
    notifying      \* onClosed callbacks that have not run yet

mediaVars == <<held, connections, offer, made, negotiated, brought, arriving,
          hooked, closing, closed, notifying>>

NoConnection == [pc |-> Nil, tracks |-> [m \in Mids |-> Nil]]

\* Steps of accept_offer after the present PeerConnection was looked up.
Steps == {"remove", "create", "install", "apply"}

Offers == [connection : ConnectionIds, step : Steps, pc : Pcs \cup {Nil},
           removing : SUBSET (Pcs \cup Tracks)]

ASSUME MediaConstants == Nil \notin ConnectionIds \cup Pcs \cup Tracks \cup Offers

Arrivals == [pc : Pcs, track : Tracks, mid : Mids, registered : BOOLEAN]

-----------------------------------------------------------------------------
\* What there is to close of a connection: its PeerConnection and its tracks.
Held(c) ==
    ({connections[c].pc} \cup {connections[c].tracks[m] : m \in Mids}) \ {Nil}

\* Mutant: it does not matter whose the connection is.
OwnsAnything(c, pc) == connections[c].pc # Nil

\* owns, and the same test in register_track and remove_and_close.
Owns(c, pc) == pc # Nil /\ connections[c].pc = pc

Taken(c, pc) == IF Owns(c, pc) THEN Held(c) ELSE {}

\* remove_and_close, as far as it holds the mutex.
RemoveAndClose(c, pc) ==
    /\ connections' = IF Owns(c, pc) THEN [connections EXCEPT ![c] = NoConnection]
                      ELSE connections
    /\ closing' = closing \cup Taken(c, pc)

-----------------------------------------------------------------------------
\* accept_offer: the PeerConnection that is there now has to go first.
AcceptOffer(c) ==
    /\ held /\ offer = Nil
    /\ \E pc \in Pcs : made[pc] = Nil
    /\ offer' = [connection |-> c, step |-> "remove", pc |-> connections[c].pc,
                 removing |-> {}]
    /\ UNCHANGED <<held, connections, made, negotiated, brought, arriving, hooked,
                   closing, closed, notifying>>

\* Mutant: the old PeerConnection is left to itself.
NothingRemoved(c, pc) == UNCHANGED <<connections, closing>>

\* The part of accept_offer that clears the way.
ClearTheWay(c, pc) == RemoveAndClose(c, pc)

RemoveOld ==
    LET c == offer.connection IN
    /\ offer # Nil /\ offer.step = "remove"
    /\ ClearTheWay(c, offer.pc)
    /\ offer' = [offer EXCEPT !.step = "create", !.pc = Nil,
                              !.removing = Taken(c, offer.pc)]
    /\ UNCHANGED <<held, made, negotiated, brought, arriving, hooked, closed, notifying>>

\* Once the old one is closed; the constructor may throw.
CreatePc(pc) ==
    /\ offer # Nil /\ offer.step = "create" /\ offer.removing \cap closing = {}
    /\ made[pc] = Nil
    /\ \/ /\ made' = [made EXCEPT ![pc] = offer.connection]
          /\ offer' = [offer EXCEPT !.step = "install", !.pc = pc, !.removing = {}]
       \/ offer' = Nil /\ UNCHANGED made
    /\ UNCHANGED <<held, connections, negotiated, brought, arriving, hooked,
                   closing, closed, notifying>>

InstallPc ==
    /\ offer # Nil /\ offer.step = "install"
    /\ connections' = [connections EXCEPT ![offer.connection] =
                          [NoConnection EXCEPT !.pc = offer.pc]]
    /\ offer' = [offer EXCEPT !.step = "apply"]
    /\ UNCHANGED <<held, made, negotiated, brought, arriving, hooked, closing,
                   closed, notifying>>

\* apply_offer; setRemoteDescription throws for a bad offer or a closed pc.
ApplyOffer ==
    /\ offer # Nil /\ offer.step = "apply"
    /\ \/ /\ offer.pc \notin closed
          /\ negotiated' = negotiated \cup {offer.pc}
          /\ UNCHANGED <<connections, closing>>
       \/ /\ RemoveAndClose(offer.connection, offer.pc)
          /\ UNCHANGED negotiated
    /\ offer' = Nil
    /\ UNCHANGED <<held, made, brought, arriving, hooked, closed, notifying>>

-----------------------------------------------------------------------------
\* The onTrack callback starts; it may still be running when pc is closed.
OnTrack(pc, t, m) ==
    /\ pc \in negotiated \ closed
    /\ brought[t] = Nil
    /\ \A a \in arriving : a.pc # pc
    /\ brought' = [brought EXCEPT ![t] = pc]
    /\ arriving' = arriving \cup {[pc |-> pc, track |-> t, mid |-> m, registered |-> FALSE]}
    /\ UNCHANGED <<held, connections, offer, made, negotiated, hooked, closing,
                   closed, notifying>>

(***************************************************************************)
(* register_track, under the mutex: only for the PeerConnection that the   *)
(* connection has now.  A track that had the mid before is closed.         *)
(***************************************************************************)
RegisterTrack(a) ==
    LET c == made[a.pc]
        replaced == connections[c].tracks[a.mid]
    IN  /\ a \in arriving /\ ~a.registered
        /\ IF Owns(c, a.pc)
           THEN /\ connections' = [connections EXCEPT ![c].tracks[a.mid] = a.track]
                /\ closing' = closing \cup ({replaced} \ {Nil})
                /\ arriving' = (arriving \ {a}) \cup {[a EXCEPT !.registered = TRUE]}
           ELSE /\ arriving' = arriving \ {a}
                /\ UNCHANGED <<connections, closing>>
        /\ UNCHANGED <<held, offer, made, negotiated, brought, hooked, closed, notifying>>

(***************************************************************************)
(* register_track, the rest: the onClosed callback, which never runs if    *)
(* the track has been closed before, then track_ready, which hands the     *)
(* track to the router of its room.                                        *)
(***************************************************************************)
HookTrack(a) ==
    /\ a \in arriving /\ a.registered
    /\ hooked' = hooked \cup {a.track}
    /\ arriving' = arriving \ {a}
    /\ UNCHANGED <<held, connections, offer, made, negotiated, brought, closing,
                   closed, notifying>>

\* onStateChange: Failed or Closed.
OnFailed(pc) ==
    /\ pc \in negotiated
    /\ Owns(made[pc], pc)
    /\ RemoveAndClose(made[pc], pc)
    /\ UNCHANGED <<held, offer, made, negotiated, brought, arriving, hooked, closed,
                   notifying>>

\* close of something taken out, or of a track by the other side.
CloseIt(x) ==
    /\ x \in closing \/ (x \in Tracks /\ brought[x] # Nil /\ x \notin closed)
    /\ closing' = closing \ {x}
    /\ closed' = closed \cup {x}
    /\ notifying' = IF x \in hooked \ closed THEN notifying \cup {x} ELSE notifying
    /\ UNCHANGED <<held, connections, offer, made, negotiated, brought, arriving, hooked>>

\* The onClosed callback forgets its own track and no other.
OnClosed(t) ==
    /\ t \in notifying
    /\ notifying' = notifying \ {t}
    /\ connections' = [c \in ConnectionIds |-> [connections[c] EXCEPT
           !.tracks = [m \in Mids |-> IF @[m] = t THEN Nil ELSE @[m]]]]
    /\ UNCHANGED <<held, offer, made, negotiated, brought, arriving, hooked, closing, closed>>

-----------------------------------------------------------------------------
AllTaken ==
    /\ connections' = [c \in ConnectionIds |-> NoConnection]
    /\ closing' = closing \cup UNION {Held(c) : c \in ConnectionIds}

\* Session::close_media_connections.
CloseMediaConnections ==
    /\ held
    /\ held' = FALSE
    /\ AllTaken
    /\ UNCHANGED <<offer, made, negotiated, brought, arriving, hooked, closed, notifying>>

\* Mutant: the destructor does not close.
NeverDestroyed == FALSE

\* The last shared_ptr goes when neither the session nor an offer has one.
LastOwnerGone == ~held /\ offer = Nil

\* ~MediaConnections closes what an offer has put there since.
Destroy ==
    /\ LastOwnerGone
    /\ \E c \in ConnectionIds : connections[c] # NoConnection
    /\ AllTaken
    /\ UNCHANGED <<held, offer, made, negotiated, brought, arriving, hooked, closed, notifying>>

-----------------------------------------------------------------------------
MediaInit ==
    /\ held = TRUE
    /\ connections = [c \in ConnectionIds |-> NoConnection]
    /\ offer = Nil
    /\ made = [pc \in Pcs |-> Nil]
    /\ negotiated = {}
    /\ brought = [t \in Tracks |-> Nil]
    /\ arriving = {}
    /\ hooked = {}
    /\ closing = {} /\ closed = {} /\ notifying = {}

MediaNext ==
    \/ \E c \in ConnectionIds : AcceptOffer(c)
    \/ RemoveOld
    \/ \E pc \in Pcs : CreatePc(pc)
    \/ InstallPc
    \/ ApplyOffer
    \/ \E pc \in Pcs, t \in Tracks, m \in Mids : OnTrack(pc, t, m)
    \/ \E a \in arriving : RegisterTrack(a)
    \/ \E a \in arriving : HookTrack(a)
    \/ \E pc \in Pcs : OnFailed(pc)
    \/ \E x \in Pcs \cup Tracks : CloseIt(x)
    \/ \E t \in Tracks : OnClosed(t)
    \/ CloseMediaConnections
    \/ Destroy

(***************************************************************************)
(* accept_offer returns, the destructor runs, and whoever has taken        *)
(* something out of `connections` closes it.  Nothing is assumed of the    *)
(* clients or of libdatachannel.                                           *)
(***************************************************************************)
Fairness ==
    /\ WF_mediaVars(RemoveOld) /\ WF_mediaVars(InstallPc) /\ WF_mediaVars(ApplyOffer)
    /\ WF_mediaVars(\E pc \in Pcs : CreatePc(pc))
    /\ WF_mediaVars(Destroy)
    /\ \A x \in Pcs \cup Tracks : WF_mediaVars(x \in closing /\ CloseIt(x))

MediaSpec == MediaInit /\ [][MediaNext]_mediaVars /\ Fairness

-----------------------------------------------------------------------------
\* The type of every variable; nothing but what there is gets closed.
MediaTypeOK ==
    /\ held \in BOOLEAN
    /\ connections \in [ConnectionIds -> [pc : Pcs \cup {Nil},
                                          tracks : [Mids -> Tracks \cup {Nil}]]]
    /\ offer \in Offers \cup {Nil}
    /\ made \in [Pcs -> ConnectionIds \cup {Nil}]
    /\ negotiated \subseteq Pcs
    /\ brought \in [Tracks -> Pcs \cup {Nil}]
    /\ arriving \subseteq Arrivals
    /\ hooked \subseteq Tracks
    /\ closing \subseteq Pcs \cup Tracks
    /\ closed \subseteq Pcs \cup Tracks
    /\ notifying \subseteq Tracks

(***************************************************************************)
(* A connection only ever holds tracks of the PeerConnection it has now: a *)
(* track that a replaced PeerConnection reports late (register_track) does *)
(* not get into its successor's table.                                     *)
(***************************************************************************)
TracksOfCurrentPc ==
    /\ MediaTypeOK
    /\ \A c \in ConnectionIds, m \in Mids :
          connections[c].tracks[m] # Nil =>
              /\ brought[connections[c].tracks[m]] = connections[c].pc
              /\ made[connections[c].pc] = c

(***************************************************************************)
(* Nothing gets lost between the offers, the failures and the end of the   *)
(* session: a PeerConnection and a registered track are in `connections`,  *)
(* or somebody is about to close them, or they are closed.                 *)
(***************************************************************************)
NothingLeaks ==
    LET kept == UNION {Held(c) : c \in ConnectionIds}
        registered == hooked \cup {a.track : a \in {x \in arriving : x.registered}}
    IN
    /\ \A pc \in Pcs : made[pc] # Nil =>
          \/ pc \in kept \cup closing \cup closed
          \/ offer # Nil /\ offer.pc = pc /\ offer.step = "install"
    /\ registered \subseteq kept \cup closing \cup closed

(***************************************************************************)
(* When the session has ended, or the server stops, every PeerConnection   *)
(* is closed in the end, even one that an offer accepted at that very      *)
(* moment has just created (the destructor's second close).                *)
(***************************************************************************)
AllReleased ==
    ~held ~> \A pc \in Pcs : made[pc] # Nil => pc \in closed
===============================================================================
