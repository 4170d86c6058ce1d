# A TLA+ model of driscord

driscord is a voice and screen-sharing application: a desktop client (`client-qt/`
on top of `core/`), a REST API (`backend/api/`) and a signaling server with a
selective forwarding unit (`backend/signaling_server/`). This directory holds
TLA+ modules that model its parts, TLC configurations that check them on small
instances, and proofs, checked by TLAPS, of what holds on every instance.
`PROJECT.json` lists the components, the runs, the source lines behind every
definition, the hazards that the properties are aimed at, and the theorems.

Paths below are relative to the repository. `S/` stands for
`backend/signaling_server/src/`.

## 1. The system

### Server

| Component | State | Operations | Called by |
|---|---|---|---|
| `WebSocketServer`, `Session` (`S/ws_server.cpp`) | `rooms_`: sessions, streaming peers, watches, two routers per room; per session a write queue and its `MediaConnections` | admission, join, streaming start/stop, watch start/stop, leave, stop | one `io_context` thread; `stop` from any |
| write queue of a `Session` | `write_queue_` (128 messages), outstanding `async_write` | `enqueue`, `do_write`, `on_write`, `on_close` | any thread; the `io_context` thread |
| `MediaConnections` (`S/media_connections.cpp`) | one PeerConnection per connection id, its tracks by mid | accept an offer, register a track, fail, close | WebSocket thread, libdatachannel threads |
| `VoiceRouter` (`S/voice_router.cpp`) | peers, their input and output slots, the publisher of each slot; delay queue | register input/output, remove peer, route, close | libdatachannel threads, WebSocket thread, timer |
| `ScreenRouter` (`S/screen_router.cpp`) | the same with pairs of video and audio, plus who streams and who watches whom | as above, set streaming, set watching, forward keyframe requests | as above |
| `RtpSlotRewriter` (`S/rtp_slot_rewriter.cpp`) | generation, anchor, offsets, last numbers | begin/end a source, rewrite a packet | the routers, under its own lock |
| link model and faults (`S/sfu_media_utils.cpp`) | random state, busy-until time | schedule, drop, duplicate, delay | the routers |
| `ApiAuthenticator` (`S/api_authenticator.cpp`) | one HTTP call per request | resolve, connect, write, read, each with a deadline | sessions |

A client opens a WebSocket, is admitted (with a token check against the REST API
if one is configured), gets a `welcome` with the room as it is, and from then on
`peer_joined`, `peer_left`, `streaming_start`, `streaming_stop`. It offers a voice and a screen
PeerConnection; `MediaConnections` answers and hands every track to the room's
router. A track that sends is the input of its peer; a track that receives is a
slot. The router gives slots to publishers and tells the subscriber with
`track_binding` messages. Packets are forwarded from input to slots and
renumbered by the rewriter of the slot.

### Client

| Component | State | Operations |
|---|---|---|
| `Transport` (`core/src/transport.cpp`) | current socket, local id, peers | connect, disconnect, socket callbacks, messages |
| `GoogleWebRtcClient` (`core/src/webrtc/`) | wanted and running voice/screen sessions, watched peers, bindings, recovery queue | start/stop, join/leave a stream, share, recover, apply answers and bindings |
| screen statistics (`google_webrtc_screen_stats.cpp`) | bindings, baselines, report in flight | bind, watch, poll, consume a report |
| PCM playout (`google_webrtc_pcm_playout.cpp`) | lock-free sample queue, device, count of pushes under way | start, stop, push, render |
| `DriscordBridge`, `AppState` (`client-qt/src/app/`) | channel, peers, streams as shown | callbacks queued into the GUI thread, user commands |
| updater (`client-qt/src/update/`) | stage of the update, files | check, download, verify, swap, roll back |
| REST client (`client-qt/src/api/`) | account, stored session, requests under way | login, restore, logout, requests |

### REST API (`backend/api/`)

Users, servers, channels, memberships and invites in a database. A request is a
coroutine that reads with one statement after the other, decides, and writes with
one commit; other requests run at every `await`.

### What is hard here

* Three kinds of threads change the routers. Bindings change under one lock,
  notices go out under another, packets are sent under none.
* The routers, rooms and `MediaConnections` keep tables about the same peers
  under different locks, updated one after the other.
* Callbacks of PeerConnections, tracks, sockets and timers come late: after
  their object was replaced or closed.
* Sequence numbers are 16 bits wide, and long calls wrap them several times.
* Queues are bounded and drop silently.
* The client decides under a mutex and acts outside of it: sessions are created,
  settings applied and messages sent when the decision may be out of date.
* The desktop application learns everything from queued callbacks and late
  replies, some of them of a call, an account or a server that it has left.
* Updates move files one by one, and any move may fail.
* Handlers of the REST API read, decide and commit with other requests in between.

`PROJECT.json` lists these as hazards, each at its line, with the properties that
cover it or the reason why none does.

## 2. Modules

| Module | Models | State and actions |
|---|---|---|
| `SlotAssignment` | `assign_available_locked` of both routers | an operator: `Grant` pairs the free slots, in their order, with the publishers that wait, in theirs |
| `SlotAssignmentLoop` | the loop itself | operators, compared with `Grant` on every input of up to 4 peers and 3 outputs by the assumption `LoopComputesGrant`, which TLC evaluates in the run `VoiceRouter` |
| `VoiceRouter` | `S/voice_router.cpp` | the tables of `Impl`; one action per operation, one per notice, one per packet sent |
| `ScreenRouter` | `S/screen_router.cpp` | likewise; `register_output` is two actions, one for each critical section |
| `RtpSlotRewriter` | `S/rtp_slot_rewriter.cpp` | the members of the class; packets arrive late, twice or not at all; history of where each source began and where its packets belong |
| `OrderedChannel` | what a session promises to a sender | an abstract specification |
| `SessionWriter` | `enqueue` to `on_write` of `Session` | queue, threads about to post, posted handlers, outstanding writes; implements `OrderedChannel` |
| `SignalingRooms` | sessions and rooms of `S/ws_server.cpp`, and what `Transport::on_ws_message` makes of the messages | one action per handler |
| `MediaConnections` | `S/media_connections.cpp` | one action per section under the mutex |
| `VoiceClient` | the voice half of `core/src/webrtc/google_webrtc_client.cpp`, with the life of `GoogleWebRtcVoiceSession` | five threads, the lifecycle mutex, sessions, answers under way, tracks |
| `ScreenClient` | its screen half: session, capture, sharing, recovery | three threads, two mutexes, captures, what the server was told |
| `PcmPlayout` | `google_webrtc_pcm_playout.cpp` | controller, decoder and device, one access to shared state per step |
| `DesktopCall` | calls in `AppState` and `DriscordBridge` | the GUI thread's queue, the audio pool, and what they see of the core |
| `AppRequests` | `AuthManager`, `ApiClient`, and the lists of `AppState` | requests under way, also of processes that have ended, what is shown, the API's tables |
| `UpdateManager` | `client-qt/src/update/UpdateManager.cpp` | the stages of an update; replies, timers, the unpacking process |
| `InstallSwap` | `client-qt/src/update/InstallSwap.cpp` | the three directories, one rename per step; extended by `UpdateManager` |
| `ApiMemberships` | `backend/api/routers/` without accounts | tables and coroutines, one statement per step |
| `SlotAssignmentProofs`, `VoiceRouterProofs`, `ScreenRouterProofs` | theorems about the module of that name | |
| `ServerProofs` | theorems about `ApiMemberships` and `RtpSlotRewriter` | |
| `ClientProofs` | theorems about `VoiceClient`, and about `UpdateManager` with `InstallSwap` | |
| `CallProofs` | theorems about `ScreenClient` and `DesktopCall` | |
| `SessionProofs` | theorems about `SignalingRooms` and `MediaConnections` | |
| `QueueProofs` | theorems about `SessionWriter`, `PcmPlayout` and `AppRequests` | |
| `MCVoiceRouter`, `MCScreenRouter`, `MCSignalingRooms`, `MCVoiceClient`, `MCUpdateManager` | symmetry sets and constants for TLC | |

How the modules fit: both routers use `Grant` of `SlotAssignment` for the
assignment loop, and `SlotAssignmentLoop` shows that the loop computes it. They
take from `RtpSlotRewriter` that a packet of another generation is refused, and
from `MediaConnections` that a track is handed over once and may die at any
time. `SignalingRooms` takes from `SessionWriter` that a queue is written in
order, and keeps beside every room the tables of its `ScreenRouter`. On the
client, `VoiceClient` and `ScreenClient` see the transport as a flag and an
ordered stream of messages, and the server as what answers and streams;
`DesktopCall` sees the core as the requests that it makes of it. `UpdateManager`
composes the updater with the swap of files: it begins a swap, is blocked while
`InstallSwap` steps, and goes on with the outcome. `AppRequests` composes the
desktop's REST client with the API it calls. `ApiMemberships` answers, among
others, the question that the signaling server asks before it admits a session.

Definitions whose comment begins with "Mutant" are deliberately wrong versions
of the next definition. They are used nowhere; they document the mistake that a
property was seen to catch when the definition is replaced by it.

### Abstractions worth knowing

* *Routers.* A track is an identity with "alive" (its `shared_ptr` is held) and,
  for outputs, the generation of its rewriter. A packet is its publisher and
  input. Fault injection and the link model are free choices. Statistics are
  left out. Peers that have left may still register tracks, as the code allows.
  Notices of one change are sent in any order, because most are collected from
  hash maps; those of the change come before those of the assignment.
* *Rewriter.* A packet is the n-th of its source; the widths of the numbers are
  parameters. The network holds no packet back for half the sequence numbers
  (`MaxReorder`; eleven minutes of voice). Where packets belong is counted without
  wrapping around, in history fields that no guard reads (`anchor`, `place`, `top`).
* *Sessions.* The write of a message and its arrival at the client are one step
  in `SignalingRooms`; the steps in between are `SessionWriter`. Messages of the
  media threads are one kind of message.
* *Client.* A section under `mutex` is one action; calls made outside it (creating
  a session, applying an update, sending) are actions of their own. Session
  objects are taken from a small set, and one that nobody refers to is used again.
* *Requests.* A request is handled at some moment, and its reply comes later, in
  any order, or as an error. A handler of the API is one step here; its statements
  are in `ApiMemberships`. A restart forgets who waits for a reply, not the request:
  what the ended process asked of the API is done later, or lost (`orphans`). A
  member who accepts an invite again succeeds (`already_member`). The desktop client
  has no call that leaves or deletes a server or a channel, so in this module
  memberships and channels only grow; `ApiMemberships` has those endpoints.
* *Updates.* An archive is what it was announced to be or something else; a
  manifest has a valid signature or has not. Whether the installation is an
  AppImage or a directory is chosen at the start.
* *stop()* is two actions in `SignalingRooms`, divided where the flag is set and
  `rooms_mutex` is taken.

### Exceptions

Several properties hold only outside a narrow window that the code leaves open.
The window is a history variable of the module, which the property names, so
that the property says exactly when it may fail. What such a window lets happen is covered by
no property, and the hazard list says so at its line:

| Variable | Module | Window |
|---|---|---|
| `lost` | `SignalingRooms` | the session's write queue overflowed and dropped a message |
| `lateMute` | `VoiceClient` | `set_muted` between the moment `start_voice_if_requested` reads the setting and the one it installs the session: the session keeps the old setting |
| `overlapped` | `VoiceClient` | two threads have computed updates of one track and neither has applied its own |
| `gaveUp` | `VoiceClient`, `ScreenClient` | the last attempt to create a session failed; the code does not try again by itself |
| `crossed` | `ScreenClient` | the user starts or stops sharing while a recovery is between reading and resuming it |
| `cutOff` | `DesktopCall` | the end of an earlier connection is handled after the next call was started |
| `refused` | `DesktopCall` | `Transport::connect` returned an error, which `DriscordBridge` ignores |
| `hasty` | `DesktopCall` | a stream is joined while an event that ends it waits |
| `torn`, `undoFailed` | `InstallSwap` | a directory was moved by half; a move of the rollback failed |
| `swept`, `backupSwept` | `UpdateManager` | the cleanup of the program's start finds the files of an update, or of the old version |
| `missed` | `AppRequests` | the newest reply about a list failed or was overtaken by an older one, or a request of another account or of a process that has ended changed it |
| `raced` | `ApiMemberships` | another request wrote between the statements of this one |
| `endless` | `UpdateManager` | the server sends the body of a manifest or a signature on and on |
| `anchor` | `RtpSlotRewriter` | a packet half the sequence numbers or more after the first of its source (`Far`) |

## 3. Runs

Times are for two workers.

| Run | Instance | Checks |
|---|---|---|
| `VoiceRouter` | 3 peers, 3 tracks, 2 mids, 1 packet in flight and 1 delayed (40 s) | slots sound (`BindingsSound`) and fully used (`NoSlotWasted`); subscribers told what they carry and SR reporters on exactly the bound tracks (`NoticesTakeEffect`); no packet comes out on a slot that does not carry its publisher and input (`NoCrossTalk`) |
| `ScreenRouter` | 2 publishers, 1 subscriber, 4 tracks, 1 pair, 4 commands, 1 departure or 1 lost track, 1 packet (160 s) | the same for pairs (`NoPairWasted`); keyframe requests reach the present video track (`KeyframesReachSource`) |
| `Rewriter` | 8 sequence numbers, 32 timestamps, 3 sources of 10 packets, 4 packets let through, at most 4 late (80 s) | the subscriber's stream is in order (`StreamInOrder`) and its timeline advances (`TimelineAdvances`) |
| `Writer` | 3 senders, queue of 3, 5 messages (seconds) | one write at a time; implements `OrderedChannel` with its liveness |
| `Rooms` | 3 sessions, 2 rooms, queue of 2, 3 commands, token check (160 s) | clients' views are right or on their way (`ViewsConverge`); a stream belongs to a peer (`StreamsBelongToPeers`); tables consistent, and nothing left after `stop` (`TablesConsistent`) |
| `Media` | 1 connection, 2 PeerConnections, 3 tracks, 1 mid (seconds) | no leak, no mix-up, all released in the end |
| `VoiceClient` | three scenes, see below (100 s) | exactly the session that is asked for (`SessionAsRequested`); it heals after failures and crossed answers; the microphone and the tracks are as the user set them (`SettingsTakeEffect`) |
| `ScreenClient` | 3 sessions, 2 sharing requests, 2 recoveries, 2 messages | no capture in secret and the session as requested (`ScreenAsRequested`), server and client agree (`ServerAgrees`), nothing shared unasked (`NoSharingUnasked`) |
| `Updater` | versions 1 to 3, archives of 2 chunks, 3 checks, 2 entries, one of them a directory, 7 failed renames (45 s) | only verified versions are offered, one request at a time, dismissals kept (`OfferSound`); no file lost, all or nothing, the AppImage in its place (`InstallationKept`); busy ends |
| `Requests` | 2 accounts, 2 servers, 2 logins, 2 requests at a time, four scenes (90 s) | the session is the one asked for last (`SessionAsAsked`); nothing of other accounts and servers is shown (`NothingOfOthers`); lists are current in the end (`ShownIsCurrent`); waiting ends |
| `Memberships` | 2 users, 1 server, 1 code, 1 channel, 2 concurrent requests of all 12 kinds | tables sound; success by right, errors by races only (`AnswersJustified`) |
| `Call` | 2 peers, 3 calls, 3 events and 3 audio tasks waiting (160 s) | what is shown (`ShownAsIs`) and asked for (`MediaAsAsked`) is right once the queues are empty; "connecting" ends |

The type invariant of every module is checked in its run, on its own or as the
first part of a larger invariant; larger invariants are conjunctions of named
parts, each with its own comment in the module.

Bounds. Three peers are needed for a slot to pass from one publisher to another
while a third watches; in the screen router four tracks let an input be replaced
while another publisher waits. Slots are fewer than the tracks that could fill
them, so that they run out. A packet in flight, one that is delayed, a departure
and a lost track are each worst when something else happens around them; a packet
may meet either of the last two, which `MaxTogether` keeps apart (the theorems of
`ScreenRouterProofs` do not). In the rewriter, 10 packets of 8 numbers carry a source
past half the numbers and once around, the start just before the wrap makes both
numbers turn inside a source and at a switch, and packets of a source come late after
one and after two switches; four packets let through are enough for three sources and
a packet that is late. Gains
of 0 and 3 against a longest believed step of 4 cover a repeated timestamp, a normal
step and, when a packet is lost, one that is not believed. The write queue of 3 with 5 messages
is filled, drained and filled again. In `Rooms` three commands are what it takes
to stream, watch and stop, and a queue of 2 overflows. Counters are bounded by
guards named `Max...`.

Scenes. `VoiceClient` and `AppRequests` have more inputs than can be combined
freely. A scene, chosen in the initial state and never changed, says which of
them a behaviour has; the run checks all scenes. `VoiceClient` has one for
recovery (3 sessions, 2 answers and 2 recoveries under way: two sessions would do
for a replacement, the third lets the replacement fail while the recovery of the
first still waits, and two answers are what it takes for one to reach the wrong
session), one for the microphone and one for what is heard. `AppRequests` has
four sets of requests: those that touch the same lists together, and accepting an
invite, creating a server and renaming by themselves, each with logins, restarts,
selections and the requests of ended processes. Orphans count against the two
requests at a time.

In `DesktopCall` three calls let the events of one be handled in the next and in
the one after. In `InstallSwap` a rename is given up after three failures, so
seven are a failed move, a failed move back and one to spare. In `ApiMemberships`
identifiers are not used again, so that one server, code and channel have a whole
life each; two requests overlap in every way, and a third would add only races
that two have shown.

Deadlock checking is off where the system may stop: rooms end, tracks run out, a
stopped server stops, the bounds on packets, calls or checks are reached, the
updater quits. It is on in `VoiceClient`, `ScreenClient`, `Requests` and
`Memberships`, where somebody can always act; in the first two it shows that the
lifecycle mutexes and the sharing mutex never block one another for good.

Fairness. `SessionWriter`: a thread that is about to post does so, the
`io_context` thread runs what is posted, and a write completes or fails (the
stream has Beast's suggested timeouts). `MediaConnections`: `accept_offer`
returns, the destructor runs, whoever took something out of the table closes it;
nothing is assumed of clients or libdatachannel. `VoiceClient`: every thread goes
on with the call it is in, and the worker, the server and libwebrtc do what is
queued for them; neither the user nor the network need do anything.
`DesktopCall`: the GUI thread handles its queue, and a socket that was made opens
or fails (the transport sets a timeout). `UpdateManager`: a manifest or a
signature ends unless the server sends its body on and on (Qt's transfer timeout
ends only a silent one, and nothing is assumed of an `endless` one), the watchdog
fires, the unpacking process ends, a swap goes on; the server need neither send nor
stop. `AppRequests`: every request gets a reply or an error, by the network stack's
own timeouts; the API is this project's own, and does not send a reply without end. The other
specifications have no fairness and only safety properties.

## 4. Windows in the code

The models were written from the code, and where the code leaves a window open
the model has it too. Those that a text of the repository does not expect:

* `S/rtp_slot_rewriter.cpp:230`: the anchor that protects a switch from late
  packets of the time before stays for as long as the source is carried. After
  2^15 packets of one source (about eleven minutes of voice) the following 2^15
  packets compare as older than the anchor and are refused, while
  `docs/architecture.md:62` promises a continuous stream. In `RtpSlotRewriter` it is the
  guard `~BeforeAnchor`, which in the run refuses the 4th of 8 numbers after the
  anchor. After 2^16 packets the source is let
  through again, but `latest_output` has stayed where its first half ended, so the
  next source follows on from there and the timeline jumps back. `TimelineAdvances`
  excepts these packets (`Far`); the order of sequence numbers does not suffer from
  them.
* `client-qt/src/app/AppState.cpp:97`: switching channels queues the end of the
  old connection behind the start of the new call, and its handler stops the new
  call's audio and screen; the sidebar (`Sidebar.qml:211`) shows "Voice
  connected". `CallHasMedia` of `DesktopCall` names it (`cutOff`).
* `client-qt/src/update/UpdateManager.cpp:96`: `fetchSmall` gives a transfer timeout,
  which ends a reply that is silent, and compares the size with its limit when the
  reply has ended. A manifest or a signature whose body goes on and on keeps the
  updater "checking" for as long as the program runs. `BusyEnds` of `UpdateManager`
  names it (`endless`).
* `client-qt/src/update/InstallSwap.cpp:85`: a directory whose move fails half-way
  is not rolled back, while `UpdateManager.cpp:461` tells the user that "the
  previous files were restored". `AllOrNothing` of `InstallSwap` names it (`torn`).
* `backend/api/routers/invites.py:142`: of two overlapping accepts of one invite by
  one user the second ends in a server error, while
  `backend/api/tests/test_servers.py:122` calls accepting idempotent.
  `ErrorOnlyByRace` of `ApiMemberships` names it (`raced`).
* `docs/architecture.md:88` says that signaling checks neither token nor
  membership. `S/ws_server.cpp:251` does, whenever an API is configured, and
  `SignalingRooms` has the refusal.

## 5. Proofs

`SlotAssignmentProofs`: for any finite sets of slots and publishers, `Grant`
gives no publisher two slots (`GrantInjective`) and leaves no slot free while a
publisher waits (`GrantMaximal`). Both rest on ranks: an injective order gives
distinct ranks (`RankInjective`), and every number below the cardinality is the
rank of some element (`RankOnto`).

`VoiceRouterProofs`: for any finite sets of peers and mids and any set of tracks,

* `TypeCorrect`, `BindingsAreSound`, `NothingWasted`: the invariants `TypeOK`,
  `BindingsSound` and `NoSlotWasted` of the run `VoiceRouter`;
* `ChangesAreAnnounced`: its invariant `NoticesTakeEffect`;
* `PacketsStayInTheirSlot`: its action property `NoCrossTalk`.

None of these is inductive. `IInv` adds that places in the order of peers and
in the vector of outputs are distinct, that no two slots share a track, that
every bound slot has the present generation of its rewriter, and, which is the
core of the matter, that a target copied by `route` either has an old generation
or still matches its slot and its publisher's input. The parts of `IInv` are
stated for arbitrary tables, so that they can be proved for the tables in the
middle of an operation and then carried through `assign_available_locked` by one
lemma (`AssignKeepsTables`). `Invariance` puts the actions together.

`NoticesTakeEffect` speaks of the moments when nothing is being published.
`NoticesInv` says what holds between them: a subscriber that has not been told,
or a track whose handler does not fit its slot, has a notice coming; a notice of
the assignment is right; and a notice of the change itself that the assignment
has overtaken (a slot released and given away again) is corrected by one that is
sent later. This is where the order of the two groups and `publish_mutex` are needed.

`ScreenRouterProofs`: for any finite set of peers, any finite sets of mids and
any set of tracks,

* `ScreenBindingsAreSound`, `NoPairIsWasted`, `SubscribersAreInformed`,
  `KeyframesAlwaysReachSource`: the invariants of the run `ScreenRouter`;
* `ScreensStayApart`: its action property `NoCrossTalk`.

The invariant follows that of the voice router, with what pairs add:

* watches of a subscriber have places of their own, and whoever is not in the
  room has nothing in it (`WatchesDiffer`, `AbsentHaveNothing`); a mid belongs to
  one pair and a track to one half of one pair (`OutputsWellFormed`,
  `TracksDiffer`);
* a pair that carries a publisher has both halves ready, and the publisher
  streams and is watched (`PublishersSound`); both its halves have the present
  generation (`GenerationsPresent`), and a target copied by `route` has an old one
  or still fits (`TargetsCurrent`);
* between the two critical sections of `register_output`, the pair that is being
  filled carries nobody, and its notices are still on the stack (`InstallationOpen`).

As the tables of a room are one record, each part is stated for any room `r`.
It is shown for the room after the change and before the assignment, and
`AssignKeepsRoom` carries it on. `Announced` says of a change that the notices it
collected make up for what it did; `ChangeIsAnnounced` then adds the notices of
the assignment and gives `NoticesInv`. So each operation has one lemma about its
change. The bound `PairCount` costs nothing: with at least as many places as mids of
a kind, `output_pair_for` always finds one (`OpenPairExists`), as it does in the
code's vector, which grows.

`QueueProofs`, of `SessionWriter`: for any number of senders, any queue size and any number
of messages, the queue stays within its capacity (`WriterTypeCorrect`),
`OneWriter` holds (`OneWriterHolds`: there is never a second `async_write`), and every step of the
session is a step of `OrderedChannel` or none (`ImplementsChannel`). The invariant
counts the tokens (threads about to post, posted handlers, outstanding writes):
there is one while the queue is not empty and no write has failed, else none; and
the message being written is the one in front of the queue.

`QueueProofs`, of `PcmPlayout`: for any capacity and any number of starts, the queue is reset
only when neither the decoder nor the device is inside it (`PlayoutResetAlone`),
nothing of an earlier run is heard (`PlayoutFreshSound`), and a stopped playout is
silent (`PlayoutStoppedIsSilent`). `PlayoutInv` says how far the decoder and the
device may be at each step of `start` and `stop`: a push that passed the check of
`accepting_` keeps the counter up, so the wait of `stop` outlasts it, and the
device's callback ends with the device, which is closed before the reset. As the
theorems cover every safety property of `PcmPlayout`, the module has no run.

`SessionProofs`, of `SignalingRooms`: for any finite set of sessions, any rooms, any
length of the write queues and any number of commands, `TablesStayConsistent`,
`ViewsAlwaysConverge` and `StreamsAlwaysBelong`, the three invariants of the run
`Rooms`. What a client will show is not a fold over its queue but
`ShownAfter(v, q, n)`, which says for every peer that the last of the first `n`
messages that mentions it counts. `NothingApplied`, `OneMoreApplied` and
`FirstApplied` prove that it is the fold: it begins with the view, and each
message changes it as `Apply` does, whether it is added behind (`AppendShows`) or
taken from the front (`TailShows`). `RoomsInv` says of every session that has lost
nothing that after any part of its queue streams belong to peers (`InOrder`), and
after all of it the view is the room (`ToldTo`); of the server, that an open
session is in its room until the rooms are emptied, and that a session that is
not open has neither messages nor a view (`Placed`). Each handler has a lemma;
`Hears` stands for whoever is told, `Bystander` for whoever is not and need not be,
and `FarewellHeard` for the two messages about a session that leaves while it
streams.

`SessionProofs`, of `MediaConnections`: for any connections, PeerConnections, tracks
and mids, `TracksAreOfCurrentPc` and `NothingIsLeaked`. The module extends both
specifications, so the definitions of `MediaConnections` have names of their own
(`MediaInit`, `MediaNext`, `MediaSpec`, `MediaTypeOK`). `MediaInv` adds what
`accept_offer` may rely on between its sections (only it installs, one at a time,
so what it looked up is still there or gone, and the place that it emptied stays
empty), that a track comes from a PeerConnection that was created for the
connection, and that a removed connection has an empty table. `NothingLeaks` is
then inductive: every step moves things between the tables, the list of what is
to be closed, and what is closed.

`ServerProofs`, of `ApiMemberships`: for any users, servers, codes, channels and any number of
concurrent requests, `TablesAreSound` and `AnswersAreJustified`. A request is a
plan of statements (`PlanTable` says which statement stands where). The
invariant says of every running request what it has read by now and still may
rely on, because rows keep their owner, server and creator (`KnowsItsRows`); that
its right was noted when it had it and is earned once its checks are passed
(`RightNoted`, `RightEarned`); and that what it saw is still so unless somebody
else has written (`StillSo`). Two lemmas carry all endpoints: `OwnStep` for a
statement that only reads, `CommitStep` for one that writes, after which every
other running request counts as raced and its right is noted again.

`ServerProofs`, of `RtpSlotRewriter`: for any widths of the numbers, any starts and
gains of the sources and any number of sources and packets, `StreamStaysInOrder` and
`TimelineStaysInOrder`, the two invariants of the run `Rewriter`. A slot may live for
any time and carry a source for any number of turns; that no packet is half the
numbers late (`2 * MaxReorder <= SequenceNumbers`) is the only assumption besides the
kinds of the constants. Numbers that wrap around have no order, so the argument is
about what they stand for: every packet let through has a place among the integers
(`PlaceOf`), counted from the place of the first of its source, and its numbers are
that place modulo the widths (`Placed`). A source begins one place above the newest
packet of all before it (`top`), or at least one timestamp, because `timestamp_step`
is never zero. `RewriterInv` says that packets of earlier sources lie below the
present one (`Crossed`), that nothing lies above `top` and `latest_output` is its
number (`Topped`), and that the offsets lead from the carried source to its places
and its newest packet is not before the anchor (`Following`). A packet that is let
through is not before the anchor either, so it stays above the earlier sources:
this is where the refusal is needed. Lemmas about turns show that a sequence number
tells the distance folded to half the numbers, and that two places less than half the
width apart compare as their numbers do; this needs no bound on the stream, since
`StreamInOrder` compares the numbers of near packets only, as a receiver does. A
packet that lies further than half the numbers from the first of its source has the
distance of one that lies nearer, a turn or more before it, so its place in the
sequence is still at most `top`. Its timestamp is not folded and may lie beyond, which
is the exception `Far` of `TimelineAdvances`.

`ClientProofs`, of `VoiceClient`: for any sessions, tracks, peers and bounds,
`NoSessionIsOrphaned`, `SessionIsAsRequested` and `SettingsAreApplied`. `IInv` says

* what a thread can be in the middle of, and that the lifecycle mutex is held
  from the first section to the last (`Threaded`);
* that the open sessions are the client's or the one in the hands of the holder
  of the mutex (`SessionOwned`), and that a session nobody wants is about to be
  stopped, and one that is wanted about to be started (`SessionWanted`);
* that a session being created has read the microphone setting or the setting
  changed since, and that no `set_muted` is under way for it (`MicrophoneTold`);
* that a session which is not open has no tracks and no update is for it
  (`SessionsFresh`): the tracks of a new session are not confused with those of the
  one before;
* that a track whose updates do not overlap has one update at most, held by one
  thread, that lets nobody be heard who is not to be (`UpdatesSound`), and that it
  is right once no update is left (`TracksSound`).

`ComputeSound` shows once, for the five actions that compute updates, that the last
two survive.

`CallProofs`, of `ScreenClient`: for any sessions, requests and bounds, `NoCaptureIsHidden`,
`ScreenIsAsRequested`, `ServerIsToldRight` and `NothingIsSharedUnasked`. Besides
`Threaded`, `SessionOwned` and `SessionWanted`, which are as above with the playout
added, `IInv` says that a capture is that of the shared stream or of the holder of
the sharing mutex (`CaptureOwned`); that whoever is about to share was asked to,
or was crossed by the user (`SharingAsked`); and that what the server will have
made of the stream after all that was sent (`Told`) is what the client shares, or
a thread is about to say so (`ServerTold`). A recovery has told the server before
it gives the stream up, which is why the last needs to know where the recovery
is.

`CallProofs`, of `DesktopCall`: for any peers, calls, events and audio tasks,
`CallIsShownAsIs` and `MediaAreAsAsked`, the two invariants of the run `Call`. Both say
something of the moment when nothing waits, so `CallInv` has to say what every queue
means. The connection, the presence of a peer and its stream are each begun by one
event and ended by some (`Follows`): a beginning that waits is followed by an end
unless the thing is real; what is listed and not real has an end waiting; and what is
real is listed with no end waiting, or its beginning waits with no end behind it. This
holds of the queue of one call and of the queue in which the events of several calls
stand behind each other, because the application hears of the end of each
connection that was open. A peer is listed once because no beginning comes twice
without an end between (`BegunOnce`). A stream is announced between the beginning and
the end of a connection (`OnConnection`), so whoever joins a stream that is still
listed after the call has an event waiting that takes the stream away: this is the
haste that `hasty` records, and what is marked as watched and what the core watches
differ by nothing else but what waits (`WatchesFollow`). The last task of the audio
pool is what the GUI thread asked for last (`AudioFollows`). The lemmas about the
queue (`FollowsTail`, `FollowsAppend`, `OnceTail`, `OnConnectionAppend` and so on) are
about any queue, starts and ends; each handler then only names what its event begins
and ends.

`QueueProofs`, of `AppRequests`: for any accounts and servers, any scenes and any number
of logins, requests, channels and renames, `SessionIsAsAsked`,
`NothingOfOthersIsShown` and `ShownIsAlwaysCurrent`. `AppInv` relates the requests in
flight to the session and to what is shown. No two attempts to log in have the same
generation, and only one that the user still waits for has the current one
(`Attempt`): so a reply that ends the waiting is the one asked for last, and `logout`,
which counts on, leaves none behind. What an answer brings was true of the account
it was asked for when the API gave it, and stays within what the API holds
(`Sound`), because the API takes nothing back. And as long as somebody is logged in,
each list is current, or out of date for a reason that `missed` records, or a reply
is in flight that will bring it up to date (`Following`): an unanswered request for the
list, one whose answer is still what the API holds, or a change that was answered
and whose reply handler asks for the list again. A request that outlives its process
has nobody to ask for the list, so what it changes goes to `missed` when it is
handled. When no request is left,
`ShownIsCurrent` is what remains of it.

`ClientProofs`, of `UpdateManager` with `InstallSwap`: for any versions, size of the
archive and number of checks, any entries and files of the old and the new version,
and any number of failing renames, `OfferIsSound` and `InstallationIsKept`. Of the
updater, `ManagerInv` says that one reply at most is under way and which one, by the
state (`Waiting`); that what is offered, fetched or ready was announced by the
manifest in hand, or swept away by the cleanup (`Offered`); and that the state is
"applying" exactly while a swap goes on (`Blocked`). Of the files, `SwapInv` says
where each one is, by the phase of the swap and the entry it has reached. On the way
forward (`Forward`) the files of an entry that was installed are those of the
payload, those of the entry under way lie in two of the directories, one file here
and the next there, and everything later is where it was. What was replaced lies in
the backup and is noted there. On the way back (`Backward`) an entry that is still to
be put back is where the rollback will find it; this holds only while no entry was
left half moved and no move of the rollback failed, which is what `AllOrNothing`
excepts. `ImageSafe` counts the failures: the third gives up a move and the sixth its
return, and before that the one file of an AppImage lies in one of two known places.
That the loops take the least entry left and the rollback the greatest is proved
from the well-foundedness of the natural numbers (`LeastNumber`).

Each of these invariants was checked by TLC before it was proved: `RoomsInv` in an
earlier form, of which the proof then changed some parts.

Assumptions are the named `ASSUME`s of the modules: finiteness of the sets that
are counted, `None` outside of the sets that it stands beside, ids of servers, codes
and channels distinct, request kinds for which there is a plan, bounds that are
numbers. TLC evaluates them in every run. The bounds of a model (`scene`, the
lengths of queues) are constants of the theorems like any other: what is proved
holds whatever they are.

Every invariant that a passing run checks is thus a theorem as well. Only
model-checked: all liveness (the liveness half of `KeepsPromise`, `AllReleased`,
`VoiceHeals`, `ConnectingEnds`, `BusyEnds`, `PendingEnds`), which is out of the
prover's reach, as is what recursive definitions compute for every input.

## 6. Not modelled

`PROJECT.json` gives the reason for each part.

* QML, audio capture, and encoding and rendering inside libwebrtc: no state of
  this program's own.
* JSON and RTP byte layouts, signature arithmetic, archives, random
  distributions, proxy and certificate lookup: pure conversions whose outcome the
  models choose freely.
* The adapters to libwebrtc (`google_webrtc_*_adapters.cpp`) and the runtime:
  they pass observers' calls on.
* Delivery of decoded frames, volumes and statistics: nothing else reads them.
* The steps of the HTTP call of `ApiAuthenticator`, the link model behind the
  routers' delay queues, the socket callbacks of `Transport` that come after
  their socket was given up, and the client's side of watching: the models
  around them take their outcome as a free choice, or as the hazard list says.
* Accounts, passwords and avatars of the REST API: single rows behind unique
  columns. Refresh tokens are signed and not stored, so there is no state to
  check.
* Crashes in the middle of an update: the code keeps no record of them, and so
  has no recovery to check. The hazard list says what happens.

## 7. Plan

1. The rewriter: when the code moves its anchor along with the stream, that the packet
   after the newest one is always let through becomes a property and a theorem, and
   `TimelineAdvances` loses its exception.
2. Composition: `VoiceRouter` with `MediaConnections`, so that the assumptions of
   the first about tracks become theorems; an abstract room (a set of peers that
   hear each other) that `VoiceRouter` implements.
