----------------------------- MODULE AppRequests -----------------------------
(***************************************************************************)
(* The account side of the desktop client: AuthManager (login, restore,    *)
(* logout, the stored session) and the part of AppState that shows what    *)
(* the REST API answered (profile, servers, channels, users to invite).    *)
(*                                                                         *)
(* Everything runs on the GUI thread, but every call of ApiClient is       *)
(* asynchronous: the API handles the request at some moment, and the reply *)
(* is delivered at another, in any order, perhaps after the user has       *)
(* logged out, logged in as somebody else or selected another server.  A   *)
(* reply may fail (the transfer timeout of 15 s included) although the API *)
(* did what was asked.  A restart loses all but the stored session, but    *)
(* not what is already on its way to the API, which may still handle it.   *)
(*                                                                         *)
(* Of the API the requests that this client makes are modelled, each of    *)
(* its transactions as one step (ApiMemberships has their statements).  No *)
(* client leaves or deletes a server or a channel, so memberships and      *)
(* channels only grow here.  A channel list is abstracted to its length    *)
(* and a name to its version.                                              *)
(***************************************************************************)
EXTENDS Naturals, FiniteSets, Sequences, SequencesExt

CONSTANTS
    Users, Servers,     \* accounts and servers
    Nobody, NoServer,   \* userId 0 and selectedServerId -1
    Scenes,             \* bound: the kinds of requests one user makes, as sets
    FirstOwner,         \* the account that owns the servers of FirstServers
    FirstServers,
    MaxLogins,          \* bound: logins per run of the program
    MaxRequests,        \* bound: requests in flight, orphans included, when the user
                        \* asks for more
    MaxChannels,        \* bound: channels of a server
    MaxNames            \* bound: renames of an account

ASSUME AppRequestsAssumption ==
    /\ Nobody \notin Users
    /\ NoServer \notin Servers
    /\ FirstOwner \in Users
    /\ FirstServers \subseteq Servers
    /\ Scenes \subseteq SUBSET {"createServer", "createChannel", "acceptInvite",
                                "users", "addMember", "rename"}
    /\ MaxLogins \in Nat \ {0} /\ MaxRequests \in Nat \ {0}
    /\ MaxChannels \in Nat /\ MaxNames \in Nat

VARIABLES
    scene,      \* the kinds of requests of this behaviour; it never changes
    loggedIn, authPending, userId, token, generation,   \* AuthManager
    stored,                                             \* SessionStore
    profile, servers, channels, users, selected,        \* AppState
    requests,                                           \* in flight, oldest first
    members, owner, count, names,                       \* the tables of the API
    orphans,    \* what processes that have ended asked of the API, still to come
    wanted,     \* history: the account the user asked for last
    missed      \* history: what no reply will bring up to date

authVars == <<loggedIn, authPending, userId, token, generation, stored>>
appVars  == <<profile, servers, channels, users, selected>>
tables   == <<members, owner, count, names>>
apiVars  == <<members, owner, count, names, orphans>>
\* Without scene, which no action touches.
stateVars     == <<authVars, appVars, requests, apiVars, wanted, missed>>

Accounts == Users \cup {Nobody}
NoProfile == [id |-> Nobody, name |-> 0]
UserKinds == {"createServer", "createChannel", "acceptInvite", "users",
              "addMember", "rename"}
AllKinds  == UserKinds \cup {"auth", "me", "servers", "channels"}

\* What changes something at the API.
Changing  == UserKinds \ {"users"}

-----------------------------------------------------------------------------
(* Requests.                                                               *)

\* A request made for account u with token t; about server s and account o.
Request(kind, u, t, s, o, g) ==
    [kind |-> kind, user |-> u, token |-> t, server |-> s, other |-> o,
     generation |-> g, handled |-> FALSE, list |-> {}, n |-> 0]

\* A request of the account logged in.
Ask(kind, s, o) == Request(kind, userId, token, s, o, 0)

ReloadServers == Ask("servers", NoServer, Nobody)
ReloadChannels(s) == Ask("channels", s, Nobody)

\* fetchCurrentUserProfile asks nothing when no account is known.
FetchProfile ==
    IF userId = Nobody THEN <<>> ELSE <<Ask("me", NoServer, Nobody)>>

\* What loadInitialData asks for once the account u is logged in.
InitialRequests(u) == <<Request("me", u, u, NoServer, Nobody, 0),
                        Request("servers", u, u, NoServer, Nobody, 0)>>

\* The reply of request i is delivered; ok: with what the API answered.
Delivered(i, kind, ok) ==
    /\ i \in DOMAIN requests
    /\ requests[i].kind = kind
    /\ ok => requests[i].handled

Without(i) == RemoveAt(requests, i)

\* Mutant: the account may have changed.
AnyAccount(r) == loggedIn

\* The guard of AppState's reply handlers.
SameAccount(r) == loggedIn /\ userId = r.user

\* The further guard of the handlers about a server.
SameServer(r) == selected = r.server

-----------------------------------------------------------------------------
(* AuthManager.                                                            *)

\* Mutant: any attempt counts.
AnyAttempt(r) == TRUE

\* The attempt the reply belongs to is the last one.
LastAttempt(r) == r.generation = generation

\* login and registerUser, offered by the login screen.
Login(u) ==
    /\ ~loggedIn
    /\ ~authPending
    /\ generation + 2 <= 2 * MaxLogins
    /\ generation' = generation + 1
    /\ authPending' = TRUE
    /\ requests' = Append(requests, Request("auth", u, token, NoServer, Nobody,
                                            generation + 1))
    /\ wanted' = u
    /\ UNCHANGED <<loggedIn, userId, token, stored, appVars, apiVars, missed>>

\* applyTokenResponse, and loadInitialData in the authChanged handler.
ApplyTokenResponse(r, rest) ==
    /\ token' = r.user
    /\ userId' = r.user
    /\ loggedIn' = TRUE
    /\ stored' = r.user
    /\ profile' = [id |-> r.user, name |-> r.n]
    /\ requests' = rest \o InitialRequests(r.user)
    /\ UNCHANGED <<servers, channels, users, selected>>

\* An error: a failed restore also forgets the stored session.
AttemptFails(r, rest) ==
    /\ IF r.other = Nobody
         THEN UNCHANGED <<userId, stored>>
         ELSE userId' = Nobody /\ stored' = Nobody
    /\ requests' = rest
    /\ UNCHANGED <<loggedIn, token, appVars>>

\* Mutant: only a success ends the waiting.
PendingAfterError(ok) == ~ok

\* setAuthPending(false) comes before the error is looked at.
PendingAfter(ok) == FALSE

AuthReply(i, ok) ==
    /\ Delivered(i, "auth", ok)
    /\ LET r == requests[i]
       IN  IF LastAttempt(r)
             THEN /\ authPending' = PendingAfter(ok)
                  /\ IF ok THEN ApplyTokenResponse(r, Without(i))
                           ELSE AttemptFails(r, Without(i))
             ELSE /\ requests' = Without(i)
                  /\ UNCHANGED <<authPending, loggedIn, userId, token, stored,
                                 appVars>>
    /\ UNCHANGED <<generation, apiVars, wanted, missed>>

\* logout, and the other branch of the authChanged handler.
Logout ==
    /\ loggedIn \/ authPending
    /\ generation' = generation + 1
    /\ authPending' = FALSE
    /\ token' = Nobody
    /\ stored' = Nobody
    /\ userId' = Nobody
    /\ loggedIn' = FALSE
    /\ profile' = NoProfile
    /\ servers' = {}
    /\ channels' = 0
    /\ users' = {}
    /\ selected' = NoServer
    /\ wanted' = Nobody
    /\ missed' = {}
    /\ UNCHANGED <<requests, apiVars>>

\* The program ends and is started again: tryRestoreSession asks for new tokens
\* when a session is stored.  Nobody waits any more for what was asked before, but
\* the API may still do it.
Restart ==
    /\ loggedIn' = FALSE
    /\ authPending' = (stored # Nobody)
    /\ userId' = stored
    /\ token' = Nobody
    /\ generation' = IF stored = Nobody THEN 0 ELSE 1
    /\ profile' = NoProfile
    /\ servers' = {}
    /\ channels' = 0
    /\ users' = {}
    /\ selected' = NoServer
    /\ requests' = IF stored = Nobody THEN <<>>
                   ELSE <<Request("auth", stored, Nobody, NoServer, stored, 1)>>
    /\ orphans' = orphans \cup {r \in ToSet(requests) : ~r.handled /\ r.kind \in Changing}
    /\ wanted' = stored
    /\ missed' = {}
    /\ UNCHANGED <<stored, tables>>

-----------------------------------------------------------------------------
(* AppState: what the user asks for.                                       *)

Asks(kind) ==
    /\ loggedIn
    /\ kind \in scene
    /\ Len(requests) + Cardinality(orphans) < MaxRequests

AskOnly(r) ==
    /\ requests' = Append(requests, r)
    /\ UNCHANGED <<authVars, appVars, apiVars, wanted, missed>>

SelectServer(s) ==
    /\ loggedIn
    /\ s \in servers
    /\ Len(requests) < MaxRequests
    /\ selected' = s
    /\ channels' = 0
    /\ requests' = Append(requests, ReloadChannels(s))
    /\ missed' = missed \ {"channels"}
    /\ UNCHANGED <<authVars, profile, servers, users, apiVars, wanted>>

CreateServer ==
    /\ Asks("createServer")
    /\ AskOnly(Ask("createServer", NoServer, Nobody))

CreateChannel ==
    /\ Asks("createChannel")
    /\ selected # NoServer
    /\ AskOnly(Ask("createChannel", selected, Nobody))

AcceptInvite(s) ==
    /\ Asks("acceptInvite")
    /\ AskOnly(Ask("acceptInvite", s, Nobody))

LoadUsers ==
    /\ Asks("users")
    /\ AskOnly(Ask("users", NoServer, Nobody))

\* canManageSelectedServer reads the owner from the list that is shown.
CanManageSelectedServer == selected \in servers /\ owner[selected] = userId

InviteUser(u) ==
    /\ Asks("addMember")
    /\ u \in users
    /\ CanManageSelectedServer
    /\ AskOnly(Ask("addMember", selected, u))

\* updateDisplayName and uploadAvatar name the account by the shown profile.
UpdateProfile ==
    /\ Asks("rename")
    /\ AskOnly(Ask("rename", NoServer, profile.id))

-----------------------------------------------------------------------------
(* The API handles a request.                                              *)

Handled(i, list, n) ==
    requests' = [requests EXCEPT ![i] = [@ EXCEPT !.handled = TRUE,
                                                  !.list = list, !.n = n]]

ApiReads(i) ==
    LET r == requests[i]
    IN  /\ \/ r.kind = "auth" /\ Handled(i, {}, names[r.user])
           \/ r.kind = "me" /\ Handled(i, {}, names[r.token])
           \/ r.kind = "servers"
              /\ Handled(i, {s \in Servers : r.token \in members[s]}, 0)
           \/ /\ r.kind = "channels"
              /\ r.token \in members[r.server]
              /\ Handled(i, {}, count[r.server])
           \/ r.kind = "users" /\ Handled(i, {}, 0)
        /\ UNCHANGED tables

ApiCreatesServer(r) ==
    /\ r.kind = "createServer"
    /\ \E s \in Servers :
         /\ owner[s] = Nobody
         /\ owner' = [owner EXCEPT ![s] = r.token]
         /\ members' = [members EXCEPT ![s] = {r.token}]
    /\ UNCHANGED <<count, names>>

ApiCreatesChannel(r) ==
    /\ r.kind = "createChannel"
    /\ owner[r.server] = r.token
    /\ count[r.server] < MaxChannels
    /\ count' = [count EXCEPT ![r.server] = @ + 1]
    /\ UNCHANGED <<members, owner, names>>

\* A member who accepts an invite gets "already_member", with the same status.
ApiAcceptsInvite(r) ==
    /\ r.kind = "acceptInvite"
    /\ owner[r.server] # Nobody
    /\ members' = [members EXCEPT ![r.server] = @ \cup {r.token}]
    /\ UNCHANGED <<owner, count, names>>

\* A member who is added again is a conflict, so an error.
ApiAddsMember(r) ==
    /\ r.kind = "addMember"
    /\ owner[r.server] = r.token
    /\ r.other \notin members[r.server]
    /\ members' = [members EXCEPT ![r.server] = @ \cup {r.other}]
    /\ UNCHANGED <<owner, count, names>>

ApiRenames(r) ==
    /\ r.kind = "rename"
    /\ r.token = r.other
    /\ names[r.token] < MaxNames
    /\ names' = [names EXCEPT ![r.token] = @ + 1]
    /\ UNCHANGED <<members, owner, count>>

ApiChanges(r) ==
    /\ r.token # Nobody
    /\ \/ ApiCreatesServer(r)
       \/ ApiCreatesChannel(r)
       \/ ApiAcceptsInvite(r)
       \/ ApiAddsMember(r)
       \/ ApiRenames(r)

\* What r changes of what is shown, while no reply to r will tell.
Untold(r) ==
    IF ~loggedIn THEN {}
    ELSE CASE r.kind = "createChannel" -> {"channels"}
           [] r.kind = "addMember" -> {"servers"}
           [] r.kind \in {"createServer", "acceptInvite"} /\ r.user = userId -> {"servers"}
           [] r.kind = "rename" /\ r.user = userId -> {"profile"}
           [] OTHER -> {}

\* The reply tells the account that asked, not the one that is logged in by then.
Elsewhere(r) == IF r.user = userId THEN {} ELSE Untold(r)

\* Only "auth" is answered without a token.
ApiHandles(i) ==
    /\ i \in DOMAIN requests
    /\ ~requests[i].handled
    /\ requests[i].kind = "auth" \/ requests[i].token # Nobody
    /\ \/ ApiReads(i)
       \/ ApiChanges(requests[i]) /\ Handled(i, {}, 0)
    /\ missed' = missed \cup Elsewhere(requests[i])
    /\ UNCHANGED <<authVars, appVars, orphans, wanted>>

\* What a process that has ended asked for is done after all.
ApiHandlesOrphan(r) ==
    /\ r \in orphans
    /\ ApiChanges(r)
    /\ orphans' = orphans \ {r}
    /\ missed' = missed \cup Untold(r)
    /\ UNCHANGED <<authVars, appVars, requests, wanted>>

\* ... or it is refused, or never arrives.
OrphanIsLost(r) ==
    /\ r \in orphans
    /\ orphans' = orphans \ {r}
    /\ UNCHANGED <<authVars, appVars, requests, tables, wanted, missed>>

-----------------------------------------------------------------------------
(* AppState: the reply handlers.                                           *)

\* A reply that was lost after the API had answered, or one that brings less
\* than what a newer reply has already shown, leaves the view out of date.
MissedIf(condition, what) ==
    missed' = IF condition THEN missed \cup {what} ELSE missed

MeReply(i, ok) ==
    LET r == requests[i]
    IN  /\ Delivered(i, "me", ok)
        /\ profile' = IF ok /\ SameAccount(r)
                        THEN [id |-> r.user, name |-> r.n] ELSE profile
        /\ MissedIf(SameAccount(r) /\ (~ok \/ r.n < profile.name), "profile")
        /\ requests' = Without(i)
        /\ UNCHANGED <<authVars, servers, channels, users, selected, apiVars,
                       wanted>>

ServersReply(i, ok) ==
    LET r == requests[i]
    IN  /\ Delivered(i, "servers", ok)
        /\ servers' = IF ok /\ SameAccount(r) THEN r.list ELSE servers
        /\ MissedIf(SameAccount(r) /\ (~ok \/ ~(servers \subseteq r.list)),
                    "servers")
        /\ requests' = Without(i)
        /\ UNCHANGED <<authVars, profile, channels, users, selected, apiVars,
                       wanted>>

ChannelsReply(i, ok) ==
    LET r == requests[i]
    IN  /\ Delivered(i, "channels", ok)
        /\ channels' = IF ok /\ SameAccount(r) /\ SameServer(r)
                         THEN r.n ELSE channels
        /\ MissedIf(SameAccount(r) /\ SameServer(r) /\ (~ok \/ r.n < channels),
                    "channels")
        /\ requests' = Without(i)
        /\ UNCHANGED <<authVars, profile, servers, users, selected, apiVars,
                       wanted>>

\* Mutant: the list is not loaded again.
NothingReloaded == <<>>

\* What the success of createServer and of createChannel asks for.
AfterCreateServer == <<ReloadServers>>
AfterCreateChannel(r) ==
    IF SameServer(r) THEN <<ReloadChannels(r.server)>> ELSE <<>>

CreateReply(i, ok) ==
    \E kind \in {"createServer", "createChannel"} :
        LET r == requests[i]
        IN  /\ Delivered(i, kind, ok)
            /\ requests' = Without(i) \o
                 IF ~ok \/ ~SameAccount(r) THEN <<>>
                 ELSE IF kind = "createServer" THEN AfterCreateServer
                 ELSE AfterCreateChannel(r)
            /\ MissedIf(~ok /\ r.handled,
                        IF kind = "createServer" THEN "servers" ELSE "channels")
            /\ UNCHANGED <<authVars, appVars, apiVars, wanted>>

\* An accepted invite selects its server, whatever is selected by then.
AcceptInviteReply(i, ok) ==
    LET r == requests[i]
    IN  /\ Delivered(i, "acceptInvite", ok)
        /\ IF ok /\ SameAccount(r)
             THEN /\ selected' = r.server
                  /\ channels' = 0
                  /\ requests' = Without(i) \o <<ReloadServers,
                                                 ReloadChannels(r.server)>>
                  /\ missed' = missed \ {"channels"}
             ELSE /\ requests' = Without(i)
                  /\ MissedIf(~ok /\ r.handled, "servers")
                  /\ UNCHANGED <<selected, channels>>
        /\ UNCHANGED <<authVars, profile, servers, users, apiVars, wanted>>

UsersReply(i, ok) ==
    LET r == requests[i]
    IN  /\ Delivered(i, "users", ok)
        /\ users' = IF ok /\ SameAccount(r) THEN Users \ {userId} ELSE users
        /\ requests' = Without(i)
        /\ UNCHANGED <<authVars, profile, servers, channels, selected, apiVars,
                       wanted, missed>>

AddMemberReply(i, ok) ==
    LET r == requests[i]
    IN  /\ Delivered(i, "addMember", ok)
        /\ users' = IF ok /\ SameAccount(r) /\ SameServer(r)
                      THEN users \ {r.other} ELSE users
        /\ requests' = Without(i)
        /\ UNCHANGED <<authVars, profile, servers, channels, selected, apiVars,
                       wanted, missed>>

\* The reply of updateProfile and of uploadAvatar has no guard.
RenameReply(i, ok) ==
    LET r == requests[i]
    IN  /\ Delivered(i, "rename", ok)
        /\ requests' = Without(i) \o IF ok THEN FetchProfile ELSE <<>>
        /\ MissedIf(~ok /\ r.handled, "profile")
        /\ UNCHANGED <<authVars, appVars, apiVars, wanted>>

Reply ==
    \E i \in DOMAIN requests, ok \in BOOLEAN :
        \/ AuthReply(i, ok)
        \/ MeReply(i, ok)
        \/ ServersReply(i, ok)
        \/ ChannelsReply(i, ok)
        \/ CreateReply(i, ok)
        \/ AcceptInviteReply(i, ok)
        \/ UsersReply(i, ok)
        \/ AddMemberReply(i, ok)
        \/ RenameReply(i, ok)

-----------------------------------------------------------------------------
AppInit ==
    /\ scene \in Scenes
    /\ loggedIn = FALSE /\ authPending = FALSE
    /\ userId = Nobody /\ token = Nobody /\ generation = 0 /\ stored = Nobody
    /\ profile = NoProfile /\ servers = {} /\ channels = 0 /\ users = {}
    /\ selected = NoServer
    /\ requests = <<>>
    /\ members = [s \in Servers |-> IF s \in FirstServers THEN {FirstOwner} ELSE {}]
    /\ owner = [s \in Servers |-> IF s \in FirstServers THEN FirstOwner ELSE Nobody]
    /\ count = [s \in Servers |-> 0]
    /\ names = [u \in Users |-> 0]
    /\ orphans = {}
    /\ wanted = Nobody /\ missed = {}

UserActs ==
    \/ \E u \in Users : Login(u)
    \/ Logout
    \/ Restart
    \/ \E s \in Servers : SelectServer(s)
    \/ CreateServer
    \/ CreateChannel
    \/ \E s \in Servers : AcceptInvite(s)
    \/ LoadUsers
    \/ \E u \in Users : InviteUser(u)
    \/ UpdateProfile

AppNext == UNCHANGED scene /\
    \/ UserActs
    \/ \E i \in DOMAIN requests : ApiHandles(i)
    \/ \E r \in orphans : ApiHandlesOrphan(r)
    \/ \E r \in orphans : OrphanIsLost(r)
    \/ Reply

AppSpec == AppInit /\ [][AppNext]_<<scene, stateVars>>

\* The transfer timeout of makeRequest ends every request.
AppFairSpec == AppSpec /\ WF_stateVars(Reply)

-----------------------------------------------------------------------------
(* Properties.                                                             *)

AppTypeOK ==
    /\ scene \in Scenes
    /\ loggedIn \in BOOLEAN /\ authPending \in BOOLEAN
    /\ {userId, token, stored, wanted} \subseteq Accounts
    /\ generation \in 0 .. 2 * MaxLogins
    /\ profile \in [id : Accounts, name : 0 .. MaxNames]
    /\ servers \subseteq Servers
    /\ channels \in 0 .. MaxChannels
    /\ users \subseteq Users
    /\ selected \in Servers \cup {NoServer}
    /\ \A r \in ToSet(requests) \cup orphans :
         r \in [kind : AllKinds, user : Users, token : Accounts,
                server : Servers \cup {NoServer}, other : Accounts,
                generation : 0 .. 2 * MaxLogins, handled : BOOLEAN,
                list : SUBSET Servers, n : Nat]
    /\ missed \subseteq {"profile", "servers", "channels"}

\* One account: the token, the account and the stored session are those the
\* user asked for last, and the reply of a login or of a restore that the user
\* has since ended with logout brings nothing back (AuthManager's generation;
\* lateReplyAfterLogoutCannotResurrectTheSession).  While nobody is logged in a
\* session is stored only during its restore.
SessionAsAsked ==
    /\ AppTypeOK
    /\ loggedIn => /\ userId = wanted /\ userId # Nobody
                   /\ token = userId /\ stored = userId
    /\ ~loggedIn => /\ token = Nobody
                    /\ stored # Nobody => authPending /\ stored = wanted

\* What is shown belongs to the account logged in and to the server selected,
\* however late a reply made for another account or another server arrives
\* (requestedUserId and requestedServerId of AppState); after logout nothing is.
NothingOfOthers ==
    IF loggedIn
      THEN /\ profile.id = userId
           /\ \A s \in servers : userId \in members[s]
           /\ channels > 0 => selected # NoServer /\ channels <= count[selected]
           /\ userId \notin users
      ELSE /\ profile = NoProfile /\ servers = {} /\ channels = 0 /\ users = {}
           /\ selected = NoServer

\* Once every reply is in, what is shown is what the API holds: the reloads that
\* follow a login, a selection, a creation, an accepted invite and a rename are
\* enough.  Except what a failed or an overtaken reply left out, or what was changed
\* by another account's request or by one of a process that has ended (missed).
ShownIsCurrent ==
    (loggedIn /\ requests = <<>>) =>
        /\ "profile" \in missed \/ profile.name = names[userId]
        /\ "servers" \in missed
           \/ servers = {s \in Servers : userId \in members[s]}
        /\ "channels" \in missed \/ selected = NoServer
           \/ channels = count[selected]

\* A login or a restore ends: the window does not say "Please wait" for ever.
PendingEnds == authPending ~> ~authPending
=============================================================================
