--------------------------- MODULE ApiMemberships ---------------------------
(***************************************************************************)
(* The REST API's servers, memberships, invites and channels               *)
(* (backend/api/routers), under concurrent requests.                       *)
(*                                                                         *)
(* A handler is a coroutine: at every await another request may run.  It   *)
(* reads with one statement after the other, each of which sees what is    *)
(* committed by then, decides on what it has read, and writes with one     *)
(* commit.  PLAN gives the statements of each endpoint in their order;     *)
(* what the code checks between two of them is checked with the first.     *)
(* The database refuses a row whose server does not exist or that repeats  *)
(* a membership; only create_invite catches that.  Identifiers and codes   *)
(* are never used again.                                                   *)
(***************************************************************************)
EXTENDS Naturals, Sequences, FiniteSets, TLC

CONSTANTS Users, Servers, Codes, Channels,
          Requests,     \* requests that may run at the same time
          Kinds,        \* endpoints in use
          Nobody, None  \* no user, no identifier

ASSUME ApiMembershipsAssumption ==
    /\ Nobody \notin Users
    /\ None \notin Servers \cup Codes \cup Channels
    /\ Servers \cap Codes = {} /\ Servers \cap Channels = {} /\ Codes \cap Channels = {}
    /\ IsFiniteSet(Requests)

VARIABLES
    owner,      \* Server: owner_id; Nobody: no such row yet
    deleted,    \* identifiers of all three tables whose row is deleted
    members,    \* ServerMember: pairs of a user and a server
    invites,    \* ServerInvite: code -> server and creator
    channels,   \* Channel: channel -> server
    requests    \* the coroutines

tables == <<owner, deleted, members, invites, channels>>
vars == <<tables, requests>>

Row == [server : Servers \cup {None}, creator : Users \cup {Nobody}]
NoRow == [server |-> None, creator |-> Nobody]

\* Statements: "server", "invite" and "channel" select a row, "member" and
\* "stranger" a membership that must, or must not, be there; "write" commits;
\* "refresh" reads the written row again.
PLAN ==
    [createServer  |-> <<"write", "refresh">>,
     updateServer  |-> <<"server", "write", "refresh">>,
     deleteServer  |-> <<"server", "write">>,
     addMember     |-> <<"server", "stranger", "write">>,
     leaveServer   |-> <<"server", "member", "write">>,
     createInvite  |-> <<"server", "member", "write", "refresh">>,
     revokeInvite  |-> <<"server", "invite", "write">>,
     acceptInvite  |-> <<"invite", "stranger", "write">>,
     createChannel |-> <<"server", "member", "write", "refresh">>,
     updateChannel |-> <<"server", "member", "channel", "write", "refresh">>,
     deleteChannel |-> <<"server", "member", "channel", "write">>,
     checkAccess   |-> <<"channel", "server", "member">>]

ASSUME KindsAssumption == Kinds \subseteq DOMAIN PLAN

OwnerOnly == {"updateServer", "deleteServer", "addMember"}
OwnerOfChannels == {"createChannel", "updateChannel", "deleteChannel"}

ServerLive(s) == s \in Servers /\ owner[s] # Nobody /\ s \notin deleted
CodeLive(c) == c \in Codes /\ invites[c] # NoRow /\ c \notin deleted
ChannelLive(h) == h \in Channels /\ channels[h] # None /\ h \notin deleted

Idle == [kind |-> "none", user |-> Nobody, server |-> None, other |-> Nobody,
         code |-> None, channel |-> None, step |-> 0, result |-> "none",
         right |-> FALSE, raced |-> FALSE]

Running(r) == r.kind # "none" /\ r.result = "none"
Statement(r) == PLAN[r.kind][r.step]

-----------------------------------------------------------------------------
(* History: the right a request needs, held at some moment while it ran,   *)
(* and whether another request wrote to what it is about.                  *)

Right(r, t) ==
    /\ r.kind = "acceptInvite" =>
          r.code \in Codes /\ t.invites[r.code] # NoRow /\ r.code \notin t.deleted
    /\ r.kind = "checkAccess" =>
          \E s \in Servers : t.channels[r.channel] = s /\ <<r.user, s>> \in t.members
    /\ r.kind \in {"createInvite", "leaveServer"} => <<r.user, r.server>> \in t.members
    /\ r.kind = "revokeInvite" =>
          \/ t.owner[r.server] = r.user
          \/ r.code \in Codes /\ t.invites[r.code].creator = r.user
    /\ r.kind \in OwnerOnly \cup OwnerOfChannels => t.owner[r.server] = r.user

Tables == [owner |-> owner, deleted |-> deleted, members |-> members,
           invites |-> invites, channels |-> channels]

-----------------------------------------------------------------------------
(* A request begins.                                                       *)

\* Bound: identifiers are left for the requests that need a new one.
Room(kind) ==
    LET free == CASE kind = "createServer" -> {s \in Servers : owner[s] = Nobody}
                  [] kind = "createInvite" -> {c \in Codes : invites[c] = NoRow}
                  [] OTHER -> {h \in Channels : channels[h] = None}
        others == {p \in Requests : Running(requests[p]) /\ requests[p].kind = kind}
    IN  kind \in {"createServer", "createInvite", "createChannel"}
          => Cardinality(others) < Cardinality(free)

Begin(p) ==
    /\ ~Running(requests[p])
    /\ \E kind \in {k \in Kinds : Room(k)}, u \in Users, s \in Servers, c \in Codes,
          h \in Channels, o \in Users :
         LET byCode == kind = "acceptInvite"
             byChannel == kind = "checkAccess"
             r == [Idle EXCEPT
                     !.kind = kind, !.user = u, !.step = 1,
                     !.server = IF byCode \/ byChannel \/ kind = "createServer"
                                  THEN None ELSE s,
                     !.other = IF kind = "addMember" THEN o ELSE u,
                     !.code = IF byCode \/ kind = "revokeInvite"
                                THEN c ELSE None,
                     !.channel = IF byChannel \/ kind \in {"updateChannel",
                                                           "deleteChannel"}
                                   THEN h ELSE None]
         IN  requests' = [requests EXCEPT ![p] = [r EXCEPT !.right = Right(r, Tables)]]
    /\ UNCHANGED tables

-----------------------------------------------------------------------------
(* Reading.                                                                *)

\* Mutant: an owner may leave.
AnyoneLeaves(r) == TRUE

\* "Owner cannot leave the server; delete it instead".
MayLeave(r) == owner[r.server] # r.user

\* _get_server_or_404, and the owner checks that follow it.
ServerPasses(r) ==
    /\ ServerLive(r.server)
    /\ r.kind \in OwnerOnly => owner[r.server] = r.user
    /\ r.kind = "leaveServer" => MayLeave(r)

\* _require_server_member, and the owner checks of channels.py.
MemberPasses(r) ==
    /\ <<r.user, r.server>> \in members
    /\ r.kind \in OwnerOfChannels => owner[r.server] = r.user

\* Mutant: the code is looked up whatever became of it.
AnyCode(r) == invites[r.code] # NoRow

\* The invite; revoke_invite asks for it within the server, and for its creator.
InvitePasses(r) ==
    /\ CodeLive(r.code)
    /\ r.kind = "revokeInvite" =>
         /\ invites[r.code].server = r.server
         /\ r.user \in {owner[r.server], invites[r.code].creator}

ChannelPasses(r) ==
    /\ ChannelLive(r.channel)
    /\ r.kind # "checkAccess" => channels[r.channel] = r.server

Passes(r) ==
    CASE Statement(r) = "server"   -> ServerPasses(r)
      [] Statement(r) = "member"   -> MemberPasses(r)
      [] Statement(r) = "invite"   -> InvitePasses(r)
      [] Statement(r) = "channel"  -> ChannelPasses(r)

\* A membership that exists is a conflict for the owner who adds it, and no
\* error for the user who accepts an invite again.
AlreadyMember(r) == <<r.other, r.server>> \in members

\* The row that was read names the server.
ServerRead(r) ==
    CASE Statement(r) = "invite" -> invites[r.code].server
      [] Statement(r) = "channel" -> channels[r.channel]
      [] OTHER -> r.server

Ends(r, result) == [r EXCEPT !.result = result]

\* After its last statement the request is answered.
Goes(r) ==
    IF r.step = Len(PLAN[r.kind]) THEN Ends(r, "ok")
    ELSE [r EXCEPT !.step = @ + 1]

Read(p) ==
    LET r == requests[p]
    IN  /\ Running(r)
        /\ Statement(r) \in {"server", "member", "invite", "channel"}
        /\ requests' = [requests EXCEPT ![p] =
             IF Passes(r) THEN [Goes(r) EXCEPT !.server = ServerRead(r)]
             ELSE Ends(r, "refused")]
        /\ UNCHANGED tables

ReadStranger(p) ==
    LET r == requests[p]
    IN  /\ Running(r)
        /\ Statement(r) = "stranger"
        /\ requests' = [requests EXCEPT ![p] =
             IF ~AlreadyMember(r) THEN Goes(r)
             ELSE Ends(r, IF r.kind = "acceptInvite" THEN "already" ELSE "refused")]
        /\ UNCHANGED tables

Refresh(p) ==
    LET r == requests[p]
        live == CASE r.kind \in {"createServer", "updateServer"} -> ServerLive(r.server)
                  [] r.kind = "createInvite" -> CodeLive(r.code)
                  [] OTHER -> ChannelLive(r.channel)
    IN  /\ Running(r)
        /\ Statement(r) = "refresh"
        /\ requests' = [requests EXCEPT ![p] =
                          IF live THEN Goes(r) ELSE Ends(r, "error")]
        /\ UNCHANGED tables

-----------------------------------------------------------------------------
(* Writing.  At a commit the other requests note that they were raced, and *)
(* whether they have the right they need by now.                           *)

Commit(p, r) ==
    requests' = [q \in Requests |->
        IF q = p THEN Goes(r)
        ELSE LET o == requests[q]
             IN  IF Running(o)
                   THEN [o EXCEPT !.raced = TRUE,
                                  !.right = @ \/ Right(o, Tables')]
                   ELSE o]

\* The database refuses the row, or finds no row to update: a server error.
Fails(p) ==
    /\ requests' = [requests EXCEPT ![p] = Ends(@, "error")]
    /\ UNCHANGED tables

Writing(p, kinds) ==
    /\ Running(requests[p])
    /\ Statement(requests[p]) = "write"
    /\ requests[p].kind \in kinds

CreateServer(p) ==
    LET r == requests[p]
    IN  /\ Writing(p, {"createServer"})
        /\ \E s \in Servers :
             /\ owner[s] = Nobody
             /\ owner' = [owner EXCEPT ![s] = r.user]
             /\ members' = members \cup {<<r.user, s>>}
             /\ UNCHANGED <<deleted, invites, channels>>
             /\ Commit(p, [r EXCEPT !.server = s])

\* update_server and update_channel change columns no other check reads.
Update(p) ==
    LET r == requests[p]
        live == IF r.kind = "updateServer" THEN ServerLive(r.server)
                ELSE ChannelLive(r.channel)
    IN  /\ Writing(p, {"updateServer", "updateChannel"})
        /\ IF live THEN UNCHANGED tables /\ Commit(p, r) ELSE Fails(p)

\* add_server_member and accept_invite: the foreign key and uq_server_member.
InsertMember(p) ==
    LET r == requests[p]
    IN  /\ Writing(p, {"addMember", "acceptInvite"})
        /\ IF ServerLive(r.server) /\ <<r.other, r.server>> \notin members
             THEN /\ members' = members \cup {<<r.other, r.server>>}
                  /\ UNCHANGED <<owner, deleted, invites, channels>>
                  /\ Commit(p, r)
             ELSE Fails(p)

\* leave_server: a row that is already gone is no error.
DeleteMember(p) ==
    LET r == requests[p]
    IN  /\ Writing(p, {"leaveServer"})
        /\ members' = members \ {<<r.user, r.server>>}
        /\ UNCHANGED <<owner, deleted, invites, channels>>
        /\ Commit(p, r)

\* create_invite: without the server, every attempt fails.
InsertInvite(p) ==
    LET r == requests[p]
    IN  /\ Writing(p, {"createInvite"})
        /\ IF ServerLive(r.server)
             THEN \E c \in Codes :
                    /\ invites[c] = NoRow
                    /\ invites' = [invites EXCEPT ![c] =
                                     [server |-> r.server, creator |-> r.user]]
                    /\ UNCHANGED <<owner, deleted, members, channels>>
                    /\ Commit(p, [r EXCEPT !.code = c])
             ELSE Fails(p)

InsertChannel(p) ==
    LET r == requests[p]
    IN  /\ Writing(p, {"createChannel"})
        /\ IF ServerLive(r.server)
             THEN \E h \in Channels :
                    /\ channels[h] = None
                    /\ channels' = [channels EXCEPT ![h] = r.server]
                    /\ UNCHANGED <<owner, deleted, members, invites>>
                    /\ Commit(p, [r EXCEPT !.channel = h])
             ELSE Fails(p)

\* revoke_invite and delete_channel.
DeleteRow(p) ==
    LET r == requests[p]
    IN  /\ Writing(p, {"revokeInvite", "deleteChannel"})
        /\ deleted' = deleted \cup (IF r.kind = "revokeInvite"
                                      THEN {r.code} ELSE {r.channel})
        /\ UNCHANGED <<owner, members, invites, channels>>
        /\ Commit(p, r)

\* delete_server takes the rows of the server with it: the relationships'
\* delete-orphan, and ON DELETE CASCADE for what is added meanwhile.
RowsOf(s) == {c \in Codes : invites[c].server = s}
             \cup {h \in Channels : channels[h] = s}

DeleteServer(p) ==
    LET r == requests[p]
    IN  /\ Writing(p, {"deleteServer"})
        /\ deleted' = deleted \cup {r.server} \cup RowsOf(r.server)
        /\ members' = {m \in members : m[2] # r.server}
        /\ UNCHANGED <<owner, invites, channels>>
        /\ Commit(p, r)

Init ==
    /\ owner = [s \in Servers |-> Nobody]
    /\ deleted = {}
    /\ members = {}
    /\ invites = [c \in Codes |-> NoRow]
    /\ channels = [h \in Channels |-> None]
    /\ requests = [p \in Requests |-> Idle]

Next ==
    \E p \in Requests :
        \/ Begin(p)
        \/ Read(p)
        \/ ReadStranger(p)
        \/ Refresh(p)
        \/ CreateServer(p)
        \/ Update(p)
        \/ InsertMember(p)
        \/ DeleteMember(p)
        \/ InsertInvite(p)
        \/ InsertChannel(p)
        \/ DeleteRow(p)
        \/ DeleteServer(p)

Spec == Init /\ [][Next]_vars

Symmetry == Permutations(Requests)

-----------------------------------------------------------------------------
(* Properties.                                                             *)

TypeOK ==
    /\ owner \in [Servers -> Users \cup {Nobody}]
    /\ deleted \subseteq Servers \cup Codes \cup Channels
    /\ members \subseteq Users \X Servers
    /\ invites \in [Codes -> Row]
    /\ channels \in [Channels -> Servers \cup {None}]
    /\ \A p \in Requests : LET r == requests[p] IN
         /\ r.kind \in DOMAIN PLAN \cup {"none"}
         /\ Running(r) => r.step \in 1 .. Len(PLAN[r.kind])
         /\ r.result \in {"none", "ok", "already", "refused", "error"}
         /\ r.result = "already" => r.kind = "acceptInvite"

\* Whatever requests overlap, memberships, invites and channels belong to servers
\* that exist, and the owner of a server is a member of it: nobody else could
\* manage it, and a deleted server leaves no way in.
TablesSound ==
    /\ TypeOK
    /\ \A m \in members : ServerLive(m[2])
    /\ \A c \in Codes : CodeLive(c) => ServerLive(invites[c].server)
    /\ \A h \in Channels : ChannelLive(h) => ServerLive(channels[h])
    /\ \A s \in Servers : ServerLive(s) => <<owner[s], s>> \in members

\* A request succeeds only if, at some moment while it ran, its user had the right
\* it needs: a code that was not revoked, the ownership, the membership, or for
\* the SFU's question the membership in the server of the channel.
SucceedsByRight ==
    \A p \in Requests : requests[p].result = "ok" => requests[p].right

\* A server error (an IntegrityError or a StaleDataError nobody catches) is only
\* ever the outcome of a race with another request that wrote meanwhile.
ErrorOnlyByRace ==
    \A p \in Requests : requests[p].result = "error" => requests[p].raced

\* Every answer has its reason in what held while the request ran.
AnswersJustified == SucceedsByRight /\ ErrorOnlyByRace
=============================================================================
