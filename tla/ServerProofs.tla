----------------------------- MODULE ServerProofs -----------------------------
(***************************************************************************)
(* Proofs about two parts of the servers, each by an invariant of its own. *)
(*                                                                         *)
(* ApiMemberships, for any number of users, servers, codes, channels and   *)
(* concurrent requests: the tables stay sound, a request succeeds only by  *)
(* right, and fails with a server error only by a race.                    *)
(*                                                                         *)
(* RtpSlotRewriter, for any width of the numbers, any sources and slots    *)
(* that live for any time: the subscriber's sequence numbers and           *)
(* timestamps are in order, across all switches and whatever the network   *)
(* does with the packets.                                                  *)
(***************************************************************************)
EXTENDS ApiMemberships, RtpSlotRewriter, SequenceTheorems, TLAPS

Reqs == [kind : DOMAIN PLAN \cup {"none"}, user : Users \cup {Nobody},
         server : Servers \cup {None}, other : Users \cup {Nobody},
         code : Codes \cup {None}, channel : Channels \cup {None}, step : Nat,
         result : {"none", "ok", "already", "refused", "error"},
         right : BOOLEAN, raced : BOOLEAN]

RequestsTyped == requests \in [Requests -> Reqs]

\* Only rows that were there are deleted.
DeletedExisted ==
    /\ \A s \in Servers : s \in deleted => owner[s] # Nobody
    /\ \A c \in Codes : c \in deleted => invites[c] # NoRow
    /\ \A h \in Channels : h \in deleted => channels[h] # None

\* What a running request is about: given with it, or read by now.  Rows
\* keep their owner, server and creator, so what was read of them stays true.
KnowsItsRows(r) ==
    /\ r.user \in Users /\ r.other \in Users
    /\ r.kind \notin {"acceptInvite", "checkAccess", "createServer"} => r.server \in Servers
    /\ r.kind \in {"acceptInvite", "createServer", "checkAccess"} /\ r.step >= 2
          => r.server \in Servers
    /\ r.kind \in {"acceptInvite", "revokeInvite"} => r.code \in Codes
    /\ r.kind \in {"updateChannel", "deleteChannel", "checkAccess"} => r.channel \in Channels
    /\ r.kind = "checkAccess" /\ r.step >= 2 => r.server = channels[r.channel]
    /\ r.kind = "leaveServer" /\ r.step >= 2 => owner[r.server] \notin {r.user, Nobody}
    /\ r.kind = "deleteServer" /\ r.step >= 2 => owner[r.server] # Nobody
    /\ r.kind = "revokeInvite" /\ r.step >= 3 => invites[r.code] # NoRow
    /\ r.kind = "deleteChannel" /\ r.step >= 4 => channels[r.channel] # None

\* The history of a running request's right is up to date.
RightNoted(r) == Right(r, Tables) => r.right

\* A request that is past its checks had the right.
RightEarned(r) ==
    /\ r.kind = "createServer" => r.right
    /\ r.kind \in OwnerOnly \cup {"acceptInvite"} /\ r.step >= 2 => r.right
    /\ r.kind \in OwnerOfChannels \cup {"leaveServer", "createInvite", "revokeInvite"}
          /\ r.step >= 3 => r.right

\* What a request has read or written is still so if nobody else wrote.
StillSo(r) ==
    ~r.raced =>
        /\ r.kind \in {"createServer", "updateServer", "addMember", "createInvite",
                       "createChannel", "acceptInvite"} /\ r.step >= 2
              => ServerLive(r.server)
        /\ r.kind \in {"addMember", "acceptInvite"} /\ r.step >= 3
              => <<r.other, r.server>> \notin members
        /\ r.kind = "createInvite" /\ r.step >= 4 => CodeLive(r.code)
        /\ r.kind \in {"createChannel", "updateChannel"} /\ r.step >= 4
              => ChannelLive(r.channel)

RunningSound(r) ==
    Running(r) => KnowsItsRows(r) /\ RightNoted(r) /\ RightEarned(r) /\ StillSo(r)

IInv ==
    /\ RequestsTyped /\ TablesSound /\ DeletedExisted
    /\ \A p \in Requests : RunningSound(requests[p])
    /\ AnswersJustified

-----------------------------------------------------------------------------
\* Where in the plans of the endpoints each statement stands.
AtStep(r, kinds, step) == r.kind \in kinds /\ r.step = step

Last(r) == r.step = Len(PLAN[r.kind])

InPlan(r) == r.kind \in DOMAIN PLAN /\ r.step \in 1 .. Len(PLAN[r.kind])

\* PLAN as a table: which statement an endpoint is at, from its kind and step.
LEMMA PlanTable ==
  ASSUME NEW r, InPlan(r), r.step \in Nat
  PROVE  /\ Statement(r) \in {"server", "member", "invite", "channel", "stranger",
                              "write", "refresh"}
         /\ Statement(r) = "server" => ~Last(r) /\
              \/ r.kind \notin {"createServer", "acceptInvite", "checkAccess"} /\ r.step = 1
              \/ AtStep(r, {"checkAccess"}, 2)
         /\ Statement(r) = "member" =>
              \/ AtStep(r, OwnerOfChannels \cup {"leaveServer", "createInvite"}, 2) /\ ~Last(r)
              \/ AtStep(r, {"checkAccess"}, 3) /\ Last(r)
         /\ Statement(r) = "invite" => ~Last(r) /\
              (AtStep(r, {"acceptInvite"}, 1) \/ AtStep(r, {"revokeInvite"}, 2))
         /\ Statement(r) = "channel" => ~Last(r) /\
              (AtStep(r, {"checkAccess"}, 1)
                 \/ AtStep(r, {"updateChannel", "deleteChannel"}, 3))
         /\ Statement(r) = "stranger" =>
              ~Last(r) /\ AtStep(r, {"addMember", "acceptInvite"}, 2)
         /\ Statement(r) = "write" =>
              \/ AtStep(r, {"createServer"}, 1) /\ ~Last(r)
              \/ AtStep(r, {"updateServer"}, 2) /\ ~Last(r)
              \/ AtStep(r, {"deleteServer"}, 2) /\ Last(r)
              \/ AtStep(r, {"addMember", "acceptInvite", "leaveServer", "revokeInvite"}, 3)
                   /\ Last(r)
              \/ AtStep(r, {"createInvite", "createChannel"}, 3) /\ ~Last(r)
              \/ AtStep(r, {"updateChannel"}, 4) /\ ~Last(r)
              \/ AtStep(r, {"deleteChannel"}, 4) /\ Last(r)
         /\ Statement(r) = "refresh" => Last(r) /\
              \/ AtStep(r, {"createServer"}, 2) \/ AtStep(r, {"updateServer"}, 3)
              \/ AtStep(r, {"createInvite", "createChannel"}, 4)
              \/ AtStep(r, {"updateChannel"}, 5)
  <1> USE DEF InPlan, PLAN, AtStep, Last, Statement, OwnerOfChannels
  <1>1. CASE r.kind = "createServer"
    BY <1>1
  <1>2. CASE r.kind = "updateServer"
    BY <1>2
  <1>3. CASE r.kind = "deleteServer"
    BY <1>3
  <1>4. CASE r.kind = "addMember"
    BY <1>4
  <1>5. CASE r.kind = "leaveServer"
    BY <1>5
  <1>6. CASE r.kind = "createInvite"
    BY <1>6
  <1>7. CASE r.kind = "revokeInvite"
    BY <1>7
  <1>8. CASE r.kind = "acceptInvite"
    BY <1>8
  <1>9. CASE r.kind = "createChannel"
    BY <1>9
  <1>10. CASE r.kind = "updateChannel"
    BY <1>10
  <1>11. CASE r.kind = "deleteChannel"
    BY <1>11
  <1>12. CASE r.kind = "checkAccess"
    BY <1>12
  <1> QED
    BY <1>1, <1>2, <1>3, <1>4, <1>5, <1>6, <1>7, <1>8, <1>9, <1>10, <1>11, <1>12

-----------------------------------------------------------------------------
\* What TypeOK and AnswersJustified say of one request.
Fits(r) ==
    /\ Running(r) => r.step \in 1 .. Len(PLAN[r.kind])
    /\ r.result = "already" => r.kind = "acceptInvite"

Justified(r) ==
    /\ r.result = "ok" => r.right
    /\ r.result = "error" => r.raced

RowsTyped ==
    /\ owner \in [Servers -> Users \cup {Nobody}]
    /\ deleted \subseteq Servers \cup Codes \cup Channels
    /\ members \subseteq Users \X Servers
    /\ invites \in [Codes -> Row]
    /\ channels \in [Channels -> Servers \cup {None}]

RowsSound ==
    /\ \A m \in members : ServerLive(m[2])
    /\ \A c \in Codes : CodeLive(c) => ServerLive(invites[c].server)
    /\ \A h \in Channels : ChannelLive(h) => ServerLive(channels[h])
    /\ \A s \in Servers : ServerLive(s) => <<owner[s], s>> \in members

\* The invariant, split into what is about the tables and about each request.
LEMMA InvParts ==
  IInv <=> /\ RequestsTyped /\ RowsTyped /\ RowsSound /\ DeletedExisted
           /\ \A p \in Requests : /\ Fits(requests[p]) /\ Justified(requests[p])
                                  /\ RunningSound(requests[p])
  <1>1. RequestsTyped => (TypeOK <=> RowsTyped /\ \A p \in Requests : Fits(requests[p]))
    BY DEF RequestsTyped, Reqs, TypeOK, RowsTyped, Fits
  <1>2. AnswersJustified <=> \A p \in Requests : Justified(requests[p])
    BY DEF AnswersJustified, SucceedsByRight, ErrorOnlyByRace, Justified
  <1> QED
    BY <1>1, <1>2 DEF IInv, TablesSound, RowsSound

\* The parts of IInv, gathered again for the next state.
LEMMA InvPartsNext ==
  (/\ RequestsTyped /\ RowsTyped /\ RowsSound /\ DeletedExisted
   /\ \A p \in Requests : /\ Fits(requests[p]) /\ Justified(requests[p])
                          /\ RunningSound(requests[p]))' => IInv'
  BY InvParts, PTL

\* The API begins with empty tables and no request.
LEMMA ApiInit == Init => IInv
  <1> SUFFICES ASSUME Init PROVE IInv
    OBVIOUS
  <1>1. RowsTyped /\ RowsSound /\ DeletedExisted
    BY ApiMembershipsAssumption
       DEF Init, RowsTyped, RowsSound, DeletedExisted, Row, NoRow, ServerLive,
           CodeLive, ChannelLive
  <1>2. Idle \in Reqs /\ ~Running(Idle) /\ Fits(Idle) /\ Justified(Idle)
    BY DEF Idle, Reqs, Running, Fits, Justified
  <1>3. RequestsTyped
    BY <1>2 DEF Init, RequestsTyped
  <1>4. \A p \in Requests : requests[p] = Idle
    BY DEF Init
  <1> HIDE DEF Init
  <1> QED
    BY <1>1, <1>2, <1>3, <1>4, InvParts DEF RunningSound

\* A step that only moves one request on.
LEMMA OwnStep ==
  ASSUME IInv, NEW p \in Requests, NEW r \in Reqs, UNCHANGED tables,
         requests' = [requests EXCEPT ![p] = r],
         Fits(r), Justified(r), RunningSound(r)
  PROVE  IInv'
  <1>1. RequestsTyped /\ RowsTyped /\ RowsSound /\ DeletedExisted
        /\ \A q \in Requests : /\ Fits(requests[q]) /\ Justified(requests[q])
                               /\ RunningSound(requests[q])
    BY InvParts
  <1>2. RequestsTyped' /\ \A q \in Requests : requests'[q] = IF q = p THEN r ELSE requests[q]
    BY <1>1 DEF RequestsTyped
  <1>3. RowsTyped' /\ RowsSound' /\ DeletedExisted'
    BY <1>1 DEF RowsTyped, RowsSound, DeletedExisted, tables, ServerLive, CodeLive,
                ChannelLive
  <1>4. ASSUME NEW o PROVE RunningSound(o) => RunningSound(o)'
    BY DEF RunningSound, KnowsItsRows, RightNoted, RightEarned, StillSo, tables,
           ServerLive, CodeLive, ChannelLive, Tables
  <1>5. \A q \in Requests : RunningSound(requests[q])'
    BY <1>1, <1>2, <1>4
  <1>6. \A q \in Requests : Fits(requests[q])' /\ Justified(requests[q])'
    BY <1>1, <1>2 DEF Fits, Running, Justified
  <1> QED
    BY <1>2, <1>3, <1>5, <1>6, InvPartsNext

\* Every plan has a first statement.
LEMMA PlanNotEmpty ==
  ASSUME NEW k \in DOMAIN PLAN
  PROVE  1 \in 1 .. Len(PLAN[k])
  BY DEF PLAN

\* Right looks at neither history nor progress of a request.
LEMMA RightDepends ==
  ASSUME NEW r, NEW o, NEW t,
         o.kind = r.kind, o.user = r.user, o.server = r.server, o.code = r.code,
         o.channel = r.channel
  PROVE  Right(o, t) = Right(r, t)
  BY DEF Right

\* A request has the right it needs or has not.
LEMMA RightIsBoolean ==
  ASSUME NEW r, NEW t
  PROVE  Right(r, t) \in BOOLEAN
  BY DEF Right

\* A request arrives: it has done nothing, and its right is noted.
LEMMA BeginStep ==
  ASSUME IInv, NEW p \in Requests, Begin(p)
  PROVE  IInv'
  <1>1. PICK kind \in Kinds, u \in Users, s \in Servers, c \in Codes,
             h \in Channels, o \in Users :
         LET byCode == kind = "acceptInvite"
             byChannel == kind = "checkAccess"
             r == [Idle EXCEPT
                     !.kind = kind, !.user = u, !.step = 1,
                     !.server = IF byCode \/ byChannel \/ kind = "createServer"
                                  THEN None ELSE s,
                     !.other = IF kind = "addMember" THEN o ELSE u,
                     !.code = IF byCode \/ kind = "revokeInvite"
                                THEN c ELSE None,
                     !.channel = IF byChannel \/ kind \in {"updateChannel",
                                                           "deleteChannel"}
                                   THEN h ELSE None]
         IN  requests' = [requests EXCEPT ![p] = [r EXCEPT !.right = Right(r, Tables)]]
    BY DEF Begin
  <1> DEFINE r == [Idle EXCEPT
                     !.kind = kind, !.user = u, !.step = 1,
                     !.server = IF kind = "acceptInvite" \/ kind = "checkAccess"
                                   \/ kind = "createServer"
                                  THEN None ELSE s,
                     !.other = IF kind = "addMember" THEN o ELSE u,
                     !.code = IF kind = "acceptInvite" \/ kind = "revokeInvite"
                                THEN c ELSE None,
                     !.channel = IF kind = "checkAccess" \/ kind \in {"updateChannel",
                                                           "deleteChannel"}
                                   THEN h ELSE None]
             b == [r EXCEPT !.right = Right(r, Tables)]
  <1>2. requests' = [requests EXCEPT ![p] = b] /\ UNCHANGED tables
    BY <1>1 DEF Begin
  <1>3. kind \in DOMAIN PLAN /\ kind # "none"
    BY KindsAssumption DEF PLAN
  <1>4. /\ r \in Reqs /\ r.kind = kind /\ r.user = u /\ r.other \in Users /\ r.step = 1
        /\ r.result = "none"
        /\ kind \notin {"acceptInvite", "checkAccess", "createServer"} => r.server = s
        /\ kind \in {"acceptInvite", "revokeInvite"} => r.code = c
        /\ kind \in {"updateChannel", "deleteChannel", "checkAccess"} => r.channel = h
    BY <1>3 DEF Idle, Reqs
  <1> HIDE DEF r
  <1>5. /\ b \in Reqs /\ b.kind = kind /\ b.user = u /\ b.other \in Users /\ b.step = 1
        /\ b.result = "none" /\ b.right = Right(r, Tables)
        /\ b.server = r.server /\ b.code = r.code /\ b.channel = r.channel
    BY <1>4, RightIsBoolean DEF Reqs
  <1>6. b.right = Right(b, Tables)
    BY <1>4, <1>5, RightDepends, ZenonT(40)
  <1> HIDE DEF b
  <1>7. Fits(b) /\ Justified(b)
    BY <1>3, <1>5, PlanNotEmpty DEF Fits, Justified
  <1>8. KnowsItsRows(b)
    BY <1>3, <1>4, <1>5 DEF KnowsItsRows
  <1>9. RightNoted(b) /\ StillSo(b)
    BY <1>5, <1>6 DEF RightNoted, StillSo
  <1>10. RightEarned(b)
    <2>1. kind = "createServer" => Right(b, Tables)
      BY <1>5 DEF Right, OwnerOnly, OwnerOfChannels
    <2> QED
      BY <1>5, <1>6, <2>1 DEF RightEarned
  <1> QED
    BY <1>2, <1>5, <1>7, <1>8, <1>9, <1>10, OwnStep DEF RunningSound

\* A request that is refused or that the database fails.
LEMMA EndsStep ==
  ASSUME IInv, NEW p \in Requests, NEW result \in {"refused", "error", "already"},
         requests' = [requests EXCEPT ![p] = Ends(requests[p], result)],
         UNCHANGED tables,
         result = "error" => requests[p].raced,
         result = "already" => requests[p].kind = "acceptInvite"
  PROVE  IInv'
  <1> DEFINE e == Ends(requests[p], result)
  <1>1. requests[p] \in Reqs
    BY DEF IInv, RequestsTyped
  <1>2. e \in Reqs /\ e.result = result /\ e.raced = requests[p].raced
        /\ e.kind = requests[p].kind
    BY <1>1 DEF Ends, Reqs
  <1> HIDE DEF e
  <1>3. Fits(e) /\ Justified(e) /\ RunningSound(e)
    BY <1>2 DEF Fits, Justified, RunningSound, Running
  <1> QED
    BY <1>2, <1>3, OwnStep DEF e

\* A request that goes on to its next statement, or ends well after its last.
LEMMA GoesType ==
  ASSUME NEW r \in Reqs, Running(r), Fits(r)
  PROVE  /\ InPlan(r) /\ Goes(r) \in Reqs
         /\ Last(r) => Goes(r) = [r EXCEPT !.result = "ok"]
         /\ ~Last(r) => Goes(r) = [r EXCEPT !.step = r.step + 1]
         /\ Fits(Goes(r))
  <1>1. InPlan(r)
    BY DEF Reqs, Running, Fits, InPlan
  <1>2. Len(PLAN[r.kind]) \in Nat
    BY <1>1 DEF InPlan, PLAN
  <1>3. CASE Last(r)
    BY <1>1, <1>3 DEF Goes, Last, Ends, Reqs, Fits, Running
  <1>4. CASE ~Last(r)
    <2>1. Goes(r) = [r EXCEPT !.step = r.step + 1]
      BY <1>4 DEF Goes, Last
    <2>2. r.step + 1 \in 1 .. Len(PLAN[r.kind])
      BY <1>1, <1>2, <1>4 DEF InPlan, Last, Reqs
    <2> QED
      BY <1>1, <1>4, <2>1, <2>2 DEF Reqs, Fits, Running
  <1> QED
    BY <1>1, <1>3, <1>4

(***************************************************************************)
(* A read that passes.  With RightNoted, the check just passed shows that  *)
(* the request has its right; RowsSound gives the server of an invite.     *)
(***************************************************************************)
LEMMA PassingRead ==
  ASSUME IInv, NEW p \in Requests, Running(requests[p]),
         Statement(requests[p]) \in {"server", "member", "invite", "channel"},
         Passes(requests[p]), UNCHANGED tables,
         requests' = [requests EXCEPT ![p] =
             [Goes(requests[p]) EXCEPT !.server = ServerRead(requests[p])]]
  PROVE  IInv'
  <1> PICK r : r = requests[p]
    OBVIOUS
  <1> DEFINE g == [Goes(r) EXCEPT !.server = ServerRead(r)]
  <1>1. /\ r \in Reqs /\ Fits(r) /\ RunningSound(r) /\ Running(r)
        /\ RowsTyped /\ RowsSound
    BY InvParts DEF RequestsTyped
  <1>2. KnowsItsRows(r) /\ RightNoted(r) /\ RightEarned(r) /\ StillSo(r)
    BY <1>1 DEF RunningSound
  <1>3. InPlan(r) /\ r.step \in Nat /\ r.right \in BOOLEAN /\ r.raced \in BOOLEAN
    BY <1>1, GoesType DEF Reqs
  <1>4. CASE Statement(r) = "server"
    <2>1. ServerPasses(r) /\ ServerRead(r) = r.server
      BY <1>4 DEF Passes, ServerRead
    <2>2. ~Last(r) /\ (\/ r.kind \notin {"createServer", "acceptInvite", "checkAccess"}
                          /\ r.step = 1
                       \/ AtStep(r, {"checkAccess"}, 2))
      BY <1>3, <1>4, PlanTable
    <2>3. g = [r EXCEPT !.step = r.step + 1] /\ g \in Reqs /\ Fits(g)
      BY <1>1, <2>1, <2>2, GoesType DEF Reqs
    <2>4. r.kind \in OwnerOnly => r.right
      BY <1>2, <2>1 DEF ServerPasses, RightNoted, Right, OwnerOnly, OwnerOfChannels, Tables
    <2>5. /\ g.kind = r.kind /\ g.user = r.user /\ g.server = r.server /\ g.code = r.code
          /\ g.channel = r.channel /\ g.other = r.other /\ g.right = r.right
          /\ g.raced = r.raced /\ g.step = r.step + 1 /\ g.result = r.result
      BY <1>1, <2>3 DEF Reqs
    <2> HIDE DEF g
    <2>6. KnowsItsRows(g)
      BY <1>1, <1>2, <1>3, <2>1, <2>2, <2>5
         DEF KnowsItsRows, ServerPasses, MayLeave, ServerLive, AtStep, OwnerOnly
    <2>7. RightNoted(g)
      BY <1>2, <2>5, RightDepends DEF RightNoted
    <2>8. RightEarned(g)
      BY <1>2, <1>3, <2>2, <2>4, <2>5 DEF RightEarned, AtStep, OwnerOnly, OwnerOfChannels
    <2>9. StillSo(g)
      BY <1>2, <1>3, <2>1, <2>2, <2>5 DEF StillSo, AtStep, ServerPasses
    <2>10. Justified(g) /\ RunningSound(g)
      BY <1>1, <2>5, <2>6, <2>7, <2>8, <2>9 DEF Justified, Running, RunningSound
    <2> QED
      BY <2>3, <2>10, OwnStep DEF g
  <1>5. CASE Statement(r) = "member"
    <2>1. MemberPasses(r) /\ ServerRead(r) = r.server
      BY <1>5 DEF Passes, ServerRead
    <2>2. \/ AtStep(r, OwnerOfChannels \cup {"leaveServer", "createInvite"}, 2) /\ ~Last(r)
          \/ AtStep(r, {"checkAccess"}, 3) /\ Last(r)
      BY <1>3, <1>5, PlanTable
    <2>3. Right(r, Tables)
      BY <1>2, <1>3, <2>1, <2>2
         DEF MemberPasses, Right, OwnerOnly, OwnerOfChannels, Tables, AtStep, KnowsItsRows
    <2>4. r.right
      BY <1>2, <2>3 DEF RightNoted
    <2>5. g = Goes(r) /\ g \in Reqs /\ Fits(g)
      BY <1>1, <2>1, GoesType DEF Reqs
    <2>6. /\ g.kind = r.kind /\ g.user = r.user /\ g.server = r.server /\ g.code = r.code
          /\ g.channel = r.channel /\ g.other = r.other /\ g.right = r.right
          /\ g.raced = r.raced
          /\ Last(r) => g.result = "ok"
          /\ ~Last(r) => g.step = r.step + 1 /\ g.result = r.result
      BY <1>1, <2>5, GoesType DEF Reqs
    <2> HIDE DEF g
    <2>7. CASE Last(r)
      BY <2>4, <2>5, <2>6, <2>7, OwnStep DEF g, Justified, RunningSound, Running
    <2>8. CASE ~Last(r)
      <3>1. KnowsItsRows(g)
        BY <1>2, <1>3, <2>2, <2>6, <2>8 DEF KnowsItsRows, AtStep, OwnerOfChannels
      <3>2. RightNoted(g)
        BY <1>2, <2>6, RightDepends DEF RightNoted
      <3>3. RightEarned(g)
        BY <2>4, <2>6 DEF RightEarned
      <3>4. StillSo(g)
        BY <1>2, <1>3, <2>2, <2>6, <2>8 DEF StillSo, AtStep, OwnerOfChannels
      <3>5. Justified(g) /\ RunningSound(g)
        BY <1>1, <2>6, <2>8, <3>1, <3>2, <3>3, <3>4 DEF Justified, Running, RunningSound
      <3> QED
        BY <2>5, <3>5, OwnStep DEF g
    <2> QED
      BY <2>7, <2>8
  <1>6. CASE Statement(r) \in {"invite", "channel"}
    <2>1. /\ Statement(r) = "invite" => InvitePasses(r) /\ ServerRead(r) = invites[r.code].server
          /\ Statement(r) = "channel" => ChannelPasses(r) /\ ServerRead(r) = channels[r.channel]
      BY <1>6 DEF Passes, ServerRead
    <2>2. ~Last(r) /\ (\/ Statement(r) = "invite"
                          /\ (AtStep(r, {"acceptInvite"}, 1) \/ AtStep(r, {"revokeInvite"}, 2))
                       \/ Statement(r) = "channel"
                          /\ (AtStep(r, {"checkAccess"}, 1)
                                \/ AtStep(r, {"updateChannel", "deleteChannel"}, 3)))
      BY <1>3, <1>6, PlanTable
    <2>3. ServerLive(ServerRead(r))
      BY <1>1, <2>1, <2>2 DEF RowsSound, InvitePasses, ChannelPasses, CodeLive, ChannelLive
    <2>4. ServerRead(r) \in Servers
      BY <2>3 DEF ServerLive
    <2>5. g = [r EXCEPT !.step = r.step + 1, !.server = ServerRead(r)]
          /\ g \in Reqs /\ Fits(g)
      BY <1>1, <2>2, <2>4, GoesType, ZenonT(40) DEF Reqs, Fits, Running
    <2>6. /\ g.kind = r.kind /\ g.user = r.user /\ g.code = r.code
          /\ g.channel = r.channel /\ g.other = r.other /\ g.right = r.right
          /\ g.raced = r.raced /\ g.step = r.step + 1 /\ g.result = r.result
          /\ g.server = ServerRead(r)
      BY <1>1, <2>5, ZenonT(40) DEF Reqs
    <2>7. r.kind \notin {"acceptInvite", "checkAccess"} => g.server = r.server
      BY <2>1, <2>2, <2>6 DEF InvitePasses, ChannelPasses, AtStep
    <2>8. Statement(r) = "invite" => r.right
      BY <1>2, <2>1, <2>2
         DEF InvitePasses, RightNoted, Right, AtStep, Tables, OwnerOnly, OwnerOfChannels,
             CodeLive
    <2> HIDE DEF g
    <2>9. KnowsItsRows(g)
      BY <1>2, <1>3, <2>1, <2>2, <2>4, <2>6, <2>7
         DEF KnowsItsRows, AtStep, InvitePasses, ChannelPasses, CodeLive, ChannelLive
    <2>10. RightNoted(g)
      <3>1. Right(g, Tables) => Right(r, Tables)
        BY <2>2, <2>6, <2>7 DEF Right, AtStep, OwnerOnly, OwnerOfChannels
      <3> QED
        BY <1>2, <2>6, <3>1 DEF RightNoted
    <2>11. RightEarned(g)
      BY <1>2, <1>3, <2>2, <2>6, <2>8 DEF RightEarned, AtStep, OwnerOnly, OwnerOfChannels
    <2>12. StillSo(g)
      BY <1>2, <1>3, <2>1, <2>2, <2>3, <2>6 DEF StillSo, AtStep, ChannelPasses
    <2>13. Justified(g) /\ RunningSound(g)
      BY <1>1, <2>6, <2>9, <2>10, <2>11, <2>12 DEF Justified, Running, RunningSound
    <2> QED
      BY <2>5, <2>13, OwnStep DEF g
  <1> QED
    BY <1>4, <1>5, <1>6

\* A statement that reads goes on to the next one, or the request is refused.
LEMMA ReadStep ==
  ASSUME IInv, NEW p \in Requests, Read(p)
  PROVE  IInv'
  <1>1. CASE Passes(requests[p])
    BY <1>1, PassingRead DEF Read
  <1>2. CASE ~Passes(requests[p])
    BY <1>2, EndsStep DEF Read
  <1> QED
    BY <1>1, <1>2

\* add_server_member and accept_invite look whether the user is a member already.
LEMMA ReadStrangerStep ==
  ASSUME IInv, NEW p \in Requests, ReadStranger(p)
  PROVE  IInv'
  <1> PICK r : r = requests[p]
    OBVIOUS
  <1>1. /\ r \in Reqs /\ Fits(r) /\ RunningSound(r) /\ Running(r)
        /\ Statement(r) = "stranger" /\ UNCHANGED tables
    BY InvParts DEF RequestsTyped, ReadStranger
  <1>2. CASE AlreadyMember(r)
    BY <1>1, <1>2, EndsStep DEF ReadStranger
  <1>3. CASE ~AlreadyMember(r)
    <2> DEFINE g == Goes(r)
    <2>1. requests' = [requests EXCEPT ![p] = g]
      BY <1>3 DEF ReadStranger
    <2>2. InPlan(r) /\ g \in Reqs /\ Fits(g)
      BY <1>1, GoesType
    <2>3. ~Last(r) /\ AtStep(r, {"addMember", "acceptInvite"}, 2) /\ r.step \in Nat
      BY <1>1, <2>2, PlanTable DEF Reqs
    <2>4. /\ g.kind = r.kind /\ g.user = r.user /\ g.server = r.server /\ g.code = r.code
          /\ g.channel = r.channel /\ g.other = r.other /\ g.right = r.right
          /\ g.raced = r.raced /\ g.step = 3 /\ g.result = r.result
      BY <1>1, <2>3, GoesType DEF Reqs, AtStep
    <2> HIDE DEF g
    <2>5. KnowsItsRows(r) /\ RightNoted(r) /\ RightEarned(r) /\ StillSo(r)
      BY <1>1 DEF RunningSound
    <2>6. KnowsItsRows(g) /\ RightEarned(g)
      BY <2>3, <2>4, <2>5 DEF KnowsItsRows, RightEarned, AtStep, OwnerOnly, OwnerOfChannels
    <2>7. RightNoted(g)
      BY <2>4, <2>5, RightDepends DEF RightNoted
    <2>8. StillSo(g)
      BY <1>3, <2>3, <2>4, <2>5 DEF StillSo, AtStep, AlreadyMember
    <2>9. Justified(g) /\ RunningSound(g)
      BY <1>1, <2>4, <2>6, <2>7, <2>8 DEF Justified, RunningSound, Running
    <2> QED
      BY <1>1, <2>1, <2>2, <2>9, OwnStep
  <1> QED
    BY <1>2, <1>3

\* The row that was just written is still there, or there was a race.
LEMMA RefreshStep ==
  ASSUME IInv, NEW p \in Requests, Refresh(p)
  PROVE  IInv'
  <1> PICK r : r = requests[p]
    OBVIOUS
  <1> DEFINE live == CASE r.kind \in {"createServer", "updateServer"} -> ServerLive(r.server)
                       [] r.kind = "createInvite" -> CodeLive(r.code)
                       [] OTHER -> ChannelLive(r.channel)
  <1>1. /\ r \in Reqs /\ Fits(r) /\ RunningSound(r) /\ Running(r)
        /\ Statement(r) = "refresh" /\ UNCHANGED tables
        /\ requests' = [requests EXCEPT ![p] = IF live THEN Goes(r) ELSE Ends(r, "error")]
    BY InvParts DEF RequestsTyped, Refresh
  <1>2. InPlan(r) /\ r.step \in Nat /\ r.raced \in BOOLEAN
    BY <1>1, GoesType DEF Reqs
  <1>3. Last(r) /\ (\/ AtStep(r, {"createServer"}, 2) \/ AtStep(r, {"updateServer"}, 3)
                    \/ AtStep(r, {"createInvite", "createChannel"}, 4)
                    \/ AtStep(r, {"updateChannel"}, 5))
    BY <1>1, <1>2, PlanTable
  <1>4. RightEarned(r) /\ StillSo(r)
    BY <1>1 DEF RunningSound
  <1>5. CASE live
    <2> DEFINE g == Goes(r)
    <2>1. g \in Reqs /\ Fits(g) /\ g.result = "ok" /\ g.right = r.right
      BY <1>1, <1>3, GoesType DEF Reqs
    <2>2. r.right
      BY <1>3, <1>4 DEF RightEarned, AtStep, OwnerOnly, OwnerOfChannels
    <2> HIDE DEF g
    <2>3. Justified(g) /\ RunningSound(g)
      BY <2>1, <2>2 DEF Justified, RunningSound, Running
    <2> QED
      BY <1>1, <1>5, <2>1, <2>3, OwnStep DEF g
  <1>6. CASE ~live
    <2>1. ~r.raced => live
      BY <1>3, <1>4 DEF StillSo, AtStep
    <2>2. r.raced
      BY <1>6, <2>1
    <2> QED
      BY <1>1, <1>6, <2>2, EndsStep
  <1> QED
    BY <1>5, <1>6
-----------------------------------------------------------------------------
\* A commit may delete a row; it never changes the columns of one.
RowsStay ==
    /\ \A s \in Servers : owner[s] # Nobody => owner'[s] = owner[s]
    /\ \A c \in Codes : invites[c] # NoRow => invites'[c] = invites[c]
    /\ \A h \in Channels : channels[h] # None => channels'[h] = channels[h]

\* What a commit notes of another request.
LEMMA NotedType ==
  ASSUME NEW o \in Reqs, NEW right \in BOOLEAN
  PROVE  LET n == [o EXCEPT !.raced = TRUE, !.right = right]
         IN  /\ n \in Reqs /\ n.raced = TRUE /\ n.right = right
             /\ n.kind = o.kind /\ n.user = o.user /\ n.server = o.server
             /\ n.code = o.code /\ n.channel = o.channel /\ n.other = o.other
             /\ n.step = o.step /\ n.result = o.result
  BY DEF Reqs

(***************************************************************************)
(* A commit of one request.  What the others have read of rows stays true, *)
(* their rights are noted again, and being raced they claim no more than   *)
(* that: what is left to show of a write is about the tables and the       *)
(* writer itself.                                                          *)
(***************************************************************************)
LEMMA CommitStep ==
  ASSUME IInv, NEW p \in Requests, NEW r, Commit(p, r),
         (RowsTyped /\ RowsSound /\ DeletedExisted)', RowsStay,
         Goes(r) \in Reqs, Fits(Goes(r)), Justified(Goes(r)), RunningSound(Goes(r))'
  PROVE  IInv'
  <1>1. RequestsTyped /\ RowsTyped
        /\ \A q \in Requests : /\ Fits(requests[q]) /\ Justified(requests[q])
                               /\ RunningSound(requests[q])
    BY InvParts
  <1>2. requests' = [q \in Requests |-> requests'[q]] /\ requests'[p] = Goes(r)
    BY DEF Commit
  <1>3. ASSUME NEW q \in Requests, q # p
        PROVE  /\ requests'[q] \in Reqs
               /\ (Fits(requests[q]) /\ Justified(requests[q]) /\ RunningSound(requests[q]))'
    <2> PICK o : o = requests[q]
      OBVIOUS
    <2>1. o \in Reqs /\ Fits(o) /\ Justified(o) /\ RunningSound(o)
      BY <1>1 DEF RequestsTyped
    <2>2. CASE ~Running(o)
      <3>1. requests'[q] = o
        BY <1>3, <2>2 DEF Commit
      <3> QED
        BY <2>1, <2>2, <3>1 DEF Fits, Justified, RunningSound, Running
    <2>3. CASE Running(o)
      <3> PICK right \in BOOLEAN : right = (o.right \/ Right(o, Tables'))
        OBVIOUS
      <3> DEFINE n == [o EXCEPT !.raced = TRUE, !.right = right]
      <3>1. requests'[q] = n
        BY <1>3, <2>3 DEF Commit
      <3>2. /\ n \in Reqs /\ n.raced = TRUE /\ n.right = right
            /\ n.kind = o.kind /\ n.user = o.user /\ n.server = o.server
            /\ n.code = o.code /\ n.channel = o.channel /\ n.other = o.other
            /\ n.step = o.step /\ n.result = o.result
        BY <2>1, NotedType, ZenonT(40)
      <3> HIDE DEF n
      <3>3. o.result = "none" /\ o.right \in BOOLEAN
        BY <2>1, <2>3 DEF Running, Reqs
      <3>4. Fits(n) /\ Justified(n)
        BY <2>1, <2>3, <3>2, <3>3 DEF Fits, Justified, Running
      <3>5. KnowsItsRows(o) /\ RightEarned(o)
        BY <2>1, <2>3 DEF RunningSound
      <3>6. KnowsItsRows(n)'
        <4>1. o.kind = "checkAccess" /\ o.step >= 2 => channels'[o.channel] = channels[o.channel]
          BY <3>5, ApiMembershipsAssumption DEF KnowsItsRows, RowsStay
        <4>2. /\ o.kind = "leaveServer" /\ o.step >= 2 => owner'[o.server] = owner[o.server]
              /\ o.kind = "deleteServer" /\ o.step >= 2 => owner'[o.server] = owner[o.server]
              /\ o.kind = "revokeInvite" /\ o.step >= 3 => invites'[o.code] = invites[o.code]
              /\ o.kind = "deleteChannel" /\ o.step >= 4
                   => channels'[o.channel] = channels[o.channel]
          BY <3>5 DEF KnowsItsRows, RowsStay
        <4> QED
          BY <3>2, <3>5, <4>1, <4>2 DEF KnowsItsRows
      <3>7. RightNoted(n)'
        <4>1. Right(n, Tables') = Right(o, Tables')
          BY <3>2, RightDepends
        <4> QED
          BY <3>2, <4>1 DEF RightNoted
      <3>8. RightEarned(n)' /\ StillSo(n)'
        BY <3>2, <3>3, <3>5 DEF RightEarned, StillSo
      <3>9. RunningSound(n)'
        BY <3>6, <3>7, <3>8 DEF RunningSound
      <3> QED
        BY <3>1, <3>2, <3>4, <3>9 DEF Fits, Justified, Running
    <2> QED
      BY <2>2, <2>3
  <1>4. RequestsTyped'
    BY <1>2, <1>3 DEF RequestsTyped
  <1>5. (Fits(requests[p]) /\ Justified(requests[p]) /\ RunningSound(requests[p]))'
    BY <1>2 DEF Fits, Justified, Running
  <1>6. \A q \in Requests :
          (Fits(requests[q]) /\ Justified(requests[q]) /\ RunningSound(requests[q]))'
    BY <1>3, <1>5
  <1> QED
    BY <1>4, <1>6, InvPartsNext

\* What is known of a request that is about to write.
LEMMA Writer ==
  ASSUME IInv, NEW p \in Requests, NEW kinds, Writing(p, kinds),
         NEW r, r = requests[p]
  PROVE  /\ RowsTyped /\ RowsSound /\ DeletedExisted
         /\ r \in Reqs /\ r.kind \in kinds /\ Running(r) /\ Fits(r) /\ InPlan(r)
         /\ Statement(r) = "write" /\ r.right \in BOOLEAN /\ r.raced \in BOOLEAN
         /\ KnowsItsRows(r) /\ RightNoted(r) /\ RightEarned(r) /\ StillSo(r)
         /\ Goes(r) \in Reqs /\ Fits(Goes(r))
         /\ \/ AtStep(r, {"createServer"}, 1) /\ ~Last(r)
            \/ AtStep(r, {"updateServer"}, 2) /\ ~Last(r)
            \/ AtStep(r, {"deleteServer"}, 2) /\ Last(r)
            \/ AtStep(r, {"addMember", "acceptInvite", "leaveServer", "revokeInvite"}, 3)
                 /\ Last(r)
            \/ AtStep(r, {"createInvite", "createChannel"}, 3) /\ ~Last(r)
            \/ AtStep(r, {"updateChannel"}, 4) /\ ~Last(r)
            \/ AtStep(r, {"deleteChannel"}, 4) /\ Last(r)
         /\ r.right
  <1>1. /\ r \in Reqs /\ Fits(r) /\ RunningSound(r) /\ Running(r)
        /\ Statement(r) = "write" /\ r.kind \in kinds
        /\ RowsTyped /\ RowsSound /\ DeletedExisted
    BY InvParts DEF RequestsTyped, Writing
  <1>2. InPlan(r) /\ r.step \in Nat /\ r.raced \in BOOLEAN /\ r.right \in BOOLEAN
        /\ Goes(r) \in Reqs /\ Fits(Goes(r))
    BY <1>1, GoesType DEF Reqs
  <1>3. KnowsItsRows(r) /\ RightNoted(r) /\ RightEarned(r) /\ StillSo(r)
    BY <1>1 DEF RunningSound
  <1>4. \/ AtStep(r, {"createServer"}, 1) /\ ~Last(r)
        \/ AtStep(r, {"updateServer"}, 2) /\ ~Last(r)
        \/ AtStep(r, {"deleteServer"}, 2) /\ Last(r)
        \/ AtStep(r, {"addMember", "acceptInvite", "leaveServer", "revokeInvite"}, 3)
             /\ Last(r)
        \/ AtStep(r, {"createInvite", "createChannel"}, 3) /\ ~Last(r)
        \/ AtStep(r, {"updateChannel"}, 4) /\ ~Last(r)
        \/ AtStep(r, {"deleteChannel"}, 4) /\ Last(r)
    BY <1>1, <1>2, PlanTable
  <1>5. r.right
    BY <1>3, <1>4 DEF RightEarned, AtStep, OwnerOnly, OwnerOfChannels
  <1> QED
    BY <1>1, <1>2, <1>3, <1>4, <1>5

\* A writer whose last statement the write is: it has its right, and is done.
LEMMA LastWrite ==
  ASSUME IInv, NEW p \in Requests, NEW r \in Reqs, Running(r), Fits(r), Last(r), r.right,
         Commit(p, r), (RowsTyped /\ RowsSound /\ DeletedExisted)', RowsStay
  PROVE  IInv'
  <1> DEFINE g == Goes(r)
  <1>1. g \in Reqs /\ Fits(g) /\ g.result = "ok" /\ g.right = r.right
    BY GoesType, ZenonT(40) DEF Reqs
  <1> HIDE DEF g
  <1>2. Justified(g) /\ RunningSound(g)'
    BY <1>1 DEF Justified, RunningSound, Running
  <1> QED
    BY <1>1, <1>2, CommitStep DEF g
\* A writer that goes on: the row it is about, with an identifier it was given.
LEMMA MiddleWrite ==
  ASSUME IInv, NEW p \in Requests, NEW r \in Reqs, Running(r), Fits(r), ~Last(r), r.right,
         Commit(p, r), (RowsTyped /\ RowsSound /\ DeletedExisted)', RowsStay,
         NEW g, g = [r EXCEPT !.step = r.step + 1], KnowsItsRows(g)', StillSo(g)'
  PROVE  IInv'
  <1>1. g = Goes(r) /\ g \in Reqs /\ Fits(g) /\ g.right = r.right /\ g.result = "none"
    BY GoesType DEF Reqs, Running
  <1>2. Justified(g) /\ RunningSound(g)'
    BY <1>1 DEF Justified, RunningSound, RightNoted, RightEarned
  <1> QED
    BY <1>1, <1>2, CommitStep

\* A statement that finds its row gone ends in a server error, after a race.
LEMMA FailsStep ==
  ASSUME IInv, NEW p \in Requests, Fails(p), requests[p].raced
  PROVE  IInv'
  <1>1. requests' = [requests EXCEPT ![p] = Ends(requests[p], "error")]
    BY DEF Fails
  <1> QED
    BY <1>1, EndsStep DEF Fails

\* create_server writes the server and its owner's membership in one commit.
LEMMA CreateServerStep ==
  ASSUME IInv, NEW p \in Requests, CreateServer(p)
  PROVE  IInv'
  <1> PICK r : r = requests[p]
    OBVIOUS
  <1>1. Writing(p, {"createServer"})
    BY DEF CreateServer
  <1>2. PICK s \in Servers :
             /\ owner[s] = Nobody
             /\ owner' = [owner EXCEPT ![s] = r.user]
             /\ members' = members \cup {<<r.user, s>>}
             /\ UNCHANGED <<deleted, invites, channels>>
             /\ Commit(p, [r EXCEPT !.server = s])
    BY DEF CreateServer
  <1>3. /\ RowsTyped /\ RowsSound /\ DeletedExisted /\ r \in Reqs /\ r.kind = "createServer"
        /\ Running(r) /\ Fits(r) /\ KnowsItsRows(r) /\ r.right
        /\ r.step = 1 /\ ~Last(r)
    BY <1>1, Writer DEF AtStep
  <1> DEFINE w == [r EXCEPT !.server = s]
             g == [w EXCEPT !.step = w.step + 1]
  <1>4. w \in Reqs /\ Running(w) /\ Fits(w) /\ ~Last(w) /\ w.right
    BY <1>3 DEF Reqs, Running, Fits, Last
  <1>5. /\ g.kind = "createServer" /\ g.step = 2 /\ g.server = s
        /\ g.user = r.user /\ g.other = r.other
    BY <1>3 DEF Reqs
  <1>6. r.user \in Users /\ r.other \in Users
    BY <1>3 DEF KnowsItsRows
  <1> HIDE DEF w, g
  <1>7. RowsTyped'
    BY <1>2, <1>3, <1>6 DEF RowsTyped
  <1>8. DeletedExisted' /\ RowsStay
    BY <1>2, <1>3, <1>6, ApiMembershipsAssumption DEF DeletedExisted, RowsTyped, RowsStay
  <1>9. \A t : ServerLive(t)' <=> ServerLive(t) \/ t = s
    BY <1>2, <1>3, <1>6, ApiMembershipsAssumption DEF ServerLive, DeletedExisted, RowsTyped
  <1>10. RowsSound'
    <2>1. \A m \in members' : ServerLive(m[2])'
      BY <1>2, <1>3, <1>9 DEF RowsSound
    <2>2. /\ \A c \in Codes : CodeLive(c)' => ServerLive(invites[c].server)'
          /\ \A h \in Channels : ChannelLive(h)' => ServerLive(channels[h])'
      BY <1>2, <1>3, <1>9 DEF RowsSound, CodeLive, ChannelLive
    <2>3. \A t \in Servers : ServerLive(t)' => <<owner'[t], t>> \in members'
      BY <1>2, <1>3, <1>9 DEF RowsSound, RowsTyped
    <2> QED
      BY <2>1, <2>2, <2>3 DEF RowsSound
  <1>11. KnowsItsRows(g)'
    BY <1>5, <1>6 DEF KnowsItsRows
  <1>12. StillSo(g)'
    BY <1>5, <1>9 DEF StillSo
  <1>13. Commit(p, w)
    BY <1>2 DEF w
  <1> QED
    BY <1>4, <1>7, <1>8, <1>10, <1>11, <1>12, <1>13, MiddleWrite DEF g

\* update_server and update_channel write nothing that others rely on.
LEMMA UpdateStep ==
  ASSUME IInv, NEW p \in Requests, Update(p)
  PROVE  IInv'
  <1> PICK r : r = requests[p]
    OBVIOUS
  <1> DEFINE live == IF r.kind = "updateServer" THEN ServerLive(r.server)
                     ELSE ChannelLive(r.channel)
             g == [r EXCEPT !.step = r.step + 1]
  <1>1. Writing(p, {"updateServer", "updateChannel"})
    BY DEF Update
  <1>2. /\ RowsTyped /\ RowsSound /\ DeletedExisted /\ r \in Reqs
        /\ r.kind \in {"updateServer", "updateChannel"} /\ r.raced \in BOOLEAN
        /\ Running(r) /\ Fits(r) /\ KnowsItsRows(r) /\ StillSo(r) /\ r.right /\ ~Last(r)
        /\ r.kind = "updateServer" => r.step = 2
        /\ r.kind = "updateChannel" => r.step = 4
    BY <1>1, Writer DEF AtStep
  <1>3. CASE live
    <2>1. UNCHANGED tables /\ Commit(p, r)
      BY <1>3 DEF Update
    <2>2. (RowsTyped /\ RowsSound /\ DeletedExisted)' /\ RowsStay
      BY <1>2, <2>1 DEF RowsTyped, RowsSound, DeletedExisted, RowsStay, tables,
                        ServerLive, CodeLive, ChannelLive
    <2>3. /\ g.kind = r.kind /\ g.step = r.step + 1 /\ g.server = r.server
          /\ g.user = r.user /\ g.other = r.other /\ g.channel = r.channel
      BY <1>2 DEF Reqs
    <2> HIDE DEF g
    <2>4. KnowsItsRows(g)'
      BY <1>2, <2>3 DEF KnowsItsRows
    <2>5. StillSo(g)'
      BY <1>2, <1>3, <2>1, <2>3 DEF StillSo, tables, ServerLive, ChannelLive
    <2> QED
      BY <1>2, <2>1, <2>2, <2>4, <2>5, MiddleWrite DEF g
  <1>4. CASE ~live
    <2>1. ~r.raced => live
      BY <1>2 DEF StillSo
    <2>2. Fails(p)
      BY <1>4 DEF Update
    <2> QED
      BY <1>4, <2>1, <2>2, FailsStep
  <1> QED
    BY <1>3, <1>4

\* add_server_member and accept_invite write a membership of a server that exists.
LEMMA InsertMemberStep ==
  ASSUME IInv, NEW p \in Requests, InsertMember(p)
  PROVE  IInv'
  <1> PICK r : r = requests[p]
    OBVIOUS
  <1>1. Writing(p, {"addMember", "acceptInvite"})
    BY DEF InsertMember
  <1>2. /\ RowsTyped /\ RowsSound /\ DeletedExisted /\ r \in Reqs
        /\ r.kind \in {"addMember", "acceptInvite"} /\ r.raced \in BOOLEAN
        /\ Running(r) /\ Fits(r) /\ KnowsItsRows(r) /\ StillSo(r) /\ r.right
        /\ r.step = 3 /\ Last(r)
    BY <1>1, Writer DEF AtStep
  <1>3. CASE ServerLive(r.server) /\ <<r.other, r.server>> \notin members
    <2>1. /\ members' = members \cup {<<r.other, r.server>>}
          /\ UNCHANGED <<owner, deleted, invites, channels>>
          /\ Commit(p, r)
      BY <1>3 DEF InsertMember
    <2>2. r.other \in Users /\ r.server \in Servers
      BY <1>2, <1>3 DEF KnowsItsRows, ServerLive
    <2>3. RowsTyped' /\ DeletedExisted' /\ RowsStay
      BY <1>2, <2>1, <2>2 DEF RowsTyped, DeletedExisted, RowsStay
    <2>4. RowsSound'
      BY <1>2, <1>3, <2>1 DEF RowsSound, ServerLive, CodeLive, ChannelLive
    <2> QED
      BY <1>2, <2>1, <2>3, <2>4, LastWrite
  <1>4. CASE ~(ServerLive(r.server) /\ <<r.other, r.server>> \notin members)
    <2>1. ~r.raced => ServerLive(r.server) /\ <<r.other, r.server>> \notin members
      BY <1>2 DEF StillSo
    <2>2. Fails(p)
      BY <1>4 DEF InsertMember
    <2> QED
      BY <1>4, <2>1, <2>2, FailsStep
  <1> QED
    BY <1>3, <1>4

\* The owner never leaves: the request has read that its user is not the owner,
\* and a server keeps its owner.
LEMMA DeleteMemberStep ==
  ASSUME IInv, NEW p \in Requests, DeleteMember(p)
  PROVE  IInv'
  <1> PICK r : r = requests[p]
    OBVIOUS
  <1>1. /\ Writing(p, {"leaveServer"})
        /\ members' = members \ {<<r.user, r.server>>}
        /\ UNCHANGED <<owner, deleted, invites, channels>>
        /\ Commit(p, r)
    BY DEF DeleteMember
  <1>2. /\ RowsTyped /\ RowsSound /\ DeletedExisted /\ r \in Reqs /\ r.kind = "leaveServer"
        /\ Running(r) /\ Fits(r) /\ KnowsItsRows(r) /\ r.right
        /\ r.step = 3 /\ Last(r)
    BY <1>1, Writer DEF AtStep
  <1>3. owner[r.server] # r.user
    BY <1>2 DEF KnowsItsRows
  <1>4. RowsTyped' /\ DeletedExisted' /\ RowsStay
    BY <1>1, <1>2 DEF RowsTyped, DeletedExisted, RowsStay
  <1>5. RowsSound'
    <2>1. \A t \in Servers : ServerLive(t)' => <<owner'[t], t>> \in members'
      BY <1>1, <1>2, <1>3 DEF RowsSound, ServerLive
    <2>2. \A m \in members' : ServerLive(m[2])'
      BY <1>1, <1>2 DEF RowsSound, ServerLive
    <2> QED
      BY <1>1, <1>2, <2>1, <2>2 DEF RowsSound, ServerLive, CodeLive, ChannelLive
  <1> QED
    BY <1>1, <1>2, <1>4, <1>5, LastWrite
\* create_invite writes an invite for a server that exists.
LEMMA InsertInviteStep ==
  ASSUME IInv, NEW p \in Requests, InsertInvite(p)
  PROVE  IInv'
  <1> PICK r : r = requests[p]
    OBVIOUS
  <1>1. Writing(p, {"createInvite"})
    BY DEF InsertInvite
  <1>2. /\ RowsTyped /\ RowsSound /\ DeletedExisted /\ r \in Reqs /\ r.kind = "createInvite"
        /\ r.raced \in BOOLEAN /\ Running(r) /\ Fits(r) /\ KnowsItsRows(r) /\ StillSo(r)
        /\ r.right /\ r.step = 3 /\ ~Last(r)
    BY <1>1, Writer DEF AtStep
  <1>3. CASE ServerLive(r.server)
    <2>1. PICK c \in Codes :
                 /\ invites[c] = NoRow
                 /\ invites' = [invites EXCEPT ![c] = [server |-> r.server, creator |-> r.user]]
                 /\ UNCHANGED <<owner, deleted, members, channels>>
                 /\ Commit(p, [r EXCEPT !.code = c])
      BY <1>3 DEF InsertInvite
    <2> DEFINE w == [r EXCEPT !.code = c]
               g == [w EXCEPT !.step = w.step + 1]
    <2>2. w \in Reqs /\ Running(w) /\ Fits(w) /\ ~Last(w) /\ w.right
      BY <1>2 DEF Reqs, Running, Fits, Last
    <2>3. /\ g.kind = "createInvite" /\ g.step = 4 /\ g.server = r.server
          /\ g.user = r.user /\ g.other = r.other /\ g.code = c
      BY <1>2 DEF Reqs
    <2>4. r.user \in Users /\ r.other \in Users /\ r.server \in Servers
      BY <1>2 DEF KnowsItsRows
    <2> HIDE DEF w, g
    <2>5. invites'[c] # NoRow /\ c \notin deleted
      BY <1>2, <2>1, <2>4, ApiMembershipsAssumption
         DEF RowsTyped, Row, NoRow, DeletedExisted
    <2>6. RowsTyped'
      BY <1>2, <2>1, <2>4 DEF RowsTyped, Row
    <2>7. DeletedExisted' /\ RowsStay
      BY <1>2, <2>1, <2>5 DEF DeletedExisted, RowsTyped, RowsStay
    <2>8. /\ \A s : ServerLive(s)' <=> ServerLive(s)
          /\ CodeLive(c)'
      BY <2>1, <2>5 DEF ServerLive, CodeLive
    <2>9. RowsSound'
      <3>1. \A m \in members' : ServerLive(m[2])'
        BY <1>2, <2>1, <2>8 DEF RowsSound
      <3>2. /\ \A k \in Codes : CodeLive(k)' => ServerLive(invites[k].server)'
            /\ \A h \in Channels : ChannelLive(h)' => ServerLive(channels[h])'
        BY <1>2, <1>3, <2>1, <2>8 DEF RowsSound, RowsTyped, CodeLive, ChannelLive
      <3>3. \A s \in Servers : ServerLive(s)' => <<owner'[s], s>> \in members'
        BY <1>2, <2>1, <2>8 DEF RowsSound
      <3> QED
        BY <3>1, <3>2, <3>3 DEF RowsSound
    <2>10. KnowsItsRows(g)' /\ StillSo(g)'
      BY <1>3, <2>3, <2>4, <2>8 DEF KnowsItsRows, StillSo
    <2>11. Commit(p, w)
      BY <2>1 DEF w
    <2> QED
      BY <2>2, <2>6, <2>7, <2>9, <2>10, <2>11, MiddleWrite DEF g
  <1>4. CASE ~ServerLive(r.server)
    <2>1. ~r.raced => ServerLive(r.server)
      BY <1>2 DEF StillSo
    <2>2. Fails(p)
      BY <1>4 DEF InsertInvite
    <2> QED
      BY <1>4, <2>1, <2>2, FailsStep
  <1> QED
    BY <1>3, <1>4

\* create_channel writes a channel of a server that exists.
LEMMA InsertChannelStep ==
  ASSUME IInv, NEW p \in Requests, InsertChannel(p)
  PROVE  IInv'
  <1> PICK r : r = requests[p]
    OBVIOUS
  <1>1. Writing(p, {"createChannel"})
    BY DEF InsertChannel
  <1>2. /\ RowsTyped /\ RowsSound /\ DeletedExisted /\ r \in Reqs /\ r.kind = "createChannel"
        /\ r.raced \in BOOLEAN /\ Running(r) /\ Fits(r) /\ KnowsItsRows(r) /\ StillSo(r)
        /\ r.right /\ r.step = 3 /\ ~Last(r)
    BY <1>1, Writer DEF AtStep
  <1>3. CASE ServerLive(r.server)
    <2>1. PICK h \in Channels :
                 /\ channels[h] = None
                 /\ channels' = [channels EXCEPT ![h] = r.server]
                 /\ UNCHANGED <<owner, deleted, members, invites>>
                 /\ Commit(p, [r EXCEPT !.channel = h])
      BY <1>3 DEF InsertChannel
    <2> DEFINE w == [r EXCEPT !.channel = h]
               g == [w EXCEPT !.step = w.step + 1]
    <2>2. w \in Reqs /\ Running(w) /\ Fits(w) /\ ~Last(w) /\ w.right
      BY <1>2 DEF Reqs, Running, Fits, Last
    <2>3. /\ g.kind = "createChannel" /\ g.step = 4 /\ g.server = r.server
          /\ g.user = r.user /\ g.other = r.other /\ g.channel = h
      BY <1>2 DEF Reqs
    <2>4. r.user \in Users /\ r.other \in Users /\ r.server \in Servers
      BY <1>2 DEF KnowsItsRows
    <2> HIDE DEF w, g
    <2>5. channels'[h] # None /\ h \notin deleted
      BY <1>2, <2>1, <2>4, ApiMembershipsAssumption
         DEF RowsTyped, Row, NoRow, DeletedExisted
    <2>6. RowsTyped'
      BY <1>2, <2>1, <2>4 DEF RowsTyped, Row
    <2>7. DeletedExisted' /\ RowsStay
      BY <1>2, <2>1, <2>5 DEF DeletedExisted, RowsTyped, RowsStay
    <2>8. /\ \A s : ServerLive(s)' <=> ServerLive(s)
          /\ ChannelLive(h)'
      BY <2>1, <2>5 DEF ServerLive, ChannelLive
    <2>9. RowsSound'
      <3>1. \A m \in members' : ServerLive(m[2])'
        BY <1>2, <2>1, <2>8 DEF RowsSound
      <3>2. /\ \A c \in Codes : CodeLive(c)' => ServerLive(invites[c].server)'
            /\ \A k \in Channels : ChannelLive(k)' => ServerLive(channels[k])'
        BY <1>2, <1>3, <2>1, <2>8 DEF RowsSound, RowsTyped, CodeLive, ChannelLive
      <3>3. \A s \in Servers : ServerLive(s)' => <<owner'[s], s>> \in members'
        BY <1>2, <2>1, <2>8 DEF RowsSound
      <3> QED
        BY <3>1, <3>2, <3>3 DEF RowsSound
    <2>10. KnowsItsRows(g)' /\ StillSo(g)'
      BY <1>3, <2>3, <2>4, <2>8 DEF KnowsItsRows, StillSo
    <2>11. Commit(p, w)
      BY <2>1 DEF w
    <2> QED
      BY <2>2, <2>6, <2>7, <2>9, <2>10, <2>11, MiddleWrite DEF g
  <1>4. CASE ~ServerLive(r.server)
    <2>1. ~r.raced => ServerLive(r.server)
      BY <1>2 DEF StillSo
    <2>2. Fails(p)
      BY <1>4 DEF InsertChannel
    <2> QED
      BY <1>4, <2>1, <2>2, FailsStep
  <1> QED
    BY <1>3, <1>4

\* revoke_invite and delete_channel delete one row.
LEMMA DeleteRowStep ==
  ASSUME IInv, NEW p \in Requests, DeleteRow(p)
  PROVE  IInv'
  <1> PICK r : r = requests[p]
    OBVIOUS
  <1> PICK d : d = IF r.kind = "revokeInvite" THEN r.code ELSE r.channel
    OBVIOUS
  <1>1. /\ Writing(p, {"revokeInvite", "deleteChannel"})
        /\ deleted' = deleted \cup {d}
        /\ UNCHANGED <<owner, members, invites, channels>>
        /\ Commit(p, r)
    BY DEF DeleteRow
  <1>2. /\ RowsTyped /\ RowsSound /\ DeletedExisted /\ r \in Reqs
        /\ r.kind \in {"revokeInvite", "deleteChannel"}
        /\ Running(r) /\ Fits(r) /\ KnowsItsRows(r) /\ r.right
        /\ Last(r) /\ r.step = IF r.kind = "revokeInvite" THEN 3 ELSE 4
    BY <1>1, Writer DEF AtStep
  <1>3. \/ d \in Codes /\ d \notin Servers \cup Channels /\ invites[d] # NoRow
        \/ d \in Channels /\ d \notin Servers \cup Codes /\ channels[d] # None
    BY <1>2, ApiMembershipsAssumption DEF KnowsItsRows
  <1>4. RowsTyped' /\ DeletedExisted' /\ RowsStay
    BY <1>1, <1>2, <1>3 DEF RowsTyped, DeletedExisted, RowsStay
  <1>5. /\ \A s : ServerLive(s)' <=> ServerLive(s)
        /\ \A c : CodeLive(c)' => CodeLive(c)
        /\ \A h : ChannelLive(h)' => ChannelLive(h)
    BY <1>1, <1>3 DEF ServerLive, CodeLive, ChannelLive
  <1>6. RowsSound'
    BY <1>1, <1>2, <1>5 DEF RowsSound
  <1> QED
    BY <1>1, <1>2, <1>4, <1>6, LastWrite

\* Everything that belongs to the server goes with it.
LEMMA DeleteServerStep ==
  ASSUME IInv, NEW p \in Requests, DeleteServer(p)
  PROVE  IInv'
  <1> PICK r : r = requests[p]
    OBVIOUS
  <1>1. /\ Writing(p, {"deleteServer"})
        /\ deleted' = deleted \cup {r.server} \cup RowsOf(r.server)
        /\ members' = {m \in members : m[2] # r.server}
        /\ UNCHANGED <<owner, invites, channels>>
        /\ Commit(p, r)
    BY DEF DeleteServer
  <1>2. /\ RowsTyped /\ RowsSound /\ DeletedExisted /\ r \in Reqs /\ r.kind = "deleteServer"
        /\ Running(r) /\ Fits(r) /\ KnowsItsRows(r) /\ r.right
        /\ Last(r) /\ r.step = 2
    BY <1>1, Writer DEF AtStep
  <1>3. r.server \in Servers /\ owner[r.server] # Nobody /\ r.server # None
    BY <1>2, ApiMembershipsAssumption DEF KnowsItsRows
  <1>4. /\ \A s \in Servers : s \in deleted' <=> s \in deleted \/ s = r.server
        /\ \A c \in Codes : c \in deleted' <=> c \in deleted \/ invites[c].server = r.server
        /\ \A h \in Channels : h \in deleted' <=> h \in deleted \/ channels[h] = r.server
    BY <1>1, <1>3, ApiMembershipsAssumption DEF RowsOf
  <1>5. deleted' \subseteq Servers \cup Codes \cup Channels
    BY <1>1, <1>2, <1>3 DEF RowsTyped, RowsOf
  <1>6. RowsTyped' /\ RowsStay
    BY <1>1, <1>2, <1>5 DEF RowsTyped, RowsStay
  <1>7. DeletedExisted'
    BY <1>1, <1>2, <1>3, <1>4 DEF DeletedExisted, NoRow
  <1>8. /\ \A s : ServerLive(s)' <=> ServerLive(s) /\ s # r.server
        /\ \A c : CodeLive(c)' <=> CodeLive(c) /\ invites[c].server # r.server
        /\ \A h : ChannelLive(h)' <=> ChannelLive(h) /\ channels[h] # r.server
    BY <1>1, <1>4 DEF ServerLive, CodeLive, ChannelLive
  <1>9. RowsSound'
    <2>1. \A m \in members' : ServerLive(m[2])'
      BY <1>1, <1>2, <1>8 DEF RowsSound
    <2>2. /\ \A c \in Codes : CodeLive(c)' => ServerLive(invites[c].server)'
          /\ \A h \in Channels : ChannelLive(h)' => ServerLive(channels[h])'
      BY <1>1, <1>2, <1>8 DEF RowsSound
    <2>3. \A s \in Servers : ServerLive(s)' => <<owner'[s], s>> \in members'
      BY <1>1, <1>2, <1>8 DEF RowsSound
    <2> QED
      BY <2>1, <2>2, <2>3 DEF RowsSound
  <1> QED
    BY <1>1, <1>2, <1>6, <1>7, <1>9, LastWrite

-----------------------------------------------------------------------------
\* Every statement of every request keeps the invariant.
LEMMA ApiStep ==
  IInv /\ [Next]_vars => IInv'
  <1> SUFFICES ASSUME IInv, [Next]_vars PROVE IInv'
    OBVIOUS
  <1>1. CASE UNCHANGED vars
    <2>1. (/\ RequestsTyped /\ RowsTyped /\ RowsSound /\ DeletedExisted
           /\ \A p \in Requests : /\ Fits(requests[p]) /\ Justified(requests[p])
                                  /\ RunningSound(requests[p]))'
      BY <1>1, InvParts
         DEF vars, tables, RequestsTyped, RowsTyped, RowsSound, DeletedExisted, Fits,
             Justified, RunningSound, Running, KnowsItsRows, RightNoted, RightEarned,
             StillSo, ServerLive, CodeLive, ChannelLive, Tables
    <2> QED
      BY <2>1, InvPartsNext
  <1>2. CASE Next
    BY <1>2, BeginStep, ReadStep, ReadStrangerStep, RefreshStep, CreateServerStep,
       UpdateStep, InsertMemberStep, DeleteMemberStep, InsertInviteStep,
       InsertChannelStep, DeleteRowStep, DeleteServerStep DEF Next
  <1> QED
    BY <1>1, <1>2

\* The inductive invariant holds in every behaviour: the tables and what each
\* handler of backend/api/routers knows between two of its statements.
THEOREM ApiInvariant == Spec => []IInv
  BY ApiInit, ApiStep, PTL DEF Spec

\* Whatever requests overlap, memberships, invites and channels belong to servers
\* that exist, and the owner of a server is a member of it (servers.py, channels.py
\* and the cascades of the models).
THEOREM TablesAreSound == Spec => []TablesSound
  <1>1. IInv => TablesSound
    BY DEF IInv
  <1> QED
    BY <1>1, ApiInvariant, PTL

\* A request succeeds only by a right its user had while it ran, and a server
\* error nobody catches is the outcome of a race with another commit.
THEOREM AnswersAreJustified == Spec => []AnswersJustified
  <1>1. IInv => AnswersJustified
    BY DEF IInv
  <1> QED
    BY <1>1, ApiInvariant, PTL

-----------------------------------------------------------------------------
(***************************************************************************)
(* Arithmetic with numbers that wrap around.                               *)
(***************************************************************************)

\* Every integer is some whole turns and its number.
LEMMA ModSplits ==
    ASSUME NEW N \in Nat \ {0}, NEW a \in Int
    PROVE  (a % N) \in 0..(N - 1) /\ \E q \in Int : a = N * q + (a % N)
<1>1. /\ a \div N \in Int
      /\ a = N * (a \div N) + (a % N)
      /\ (a % N) \in 0..(N - 1)
  OBVIOUS
<1> QED
  BY <1>1

\* Whole turns do not change the number.
LEMMA ModTurns ==
    ASSUME NEW N \in Nat \ {0}, NEW a \in Int, NEW b \in Int, NEW q \in Int,
           b = a + N * q
    PROVE  b % N = a % N
<1>1. PICK p \in Int : a = N * p + (a % N)
  BY ModSplits
<1>2. PICK r \in 0..(N - 1) : r = a % N
  BY ModSplits
<1>3. b = N * (p + q) + r
  <2>1. N * (p + q) = N * p + N * q
    OBVIOUS
  <2>2. b = (N * p + r) + N * q
    BY <1>1, <1>2
  <2> QED
    BY <2>1, <2>2
<1>4. (N * (p + q) + r) % N = r
  OBVIOUS
<1> QED
  BY <1>2, <1>3, <1>4

\* A number that is already within its width stays.
LEMMA ModSmall ==
    ASSUME NEW N \in Nat \ {0}, NEW a \in 0..(N - 1)
    PROVE  a % N = a
OBVIOUS

\* Sums and differences may wrap around early or late.
LEMMA ModPlus ==
    ASSUME NEW N \in Nat \ {0}, NEW a \in Int, NEW b \in Int
    PROVE  ((a % N) + b) % N = (a + b) % N
<1>1. PICK q \in Int : a = N * q + (a % N)
  BY ModSplits
<1>2. PICK r \in 0..(N - 1) : r = a % N
  BY ModSplits
<1>3. PICK c \in Int, d \in Int : c = r + b /\ d = a + b
  OBVIOUS
<1>4. d = c + N * q
  BY <1>1, <1>2, <1>3
<1>5. d % N = c % N
  BY <1>4, ModTurns
<1> QED
  BY <1>2, <1>3, <1>5

\* Likewise for a difference.
LEMMA ModMinus ==
    ASSUME NEW N \in Nat \ {0}, NEW a \in Int, NEW b \in Int
    PROVE  ((a % N) + (-(b % N))) % N = (a - b) % N
<1>1. PICK q \in Int : b = N * q + (b % N)
  BY ModSplits
<1>2. PICK r \in 0..(N - 1) : r = b % N
  BY ModSplits
<1>3. PICK c \in Int, d \in Int, e \in Int, p \in Int :
         c = a + (-r) /\ d = a - b /\ e = -r /\ p = -q
  OBVIOUS
<1>4. d = c + N * p
  <2>1. PICK m \in Int : m = N * q /\ N * p = -m
    BY <1>3
  <2>2. b = m + r
    BY <1>1, <1>2, <2>1
  <2> QED
    BY <1>3, <2>1, <2>2
<1>5. d % N = c % N
  BY <1>4, ModTurns
<1>6. ((a % N) + e) % N = (a + e) % N
  BY ModPlus
<1> QED
  BY <1>2, <1>3, <1>5, <1>6

\* Whole turns of the sequence numbers.
Turns(m) == \E q \in Int : m = SequenceNumbers * q

\* They add up, and less than one is none.
LEMMA TurnsAdd ==
    ASSUME NEW m \in Int, NEW k \in Int, Turns(m), Turns(k)
    PROVE  /\ Turns(m + k) /\ Turns(m - k) /\ Turns(-m)
           /\ m < SequenceNumbers /\ -SequenceNumbers < m => m = 0
<1>1. PICK N \in Nat \ {0} : N = SequenceNumbers
  BY RewriterConstants
<1>2. PICK p \in Int, q \in Int : m = N * p /\ k = N * q
  BY <1>1 DEF Turns
<1>3. N * (p + q) = N * p + N * q /\ N * (p - q) = N * p - N * q /\ N * (-p) = -(N * p)
  OBVIOUS
<1>4. PICK r \in Int, s \in Int, t \in Int : r = p + q /\ s = p - q /\ t = -p
  OBVIOUS
<1>5. Turns(m + k)
  <2>1. m + k = SequenceNumbers * r
    BY <1>1, <1>2, <1>3, <1>4
  <2> QED
    BY <2>1 DEF Turns
<1>6. Turns(m - k)
  <2>1. m - k = SequenceNumbers * s
    BY <1>1, <1>2, <1>3, <1>4
  <2> QED
    BY <2>1 DEF Turns
<1>7. Turns(-m)
  <2>1. -m = SequenceNumbers * t
    BY <1>1, <1>2, <1>3, <1>4
  <2> QED
    BY <2>1 DEF Turns
<1>8. m < N /\ -N < m => m = 0
  <2>1. p >= 1 => N * p >= N
    OBVIOUS
  <2>2. p <= -1 => N * p <= -N
    OBVIOUS
  <2>3. p = 0 => N * p = 0
    OBVIOUS
  <2> QED
    BY <1>2, <2>1, <2>2, <2>3
<1> QED
  BY <1>1, <1>5, <1>6, <1>7, <1>8

\* No turn is one, too.
LEMMA NoTurn == Turns(0)
<1>1. SequenceNumbers * 0 = 0
  BY RewriterConstants
<1> QED
  BY <1>1 DEF Turns

\* A number and its remainder are whole turns apart.
LEMMA TurnsOfMod ==
    ASSUME NEW a \in Int
    PROVE  /\ (a % SequenceNumbers) \in 0..(SequenceNumbers - 1)
           /\ \E m \in Int : Turns(m) /\ a = m + (a % SequenceNumbers)
<1>1. PICK N \in Nat \ {0} : N = SequenceNumbers
  BY RewriterConstants
<1>2. (a % N) \in 0..(N - 1)
  BY ModSplits
<1>3. PICK q \in Int : a = N * q + (a % N)
  BY ModSplits
<1>4. PICK m \in Int : m = N * q
  OBVIOUS
<1>5. Turns(m) /\ a = m + (a % N)
  BY <1>1, <1>3, <1>4 DEF Turns
<1> QED
  BY <1>1, <1>2, <1>5

\* Numbers that are whole turns apart are the same on the wire.
LEMMA ModOfTurns ==
    ASSUME NEW a \in Int, NEW b \in Int, NEW m \in Int, Turns(m), b = a + m
    PROVE  b % SequenceNumbers = a % SequenceNumbers
<1>1. PICK N \in Nat \ {0} : N = SequenceNumbers
  BY RewriterConstants
<1>2. PICK q \in Int : m = N * q
  BY <1>1 DEF Turns
<1>3. b = a + N * q
  BY <1>2
<1> QED
  BY <1>1, <1>3, ModTurns

\* A signed difference is the distance up to whole turns, and within half a turn.
LEMMA DifferenceSplits ==
    ASSUME NEW a \in Int, NEW b \in Int
    PROVE  /\ SequenceDifference(a, b) \in Int
           /\ 2 * SequenceDifference(a, b) < SequenceNumbers
           /\ -SequenceNumbers <= 2 * SequenceDifference(a, b)
           /\ \E m \in Int : Turns(m) /\ a - b = m + SequenceDifference(a, b)
<1>1. PICK N \in Nat \ {0} : N = SequenceNumbers
  BY RewriterConstants
<1>2. PICK c \in Int : c = a + (-b) /\ c = a - b
  OBVIOUS
<1>3. PICK d \in 0..(N - 1) : d = c % N
  BY <1>1, TurnsOfMod
<1>4. PICK m \in Int : Turns(m) /\ c = m + d
  BY <1>1, <1>3, TurnsOfMod
<1>5. SequenceDifference(a, b) = IF 2 * d < N THEN d ELSE d - N
  BY <1>1, <1>2, <1>3 DEF SequenceDifference, SequenceSum
<1>6. CASE 2 * d < N
  BY <1>1, <1>2, <1>3, <1>4, <1>5, <1>6
<1>7. CASE ~(2 * d < N)
  <2>1. N \in Int /\ Turns(N)
    <3>1. SequenceNumbers * 1 = N
      BY <1>1
    <3> QED
      BY <3>1 DEF Turns
  <2>2. Turns(m + N) /\ m + N \in Int
    BY <1>4, <2>1, TurnsAdd
  <2>3. a - b = (m + N) + SequenceDifference(a, b)
    BY <1>2, <1>4, <1>5, <1>7
  <2>4. /\ SequenceDifference(a, b) \in Int
        /\ 2 * SequenceDifference(a, b) < SequenceNumbers
        /\ -SequenceNumbers <= 2 * SequenceDifference(a, b)
    BY <1>1, <1>3, <1>5, <1>7
  <2> QED
    BY <2>2, <2>3, <2>4
<1> QED
  BY <1>6, <1>7

\* It is a number.
LEMMA DifferenceTyped ==
    ASSUME NEW a \in Int, NEW b \in Int
    PROVE  SequenceDifference(a, b) \in Int
BY DifferenceSplits

\* No other number within half a turn is.
LEMMA DifferenceIs ==
    ASSUME NEW a \in Int, NEW b \in Int, NEW m \in Int, NEW d \in Int,
           Turns(m), a - b = m + d,
           2 * d < SequenceNumbers, -SequenceNumbers <= 2 * d
    PROVE  SequenceDifference(a, b) = d
<1>1. PICK N \in Nat \ {0} : N = SequenceNumbers
  BY RewriterConstants
<1>2. PICK e \in Int : e = SequenceDifference(a, b) /\ 2 * e < N /\ -N <= 2 * e
  BY <1>1, DifferenceSplits
<1>3. PICK k \in Int : Turns(k) /\ a - b = k + e
  BY <1>2, DifferenceSplits
<1>4. Turns(m - k)
  BY <1>3, TurnsAdd
<1>5. PICK r \in Int : r = m - k /\ r = e - d
  BY <1>3
<1>6. r < SequenceNumbers /\ -SequenceNumbers < r
  BY <1>1, <1>2, <1>5
<1>7. r = 0
  BY <1>4, <1>5, <1>6, TurnsAdd
<1>8. e = d
  BY <1>5, <1>7
<1> QED
  BY <1>2, <1>8

\* What is up to half the numbers before a packet counts as older.
LEMMA EarlierIsOlder ==
    ASSUME NEW a \in Int, NEW b \in Int, a < b, 2 * (b - a) <= SequenceNumbers
    PROVE  SequenceDifference(a, b) < 0
<1>1. PICK d \in Int : d = a - b
  OBVIOUS
<1>2. a - b = 0 + d /\ 2 * d < SequenceNumbers /\ -SequenceNumbers <= 2 * d
  BY <1>1, RewriterConstants
<1>3. SequenceDifference(a, b) = d
  BY <1>2, NoTurn, DifferenceIs
<1> QED
  BY <1>1, <1>3

\* Of two packets from the half after a first one, the signed difference is that of
\* their distances from it.
LEMMA NewerIsFurther ==
    ASSUME NEW n \in Int, NEW l \in Int, NEW a \in Int,
           SequenceDifference(n, a) >= 0, SequenceDifference(l, a) >= 0
    PROVE  SequenceDifference(n, l) = SequenceDifference(n, a) - SequenceDifference(l, a)
<1>1. PICK e \in Int : e = SequenceDifference(n, a) /\ 2 * e < SequenceNumbers
  BY DifferenceSplits
<1>2. PICK f \in Int : f = SequenceDifference(l, a) /\ 2 * f < SequenceNumbers
  BY DifferenceSplits
<1>3. PICK p \in Int : Turns(p) /\ n - a = p + e
  BY <1>1, DifferenceSplits
<1>4. PICK q \in Int : Turns(q) /\ l - a = q + f
  BY <1>2, DifferenceSplits
<1>5. PICK r \in Int, d \in Int : r = p - q /\ d = e - f
  OBVIOUS
<1>6. Turns(r)
  BY <1>3, <1>4, <1>5, TurnsAdd
<1>7. n - l = r + d
  BY <1>3, <1>4, <1>5
<1>8. 2 * d < SequenceNumbers /\ -SequenceNumbers <= 2 * d
  BY <1>1, <1>2, <1>5, RewriterConstants
<1>9. SequenceDifference(n, l) = d
  BY <1>6, <1>7, <1>8, DifferenceIs
<1> QED
  BY <1>1, <1>2, <1>5, <1>9

\* The numbers on the wire differ as the counts they stand for.
LEMMA WireDifference ==
    ASSUME NEW i \in Int, NEW j \in Int
    PROVE  SequenceDifference(i % SequenceNumbers, j % SequenceNumbers)
              = SequenceDifference(i, j)
<1>1. PICK u \in Int : u = i % SequenceNumbers
  BY TurnsOfMod
<1>2. PICK v \in Int : v = j % SequenceNumbers
  BY TurnsOfMod
<1>3. PICK p \in Int : Turns(p) /\ i = p + u
  BY <1>1, TurnsOfMod
<1>4. PICK q \in Int : Turns(q) /\ j = q + v
  BY <1>2, TurnsOfMod
<1>5. PICK e \in Int :
         /\ e = SequenceDifference(i, j)
         /\ 2 * e < SequenceNumbers /\ -SequenceNumbers <= 2 * e
  BY DifferenceSplits
<1>6. PICK r \in Int : Turns(r) /\ i - j = r + e
  BY <1>5, DifferenceSplits
<1>7. PICK k \in Int : k = r - p
  OBVIOUS
<1>8. Turns(k)
  BY <1>3, <1>6, <1>7, TurnsAdd
<1>9. PICK m \in Int : m = k + q
  OBVIOUS
<1>10. Turns(m)
  BY <1>4, <1>8, <1>9, TurnsAdd
<1>11. u - v = m + e
  BY <1>3, <1>4, <1>6, <1>7, <1>9
<1>12. SequenceDifference(u, v) = e
  BY <1>5, <1>10, <1>11, DifferenceIs
<1> QED
  BY <1>1, <1>2, <1>5, <1>12

\* The number of a packet, by the offset of its source.
LEMMA OffsetAdded ==
    ASSUME NEW N \in Nat \ {0}, NEW p \in Int, NEW b \in Int
    PROVE  ((p % N) + (b % N)) % N = (p + b) % N
<1>1. PICK u \in Int : u = b % N
  BY ModSplits
<1>2. ((p % N) + u) % N = (p + u) % N
  BY ModPlus
<1>3. ((b % N) + p) % N = (b + p) % N
  BY ModPlus
<1>4. b + p = p + b /\ u + p = p + u
  OBVIOUS
<1> QED
  BY <1>1, <1>2, <1>3, <1>4

-----------------------------------------------------------------------------
(***************************************************************************)
(* The stream.  Every packet let through has a place in the whole stream,  *)
(* counted without wrapping around, and the numbers on the wire are its    *)
(* place modulo their width.  What an earlier source has sent lies before  *)
(* the place where a later one begins; top is the place of the newest      *)
(* packet.  Only the timestamps of packets half the sequence numbers after *)
(* the first one of their source are not known to lie below it.            *)
(***************************************************************************)
Source == [first : Starts, gain : Gains, generation : Nat, anchor : Nat,
           place : [sequence : Int, timestamp : Int]]

Emitted == [source : Nat, index : 1..MaxPackets, sequence : Int, timestamp : Int]

\* The slot carries the last source.
Carried == sources # <<>> /\ sources[Len(sources)].generation = generation

\* Generations tell the sources apart, and only a carried source is heard.
Sourced ==
    /\ sources \in Seq(Source)
    /\ \A i \in DOMAIN sources : sources[i].generation <= generation
    /\ \A i, j \in DOMAIN sources : i < j => sources[i].generation < sources[j].generation
    /\ source_initialized => Carried
    /\ source_initialized => output_initialized
    /\ out # {} => output_initialized
    /\ out \subseteq Emitted
    /\ \A x \in out : x.source \in DOMAIN sources
    /\ Carried /\ ~source_initialized => \A x \in out : x.source # Len(sources)
    /\ top \in [sequence : Int, timestamp : Int]

\* How far the number of x is from that of the first packet of its source.
Since(x) == SequenceDifference(x.index, sources[x.source].anchor)

\* Only packets from the first one on were let through, with the numbers of their places.
Placed ==
    \A x \in out :
        /\ sources[x.source].anchor <= x.index
        /\ Since(x) >= 0
        /\ x.sequence = PlaceOf(x).sequence % SequenceNumbers
        /\ x.timestamp = PlaceOf(x).timestamp % Timestamps

\* x lies before the place p.
Below(x, p) ==
    /\ PlaceOf(x).sequence < p.sequence
    /\ ~Far(x) => PlaceOf(x).timestamp < p.timestamp

\* A source begins after all that the sources before it have sent.
Crossed ==
    \A x, y \in out : x.source < y.source => Below(x, sources[y.source].place)

\* Nothing lies after the newest packet, and its numbers are remembered.
Topped ==
    /\ output_initialized =>
           latest_output = [sequence  |-> top.sequence % SequenceNumbers,
                            timestamp |-> top.timestamp % Timestamps]
    /\ \A x \in out :
           /\ PlaceOf(x).sequence <= top.sequence
           /\ ~Far(x) => PlaceOf(x).timestamp <= top.timestamp

\* The offsets of source k lead from its numbers to their places.
Anchored(k) ==
    LET from == sources[k] IN
    /\ source_anchor_sequence = (from.first + from.anchor) % SequenceNumbers
    /\ sequence_offset = (from.place.sequence - (from.first + from.anchor)) % SequenceNumbers
    /\ timestamp_offset
          = (from.place.timestamp - (from.first + from.anchor * from.gain)) % Timestamps
    /\ \E x \in out : x.source = k /\ x.index = from.anchor

\* The newest packet of source k is its packet last.
Newest(k, last) ==
    /\ sources[k].anchor <= last
    /\ SequenceDifference(last, sources[k].anchor) >= 0
    /\ latest_input = Packet(k, last)
    /\ top = Place(k, last)

\* While a source is heard, it is the last one.
Following ==
    source_initialized =>
        Anchored(Len(sources)) /\ \E last \in Nat : Newest(Len(sources), last)

RewriterInv ==
    /\ StreamTypeOK
    /\ Sourced
    /\ Placed
    /\ Crossed
    /\ Topped
    /\ Following

-----------------------------------------------------------------------------
\* Sources start at, and advance by, natural numbers.
LEMMA StartsAndGains == Gains \subseteq Nat /\ Starts \subseteq Nat
<1>1. /\ Gains \subseteq 0..(Timestamps - 1) /\ Timestamps \in Nat
      /\ Starts \subseteq 0..(SequenceNumbers - 1) /\ SequenceNumbers \in Nat
  BY RewriterConstants
<1> QED
  BY <1>1

\* The fields of a source.
LEMMA SourceTyped ==
    ASSUME Sourced, NEW k \in DOMAIN sources
    PROVE  /\ k \in Nat \ {0} /\ k <= Len(sources) /\ Len(sources) \in Nat
           /\ sources[k] \in Source
           /\ sources[k].first \in Nat /\ sources[k].gain \in Nat
           /\ sources[k].anchor \in Nat /\ sources[k].generation \in Nat
           /\ sources[k].place.sequence \in Int /\ sources[k].place.timestamp \in Int
<1>1. k \in Nat \ {0} /\ k <= Len(sources) /\ sources[k] \in Source /\ Len(sources) \in Nat
  BY DEF Sourced
<1> QED
  BY <1>1, StartsAndGains DEF Source

\* Places are integers.
LEMMA PlaceTyped ==
    ASSUME Sourced, NEW k \in DOMAIN sources, NEW n \in Nat
    PROVE  /\ Place(k, n) \in [sequence : Int, timestamp : Int]
           /\ Place(k, n).sequence
                 = sources[k].place.sequence + SequenceDifference(n, sources[k].anchor)
           /\ Place(k, n).timestamp
                 = sources[k].place.timestamp + (n - sources[k].anchor) * sources[k].gain
           /\ Place(k, n).sequence \in Int /\ Place(k, n).timestamp \in Int
           /\ (n - sources[k].anchor) * sources[k].gain \in Int
           /\ SequenceDifference(n, sources[k].anchor) \in Int
<1>1. PICK s \in Int, t \in Int, a \in Nat, g \in Nat :
         /\ s = sources[k].place.sequence /\ t = sources[k].place.timestamp
         /\ a = sources[k].anchor /\ g = sources[k].gain
  BY SourceTyped
<1>2. SequenceDifference(n, a) \in Int
  BY DifferenceSplits
<1>3. (n - a) * g \in Int
  <2>1. PICK d \in Int : d = n - a
    OBVIOUS
  <2> QED
    BY <2>1
<1>4. Place(k, n) = [sequence  |-> s + SequenceDifference(n, a),
                     timestamp |-> t + (n - a) * g]
  BY <1>1 DEF Place
<1> QED
  BY <1>1, <1>2, <1>3, <1>4

\* So are the places of packets.
LEMMA PlaceOfTyped ==
    ASSUME Sourced, NEW x \in out
    PROVE  /\ x.source \in DOMAIN sources /\ x.index \in Nat /\ x \in Emitted
           /\ PlaceOf(x) = Place(x.source, x.index)
           /\ PlaceOf(x).sequence \in Int /\ PlaceOf(x).timestamp \in Int
<1>1. x.source \in DOMAIN sources /\ x \in Emitted /\ x.index \in Nat
  BY RewriterConstants DEF Sourced, Emitted
<1> QED
  BY <1>1, PlaceTyped DEF PlaceOf

\* What is let through lies at or after the place of its source.
LEMMA PlaceOfLater ==
    ASSUME Sourced, Placed, NEW x \in out
    PROVE  /\ sources[x.source].place.sequence <= PlaceOf(x).sequence
           /\ sources[x.source].place.timestamp <= PlaceOf(x).timestamp
<1>1. PICK k \in DOMAIN sources, n \in Nat :
         k = x.source /\ n = x.index /\ PlaceOf(x) = Place(k, n)
  BY PlaceOfTyped
<1>2. PICK s \in Int, t \in Int, a \in Nat, g \in Nat, e \in Int :
         /\ s = sources[k].place.sequence /\ t = sources[k].place.timestamp
         /\ a = sources[k].anchor /\ g = sources[k].gain
         /\ e = SequenceDifference(n, a)
  BY SourceTyped, PlaceTyped
<1>3. a <= n /\ e >= 0
  BY <1>1, <1>2 DEF Placed, Since
<1>4. (n - a) * g >= 0 /\ (n - a) * g \in Int
  <2>1. PICK d \in Nat : d = n - a
    BY <1>3
  <2>2. d * g \in Nat
    OBVIOUS
  <2> QED
    BY <2>1, <2>2
<1>5. PlaceOf(x).sequence = s + e
  <2>1. Place(k, n).sequence
           = sources[k].place.sequence + SequenceDifference(n, sources[k].anchor)
    BY PlaceTyped
  <2> QED
    BY <1>1, <1>2, <2>1
<1>6. PlaceOf(x).timestamp = t + (n - a) * g
  <2>1. Place(k, n).timestamp
           = sources[k].place.timestamp + (n - sources[k].anchor) * sources[k].gain
    BY PlaceTyped
  <2> QED
    BY <1>1, <1>2, <2>1
<1> QED
  BY <1>1, <1>2, <1>3, <1>4, <1>5, <1>6

\* Only the last source is carried.
LEMMA CarriedIsLast ==
    ASSUME Sourced, NEW k \in DOMAIN sources, sources[k].generation = generation,
           generation \in Nat
    PROVE  k = Len(sources) /\ Carried
<1> DEFINE n == Len(sources)
<1>1. n \in Nat /\ k \in 1..n /\ n \in DOMAIN sources /\ sources # <<>>
  BY DEF Sourced
<1>2. sources[k] \in Source /\ sources[n] \in Source
  BY <1>1 DEF Sourced
<1>3. k < n => FALSE
  BY <1>1, <1>2 DEF Sourced, Source
<1> QED
  BY <1>1, <1>3 DEF Carried

\* Sums are wrapped to their width.
LEMMA SumsTyped ==
    ASSUME NEW a \in Int, NEW b \in Int
    PROVE  /\ SequenceSum(a, b) \in 0..(SequenceNumbers - 1)
           /\ TimestampSum(a, b) \in 0..(Timestamps - 1)
<1>1. SequenceNumbers \in Nat \ {0} /\ Timestamps \in Nat \ {0}
  BY RewriterConstants
<1>2. PICK c \in Int : c = a + b
  OBVIOUS
<1> QED
  BY <1>1, <1>2, ModSplits DEF SequenceSum, TimestampSum

\* The numbers of a packet, and that they are within their width.
LEMMA PacketTyped ==
    ASSUME Sourced, NEW k \in DOMAIN sources, NEW i \in Nat
    PROVE  /\ Packet(k, i) \in Headers
           /\ Packet(k, i).sequence = (sources[k].first + i) % SequenceNumbers
           /\ Packet(k, i).timestamp
                 = (sources[k].first + i * sources[k].gain) % Timestamps
           /\ sources[k].first + i \in Int
           /\ sources[k].first + i * sources[k].gain \in Int
<1>1. PICK f \in Int, g \in Int : f = sources[k].first /\ g = sources[k].gain
  BY SourceTyped
<1>2. i * g \in Int
  OBVIOUS
<1>3. /\ SequenceSum(f, i) \in 0..(SequenceNumbers - 1)
      /\ TimestampSum(f, i * g) \in 0..(Timestamps - 1)
  BY <1>2, SumsTyped
<1>4. Packet(k, i) = [sequence |-> SequenceSum(f, i), timestamp |-> TimestampSum(f, i * g)]
  BY <1>1 DEF Packet
<1> QED
  BY <1>1, <1>2, <1>3, <1>4 DEF Headers, SequenceSum, TimestampSum

\* A packet stays where it is as long as its source does.
LEMMA PlaceKept ==
    ASSUME NEW x, sources'[x.source] = sources[x.source]
    PROVE  PlaceOf(x)' = PlaceOf(x) /\ Far(x)' = Far(x) /\ Since(x)' = Since(x)
BY DEF PlaceOf, Place, Far, Since

\* So the packets let through before stay in order with each other.
LEMMA OldKept ==
    ASSUME NEW x \in out, NEW y \in out, Placed, Crossed,
           sources'[x.source] = sources[x.source], sources'[y.source] = sources[y.source]
    PROVE  /\ sources'[x.source].anchor <= x.index
           /\ Since(x)' >= 0
           /\ x.sequence = PlaceOf(x).sequence' % SequenceNumbers
           /\ x.timestamp = PlaceOf(x).timestamp' % Timestamps
           /\ x.source < y.source => Below(x, sources[y.source].place)'
<1>1. /\ PlaceOf(x)' = PlaceOf(x) /\ Far(x)' = Far(x) /\ Since(x)' = Since(x)
  BY PlaceKept
<1>2. x.source < y.source => Below(x, sources[y.source].place)
  BY DEF Crossed
<1>3. x.source < y.source => Below(x, sources[y.source].place)'
  BY <1>1, <1>2 DEF Below
<1> QED
  BY <1>1, <1>3 DEF Placed

\* Without a new packet all stay where they are.
LEMMA StandsStill ==
    ASSUME RewriterInv, UNCHANGED <<out, top, output_initialized, latest_output>>,
           \A x \in out : sources'[x.source] = sources[x.source]
    PROVE  Placed' /\ Crossed' /\ Topped'
<1>1. Placed /\ Crossed /\ Topped
  BY DEF RewriterInv
<1>2. Placed'
  BY <1>1, OldKept DEF Placed
<1>3. Crossed'
  BY <1>1, OldKept DEF Crossed
<1>4. Topped'
  BY <1>1, PlaceKept DEF Topped
<1> QED
  BY <1>2, <1>3, <1>4

-----------------------------------------------------------------------------
\* At first nothing was sent.
LEMMA RewriterStart == StreamInit => RewriterInv
<1> SUFFICES ASSUME StreamInit PROVE RewriterInv
  OBVIOUS
<1>1. StreamTypeOK
  <2>1. /\ SequenceNumbers \in Nat \ {0} /\ Timestamps \in Nat \ {0}
        /\ DefaultStep \in 1..MaxStep
    BY RewriterConstants
  <2>2. 0 \in 0..(SequenceNumbers - 1) /\ 0 \in 0..(Timestamps - 1)
    BY <2>1
  <2>3. [sequence |-> 0, timestamp |-> 0] \in Headers
    BY <2>2 DEF Headers
  <2> QED
    BY <2>1, <2>2, <2>3 DEF StreamInit, StreamTypeOK
<1>2. Sourced
  BY DEF StreamInit, Sourced, Carried
<1>3. Placed /\ Crossed /\ Topped /\ Following
  BY DEF StreamInit, Placed, Crossed, Topped, Following
<1> QED
  BY <1>1, <1>2, <1>3 DEF RewriterInv

\* begin_source: the new source has sent nothing.
LEMMA BeginSourceStep ==
    ASSUME RewriterInv, NEW f \in Starts, NEW g \in Gains, begin_source(f, g)
    PROVE  RewriterInv'
<1> DEFINE new == [first |-> f, gain |-> g, generation |-> generation + 1, anchor |-> 0,
                   place |-> [sequence |-> 0, timestamp |-> 0]]
<1>1. StreamTypeOK /\ Sourced /\ generation \in Nat
  BY DEF RewriterInv, StreamTypeOK
<1>2. /\ generation' = generation + 1 /\ source_initialized' = FALSE
      /\ sources' = Append(sources, new)
      /\ UNCHANGED <<latest_output, latest_input, timestamp_step, output_initialized, out,
                     top>>
      /\ UNCHANGED <<source_anchor_sequence, sequence_offset, timestamp_offset>>
  BY DEF begin_source, latest
<1>3. new \in Source /\ new.generation = generation + 1
  BY <1>1 DEF Source
<1>4. sources \in Seq(Source)
  BY <1>1 DEF Sourced
<1> HIDE DEF new
<1>5. /\ sources' \in Seq(Source) /\ Len(sources') = Len(sources) + 1
      /\ DOMAIN sources' = 1..(Len(sources) + 1)
      /\ \A i \in DOMAIN sources : i \in DOMAIN sources' /\ sources'[i] = sources[i]
      /\ sources'[Len(sources) + 1] = new
      /\ Len(sources) \in Nat /\ DOMAIN sources = 1..Len(sources)
  BY <1>2, <1>3, <1>4
<1>6. StreamTypeOK'
  <2>1. generation' \in Nat
    BY <1>1, <1>2
  <2>2. source_initialized' \in BOOLEAN /\ output_initialized' \in BOOLEAN
    BY <1>1, <1>2, Zenon DEF StreamTypeOK
  <2> QED
    BY <1>1, <1>2, <2>1, <2>2 DEF StreamTypeOK, Headers
<1>7. Sourced'
  <2>1. \A i \in DOMAIN sources' : sources'[i].generation <= generation'
    <3> SUFFICES ASSUME NEW i \in DOMAIN sources'
                 PROVE  sources'[i].generation <= generation'
      OBVIOUS
    <3>1. CASE i \in DOMAIN sources
      <4>1. sources[i].generation \in Nat
        BY <1>1, <3>1, SourceTyped
      <4>2. sources[i].generation <= generation
        BY <1>1, <3>1 DEF Sourced
      <4> QED
        BY <1>1, <1>2, <1>5, <3>1, <4>1, <4>2
    <3>2. CASE i = Len(sources) + 1
      BY <1>1, <1>2, <1>3, <1>5, <3>2
    <3> QED
      BY <1>5, <3>1, <3>2
  <2>2. \A i, j \in DOMAIN sources' : i < j =>
           sources'[i].generation < sources'[j].generation
    <3> SUFFICES ASSUME NEW i \in DOMAIN sources', NEW j \in DOMAIN sources', i < j
                 PROVE  sources'[i].generation < sources'[j].generation
      OBVIOUS
    <3>1. i \in DOMAIN sources
      BY <1>5
    <3>2. CASE j \in DOMAIN sources
      BY <1>1, <1>5, <3>1, <3>2 DEF Sourced
    <3>3. CASE j = Len(sources) + 1
      <4>1. sources[i].generation \in Nat
        BY <1>1, <3>1, SourceTyped
      <4>2. sources[i].generation <= generation
        BY <1>1, <3>1 DEF Sourced
      <4> QED
        BY <1>1, <1>3, <1>5, <3>1, <3>3, <4>1, <4>2
    <3> QED
      BY <1>5, <3>2, <3>3
  <2>3. \A x \in out : x.source \in DOMAIN sources' /\ x.source # Len(sources')
    <3> SUFFICES ASSUME NEW x \in out
                 PROVE  x.source \in DOMAIN sources' /\ x.source # Len(sources')
      OBVIOUS
    <3>1. x.source \in DOMAIN sources
      BY <1>1 DEF Sourced
    <3> QED
      BY <1>5, <3>1
  <2>4. /\ out \subseteq Emitted /\ (out # {} => output_initialized)
        /\ top \in [sequence : Int, timestamp : Int]
    BY <1>1 DEF Sourced
  <2> QED
    BY <1>2, <1>5, <2>1, <2>2, <2>3, <2>4 DEF Sourced
<1>8. \A x \in out : sources'[x.source] = sources[x.source]
  BY <1>1, <1>5 DEF Sourced
<1>9. Placed' /\ Crossed' /\ Topped'
  BY <1>2, <1>8, StandsStill
<1>10. Following'
  BY <1>2 DEF Following
<1> QED
  BY <1>6, <1>7, <1>9, <1>10 DEF RewriterInv

\* end_source: nobody is carried.
LEMMA EndSourceStep ==
    ASSUME RewriterInv, end_source
    PROVE  RewriterInv'
<1>1. StreamTypeOK /\ Sourced /\ generation \in Nat
  BY DEF RewriterInv, StreamTypeOK
<1>2. /\ generation' = generation + 1 /\ source_initialized' = FALSE
      /\ UNCHANGED <<latest_output, latest_input, timestamp_step, output_initialized, out,
                     top>>
      /\ UNCHANGED <<source_anchor_sequence, sequence_offset, timestamp_offset, sources>>
      /\ sources # <<>>
  BY DEF end_source, latest
<1>3. StreamTypeOK'
  <2>1. generation' \in Nat
    BY <1>1, <1>2
  <2>2. source_initialized' \in BOOLEAN /\ output_initialized' \in BOOLEAN
    BY <1>1, <1>2, Zenon DEF StreamTypeOK
  <2> QED
    BY <1>1, <1>2, <2>1, <2>2 DEF StreamTypeOK, Headers
<1>4. \A i \in DOMAIN sources :
         sources[i].generation < generation' /\ sources[i].generation <= generation'
  <2> SUFFICES ASSUME NEW i \in DOMAIN sources
               PROVE  sources[i].generation < generation'
                      /\ sources[i].generation <= generation'
    OBVIOUS
  <2>1. sources[i].generation \in Nat
    BY <1>1, SourceTyped
  <2>2. sources[i].generation <= generation
    BY <1>1 DEF Sourced
  <2> QED
    BY <1>1, <1>2, <2>1, <2>2
<1>5. ~Carried'
  <2>1. Len(sources) \in DOMAIN sources
    BY <1>1, <1>2 DEF Sourced
  <2>2. sources[Len(sources)].generation \in Nat
    BY <1>1, <2>1, SourceTyped
  <2> QED
    BY <1>1, <1>2, <1>4, <2>1, <2>2 DEF Carried
<1>6. Sourced'
  BY <1>1, <1>2, <1>4, <1>5 DEF Sourced
<1>7. Placed' /\ Crossed' /\ Topped'
  BY <1>2, StandsStill
<1>8. Following'
  BY <1>2 DEF Following
<1> QED
  BY <1>3, <1>6, <1>7, <1>8 DEF RewriterInv

\* The numbers of the first packet of a source are those of its place, and offsets
\* lead there.
LEMMA FirstNumbers ==
    ASSUME StreamTypeOK, Sourced, Topped, NEW k \in DOMAIN sources, NEW n \in Nat,
           NEW output, NEW place,
           output = IF output_initialized
                    THEN [sequence |-> NextSequence, timestamp |-> NextTimestamp]
                    ELSE Packet(k, n),
           place = IF output_initialized
                   THEN [sequence  |-> top.sequence + 1,
                         timestamp |-> top.timestamp + timestamp_step]
                   ELSE Packet(k, n)
    PROVE  /\ place \in [sequence : Int, timestamp : Int]
           /\ place.sequence \in Int /\ place.timestamp \in Int
           /\ output \in Headers
           /\ output = [sequence  |-> place.sequence % SequenceNumbers,
                        timestamp |-> place.timestamp % Timestamps]
           /\ SequenceSum(output.sequence, -Packet(k, n).sequence)
                 = (place.sequence - (sources[k].first + n)) % SequenceNumbers
           /\ TimestampSum(output.timestamp, -Packet(k, n).timestamp)
                 = (place.timestamp - (sources[k].first + n * sources[k].gain)) % Timestamps
<1>1. SequenceNumbers \in Nat \ {0} /\ Timestamps \in Nat \ {0}
  BY RewriterConstants
<1>2. PICK s \in Int, t \in Int, step \in Int :
         s = top.sequence /\ t = top.timestamp /\ step = timestamp_step
  BY RewriterConstants DEF Sourced, StreamTypeOK
<1>3. PICK p \in Int, q \in Int : p = place.sequence /\ q = place.timestamp
  <2>1. Packet(k, n).sequence \in Int /\ Packet(k, n).timestamp \in Int
    BY PacketTyped, <1>1 DEF Headers
  <2> QED
    BY <1>2, <2>1
<1>4. place = [sequence |-> p, timestamp |-> q]
  <2>1. CASE output_initialized
    BY <1>3, <2>1
  <2>2. CASE ~output_initialized
    BY <1>3, <2>2, PacketTyped DEF Headers
  <2> QED
    BY <2>1, <2>2
<1>5. output = [sequence |-> p % SequenceNumbers, timestamp |-> q % Timestamps]
  <2>1. CASE output_initialized
    <3>1. latest_output = [sequence |-> s % SequenceNumbers, timestamp |-> t % Timestamps]
      BY <1>2, <2>1 DEF Topped
    <3>2. ((s % SequenceNumbers) + 1) % SequenceNumbers = (s + 1) % SequenceNumbers
      <4>1. PICK u \in Int : u = 1
        OBVIOUS
      <4>2. ((s % SequenceNumbers) + u) % SequenceNumbers = (s + u) % SequenceNumbers
        BY <1>1, ModPlus
      <4> QED
        BY <4>1, <4>2
    <3>3. ((t % Timestamps) + step) % Timestamps = (t + step) % Timestamps
      BY <1>1, ModPlus
    <3>4. p = s + 1 /\ q = t + step
      BY <1>2, <1>3, <2>1
    <3> QED
      BY <1>2, <2>1, <3>1, <3>2, <3>3, <3>4
         DEF NextSequence, NextTimestamp, SequenceSum, TimestampSum
  <2>2. CASE ~output_initialized
    <3>1. p \in 0..(SequenceNumbers - 1) /\ q \in 0..(Timestamps - 1)
      BY <1>3, <2>2, PacketTyped DEF Headers
    <3>2. p % SequenceNumbers = p /\ q % Timestamps = q
      BY <1>1, <3>1, ModSmall
    <3>3. output = place
      BY <2>2
    <3> QED
      BY <1>4, <3>2, <3>3
  <2> QED
    BY <2>1, <2>2
<1>6. output \in Headers
  <2>1. (p % SequenceNumbers) \in 0..(SequenceNumbers - 1)
    BY <1>1, ModSplits
  <2>2. (q % Timestamps) \in 0..(Timestamps - 1)
    BY <1>1, ModSplits
  <2> QED
    BY <1>5, <2>1, <2>2 DEF Headers
<1>7. PICK a \in Int, b \in Int :
         a = sources[k].first + n /\ b = sources[k].first + n * sources[k].gain
  BY PacketTyped
<1>8. Packet(k, n).sequence = a % SequenceNumbers /\ Packet(k, n).timestamp = b % Timestamps
  BY <1>7, PacketTyped
<1>9. SequenceSum(output.sequence, -Packet(k, n).sequence) = (p - a) % SequenceNumbers
  <2>1. ((p % SequenceNumbers) + (-(a % SequenceNumbers))) % SequenceNumbers
           = (p - a) % SequenceNumbers
    BY <1>1, ModMinus
  <2> QED
    BY <1>5, <1>8, <2>1 DEF SequenceSum
<1>10. TimestampSum(output.timestamp, -Packet(k, n).timestamp) = (q - b) % Timestamps
  <2>1. ((q % Timestamps) + (-(b % Timestamps))) % Timestamps = (q - b) % Timestamps
    BY <1>1, ModMinus
  <2> QED
    BY <1>5, <1>8, <2>1 DEF TimestampSum
<1> QED
  BY <1>3, <1>4, <1>5, <1>6, <1>7, <1>9, <1>10

\* What was sent before lies below the place of the first packet of a source.
LEMMA FirstIsAbove ==
    ASSUME StreamTypeOK, Sourced, Topped, NEW y \in out, NEW place,
           output_initialized =>
               place = [sequence  |-> top.sequence + 1,
                        timestamp |-> top.timestamp + timestamp_step]
    PROVE  Below(y, place)
<1>1. output_initialized
  BY DEF Sourced
<1>2. PICK s \in Int, t \in Int, step \in Int :
         s = top.sequence /\ t = top.timestamp /\ step = timestamp_step /\ 1 <= step
  BY RewriterConstants DEF Sourced, StreamTypeOK
<1>3. PICK p \in Int, q \in Int : p = PlaceOf(y).sequence /\ q = PlaceOf(y).timestamp
  BY PlaceOfTyped
<1>4. p <= s /\ (~Far(y) => q <= t)
  BY <1>2, <1>3 DEF Topped
<1>5. p < s + 1 /\ (~Far(y) => q < t + step)
  BY <1>2, <1>3, <1>4
<1> QED
  BY <1>1, <1>2, <1>3, <1>5 DEF Below

\* rewrite, the first packet of a source: its place is the new top.
LEMMA RewriteFirstStep ==
    ASSUME RewriterInv, NEW k \in DOMAIN sources, NEW n \in 1..MaxPackets,
           RewriteFirst(k, n)
    PROVE  RewriterInv'
<1>1. StreamTypeOK /\ Sourced /\ Placed /\ Crossed /\ Topped /\ generation \in Nat
  BY DEF RewriterInv, StreamTypeOK
<1>2. n \in Nat
  BY RewriterConstants
<1>3. PICK output, place :
         /\ output = IF output_initialized
                     THEN [sequence |-> NextSequence, timestamp |-> NextTimestamp]
                     ELSE Packet(k, n)
         /\ place = IF output_initialized
                    THEN [sequence  |-> top.sequence + 1,
                          timestamp |-> top.timestamp + timestamp_step]
                    ELSE Packet(k, n)
  OBVIOUS
<1>4. PICK x : x = [source |-> k, index |-> n, sequence |-> output.sequence,
                    timestamp |-> output.timestamp]
  OBVIOUS
<1>5. /\ sources[k].generation = generation /\ ~source_initialized
      /\ source_initialized' = TRUE /\ output_initialized' = TRUE
      /\ source_anchor_sequence' = Packet(k, n).sequence
      /\ sequence_offset' = SequenceSum(output.sequence, -Packet(k, n).sequence)
      /\ timestamp_offset' = TimestampSum(output.timestamp, -Packet(k, n).timestamp)
      /\ latest_input' = Packet(k, n) /\ latest_output' = output
      /\ out' = out \cup {x}
      /\ sources' = [sources EXCEPT ![k].anchor = n, ![k].place = place]
      /\ top' = place
      /\ generation' = generation /\ timestamp_step' = timestamp_step
  BY <1>3, <1>4 DEF RewriteFirst, Emit
<1>6. /\ k = Len(sources) /\ Carried
      /\ \A y \in out : y.source \in DOMAIN sources \ {k}
  <2>1. k = Len(sources) /\ Carried
    BY <1>1, <1>5, CarriedIsLast
  <2> QED
    BY <1>1, <1>5, <2>1 DEF Sourced
<1>7. /\ place \in [sequence : Int, timestamp : Int]
      /\ place.sequence \in Int /\ place.timestamp \in Int
      /\ output \in Headers
      /\ output = [sequence  |-> place.sequence % SequenceNumbers,
                   timestamp |-> place.timestamp % Timestamps]
      /\ sequence_offset' = (place.sequence - (sources[k].first + n)) % SequenceNumbers
      /\ timestamp_offset'
            = (place.timestamp - (sources[k].first + n * sources[k].gain)) % Timestamps
  BY <1>1, <1>2, <1>3, <1>5, FirstNumbers
<1>8. /\ sources' \in Seq(Source) /\ Len(sources') = Len(sources)
      /\ DOMAIN sources' = DOMAIN sources
      /\ \A i \in DOMAIN sources \ {k} : sources'[i] = sources[i]
      /\ sources'[k] = [sources[k] EXCEPT !.anchor = n, !.place = place]
      /\ \A i \in DOMAIN sources : sources'[i].generation = sources[i].generation
  <2>1. sources \in Seq(Source) /\ sources[k] \in Source
    BY <1>1 DEF Sourced
  <2>2. [sources[k] EXCEPT !.anchor = n, !.place = place] \in Source
    BY <1>2, <1>7, <2>1 DEF Source
  <2>3. PICK new \in Source :
           /\ new = [sources[k] EXCEPT !.anchor = n, !.place = place]
           /\ new.generation = sources[k].generation
    BY <2>1, <2>2 DEF Source
  <2>4. sources' = [sources EXCEPT ![k] = new]
    BY <1>5, <2>3
  <2> QED
    BY <2>1, <2>3, <2>4
<1>9. /\ sources'[k].anchor = n /\ sources'[k].place = place
      /\ sources'[k].first = sources[k].first /\ sources'[k].gain = sources[k].gain
  BY <1>1, <1>8, SourceTyped DEF Source
<1>10. /\ Packet(k, n)' = Packet(k, n) /\ Packet(k, n) \in Headers
       /\ source_anchor_sequence' = (sources[k].first + n) % SequenceNumbers
  BY <1>1, <1>2, <1>5, <1>9, PacketTyped DEF Packet
<1>11. SequenceDifference(n, n) = 0
  <2>1. n - n = 0 + 0 /\ 2 * 0 < SequenceNumbers /\ -SequenceNumbers <= 2 * 0
    BY <1>2, RewriterConstants
  <2> QED
    BY <1>2, <2>1, NoTurn, DifferenceIs
<1>12. Place(k, n)' = place
  <2>1. PICK g \in Nat : g = sources[k].gain
    BY <1>1, SourceTyped
  <2>2. (n - n) * g = 0
    BY <1>2
  <2>3. PICK p \in Int, q \in Int : place = [sequence |-> p, timestamp |-> q]
    BY <1>7
  <2>4. Place(k, n)' = [sequence |-> p + SequenceDifference(n, n),
                        timestamp |-> q + (n - n) * g]
    BY <1>9, <2>1, <2>3 DEF Place
  <2> QED
    BY <1>11, <2>2, <2>3, <2>4
<1>13. /\ x.source = k /\ x.index = n /\ PlaceOf(x)' = place /\ Since(x)' = 0
       /\ x.sequence = output.sequence /\ x.timestamp = output.timestamp
  BY <1>4, <1>9, <1>11, <1>12 DEF PlaceOf, Since
<1>14. \A y \in out : sources'[y.source] = sources[y.source]
  BY <1>6, <1>8
<1>15. \A y \in out : Below(y, place)'
  <2> SUFFICES ASSUME NEW y \in out PROVE Below(y, place)'
    OBVIOUS
  <2>1. Below(y, place)
    BY <1>1, <1>3, FirstIsAbove
  <2>2. PlaceOf(y)' = PlaceOf(y) /\ Far(y)' = Far(y)
    BY <1>14, PlaceKept
  <2> QED
    BY <2>1, <2>2 DEF Below
<1>16. StreamTypeOK'
  <2>1. source_initialized' \in BOOLEAN /\ output_initialized' \in BOOLEAN
    BY <1>5
  <2>2. /\ sequence_offset' \in 0..(SequenceNumbers - 1)
        /\ timestamp_offset' \in 0..(Timestamps - 1)
    <3>1. PICK a \in Int, b \in Int : a = output.sequence /\ b = -Packet(k, n).sequence
      BY <1>7, <1>10, RewriterConstants DEF Headers
    <3>2. PICK c \in Int, d \in Int : c = output.timestamp /\ d = -Packet(k, n).timestamp
      BY <1>7, <1>10, RewriterConstants DEF Headers
    <3> QED
      BY <1>5, <3>1, <3>2, SumsTyped
  <2>3. source_anchor_sequence' \in 0..(SequenceNumbers - 1)
    BY <1>5, <1>10 DEF Headers
  <2>4. \A y \in out' : [sequence |-> y.sequence, timestamp |-> y.timestamp] \in Headers
    BY <1>1, <1>5, <1>7, <1>13 DEF StreamTypeOK, Headers
  <2> QED
    BY <1>1, <1>5, <1>7, <1>10, <2>1, <2>2, <2>3, <2>4 DEF StreamTypeOK, Headers
<1>17. Sourced'
  <2>1. x \in Emitted
    <3>1. output.sequence \in Int /\ output.timestamp \in Int /\ k \in Nat
      BY <1>1, <1>7, SourceTyped, RewriterConstants DEF Headers
    <3> QED
      BY <1>4, <3>1 DEF Emitted
  <2>2. out' \subseteq Emitted /\ \A y \in out' : y.source \in DOMAIN sources'
    BY <1>1, <1>5, <1>8, <1>13, <2>1 DEF Sourced
  <2>3. Carried'
    <3>1. sources' # <<>>
      BY <1>1, <1>6, <1>8, SourceTyped
    <3>2. sources'[k].generation = generation'
      BY <1>5, <1>8
    <3> QED
      BY <1>6, <1>8, <3>1, <3>2 DEF Carried
  <2>4. /\ \A i \in DOMAIN sources' : sources'[i].generation <= generation'
        /\ \A i, j \in DOMAIN sources' : i < j =>
               sources'[i].generation < sources'[j].generation
    BY <1>1, <1>5, <1>8 DEF Sourced
  <2> QED
    BY <1>5, <1>7, <1>8, <2>2, <2>3, <2>4 DEF Sourced
<1>18. Placed'
  <2>1. /\ sources'[x.source].anchor <= x.index
        /\ Since(x)' >= 0
        /\ x.sequence = PlaceOf(x).sequence' % SequenceNumbers
        /\ x.timestamp = PlaceOf(x).timestamp' % Timestamps
    BY <1>2, <1>7, <1>9, <1>13
  <2>2. \A y \in out : /\ sources'[y.source].anchor <= y.index
                       /\ Since(y)' >= 0
                       /\ y.sequence = PlaceOf(y).sequence' % SequenceNumbers
                       /\ y.timestamp = PlaceOf(y).timestamp' % Timestamps
    BY <1>1, <1>14, OldKept
  <2> QED
    BY <1>5, <2>1, <2>2 DEF Placed
<1>19. Crossed'
  <2> SUFFICES ASSUME NEW y \in out', NEW z \in out', y.source < z.source
               PROVE  Below(y, sources[z.source].place)'
    BY DEF Crossed
  <2>1. y \in out
    <3>1. z.source <= k
      BY <1>1, <1>5, <1>6, <1>13, SourceTyped DEF Sourced
    <3>2. y.source # k
      BY <1>1, <1>5, <1>6, <1>13, <3>1, SourceTyped
    <3> QED
      BY <1>5, <1>13, <3>2
  <2>2. CASE z \in out
    BY <1>1, <1>14, <2>1, <2>2, OldKept
  <2>3. CASE z = x
    <3>1. sources'[z.source].place = place
      BY <1>9, <1>13, <2>3
    <3> QED
      BY <1>15, <2>1, <3>1 DEF Below
  <2> QED
    BY <1>5, <2>2, <2>3
<1>20. Topped'
  <2>1. \A y \in out : PlaceOf(y)' \in [sequence : Int, timestamp : Int]
    BY <1>1, <1>14, PlaceKept, PlaceOfTyped, PlaceTyped
  <2>2. \A y \in out : /\ PlaceOf(y).sequence' <= place.sequence
                       /\ ~Far(y)' => PlaceOf(y).timestamp' <= place.timestamp
    BY <1>7, <1>15, <2>1 DEF Below
  <2>3. /\ PlaceOf(x).sequence' <= place.sequence
        /\ PlaceOf(x).timestamp' <= place.timestamp
    BY <1>7, <1>13
  <2> QED
    BY <1>5, <1>7, <2>2, <2>3 DEF Topped
<1>21. Following'
  <2>1. Anchored(k)'
    <3>1. \E y \in out' : y.source = k /\ y.index = sources'[k].anchor
      BY <1>5, <1>9, <1>13
    <3> QED
      BY <1>7, <1>9, <1>10, <3>1 DEF Anchored
  <2>2. Newest(k, n)'
    BY <1>2, <1>5, <1>9, <1>10, <1>11, <1>12 DEF Newest
  <2> QED
    BY <1>2, <1>6, <1>8, <2>1, <2>2 DEF Following
<1> QED
  BY <1>16, <1>17, <1>18, <1>19, <1>20, <1>21 DEF RewriterInv

\* rewrite, a later packet: its numbers are those of its place, as it comes from the half
\* after the first packet of its source.
LEMMA NextNumbers ==
    ASSUME Sourced, NEW k \in DOMAIN sources, Anchored(k),
           NEW n \in 1..MaxPackets, Arrives(k, n), source_initialized,
           ~BeforeAnchor(Packet(k, n))
    PROVE  /\ sources[k].anchor <= n
           /\ SequenceDifference(n, sources[k].anchor) >= 0
           /\ SequenceSum(Packet(k, n).sequence, sequence_offset)
                 = Place(k, n).sequence % SequenceNumbers
           /\ TimestampSum(Packet(k, n).timestamp, timestamp_offset)
                 = Place(k, n).timestamp % Timestamps
<1>1. SequenceNumbers \in Nat \ {0} /\ Timestamps \in Nat \ {0} /\ n \in Nat
      /\ MaxReorder \in Nat /\ 2 * MaxReorder <= SequenceNumbers
  BY RewriterConstants
<1>2. PICK f \in Nat, g \in Nat, a \in Nat, p \in Int, q \in Int :
         /\ f = sources[k].first /\ g = sources[k].gain /\ a = sources[k].anchor
         /\ p = sources[k].place.sequence /\ q = sources[k].place.timestamp
  BY SourceTyped
<1>3. PICK i \in Int, j \in Int : i = f + n /\ j = f + a
  OBVIOUS
<1>4. Packet(k, n).sequence = i % SequenceNumbers
  BY <1>1, <1>2, <1>3, PacketTyped
<1>5. source_anchor_sequence = j % SequenceNumbers
  BY <1>2, <1>3 DEF Anchored
<1>6. PICK e \in Int : e = SequenceDifference(n, a) /\ n \in Int /\ a \in Int
  <2>1. n \in Int /\ a \in Int
    BY <1>1
  <2>2. SequenceDifference(n, a) \in Int
    BY <2>1, DifferenceTyped
  <2> QED
    BY <2>1, <2>2
<1>7. PICK m \in Int : Turns(m) /\ n - a = m + e /\ 2 * e < SequenceNumbers
                       /\ -SequenceNumbers <= 2 * e
  <2>1. 2 * e < SequenceNumbers /\ -SequenceNumbers <= 2 * e
    BY <1>6, DifferenceSplits
  <2>2. PICK m \in Int : Turns(m) /\ n - a = m + e
    BY <1>6, DifferenceSplits
  <2> QED
    BY <2>1, <2>2
<1>8. SequenceDifference(i, j) = e
  <2>1. i - j = m + e
    BY <1>1, <1>3, <1>7
  <2> QED
    BY <1>7, <2>1, DifferenceIs
<1>9. e >= 0
  <2>1. SequenceDifference(i % SequenceNumbers, j % SequenceNumbers) = e
    BY <1>8, WireDifference
  <2>2. ~(e < 0)
    BY <1>4, <1>5, <2>1 DEF BeforeAnchor
  <2> QED
    BY <2>2
<1>10. a <= n
  <2>1. a <= n + MaxReorder
    BY <1>2 DEF Anchored, Arrives
  <2>2. ASSUME n < a PROVE FALSE
    <3>1. 2 * (a - n) <= SequenceNumbers
      BY <1>1, <2>1
    <3>2. SequenceDifference(n, a) < 0
      BY <1>1, <2>2, <3>1, EarlierIsOlder
    <3> QED
      BY <1>6, <1>9, <3>2
  <2> QED
    BY <1>1, <2>2
<1>11. Place(k, n).sequence = p + e
  <2>1. Place(k, n).sequence
           = sources[k].place.sequence + SequenceDifference(n, sources[k].anchor)
    BY <1>1, PlaceTyped
  <2> QED
    BY <1>2, <1>6, <2>1
<1>12. Place(k, n).timestamp = q + (n - a) * g
  <2>1. Place(k, n).timestamp
           = sources[k].place.timestamp + (n - sources[k].anchor) * sources[k].gain
    BY <1>1, PlaceTyped
  <2> QED
    BY <1>2, <2>1
<1>13. SequenceSum(Packet(k, n).sequence, sequence_offset) = (p + e) % SequenceNumbers
  <2>1. PICK b \in Int : b = p - j
    OBVIOUS
  <2>2. sequence_offset = b % SequenceNumbers
    BY <1>2, <1>3, <2>1 DEF Anchored
  <2>3. ((i % SequenceNumbers) + (b % SequenceNumbers)) % SequenceNumbers
           = (i + b) % SequenceNumbers
    BY <1>1, OffsetAdded
  <2>4. PICK c \in Int, d \in Int : c = p + e /\ d = i + b
    OBVIOUS
  <2>5. d = c + m
    BY <1>1, <1>3, <1>7, <2>1, <2>4
  <2>6. d % SequenceNumbers = c % SequenceNumbers
    BY <1>7, <2>5, ModOfTurns
  <2> QED
    BY <1>4, <2>2, <2>3, <2>4, <2>6 DEF SequenceSum
<1>14. TimestampSum(Packet(k, n).timestamp, timestamp_offset)
          = (q + (n - a) * g) % Timestamps
  <2>1. PICK u \in Int, v \in Int : u = n * g /\ v = a * g
    BY <1>1
  <2>2. PICK h \in Int, b \in Int : h = f + u /\ b = q - (f + v)
    OBVIOUS
  <2>3. Packet(k, n).timestamp = h % Timestamps
    BY <1>1, <1>2, <2>1, <2>2, PacketTyped
  <2>4. timestamp_offset = b % Timestamps
    BY <1>2, <2>1, <2>2 DEF Anchored
  <2>5. ((h % Timestamps) + (b % Timestamps)) % Timestamps = (h + b) % Timestamps
    BY <1>1, OffsetAdded
  <2>6. h + b = q + (n - a) * g
    <3>1. (n - a) * g = n * g - a * g
      BY <1>1
    <3>2. (n - a) * g = u - v
      BY <2>1, <3>1
    <3> QED
      BY <2>2, <3>2
  <2> QED
    BY <2>3, <2>4, <2>5, <2>6 DEF TimestampSum
<1> QED
  BY <1>1, <1>2, <1>6, <1>9, <1>10, <1>11, <1>12, <1>13, <1>14

\* A packet of the source that is heard is newer on the wire exactly when it is
\* further from the first one.
LEMMA NewestIsFurthest ==
    ASSUME Sourced, NEW k \in DOMAIN sources, NEW n \in Nat, NEW last \in Nat,
           SequenceDifference(n, sources[k].anchor) >= 0, Newest(k, last)
    PROVE  sequence_is_newer(Packet(k, n).sequence, latest_input.sequence)
              <=> Place(k, last).sequence < Place(k, n).sequence
<1>1. PICK f \in Nat, a \in Nat, p \in Int :
         f = sources[k].first /\ a = sources[k].anchor /\ p = sources[k].place.sequence
  BY SourceTyped
<1>2. PICK e \in Int, d \in Int :
         e = SequenceDifference(n, a) /\ d = SequenceDifference(last, a)
  <2>1. n \in Int /\ last \in Int /\ a \in Int
    OBVIOUS
  <2>2. SequenceDifference(n, a) \in Int
    BY <2>1, DifferenceTyped
  <2>3. SequenceDifference(last, a) \in Int
    BY <2>1, DifferenceTyped
  <2> QED
    BY <2>2, <2>3
<1>3. SequenceDifference(n, last) = e - d
  <2>1. n \in Int /\ last \in Int /\ a \in Int
    OBVIOUS
  <2>2. SequenceDifference(n, a) >= 0 /\ SequenceDifference(last, a) >= 0
    BY <1>1 DEF Newest
  <2> QED
    BY <1>2, <2>1, <2>2, NewerIsFurther
<1>4. PICK i \in Int, j \in Int : i = f + n /\ j = f + last
  OBVIOUS
<1>5. SequenceDifference(i, j) = e - d
  <2>1. PICK b \in Int : b = e - d
    OBVIOUS
  <2>2. b = SequenceDifference(n, last) /\ n \in Int /\ last \in Int
    BY <1>3, <2>1
  <2>3. 2 * b < SequenceNumbers /\ -SequenceNumbers <= 2 * b
    BY <2>2, DifferenceSplits
  <2>4. PICK m \in Int : Turns(m) /\ n - last = m + b
    BY <2>2, DifferenceSplits
  <2>5. i - j = m + b
    BY <1>4, <2>4
  <2>6. SequenceDifference(i, j) = b
    BY <2>3, <2>4, <2>5, DifferenceIs
  <2> QED
    BY <2>1, <2>6
<1>6. Packet(k, n).sequence = i % SequenceNumbers
  BY <1>1, <1>4, PacketTyped
<1>7. latest_input.sequence = j % SequenceNumbers
  BY <1>1, <1>4, PacketTyped DEF Newest
<1>8. SequenceDifference(Packet(k, n).sequence, latest_input.sequence) = e - d
  BY <1>5, <1>6, <1>7, WireDifference
<1>9. Place(k, n).sequence = p + e /\ Place(k, last).sequence = p + d
  <2>1. Place(k, n).sequence
           = sources[k].place.sequence + SequenceDifference(n, sources[k].anchor)
    BY PlaceTyped
  <2>2. Place(k, last).sequence
           = sources[k].place.sequence + SequenceDifference(last, sources[k].anchor)
    BY PlaceTyped
  <2> QED
    BY <1>1, <1>2, <2>1, <2>2
<1> QED
  BY <1>8, <1>9 DEF sequence_is_newer

\* The furthest packet of a source is not below one that is not far.
LEMMA NotFarIsBelow ==
    ASSUME Sourced, NEW k \in DOMAIN sources, NEW n \in Nat, NEW last \in Nat,
           sources[k].anchor <= n, 2 * (n - sources[k].anchor) < SequenceNumbers,
           sources[k].anchor <= last, SequenceDifference(last, sources[k].anchor) >= 0,
           Place(k, n).sequence <= Place(k, last).sequence
    PROVE  Place(k, n).timestamp <= Place(k, last).timestamp
<1>1. PICK a \in Nat, g \in Nat, p \in Int, q \in Int :
         /\ a = sources[k].anchor /\ g = sources[k].gain
         /\ p = sources[k].place.sequence /\ q = sources[k].place.timestamp
  BY SourceTyped
<1>2. PICK e \in Nat : e = n - a /\ 2 * e < SequenceNumbers
  BY <1>1
<1>3. SequenceDifference(n, a) = e
  <2>1. n - a = 0 + e /\ -SequenceNumbers <= 2 * e
    BY <1>2, RewriterConstants
  <2> QED
    BY <1>2, <2>1, NoTurn, DifferenceIs
<1>4. PICK d \in Nat : d = SequenceDifference(last, a)
  <2>1. SequenceDifference(last, a) \in Int
    <3>1. last \in Int /\ a \in Int
      OBVIOUS
    <3> QED
      BY <3>1, DifferenceTyped
  <2>2. SequenceDifference(last, a) >= 0
    BY <1>1
  <2> QED
    BY <2>1, <2>2
<1>5. PICK m \in Int : Turns(m) /\ last - a = m + d /\ 2 * d < SequenceNumbers
  <2>1. last \in Int /\ a \in Int
    OBVIOUS
  <2> QED
    BY <1>4, <2>1, DifferenceSplits
<1>6. d <= last - a
  <2>1. ASSUME m < 0 PROVE FALSE
    <3>1. -SequenceNumbers < m
      BY <1>1, <1>5, RewriterConstants
    <3>2. m < SequenceNumbers
      BY <2>1, RewriterConstants
    <3>3. m = 0
      BY <1>5, <3>1, <3>2, TurnsAdd
    <3> QED
      BY <2>1, <3>3
  <2> QED
    BY <1>5, <2>1
<1>7. e <= d
  <2>1. Place(k, n).sequence
           = sources[k].place.sequence + SequenceDifference(n, sources[k].anchor)
    BY PlaceTyped
  <2>2. Place(k, last).sequence
           = sources[k].place.sequence + SequenceDifference(last, sources[k].anchor)
    BY PlaceTyped
  <2> QED
    BY <1>1, <1>3, <1>4, <2>1, <2>2
<1>8. PICK l \in Nat : l = last - a /\ e <= l
  BY <1>1, <1>6, <1>7
<1>9. e * g <= l * g /\ e * g \in Int /\ l * g \in Int
  <2>1. PICK h \in Nat : l = e + h
    BY <1>8
  <2>2. l * g = e * g + h * g /\ h * g \in Nat /\ e * g \in Nat
    BY <2>1
  <2> QED
    BY <2>2
<1>10. Place(k, n).timestamp = q + e * g
  <2>1. Place(k, n).timestamp
           = sources[k].place.timestamp + (n - sources[k].anchor) * sources[k].gain
    BY PlaceTyped
  <2> QED
    BY <1>1, <1>2, <2>1
<1>11. Place(k, last).timestamp = q + l * g
  <2>1. Place(k, last).timestamp
           = sources[k].place.timestamp + (last - sources[k].anchor) * sources[k].gain
    BY PlaceTyped
  <2> QED
    BY <1>1, <1>8, <2>1
<1> QED
  BY <1>9, <1>10, <1>11

\* The timeline of a source.
LEMMA TimelineOfSource ==
    ASSUME Sourced, NEW k \in DOMAIN sources, NEW l \in Nat, NEW n \in Nat, l <= n
    PROVE  Place(k, l).timestamp <= Place(k, n).timestamp
<1>1. PICK a \in Nat, g \in Nat, q \in Int :
         /\ a = sources[k].anchor /\ g = sources[k].gain
         /\ q = sources[k].place.timestamp
  BY SourceTyped
<1>2. PICK i \in Int, j \in Int : i = l - a /\ j = n - a
  OBVIOUS
<1>3. PICK h \in Nat : j = i + h
  <2>1. n - l \in Nat /\ j = i + (n - l)
    BY <1>2
  <2> QED
    BY <2>1
<1>4. j * g = i * g + h * g /\ h * g \in Nat /\ i * g \in Int /\ j * g \in Int
  BY <1>3
<1>5. Place(k, n).timestamp = q + j * g
  <2>1. Place(k, n).timestamp
           = sources[k].place.timestamp + (n - sources[k].anchor) * sources[k].gain
    BY PlaceTyped
  <2> QED
    BY <1>1, <1>2, <2>1
<1>6. Place(k, l).timestamp = q + i * g
  <2>1. Place(k, l).timestamp
           = sources[k].place.timestamp + (l - sources[k].anchor) * sources[k].gain
    BY PlaceTyped
  <2> QED
    BY <1>1, <1>2, <2>1
<1> QED
  BY <1>4, <1>5, <1>6

\* It starts at the place of the source.
LEMMA LaterOnTimeline ==
    ASSUME Sourced, NEW k \in DOMAIN sources, NEW l \in Nat, sources[k].anchor <= l
    PROVE  sources[k].place.timestamp <= Place(k, l).timestamp
<1>1. PICK a \in Nat, g \in Nat, q \in Int :
         /\ a = sources[k].anchor /\ g = sources[k].gain
         /\ q = sources[k].place.timestamp
  BY SourceTyped
<1>2. PICK d \in Nat : d = l - a
  BY <1>1
<1>3. d * g \in Nat
  OBVIOUS
<1>4. Place(k, l).timestamp = q + d * g
  <2>1. Place(k, l).timestamp
           = sources[k].place.timestamp + (l - sources[k].anchor) * sources[k].gain
    BY PlaceTyped
  <2> QED
    BY <1>1, <1>2, <2>1
<1> QED
  BY <1>1, <1>3, <1>4

\* A later place less than half the numbers away has a newer number.
LEMMA NewerByPlace ==
    ASSUME NEW b \in Int, NEW a \in Int, a < b, 2 * (b - a) < SequenceNumbers
    PROVE  sequence_is_newer(b % SequenceNumbers, a % SequenceNumbers)
<1>1. PICK d \in Int : d = b - a
  OBVIOUS
<1>2. b - a = 0 + d /\ 2 * d < SequenceNumbers /\ -SequenceNumbers <= 2 * d
  BY <1>1, RewriterConstants
<1>3. SequenceDifference(b, a) = d
  BY <1>2, NoTurn, DifferenceIs
<1>4. SequenceDifference(b % SequenceNumbers, a % SequenceNumbers) = d
  BY <1>3, WireDifference
<1> QED
  BY <1>1, <1>4 DEF sequence_is_newer

\* The timestamps on the wire differ as the places do.
LEMMA TimelineOnWire ==
    ASSUME Sourced, Placed, NEW x \in out, NEW y \in out,
           NEW a \in Int, NEW b \in Int, a <= b,
           a = PlaceOf(x).timestamp, b = PlaceOf(y).timestamp,
           2 * (b - a) < Timestamps
    PROVE  TimestampSum(y.timestamp, -x.timestamp) = b - a
<1>1. Timestamps \in Nat \ {0}
  BY RewriterConstants
<1>2. y.timestamp = b % Timestamps /\ x.timestamp = a % Timestamps
  BY DEF Placed
<1>3. ((b % Timestamps) + (-(a % Timestamps))) % Timestamps = (b - a) % Timestamps
  BY <1>1, ModMinus
<1>4. (b - a) % Timestamps = b - a
  <2>1. b - a \in 0..(Timestamps - 1)
    BY <1>1
  <2> QED
    BY <1>1, <2>1, ModSmall
<1> QED
  BY <1>2, <1>3, <1>4 DEF TimestampSum

\* rewrite, a later packet: it takes its place, and is the new top when it is newer.
LEMMA RewriteNextStep ==
    ASSUME RewriterInv, NEW k \in DOMAIN sources, NEW n \in 1..MaxPackets,
           RewriteNext(k, n)
    PROVE  RewriterInv'
<1>1. /\ StreamTypeOK /\ Sourced /\ Placed /\ Crossed /\ Topped /\ Following
      /\ generation \in Nat
  BY DEF RewriterInv, StreamTypeOK
<1>2. n \in Nat /\ SequenceNumbers \in Nat \ {0} /\ Timestamps \in Nat \ {0}
  BY RewriterConstants
<1>3. PICK output :
         output = [sequence |-> SequenceSum(Packet(k, n).sequence, sequence_offset),
                   timestamp |-> TimestampSum(Packet(k, n).timestamp, timestamp_offset)]
  OBVIOUS
<1>4. PICK x : x = [source |-> k, index |-> n, sequence |-> output.sequence,
                    timestamp |-> output.timestamp]
  OBVIOUS
<1>5. PICK newer \in BOOLEAN :
         newer <=> sequence_is_newer(Packet(k, n).sequence, latest_input.sequence)
  BY DEF sequence_is_newer
<1>6. /\ Arrives(k, n) /\ sources[k].generation = generation /\ source_initialized
      /\ ~BeforeAnchor(Packet(k, n))
      /\ newer => /\ timestamp_step' = NextStep(Packet(k, n))
                  /\ latest_input' = Packet(k, n) /\ latest_output' = output
                  /\ top' = Place(k, n)
      /\ ~newer => UNCHANGED <<latest_input, latest_output, timestamp_step, top>>
      /\ out' = out \cup {x}
      /\ UNCHANGED <<generation, sources, output_initialized>>
      /\ UNCHANGED <<source_initialized, source_anchor_sequence, sequence_offset,
                     timestamp_offset>>
  BY <1>3, <1>4, <1>5 DEF RewriteNext, Emit, source, latest
<1>7. k = Len(sources) /\ Carried /\ output_initialized
  BY <1>1, <1>6, CarriedIsLast DEF Sourced
<1>8. PICK last \in Nat : Anchored(k) /\ Newest(k, last)
  BY <1>1, <1>6, <1>7 DEF Following
<1>9. /\ sources[k].anchor <= n
      /\ SequenceDifference(n, sources[k].anchor) >= 0
      /\ output = [sequence  |-> Place(k, n).sequence % SequenceNumbers,
                   timestamp |-> Place(k, n).timestamp % Timestamps]
  BY <1>1, <1>3, <1>6, <1>8, NextNumbers
<1>10. Place(k, n).sequence \in Int /\ Place(k, n).timestamp \in Int
       /\ Place(k, n) \in [sequence : Int, timestamp : Int]
  BY <1>1, <1>2, PlaceTyped
<1>11. output \in Headers
  <2>1. (Place(k, n).sequence % SequenceNumbers) \in 0..(SequenceNumbers - 1)
    BY <1>2, <1>10, ModSplits
  <2>2. (Place(k, n).timestamp % Timestamps) \in 0..(Timestamps - 1)
    BY <1>2, <1>10, ModSplits
  <2> QED
    BY <1>9, <2>1, <2>2 DEF Headers
<1>12. newer <=> top.sequence < Place(k, n).sequence
  BY <1>1, <1>2, <1>5, <1>8, <1>9, NewestIsFurthest DEF Newest
<1>13. /\ x.source = k /\ x.index = n /\ PlaceOf(x) = Place(k, n)
       /\ x.sequence = output.sequence /\ x.timestamp = output.timestamp
       /\ Since(x) = SequenceDifference(n, sources[k].anchor)
  BY <1>4 DEF PlaceOf, Since
<1>14. Packet(k, n) \in Headers /\ \A i, j : Packet(i, j)' = Packet(i, j)
  BY <1>1, <1>2, <1>6, PacketTyped DEF Packet
<1>15. \A y : PlaceOf(y)' = PlaceOf(y) /\ Far(y)' = Far(y) /\ Since(y)' = Since(y)
  BY <1>6, PlaceKept
<1>16. StreamTypeOK'
  <2>1. source_initialized' \in BOOLEAN /\ output_initialized' \in BOOLEAN
    BY <1>1, <1>6, Zenon DEF StreamTypeOK
  <2>2. latest_input' \in Headers /\ latest_output' \in Headers
    BY <1>1, <1>5, <1>6, <1>11, <1>14 DEF StreamTypeOK, Headers
  <2>3. timestamp_step' \in 1..MaxStep
    <3>1. NextStep(Packet(k, n)) \in 1..MaxStep
      <4>1. PICK a \in Int, b \in Int :
               a = Packet(k, n).timestamp /\ b = -latest_input.timestamp
        BY <1>1, <1>2, <1>14 DEF StreamTypeOK, Headers
      <4>2. TimestampSum(a, b) \in 0..(Timestamps - 1)
        BY SumsTyped
      <4> QED
        BY <1>1, <1>2, <4>1, <4>2, RewriterConstants DEF StreamTypeOK, NextStep
    <3> QED
      BY <1>1, <1>5, <1>6, <3>1 DEF StreamTypeOK
  <2>4. \A y \in out' : [sequence |-> y.sequence, timestamp |-> y.timestamp] \in Headers
    BY <1>1, <1>6, <1>11, <1>13 DEF StreamTypeOK, Headers
  <2> QED
    BY <1>1, <1>6, <2>1, <2>2, <2>3, <2>4 DEF StreamTypeOK, Headers
<1>17. Sourced'
  <2>1. x \in Emitted
    <3>1. output.sequence \in Int /\ output.timestamp \in Int /\ k \in Nat
      BY <1>1, <1>2, <1>11, SourceTyped DEF Headers
    <3> QED
      BY <1>4, <3>1 DEF Emitted
  <2>2. out' \subseteq Emitted /\ \A y \in out' : y.source \in DOMAIN sources'
    BY <1>1, <1>6, <1>13, <2>1 DEF Sourced
  <2>3. top' \in [sequence : Int, timestamp : Int]
    BY <1>1, <1>5, <1>6, <1>10 DEF Sourced
  <2> QED
    BY <1>1, <1>6, <1>7, <2>2, <2>3 DEF Sourced, Carried
<1>18. Placed'
  <2>1. /\ sources[x.source].anchor <= x.index
        /\ Since(x) >= 0
        /\ x.sequence = PlaceOf(x).sequence % SequenceNumbers
        /\ x.timestamp = PlaceOf(x).timestamp % Timestamps
    BY <1>9, <1>13
  <2> QED
    BY <1>1, <1>6, <1>15, <2>1 DEF Placed
<1>19. Crossed'
  <2> SUFFICES ASSUME NEW y \in out', NEW z \in out', y.source < z.source
               PROVE  Below(y, sources[z.source].place)
    BY <1>6, <1>15 DEF Crossed, Below
  <2>1. y \in out
    <3>1. z.source <= k
      BY <1>1, <1>6, <1>7, <1>13, SourceTyped DEF Sourced
    <3>2. z.source \in Nat /\ y.source # k
      BY <1>1, <1>6, <1>7, <1>13, <3>1, SourceTyped DEF Sourced
    <3> QED
      BY <1>6, <1>13, <3>2
  <2>2. CASE z \in out
    BY <1>1, <2>1, <2>2 DEF Crossed
  <2>3. CASE z = x
    <3>1. PICK w \in out : w.source = k
      BY <1>8 DEF Anchored
    <3>2. Below(y, sources[w.source].place)
      BY <1>1, <1>13, <2>1, <2>3, <3>1 DEF Crossed
    <3> QED
      BY <1>13, <2>3, <3>1, <3>2
  <2> QED
    BY <1>6, <2>2, <2>3
<1>20. Topped'
  <2>1. latest_output' = [sequence  |-> top'.sequence % SequenceNumbers,
                          timestamp |-> top'.timestamp % Timestamps]
    BY <1>1, <1>5, <1>6, <1>7, <1>9 DEF Topped
  <2>2. \A y \in out' : PlaceOf(y).sequence <= top'.sequence
    <3> SUFFICES ASSUME NEW y \in out' PROVE PlaceOf(y).sequence <= top'.sequence
      OBVIOUS
    <3>1. PICK t \in Int : t = top.sequence
      BY <1>1 DEF Sourced
    <3>2. CASE y \in out
      <4>1. PlaceOf(y).sequence <= t /\ PlaceOf(y).sequence \in Int
        BY <1>1, <3>1, <3>2, PlaceOfTyped DEF Topped
      <4> QED
        BY <1>5, <1>6, <1>10, <1>12, <3>1, <4>1
    <3>3. CASE y = x
      BY <1>5, <1>6, <1>10, <1>12, <1>13, <3>1, <3>3
    <3> QED
      BY <1>6, <3>2, <3>3
  <2>3. \A y \in out' : ~Far(y) => PlaceOf(y).timestamp <= top'.timestamp
    <3> SUFFICES ASSUME NEW y \in out', ~Far(y)
                 PROVE  PlaceOf(y).timestamp <= top'.timestamp
      OBVIOUS
    <3>1. PICK l \in Nat : top' = Place(k, l) /\ sources[k].anchor <= l
                           /\ SequenceDifference(l, sources[k].anchor) >= 0
      BY <1>2, <1>5, <1>6, <1>8, <1>9 DEF Newest
    <3>2. CASE y.source = k
      <4>1. y.index \in Nat /\ sources[k].anchor <= y.index
        BY <1>1, <1>2, <1>6, <1>9, <1>13, <3>2, PlaceOfTyped DEF Placed
      <4>2. 2 * (y.index - sources[k].anchor) < SequenceNumbers
        BY <1>1, <1>2, <3>2, <4>1, SourceTyped DEF Far
      <4>3. PlaceOf(y) = Place(k, y.index)
        BY <3>2 DEF PlaceOf
      <4>4. Place(k, y.index).sequence <= Place(k, l).sequence
        BY <2>2, <3>1, <4>3
      <4> QED
        BY <1>1, <3>1, <4>1, <4>2, <4>3, <4>4, NotFarIsBelow
    <3>3. CASE y.source # k
      <4>1. y \in out
        BY <1>6, <1>13, <3>3
      <4>2. PICK w \in out : w.source = k
        BY <1>8 DEF Anchored
      <4>3. y.source < k
        BY <1>1, <1>7, <3>3, <4>1, SourceTyped DEF Sourced
      <4>4. PlaceOf(y).timestamp < sources[k].place.timestamp
        BY <1>1, <4>1, <4>2, <4>3 DEF Crossed, Below
      <4>5. sources[k].place.timestamp <= Place(k, l).timestamp
        BY <1>1, <3>1, LaterOnTimeline
      <4>6. PICK a \in Int, b \in Int, c \in Int :
               /\ a = PlaceOf(y).timestamp /\ b = sources[k].place.timestamp
               /\ c = Place(k, l).timestamp
        BY <1>1, <4>1, PlaceOfTyped, PlaceTyped, SourceTyped
      <4> QED
        BY <3>1, <4>4, <4>5, <4>6
    <3> QED
      BY <3>2, <3>3
  <2> QED
    BY <1>15, <2>1, <2>2, <2>3 DEF Topped
<1>21. Following'
  <2>1. Anchored(k)'
    BY <1>6, <1>8 DEF Anchored
  <2>2. \E l \in Nat : Newest(k, l)'
    <3>1. CASE newer
      <4>1. Newest(k, n)'
        BY <1>6, <1>9, <1>14, <3>1 DEF Newest, Place
      <4> QED
        BY <1>2, <4>1
    <3>2. CASE ~newer
      <4>1. Newest(k, last)'
        BY <1>6, <1>8, <1>14, <3>2 DEF Newest, Place
      <4> QED
        BY <4>1
    <3> QED
      BY <1>5, <3>1, <3>2
  <2> QED
    BY <1>6, <1>7, <2>1, <2>2 DEF Following
<1> QED
  BY <1>16, <1>17, <1>18, <1>19, <1>20, <1>21 DEF RewriterInv

\* Every step keeps the invariant.
LEMMA RewriterStep ==
    ASSUME RewriterInv, [StreamNext]_streamVars
    PROVE  RewriterInv'
<1>1. CASE UNCHANGED streamVars
  <2>1. /\ UNCHANGED <<generation, sources, out, latest_input, latest_output, top>>
        /\ UNCHANGED <<timestamp_step, output_initialized, source_initialized>>
        /\ UNCHANGED <<source_anchor_sequence, sequence_offset, timestamp_offset>>
    BY <1>1 DEF streamVars, source, latest
  <2>2. StreamTypeOK'
    BY <2>1, Zenon DEF RewriterInv, StreamTypeOK
  <2>3. Sourced'
    BY <2>1 DEF RewriterInv, Sourced, Carried
  <2>4. Placed' /\ Crossed' /\ Topped'
    BY <2>1, StandsStill
  <2>5. Following'
    BY <2>1 DEF RewriterInv, Following, Anchored, Newest, Packet, Place
  <2> QED
    BY <2>2, <2>3, <2>4, <2>5 DEF RewriterInv
<1>2. CASE \E first \in Starts, g \in Gains : begin_source(first, g)
  BY <1>2, BeginSourceStep
<1>3. CASE end_source
  BY <1>3, EndSourceStep
<1>4. CASE \E k \in DOMAIN sources, n \in 1..MaxPackets : RewriteFirst(k, n)
  BY <1>4, RewriteFirstStep
<1>5. CASE \E k \in DOMAIN sources, n \in 1..MaxPackets : RewriteNext(k, n)
  BY <1>5, RewriteNextStep
<1> QED
  BY <1>1, <1>2, <1>3, <1>4, <1>5 DEF StreamNext

\* The invariant of the rewriter, for every value of its constants.
LEMMA RewriterInvariant == StreamSpec => []RewriterInv
<1>1. RewriterInv /\ [StreamNext]_streamVars => RewriterInv'
  BY RewriterStep
<1> QED
  BY <1>1, RewriterStart, PTL DEF StreamSpec

\* Two packets of one source differ on the wire by how many lie between them.
LEMMA SameSourceOnWire ==
    ASSUME Sourced, Placed, NEW x \in out, NEW y \in out, x.source = y.source,
           x.index < y.index, 2 * (y.index - x.index) < SequenceNumbers
    PROVE  sequence_is_newer(y.sequence, x.sequence)
<1>1. PICK k \in DOMAIN sources, n \in Nat, l \in Nat :
         k = x.source /\ k = y.source /\ l = x.index /\ n = y.index
  BY PlaceOfTyped
<1>2. PICK a \in Nat, p \in Int : a = sources[k].anchor /\ p = sources[k].place.sequence
  BY SourceTyped
<1>3. PICK e \in Int, f \in Int :
         e = SequenceDifference(n, a) /\ f = SequenceDifference(l, a)
  <2>1. n \in Int /\ l \in Int /\ a \in Int
    OBVIOUS
  <2>2. SequenceDifference(n, a) \in Int
    BY <2>1, DifferenceTyped
  <2>3. SequenceDifference(l, a) \in Int
    BY <2>1, DifferenceTyped
  <2> QED
    BY <2>2, <2>3
<1>4. e >= 0 /\ f >= 0
  BY <1>1, <1>2, <1>3 DEF Placed, Since
<1>5. PICK d \in Nat : d = n - l /\ 0 < d /\ 2 * d < SequenceNumbers
  BY <1>1
<1>6. SequenceDifference(n, l) = d
  <2>1. n - l = 0 + d /\ -SequenceNumbers <= 2 * d
    BY <1>5, RewriterConstants
  <2> QED
    BY <1>5, <2>1, NoTurn, DifferenceIs
<1>7. d = e - f
  <2>1. n \in Int /\ l \in Int /\ a \in Int
    OBVIOUS
  <2> QED
    BY <1>3, <1>4, <1>6, <2>1, NewerIsFurther
<1>8. PlaceOf(y).sequence = p + e /\ PlaceOf(x).sequence = p + f
  BY <1>1, <1>2, <1>3, PlaceOfTyped, PlaceTyped
<1>9. PICK i \in Int, j \in Int : i = p + e /\ j = p + f
  OBVIOUS
<1>10. j < i /\ 2 * (i - j) < SequenceNumbers
  BY <1>5, <1>7, <1>9
<1>11. sequence_is_newer(i % SequenceNumbers, j % SequenceNumbers)
  BY <1>10, NewerByPlace
<1> QED
  BY <1>8, <1>9, <1>11 DEF Placed

(***************************************************************************)
(* RtpSlotRewriter::rewrite: however packets are lost, repeated and        *)
(* reordered, and however long a slot lives and carries its sources, the   *)
(* subscriber's sequence numbers are in the order of the packets: all of a *)
(* source after all of the sources before it, and of two packets less than *)
(* half the numbers apart the later one has the newer number.              *)
(***************************************************************************)
THEOREM StreamStaysInOrder == StreamSpec => []StreamInOrder
<1>1. RewriterInv => StreamInOrder
  <2> SUFFICES ASSUME RewriterInv PROVE StreamInOrder
    OBVIOUS
  <2>1. StreamTypeOK /\ Sourced /\ Placed /\ Crossed
    BY DEF RewriterInv
  <2>2. ASSUME NEW x \in out, NEW y \in out, Precedes(x, y)
        PROVE  /\ Distance(x, y) > 0
               /\ 2 * Distance(x, y) < SequenceNumbers =>
                      sequence_is_newer(y.sequence, x.sequence)
    <3>1. CASE x.source = y.source
      <4>1. x.index \in Nat /\ y.index \in Nat /\ x.source \in Nat
        BY <2>1, PlaceOfTyped, SourceTyped
      <4>2. x.index < y.index /\ Distance(x, y) = y.index - x.index
        BY <2>2, <3>1, <4>1 DEF Precedes, Distance
      <4> QED
        BY <2>1, <3>1, <4>1, <4>2, SameSourceOnWire
    <3>2. CASE x.source # y.source
      <4>1. x.source < y.source
        BY <2>2, <3>2 DEF Precedes
      <4>2. PICK a \in Int, b \in Int, c \in Int :
               /\ a = PlaceOf(x).sequence /\ b = PlaceOf(y).sequence
               /\ c = sources[y.source].place.sequence
        BY <2>1, PlaceOfTyped, SourceTyped
      <4>3. a < c /\ c <= b
        BY <2>1, <4>1, <4>2, PlaceOfLater DEF Crossed, Below
      <4>4. Distance(x, y) = b - a /\ b - a > 0
        BY <3>2, <4>2, <4>3 DEF Distance
      <4>5. 2 * (b - a) < SequenceNumbers =>
               sequence_is_newer(b % SequenceNumbers, a % SequenceNumbers)
        BY <4>3, NewerByPlace
      <4> QED
        BY <2>1, <4>2, <4>4, <4>5 DEF Placed
    <3> QED
      BY <3>1, <3>2
  <2>3. ASSUME NEW x \in out, NEW y \in out, x.source = y.source, x.index = y.index
        PROVE  x = y
    <3>1. PlaceOf(x) = PlaceOf(y)
      BY <2>3 DEF PlaceOf
    <3>2. x.sequence = y.sequence /\ x.timestamp = y.timestamp
      BY <2>1, <3>1 DEF Placed
    <3>3. x \in Emitted /\ y \in Emitted
      BY <2>1 DEF Sourced
    <3> QED
      BY <2>3, <3>2, <3>3 DEF Emitted
  <2> QED
    BY <2>1, <2>2, <2>3 DEF StreamInOrder
<1> QED
  BY <1>1, RewriterInvariant, PTL

(***************************************************************************)
(* RtpSlotRewriter::rewrite: the media timeline of a slot never runs       *)
(* backwards, and those of two sources never meet, for as many sources as  *)
(* it carries; only what a source sends half the sequence numbers after    *)
(* its first packet need not lie before the sources that follow.           *)
(***************************************************************************)
THEOREM TimelineStaysInOrder == StreamSpec => []TimelineAdvances
<1>1. RewriterInv => TimelineAdvances
  <2> SUFFICES ASSUME RewriterInv, NEW x \in out, NEW y \in out, Precedes(x, y), ~Far(x)
               PROVE  LET d == PlaceOf(y).timestamp - PlaceOf(x).timestamp IN
                      /\ d >= 0
                      /\ x.source # y.source => d > 0
                      /\ 2 * d < Timestamps => TimestampSum(y.timestamp, -x.timestamp) = d
    BY DEF TimelineAdvances
  <2>1. Sourced /\ Placed /\ Crossed
    BY DEF RewriterInv
  <2>2. PICK a \in Int, b \in Int : a = PlaceOf(x).timestamp /\ b = PlaceOf(y).timestamp
    BY <2>1, PlaceOfTyped
  <2>3. CASE x.source = y.source
    <3>1. PICK k \in DOMAIN sources, n \in Nat, l \in Nat :
             k = x.source /\ k = y.source /\ l = x.index /\ n = y.index
      BY <2>1, <2>3, PlaceOfTyped
    <3>2. l < n
      BY <2>1, <3>1, SourceTyped DEF Precedes
    <3>3. Place(k, l).timestamp <= Place(k, n).timestamp
      BY <2>1, <3>2, TimelineOfSource
    <3>4. a <= b
      BY <2>2, <3>1, <3>3 DEF PlaceOf
    <3> QED
      BY <2>1, <2>2, <2>3, <3>4, TimelineOnWire
  <2>4. CASE x.source # y.source
    <3>1. x.source < y.source
      BY <2>4 DEF Precedes
    <3>2. PICK c \in Int : c = sources[y.source].place.timestamp
      BY <2>1, PlaceOfTyped, SourceTyped
    <3>3. a < c /\ c <= b
      BY <2>1, <2>2, <3>1, <3>2, PlaceOfLater DEF Crossed, Below
    <3> QED
      BY <2>1, <2>2, <3>3, TimelineOnWire
  <2> QED
    BY <2>3, <2>4
<1> QED
  BY <1>1, RewriterInvariant, PTL
===============================================================================
