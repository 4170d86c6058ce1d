-------------------------- MODULE ScreenRouterProofs --------------------------
(***************************************************************************)
(* Proofs about ScreenRouter, for every set of peers, tracks and mids.     *)
(*                                                                         *)
(* An operation changes the room, lets assign_available_locked give pairs  *)
(* away, and collects what is to be announced.  The proofs follow it:      *)
(* Structure, PublishersSound, GenerationsPresent and TargetsCurrent are   *)
(* stated for any room r, so that they can be shown for the room after the *)
(* change and carried through the assignment (AssignKeepsRoom); Announced  *)
(* says of the collected notices that they make up for the change, and     *)
(* NoticesInv follows from it and the notices of the assignment            *)
(* (ChangeIsAnnounced).  What is left for each operation is the change.    *)
(*                                                                         *)
(* register_output is in two parts: between them its pair is empty and not *)
(* ready (InstallationOpen), so that only its own notices are due.         *)
(***************************************************************************)
EXTENDS ScreenRouter, SlotAssignmentProofs

\* The watches of a subscriber have places of their own.
WatchesDiffer(r) ==
    \A q \in Peers, p \in Peers :
        /\ r.watched[q][p] < r.next_watch[q]
        /\ \A x \in Peers : r.watched[q][p] # 0 /\ r.watched[q][p] = r.watched[q][x] => p = x

\* A peer that is not in the room neither streams nor has outputs.
AbsentHaveNothing(r) ==
    \A p \in Peers \ r.present :
        /\ ~r.streaming[p]
        /\ \A k \in Pairs, kind \in Media : r.output[p][k][kind].track = None

\* Which fields of an output are set, and that a mid has one pair.
OutputsWellFormed(r) ==
    \A q \in Peers, k \in Pairs, kind \in Media :
        LET out == r.output[q][k][kind] IN
        /\ out.mid = None <=> out.track = None
        /\ out.track = None => ~out.ready
        /\ out.mid # None => MediaOf(out.mid) = kind
        /\ \A j \in Pairs : out.mid # None /\ r.output[q][j][kind].mid = out.mid => j = k

TracksDiffer(r, unused) ==
    \A q \in Peers, k \in Pairs, kind \in Media : r.output[q][k][kind].track # None =>
        /\ r.output[q][k][kind].track \notin unused
        /\ \A x \in Peers, j \in Pairs, kd \in Media :
              r.output[x][j][kd].track = r.output[q][k][kind].track =>
                  q = x /\ k = j /\ kind = kd

PublishersSound(r) ==
    \A q \in Peers, k \in Pairs : r.publisher[q][k] # None =>
        /\ r.publisher[q][k] # q
        /\ r.publisher[q][k] \in r.present
        /\ r.streaming[r.publisher[q][k]]
        /\ r.watched[q][r.publisher[q][k]] # 0
        /\ \A kind \in Media : r.output[q][k][kind].ready
        /\ \A j \in Pairs \ {k} : r.publisher[q][j] # r.publisher[q][k]

GenerationsPresent(r) ==
    \A q \in Peers, k \in Pairs, kind \in Media : r.publisher[q][k] # None =>
        r.output[q][k][kind].generation = r.generation[r.output[q][k][kind].track]

\* Acceptable targets belong to the source their pair carries.
TargetsCurrent(r, fl, unused, live) ==
    \A f \in fl : \A target \in f.targets :
        /\ target.output \in Tracks \ unused
        /\ target.generation \in Nat
        /\ target.generation <= r.generation[target.output]
        /\ target.generation = r.generation[target.output] =>
              \A q \in Peers, k \in Pairs, kind \in Media :
                  r.output[q][k][kind].track = target.output =>
                      /\ r.publisher[q][k] = f.source.publisher
                      /\ kind = f.source.kind
                      /\ (\/ r.input[f.source.publisher][kind] \in live
                          \/ f.source.input \in live)
                            => r.input[f.source.publisher][kind] = f.source.input

Structure(r, unused) ==
    /\ r \in Rooms
    /\ WatchesDiffer(r)
    /\ AbsentHaveNothing(r)
    /\ OutputsWellFormed(r)
    /\ TracksDiffer(r, unused)

RoomOK(r, fl, unused, live) ==
    /\ Structure(r, unused)
    /\ PublishersSound(r)
    /\ GenerationsPresent(r)
    /\ TargetsCurrent(r, fl, unused, live)

\* What register_output left for its second critical section.
InstallationOpen ==
    installing # None =>
        LET out == room.output[installing.owner][installing.pair][MediaOf(installing.mid)]
        IN  /\ ~publishing
            /\ ~closed => /\ out.mid = installing.mid
                          /\ ~out.ready

IInv ==
    /\ TypeOK
    /\ RoomOK(room, flights, fresh, alive)
    /\ closed => room.present = {}
    /\ InstallationOpen

VideoOf(r, p) == IF p = None THEN None ELSE r.input[p]["video"]

NoticeFor(r, q, k, kind) ==
    [to |-> q, mid |-> r.output[q][k][kind].mid, publisher |-> r.publisher[q][k],
     output |-> r.output[q][k][kind].track,
     publisher_video |-> VideoOf(r, r.publisher[q][k])]

Reporter(r, p) == IF p = None THEN None ELSE [keyframes_from |-> r.input[p]["video"]]

\* A notice is for a mid of a pair, on its track or on one no pair has any more.
Addressed(r, n, k, unused) ==
    /\ r.output[n.to][k][MediaOf(n.mid)].mid = n.mid
    /\ n.output \notin unused
    /\ \/ n.output = r.output[n.to][k][MediaOf(n.mid)].track
       \/ \A q \in Peers, j \in Pairs, kind \in Media : r.output[q][j][kind].track # n.output

Right(r, n, k) ==
    n.publisher = r.publisher[n.to][k] /\ n.publisher_video = VideoOf(r, n.publisher)

\* Nobody was told anything of a mid without output.
OthersUntold(r, gone) ==
    \A q \in Peers \ gone, m \in Mids :
        (\A k \in Pairs, kind \in Media : r.output[q][k][kind].mid # m) => told[q][m] = None

\* The notices `first` make up for what a change did to the room.
Announced(r, first, unused, gone) ==
    /\ \A n \in first : \E k \in Pairs : Addressed(r, n, k, unused) /\ Right(r, n, k)
    /\ \A q \in Peers \ gone, k \in Pairs, kind \in Media :
          r.output[q][k][kind].mid # None =>
             \/ told[q][r.output[q][k][kind].mid] = r.publisher[q][k]
             \/ \E n \in first : /\ n.to = q /\ n.mid = r.output[q][k][kind].mid
                               /\ n.publisher = r.publisher[q][k]
    /\ OthersUntold(r, gone)
    /\ \A q \in Peers, k \in Pairs : r.output[q][k]["video"].track \in alive =>
          \/ handler[r.output[q][k]["video"].track] = Reporter(r, r.publisher[q][k])
          \/ NoticeFor(r, q, k, "video") \in first

AssignedAreRight ==
    \A n \in pending.second : \E k \in Pairs :
        /\ room.output[n.to][k][MediaOf(n.mid)].mid = n.mid
        /\ n = NoticeFor(room, n.to, k, MediaOf(n.mid))

ChangedAreCorrected ==
    \A n \in pending.first : \E k \in Pairs :
        /\ Addressed(room, n, k, fresh)
        /\ \/ Right(room, n, k)
           \/ NoticeFor(room, n.to, k, MediaOf(n.mid)) \in pending.second

SubscribersDue ==
    \A q \in Peers \ left, k \in Pairs, kind \in Media :
        LET m == room.output[q][k][kind].mid IN
        m # None =>
          \/ told[q][m] = room.publisher[q][k]
          \/ \E n \in pending.first \cup pending.second :
                n.to = q /\ n.mid = m /\ n.publisher = room.publisher[q][k]

ReportersDue ==
    \A q \in Peers, k \in Pairs : room.output[q][k]["video"].track \in alive =>
        \/ handler[room.output[q][k]["video"].track] = Reporter(room, room.publisher[q][k])
        \/ NoticeFor(room, q, k, "video") \in pending.first \cup pending.second

NoticesInv ==
    ~closed => /\ resetting = {}
               /\ \A t \in fresh : handler[t] = None
               /\ IF installing # None
                  THEN Announced(room, installing.notices, fresh, left)
                  ELSE /\ AssignedAreRight
                       /\ ChangedAreCorrected
                       /\ SubscribersDue
                       /\ OthersUntold(room, left)
                       /\ ReportersDue
-----------------------------------------------------------------------------
(***************************************************************************)
(* Shape of a room: all but who is on a pair and the generations.          *)
(***************************************************************************)
SameShape(r, b) ==
    /\ b.present = r.present /\ b.input = r.input /\ b.streaming = r.streaming
    /\ b.watched = r.watched /\ b.next_watch = r.next_watch
    /\ \A q \in Peers, k \in Pairs, kind \in Media :
          /\ b.output[q][k][kind].mid = r.output[q][k][kind].mid
          /\ b.output[q][k][kind].track = r.output[q][k][kind].track
          /\ b.output[q][k][kind].ready = r.output[q][k][kind].ready

\* The rewriters of these outputs, and no others, have a new generation.
Bumped(r, b, xs, kinds) ==
    /\ \A t \in Tracks : \/ b.generation[t] = r.generation[t]
                         \/ b.generation[t] = r.generation[t] + 1
    /\ \A q \in Peers, k \in Pairs, kind \in Media :
          <<q, k>> \in xs /\ kind \in kinds /\ r.output[q][k][kind].track \in Tracks =>
             b.generation[r.output[q][k][kind].track]
               = r.generation[r.output[q][k][kind].track] + 1
    /\ \A t \in Tracks : b.generation[t] # r.generation[t] =>
          \E q \in Peers, k \in Pairs, kind \in Media :
             <<q, k>> \in xs /\ kind \in kinds /\ r.output[q][k][kind].track = t

\* The tables of a room, entry by entry.
LEMMA RoomTypes ==
    ASSUME NEW r \in Rooms
    PROVE  /\ r.present \in SUBSET Peers
           /\ r.input \in [Peers -> [Media -> Tracks \cup {None}]]
           /\ r.streaming \in [Peers -> BOOLEAN]
           /\ r.watched \in [Peers -> [Peers -> Nat]]
           /\ r.next_watch \in [Peers -> Nat]
           /\ r.output \in [Peers -> [Pairs -> [Media -> Outputs]]]
           /\ r.publisher \in [Peers -> [Pairs -> Peers \cup {None}]]
           /\ r.generation \in [Tracks -> Nat]
BY DEF Rooms

\* The fields of an output.
LEMMA OutputTypes ==
    ASSUME NEW r \in Rooms, NEW q \in Peers, NEW k \in Pairs, NEW kind \in Media
    PROVE  /\ r.output[q][k][kind] \in Outputs
           /\ r.output[q][k][kind].mid \in Mids \cup {None}
           /\ r.output[q][k][kind].track \in Tracks \cup {None}
           /\ r.output[q][k][kind].ready \in BOOLEAN
           /\ r.output[q][k][kind].generation \in Nat
           /\ r.publisher[q][k] \in Peers \cup {None}
<1>1. r.output[q][k][kind] \in Outputs /\ r.publisher[q][k] \in Peers \cup {None}
  BY RoomTypes
<1> QED
  BY <1>1 DEF Outputs

\* Which generations begin_source and end_source raise, and that none ever falls.
LEMMA BumpFacts ==
    ASSUME NEW r \in Rooms, NEW b, NEW xs \in SUBSET (Peers \X Pairs),
           NEW kinds \in SUBSET Media,
           b.generation = BumpGeneration(r.generation, TracksOf(r, xs, kinds))
    PROVE  b.generation \in [Tracks -> Nat] /\ Bumped(r, b, xs, kinds)
<1>0. \A t \in Tracks : t \in TracksOf(r, xs, kinds) <=>
              \E q \in Peers, k \in Pairs, kind \in Media :
                 <<q, k>> \in xs /\ kind \in kinds /\ r.output[q][k][kind].track = t
  <2>1. ASSUME NEW t \in TracksOf(r, xs, kinds)
        PROVE  \E q \in Peers, k \in Pairs, kind \in Media :
                   <<q, k>> \in xs /\ kind \in kinds /\ r.output[q][k][kind].track = t
    <3>1. PICK x \in xs, kind \in kinds : r.output[x[1]][x[2]][kind].track = t
      BY DEF TracksOf
    <3>2. x[1] \in Peers /\ x[2] \in Pairs /\ x = <<x[1], x[2]>> /\ kind \in Media
      OBVIOUS
    <3> QED
      BY <3>1, <3>2
  <2>2. ASSUME NEW t \in Tracks, NEW q \in Peers, NEW k \in Pairs, NEW kind \in Media,
               <<q, k>> \in xs, kind \in kinds, r.output[q][k][kind].track = t
        PROVE  t \in TracksOf(r, xs, kinds)
    <3>1. PICK x \in xs : x = <<q, k>>
      BY <2>2
    <3>2. x[1] = q /\ x[2] = k
      BY <3>1
    <3>3. \E y \in xs, kd \in kinds : r.output[y[1]][y[2]][kd].track = t
      BY <2>2, <3>2
    <3> QED
      BY <3>3 DEF TracksOf
  <2> QED
    BY <2>1, <2>2
<1> DEFINE ts == TracksOf(r, xs, kinds)
<1>1. \A t \in Tracks : r.generation[t] \in Nat
  BY RoomTypes
<1>2. \A t \in Tracks :
         b.generation[t] = IF t \in ts THEN r.generation[t] + 1 ELSE r.generation[t]
  BY DEF BumpGeneration
<1>3. b.generation \in [Tracks -> Nat]
  BY <1>1 DEF BumpGeneration
<1>4. \A t \in Tracks : t \in ts <=> \E q \in Peers, k \in Pairs, kind \in Media :
                 <<q, k>> \in xs /\ kind \in kinds /\ r.output[q][k][kind].track = t
  BY <1>0
<1> HIDE DEF ts
<1> QED
  BY <1>1, <1>2, <1>3, <1>4 DEF Bumped

\* begin_source leaves the bindings alone and moves an output to the new generation.
LEMMA BegunFields ==
    ASSUME NEW r \in Rooms, NEW xs \in SUBSET (Peers \X Pairs),
           NEW kinds \in SUBSET Media
    PROVE  LET b == Begun(r, xs, kinds) IN
           /\ b \in Rooms /\ SameShape(r, b) /\ Bumped(r, b, xs, kinds)
           /\ b.publisher = r.publisher
           /\ \A q \in Peers, k \in Pairs, kind \in Media :
                 r.output[q][k][kind].track # None =>
                    b.output[q][k][kind].generation =
                       IF <<q, k>> \in xs /\ kind \in kinds
                       THEN b.generation[r.output[q][k][kind].track]
                       ELSE r.output[q][k][kind].generation
<1> DEFINE b == Begun(r, xs, kinds)
           g == BumpGeneration(r.generation, TracksOf(r, xs, kinds))
           out == [q \in Peers |-> [k \in Pairs |-> [kind \in Media |->
            IF <<q, k>> \in xs /\ kind \in kinds /\ r.output[q][k][kind].track # None
            THEN [r.output[q][k][kind] EXCEPT
                    !.generation = g[r.output[q][k][kind].track]]
            ELSE r.output[q][k][kind]]]]
<1> HIDE DEF g
<1>1. b = [r EXCEPT !.generation = g, !.output = out]
  BY DEF Begun, g
<1> HIDE DEF b, out
<1>2. /\ b.generation = g /\ b.output = out
      /\ b.present = r.present /\ b.input = r.input /\ b.streaming = r.streaming
      /\ b.watched = r.watched /\ b.next_watch = r.next_watch
      /\ b.publisher = r.publisher
  BY <1>1 DEF Rooms
<1>3. b.generation \in [Tracks -> Nat] /\ Bumped(r, b, xs, kinds)
  BY <1>2, BumpFacts DEF g
<1>4. ASSUME NEW q \in Peers, NEW k \in Pairs, NEW kind \in Media
      PROVE  /\ out[q][k][kind] \in Outputs
             /\ out[q][k][kind].mid = r.output[q][k][kind].mid
             /\ out[q][k][kind].track = r.output[q][k][kind].track
             /\ out[q][k][kind].ready = r.output[q][k][kind].ready
             /\ r.output[q][k][kind].track # None =>
                    out[q][k][kind].generation =
                       IF <<q, k>> \in xs /\ kind \in kinds
                       THEN g[r.output[q][k][kind].track]
                       ELSE r.output[q][k][kind].generation
  <2>1. /\ r.output[q][k][kind] \in Outputs
        /\ r.output[q][k][kind].track \in Tracks \cup {None}
    BY OutputTypes
  <2>2. out[q][k][kind] =
            IF <<q, k>> \in xs /\ kind \in kinds /\ r.output[q][k][kind].track # None
            THEN [r.output[q][k][kind] EXCEPT
                    !.generation = g[r.output[q][k][kind].track]]
            ELSE r.output[q][k][kind]
    BY DEF out
  <2>3. r.output[q][k][kind].track # None => g[r.output[q][k][kind].track] \in Nat
    BY <1>2, <1>3, <2>1
  <2> QED
    BY <2>1, <2>2, <2>3 DEF Outputs
<1>5. out \in [Peers -> [Pairs -> [Media -> Outputs]]]
  BY <1>4 DEF out
<1>6. b \in Rooms
  BY <1>1, <1>2, <1>3, <1>5 DEF Rooms
<1>7. SameShape(r, b)
  BY <1>2, <1>4 DEF SameShape
<1> QED
  BY <1>2, <1>3, <1>4, <1>6, <1>7 DEF b

\* clear_pair_locked touches no other pair.
LEMMA ClearedFields ==
    ASSUME NEW r \in Rooms, NEW xs \in SUBSET (Peers \X Pairs)
    PROVE  LET b == Cleared(r, xs) IN
           /\ b \in Rooms /\ SameShape(r, b) /\ Bumped(r, b, xs, Media)
           /\ \A q \in Peers, k \in Pairs :
                 /\ <<q, k>> \in xs => b.publisher[q][k] = None
                 /\ <<q, k>> \notin xs =>
                       /\ b.publisher[q][k] = r.publisher[q][k]
                       /\ b.output[q][k] = r.output[q][k]
<1> DEFINE b == Cleared(r, xs)
           g == BumpGeneration(r.generation, TracksOf(r, xs, Media))
           pub == [q \in Peers |-> [k \in Pairs |->
                     IF <<q, k>> \in xs THEN None ELSE r.publisher[q][k]]]
           out == [q \in Peers |-> [k \in Pairs |-> [kind \in Media |->
            IF <<q, k>> \in xs
            THEN [r.output[q][k][kind] EXCEPT !.generation = 0]
            ELSE r.output[q][k][kind]]]]
<1> HIDE DEF g
<1>1. b = [r EXCEPT !.generation = g, !.publisher = pub, !.output = out]
  BY DEF Cleared, g
<1> HIDE DEF b, out, pub
<1>2. /\ b.generation = g /\ b.output = out /\ b.publisher = pub
      /\ b.present = r.present /\ b.input = r.input /\ b.streaming = r.streaming
      /\ b.watched = r.watched /\ b.next_watch = r.next_watch
  BY <1>1 DEF Rooms
<1>3. b.generation \in [Tracks -> Nat] /\ Bumped(r, b, xs, Media)
  BY <1>2, BumpFacts DEF g
<1>4. ASSUME NEW q \in Peers, NEW k \in Pairs, NEW kind \in Media
      PROVE  /\ out[q][k][kind] \in Outputs
             /\ out[q][k][kind].mid = r.output[q][k][kind].mid
             /\ out[q][k][kind].track = r.output[q][k][kind].track
             /\ out[q][k][kind].ready = r.output[q][k][kind].ready
             /\ <<q, k>> \notin xs => out[q][k][kind] = r.output[q][k][kind]
  <2>1. r.output[q][k][kind] \in Outputs
    BY OutputTypes
  <2>2. out[q][k][kind] =
            IF <<q, k>> \in xs
            THEN [r.output[q][k][kind] EXCEPT !.generation = 0]
            ELSE r.output[q][k][kind]
    BY DEF out
  <2> QED
    BY <2>1, <2>2 DEF Outputs
<1>5. out \in [Peers -> [Pairs -> [Media -> Outputs]]]
  BY <1>4 DEF out
<1>6. /\ pub \in [Peers -> [Pairs -> Peers \cup {None}]]
      /\ \A q \in Peers, k \in Pairs :
            pub[q][k] = IF <<q, k>> \in xs THEN None ELSE r.publisher[q][k]
  BY RoomTypes DEF pub
<1>7. b \in Rooms
  BY <1>1, <1>2, <1>3, <1>5, <1>6 DEF Rooms
<1>8. SameShape(r, b)
  BY <1>2, <1>4 DEF SameShape
<1>9. ASSUME NEW q \in Peers, NEW k \in Pairs, <<q, k>> \notin xs
      PROVE  b.output[q][k] = r.output[q][k]
  <2>1. out[q][k] = [kind \in Media |-> r.output[q][k][kind]]
    BY <1>9 DEF out
  <2>2. r.output[q][k] \in [Media -> Outputs]
    BY RoomTypes
  <2> QED
    BY <1>2, <2>1, <2>2
<1> QED
  BY <1>2, <1>3, <1>6, <1>7, <1>8, <1>9 DEF b

\* What does not depend on the bindings stays as it is.
LEMMA ShapeKeeps ==
    ASSUME NEW r, NEW b \in Rooms, NEW unused, SameShape(r, b), Structure(r, unused)
    PROVE  Structure(b, unused)
<1>1. WatchesDiffer(b)
  BY DEF SameShape, Structure, WatchesDiffer
<1>2. AbsentHaveNothing(b)
  BY DEF SameShape, Structure, AbsentHaveNothing
<1>3. OutputsWellFormed(b)
  <2> SUFFICES ASSUME NEW q \in Peers, NEW k \in Pairs, NEW kind \in Media
               PROVE  LET out == b.output[q][k][kind] IN
                      /\ out.mid = None <=> out.track = None
                      /\ out.track = None => ~out.ready
                      /\ out.mid # None => MediaOf(out.mid) = kind
                      /\ \A j \in Pairs : out.mid # None /\ b.output[q][j][kind].mid = out.mid
                                             => j = k
    BY DEF OutputsWellFormed
  <2>1. /\ b.output[q][k][kind].mid = r.output[q][k][kind].mid
        /\ b.output[q][k][kind].track = r.output[q][k][kind].track
        /\ b.output[q][k][kind].ready = r.output[q][k][kind].ready
        /\ \A j \in Pairs : b.output[q][j][kind].mid = r.output[q][j][kind].mid
    BY DEF SameShape
  <2>2. LET out == r.output[q][k][kind] IN
        /\ out.mid = None <=> out.track = None
        /\ out.track = None => ~out.ready
        /\ out.mid # None => MediaOf(out.mid) = kind
        /\ \A j \in Pairs : out.mid # None /\ r.output[q][j][kind].mid = out.mid => j = k
    BY DEF Structure, OutputsWellFormed
  <2>3. \A j \in Pairs : b.output[q][k][kind].mid # None
            /\ b.output[q][j][kind].mid = b.output[q][k][kind].mid => j = k
    BY <2>1, <2>2
  <2> QED
    BY <2>1, <2>2, <2>3
<1>4. TracksDiffer(b, unused)
  BY SMTT(30) DEF SameShape, Structure, TracksDiffer
<1> QED
  BY <1>1, <1>2, <1>3, <1>4 DEF Structure

-----------------------------------------------------------------------------
\* Both outputs of a pair that carries somebody have tracks.
LEMMA BoundPair ==
    ASSUME NEW r \in Rooms, OutputsWellFormed(r), PublishersSound(r),
           NEW q \in Peers, NEW k \in Pairs, r.publisher[q][k] # None,
           NEW kind \in Media
    PROVE  /\ r.output[q][k][kind].ready
           /\ r.output[q][k][kind].track \in Tracks
           /\ r.output[q][k][kind].track # None
           /\ r.output[q][k][kind].mid \in Mids
           /\ r.output[q][k][kind].mid # None
<1>1. r.output[q][k][kind].ready
  BY DEF PublishersSound
<1>2. r.output[q][k][kind].track # None /\ r.output[q][k][kind].mid # None
  BY <1>1 DEF OutputsWellFormed
<1> QED
  BY <1>1, <1>2, OutputTypes

(***************************************************************************)
(* A new generation shuts out the targets of the outputs it is given to:   *)
(* only the other outputs need to carry what they did.                     *)
(***************************************************************************)
TargetsOutside(r, b, xs, kinds, fl, unused, live) ==
    \A f \in fl : \A target \in f.targets :
        /\ target.output \in Tracks \ unused
        /\ target.generation \in Nat
        /\ target.generation <= r.generation[target.output]
        /\ target.generation = r.generation[target.output] =>
              \A q \in Peers, k \in Pairs, kind \in Media :
                  r.output[q][k][kind].track = target.output
                    /\ ~(<<q, k>> \in xs /\ kind \in kinds) =>
                      /\ b.publisher[q][k] = f.source.publisher
                      /\ kind = f.source.kind
                      /\ (\/ r.input[f.source.publisher][kind] \in live
                          \/ f.source.input \in live)
                            => r.input[f.source.publisher][kind] = f.source.input

\* Targets of a track that got a new generation are no longer acceptable.
LEMMA BumpKeepsTargets ==
    ASSUME NEW r \in Rooms, NEW b \in Rooms, NEW xs, NEW kinds, NEW fl, NEW unused, NEW live,
           SameShape(r, b), Bumped(r, b, xs, kinds),
           TargetsOutside(r, b, xs, kinds, fl, unused, live)
    PROVE  TargetsCurrent(b, fl, unused, live)
<1> SUFFICES ASSUME NEW f \in fl, NEW target \in f.targets
             PROVE  /\ target.output \in Tracks \ unused
                    /\ target.generation \in Nat
                    /\ target.generation <= b.generation[target.output]
                    /\ target.generation = b.generation[target.output] =>
                        \A q \in Peers, k \in Pairs, kind \in Media :
                         b.output[q][k][kind].track = target.output =>
                          /\ b.publisher[q][k] = f.source.publisher
                          /\ kind = f.source.kind
                          /\ (\/ b.input[f.source.publisher][kind] \in live
                              \/ f.source.input \in live)
                                => b.input[f.source.publisher][kind] = f.source.input
  BY DEF TargetsCurrent
<1>1. /\ target.output \in Tracks \ unused
      /\ target.generation \in Nat
      /\ target.generation <= r.generation[target.output]
      /\ target.generation = r.generation[target.output] =>
              \A q \in Peers, k \in Pairs, kind \in Media :
                  r.output[q][k][kind].track = target.output
                    /\ ~(<<q, k>> \in xs /\ kind \in kinds) =>
                      /\ b.publisher[q][k] = f.source.publisher
                      /\ kind = f.source.kind
                      /\ (\/ r.input[f.source.publisher][kind] \in live
                          \/ f.source.input \in live)
                            => r.input[f.source.publisher][kind] = f.source.input
  BY DEF TargetsOutside
<1>2. r.generation[target.output] \in Nat
  BY <1>1, RoomTypes
<1>3. \/ b.generation[target.output] = r.generation[target.output]
      \/ b.generation[target.output] = r.generation[target.output] + 1
  BY <1>1 DEF Bumped
<1>4. ASSUME target.generation = b.generation[target.output],
             NEW q \in Peers, NEW k \in Pairs, NEW kind \in Media,
             b.output[q][k][kind].track = target.output
      PROVE  /\ b.publisher[q][k] = f.source.publisher
             /\ kind = f.source.kind
             /\ (\/ b.input[f.source.publisher][kind] \in live
                 \/ f.source.input \in live)
                   => b.input[f.source.publisher][kind] = f.source.input
  <2>1. b.generation[target.output] = r.generation[target.output]
    BY <1>1, <1>2, <1>3, <1>4
  <2>2. r.output[q][k][kind].track = target.output /\ b.input = r.input
    BY <1>4 DEF SameShape
  <2>3. ~(<<q, k>> \in xs /\ kind \in kinds)
    BY <1>1, <1>2, <2>1, <2>2 DEF Bumped
  <2> QED
    BY <1>1, <1>4, <2>1, <2>2, <2>3
<1> QED
  BY <1>1, <1>2, <1>3, <1>4

-----------------------------------------------------------------------------
(***************************************************************************)
(* What assign_available_locked does to the room.                          *)
(***************************************************************************)
LEMMA GrantedFacts ==
    ASSUME NEW r, NEW q \in Peers, NEW k \in Pairs, Granted(r, q, k) # None
    PROVE  /\ q \in r.present
           /\ k \in FreePairs(r, q)
           /\ Granted(r, q, k) \in Eligible(r, q)
BY GrantMatches DEF Granted, Matches

\* A subscriber has finitely many pairs.
LEMMA PairsFinite == IsFiniteSet(Pairs)
BY ScreenConstants, FS_Interval DEF Pairs

\* One subscriber is not given a publisher on two pairs.
LEMMA GrantedDiffer ==
    ASSUME NEW r, NEW q \in Peers, NEW k \in Pairs, NEW j \in Pairs, k # j,
           Granted(r, q, k) # None
    PROVE  Granted(r, q, k) # Granted(r, q, j)
<1> DEFINE free == FreePairs(r, q)
           at == [x \in Pairs |-> x]
<1>1. IsFiniteSet(free)
  BY PairsFinite, FS_Subset DEF FreePairs
<1>2. \A x \in free : at[x] \in Nat
  BY DEF FreePairs, Pairs
<1>3. \A x, y \in free : at[x] = at[y] => x = y
  BY DEF FreePairs
<1>4. q \in r.present
  BY GrantedFacts
<1> HIDE DEF free, at
<1>5. Grant(free, at, Eligible(r, q), r.watched[q], k) # None
  BY <1>4 DEF Granted, free, at
<1>6. Grant(free, at, Eligible(r, q), r.watched[q], k)
        # Grant(free, at, Eligible(r, q), r.watched[q], j)
  BY <1>1, <1>2, <1>3, <1>5, GrantInjective
<1> QED
  BY <1>4, <1>6 DEF Granted, free, at

\* What assign_available_locked does to each pair.
LEMMA AssignedFields ==
    ASSUME NEW r \in Rooms, alive \subseteq Tracks
    PROVE  LET a == Assigned(r) IN
           /\ a \in Rooms /\ SameShape(r, a) /\ Bumped(r, a, GrantedPairs(r), Media)
           /\ \A q \in Peers, k \in Pairs :
                 /\ Granted(r, q, k) = None => a.publisher[q][k] = r.publisher[q][k]
                 /\ Granted(r, q, k) # None => a.publisher[q][k] = Granted(r, q, k)
                 /\ \A kind \in Media : r.output[q][k][kind].track # None =>
                       a.output[q][k][kind].generation =
                          IF Granted(r, q, k) # None
                          THEN a.generation[r.output[q][k][kind].track]
                          ELSE r.output[q][k][kind].generation
<1> DEFINE b == Bound(r)
           xs == GrantedPairs(r)
           a == Begun(b, xs, Media)
           pub == [q \in Peers |-> [k \in Pairs |->
                     LET p == Granted(r, q, k) IN IF p # None THEN p ELSE r.publisher[q][k]]]
<1>1. xs \in SUBSET (Peers \X Pairs) /\ Media \in SUBSET Media
  BY DEF GrantedPairs
<1>2. \A q \in Peers, k \in Pairs : <<q, k>> \in xs <=> Granted(r, q, k) # None
  BY DEF GrantedPairs
<1>3. b = [r EXCEPT !.publisher = pub]
  BY DEF Bound
<1>4. \A q \in Peers, k \in Pairs :
         pub[q][k] = IF Granted(r, q, k) # None THEN Granted(r, q, k) ELSE r.publisher[q][k]
  OBVIOUS
<1>5. pub \in [Peers -> [Pairs -> Peers \cup {None}]]
  <2>1. ASSUME NEW q \in Peers, NEW k \in Pairs
        PROVE  pub[q][k] \in Peers \cup {None}
    <3>1. Granted(r, q, k) # None => Granted(r, q, k) \in Peers
      BY GrantedFacts, RoomTypes DEF Eligible
    <3>2. r.publisher[q][k] \in Peers \cup {None}
      BY RoomTypes
    <3> QED
      BY <1>4, <3>1, <3>2
  <2> QED
    BY <2>1
<1> HIDE DEF b, pub, xs
<1>6. /\ b \in Rooms /\ b.publisher = pub
      /\ b.present = r.present /\ b.input = r.input /\ b.streaming = r.streaming
      /\ b.watched = r.watched /\ b.next_watch = r.next_watch
      /\ b.output = r.output /\ b.generation = r.generation
  BY <1>3, <1>5 DEF Rooms
<1>7. /\ a \in Rooms /\ SameShape(b, a) /\ Bumped(b, a, xs, Media)
      /\ a.publisher = b.publisher
      /\ \A q \in Peers, k \in Pairs, kind \in Media :
            b.output[q][k][kind].track # None =>
               a.output[q][k][kind].generation =
                  IF <<q, k>> \in xs /\ kind \in Media
                  THEN a.generation[b.output[q][k][kind].track]
                  ELSE b.output[q][k][kind].generation
  BY <1>1, <1>6, BegunFields
<1> HIDE DEF a
<1>8. SameShape(r, a)
  BY <1>6, <1>7 DEF SameShape
<1>9. Bumped(r, a, xs, Media)
  <2>1. Bumped(b, a, xs, Media) /\ b.generation = r.generation /\ b.output = r.output
    BY <1>6, <1>7
  <2> QED
    BY <2>1 DEF Bumped
<1>10. \A q \in Peers, k \in Pairs, kind \in Media :
            r.output[q][k][kind].track # None =>
               a.output[q][k][kind].generation =
                  IF Granted(r, q, k) # None
                  THEN a.generation[r.output[q][k][kind].track]
                  ELSE r.output[q][k][kind].generation
  <2> SUFFICES ASSUME NEW q \in Peers, NEW k \in Pairs, NEW kind \in Media,
                      r.output[q][k][kind].track # None
               PROVE  a.output[q][k][kind].generation =
                        IF Granted(r, q, k) # None
                        THEN a.generation[r.output[q][k][kind].track]
                        ELSE r.output[q][k][kind].generation
    OBVIOUS
  <2>1. a.output[q][k][kind].generation =
          IF <<q, k>> \in xs THEN a.generation[r.output[q][k][kind].track]
          ELSE r.output[q][k][kind].generation
    BY <1>6, <1>7
  <2>2. <<q, k>> \in xs <=> Granted(r, q, k) # None
    BY <1>2
  <2> QED
    BY <2>1, <2>2
<1>11. \A q \in Peers, k \in Pairs :
                 /\ Granted(r, q, k) = None => a.publisher[q][k] = r.publisher[q][k]
                 /\ Granted(r, q, k) # None => a.publisher[q][k] = Granted(r, q, k)
  BY <1>4, <1>6, <1>7
<1>12. a = Assigned(r)
  BY DEF Assigned, a, b, xs
<1> QED
  BY <1>7, <1>8, <1>9, <1>10, <1>11, <1>12 DEF xs

(***************************************************************************)
(* The assignment keeps every part of the invariant.                       *)
(***************************************************************************)
LEMMA AssignKeepsRoom ==
    ASSUME NEW r, NEW fl, NEW unused, NEW live, alive \subseteq Tracks,
           RoomOK(r, fl, unused, live), fl \subseteq Flights
    PROVE  RoomOK(Assigned(r), fl, unused, live)
<1> DEFINE a == Assigned(r)
<1>0. /\ r \in Rooms /\ Structure(r, unused) /\ OutputsWellFormed(r)
      /\ PublishersSound(r) /\ GenerationsPresent(r) /\ TargetsCurrent(r, fl, unused, live)
  BY DEF RoomOK, Structure
<1>1. /\ a \in Rooms /\ SameShape(r, a) /\ Bumped(r, a, GrantedPairs(r), Media)
      /\ \A q \in Peers, k \in Pairs :
                 /\ Granted(r, q, k) = None => a.publisher[q][k] = r.publisher[q][k]
                 /\ Granted(r, q, k) # None => a.publisher[q][k] = Granted(r, q, k)
                 /\ \A kind \in Media : r.output[q][k][kind].track # None =>
                       a.output[q][k][kind].generation =
                          IF Granted(r, q, k) # None
                          THEN a.generation[r.output[q][k][kind].track]
                          ELSE r.output[q][k][kind].generation
  BY <1>0, AssignedFields
<1> HIDE DEF a
<1>2. Structure(a, unused)
  BY <1>0, <1>1, ShapeKeeps
<1>3. ASSUME NEW q \in Peers, NEW k \in Pairs, Granted(r, q, k) # None
      PROVE  LET p == Granted(r, q, k) IN
             /\ r.publisher[q][k] = None
             /\ p # q /\ p \in r.present /\ r.streaming[p] /\ r.watched[q][p] # 0
             /\ \A kind \in Media : r.output[q][k][kind].ready
             /\ \A j \in Pairs : r.publisher[q][j] # p
             /\ \A j \in Pairs \ {k} : Granted(r, q, j) # p
  <2>1. k \in FreePairs(r, q) /\ Granted(r, q, k) \in Eligible(r, q)
    BY <1>3, GrantedFacts
  <2>2. \A j \in Pairs \ {k} : Granted(r, q, j) # Granted(r, q, k)
    BY <1>3, GrantedDiffer
  <2> QED
    BY <2>1, <2>2 DEF FreePairs, Eligible
<1>4. PublishersSound(a)
  <2> SUFFICES ASSUME NEW q \in Peers, NEW k \in Pairs, a.publisher[q][k] # None
               PROVE  LET p == a.publisher[q][k] IN
                      /\ p # q /\ p \in a.present /\ a.streaming[p] /\ a.watched[q][p] # 0
                      /\ \A kind \in Media : a.output[q][k][kind].ready
                      /\ \A j \in Pairs \ {k} : a.publisher[q][j] # p
    BY DEF PublishersSound
  <2> DEFINE p == a.publisher[q][k]
  <2>1. /\ p # q /\ p \in r.present /\ r.streaming[p] /\ r.watched[q][p] # 0
        /\ \A kind \in Media : r.output[q][k][kind].ready
    <3>1. CASE Granted(r, q, k) = None
      BY <1>0, <1>1, <3>1 DEF PublishersSound
    <3>2. CASE Granted(r, q, k) # None
      BY <1>1, <1>3, <3>2
    <3> QED
      BY <3>1, <3>2
  <2>2. ASSUME NEW j \in Pairs \ {k}
        PROVE  a.publisher[q][j] # p
    <3>1. CASE Granted(r, q, k) # None
      BY <1>1, <1>3, <3>1
    <3>2. CASE Granted(r, q, k) = None /\ Granted(r, q, j) = None
      BY <1>0, <1>1, <3>2 DEF PublishersSound
    <3>3. CASE Granted(r, q, k) = None /\ Granted(r, q, j) # None
      BY <1>1, <1>3, <3>3
    <3> QED
      BY <3>1, <3>2, <3>3
  <2> QED
    BY <1>1, <2>1, <2>2 DEF SameShape
<1>5. GenerationsPresent(a)
  <2> SUFFICES ASSUME NEW q \in Peers, NEW k \in Pairs, NEW kind \in Media,
                      a.publisher[q][k] # None
               PROVE  a.output[q][k][kind].generation
                        = a.generation[a.output[q][k][kind].track]
    BY DEF GenerationsPresent
  <2>1. a.output[q][k][kind].track = r.output[q][k][kind].track
    BY <1>1 DEF SameShape
  <2>2. a.output[q][k][kind].track \in Tracks /\ a.output[q][k][kind].track # None
    BY <1>1, <1>2, <1>4, BoundPair DEF Structure
  <2>3. CASE Granted(r, q, k) # None
    BY <1>1, <2>1, <2>2, <2>3
  <2>4. CASE Granted(r, q, k) = None
    <3>1. /\ a.output[q][k][kind].generation = r.output[q][k][kind].generation
          /\ r.publisher[q][k] # None
      BY <1>1, <2>1, <2>2, <2>4
    <3>2. a.generation[r.output[q][k][kind].track] = r.generation[r.output[q][k][kind].track]
      <4> DEFINE u == r.output[q][k][kind].track
      <4>1. u \in Tracks /\ u # None
        BY <2>1, <2>2
      <4>2. ASSUME NEW x \in Peers, NEW j \in Pairs, NEW kd \in Media,
                   <<x, j>> \in GrantedPairs(r)
            PROVE  r.output[x][j][kd].track # u
        <5>1. Granted(r, x, j) # None
          BY <4>2 DEF GrantedPairs
        <5>2. r.output[x][j][kd].track = u => x = q /\ j = k
          BY <1>0, <4>1 DEF Structure, TracksDiffer
        <5> QED
          BY <2>4, <5>1, <5>2
      <4>3. \A t \in Tracks : a.generation[t] # r.generation[t] =>
               \E x \in Peers, j \in Pairs, kd \in Media :
                  <<x, j>> \in GrantedPairs(r) /\ kd \in Media /\ r.output[x][j][kd].track = t
        BY <1>1 DEF Bumped
      <4> HIDE DEF u
      <4>4. a.generation[u] = r.generation[u]
        BY ZenonT(30), <4>1, <4>2, <4>3
      <4> QED
        BY <4>4 DEF u
    <3> QED
      BY <1>0, <2>1, <3>1, <3>2 DEF GenerationsPresent
  <2> QED
    BY <2>3, <2>4
<1>6. TargetsCurrent(a, fl, unused, live)
  <2>1. TargetsOutside(r, a, GrantedPairs(r), Media, fl, unused, live)
    <3> SUFFICES ASSUME NEW f \in fl, NEW target \in f.targets
                 PROVE
        /\ target.output \in Tracks \ unused
        /\ target.generation \in Nat
        /\ target.generation <= r.generation[target.output]
        /\ target.generation = r.generation[target.output] =>
              \A q \in Peers, k \in Pairs, kind \in Media :
                  r.output[q][k][kind].track = target.output
                    /\ ~(<<q, k>> \in GrantedPairs(r) /\ kind \in Media) =>
                      /\ a.publisher[q][k] = f.source.publisher
                      /\ kind = f.source.kind
                      /\ (\/ r.input[f.source.publisher][kind] \in live
                          \/ f.source.input \in live)
                            => r.input[f.source.publisher][kind] = f.source.input
      BY DEF TargetsOutside
    <3>1. \A q \in Peers, k \in Pairs : <<q, k>> \notin GrantedPairs(r) =>
             a.publisher[q][k] = r.publisher[q][k]
      BY <1>1 DEF GrantedPairs
    <3>2. /\ target.output \in Tracks \ unused
          /\ target.generation \in Nat
          /\ target.generation <= r.generation[target.output]
          /\ target.generation = r.generation[target.output] =>
              \A q \in Peers, k \in Pairs, kind \in Media :
                  r.output[q][k][kind].track = target.output =>
                      /\ r.publisher[q][k] = f.source.publisher
                      /\ kind = f.source.kind
                      /\ (\/ r.input[f.source.publisher][kind] \in live
                          \/ f.source.input \in live)
                            => r.input[f.source.publisher][kind] = f.source.input
      BY <1>0 DEF TargetsCurrent
    <3> QED
      BY <3>1, <3>2
  <2> QED
    BY <1>0, <1>1, <2>1, BumpKeepsTargets
<1> QED
  BY <1>2, <1>4, <1>5, <1>6 DEF RoomOK, a

\* After the assignment no pair is free or nobody waits for one.
LEMMA AssignWastesNothing ==
    ASSUME NEW r \in Rooms, WatchesDiffer(r), AbsentHaveNothing(r), OutputsWellFormed(r),
           alive \subseteq Tracks, NEW q \in Peers,
           FreePairs(Assigned(r), q) # {}
    PROVE  Eligible(Assigned(r), q) = {}
<1> DEFINE a == Assigned(r)
           free == FreePairs(r, q)
           at == [x \in Pairs |-> x]
           eligible == Eligible(r, q)
           w == r.watched[q]
<1>1. /\ a \in Rooms /\ SameShape(r, a)
      /\ \A x \in Peers, k \in Pairs :
                 /\ Granted(r, x, k) = None => a.publisher[x][k] = r.publisher[x][k]
                 /\ Granted(r, x, k) # None => a.publisher[x][k] = Granted(r, x, k)
  BY AssignedFields
<1>2. PICK k \in Pairs : k \in FreePairs(a, q)
  BY DEF FreePairs
<1> HIDE DEF a
<1>3. /\ k \in free /\ Granted(r, q, k) = None
  <2>1. /\ a.publisher[q][k] = None
        /\ \A kind \in Media : /\ r.output[q][k][kind].ready
                               /\ r.output[q][k][kind].track \in alive
    BY <1>1, <1>2 DEF FreePairs, SameShape
  <2> QED
    BY <1>1, <2>1 DEF FreePairs
<1>4. q \in r.present
  <2>1. "video" \in Media
    BY DEF Media
  <2>2. r.output[q][k]["video"].track # None
    BY <1>3, <2>1, ScreenConstants DEF FreePairs
  <2> QED
    BY <2>1, <2>2 DEF AbsentHaveNothing
<1> SUFFICES ASSUME NEW p \in Eligible(a, q) PROVE FALSE
  BY DEF a
<1>5. p \in eligible
  <2>1. ASSUME NEW j \in Pairs PROVE r.publisher[q][j] # p
    <3>1. a.publisher[q][j] # p
      BY DEF Eligible
    <3>2. CASE Granted(r, q, j) = None
      BY <1>1, <3>1, <3>2
    <3>3. CASE Granted(r, q, j) # None
      <4>1. r.publisher[q][j] = None
        BY <3>3, GrantedFacts DEF FreePairs
      <4>2. p \in Peers
        BY <1>1, RoomTypes DEF Eligible
      <4> QED
        BY <4>1, <4>2, ScreenConstants
    <3> QED
      BY <3>2, <3>3
  <2>2. p \in r.present /\ r.watched[q][p] # 0 /\ p # q /\ r.streaming[p]
        /\ r.input[p]["video"] \in alive
    BY <1>1 DEF Eligible, SameShape
  <2> QED
    BY <2>1, <2>2 DEF Eligible
<1>6. /\ IsFiniteSet(free)
      /\ \A x \in free : at[x] \in Nat
      /\ \A x, y \in free : at[x] = at[y] => x = y
  <2>1. IsFiniteSet(free)
    BY PairsFinite, FS_Subset DEF FreePairs
  <2>2. free \subseteq Pairs /\ \A x \in Pairs : at[x] = x /\ x \in Nat
    BY DEF FreePairs, Pairs
  <2> QED
    BY <2>1, <2>2
<1>7. /\ IsFiniteSet(eligible) /\ None \notin eligible
      /\ \A x \in eligible : w[x] \in Nat
      /\ \A x, y \in eligible : w[x] = w[y] => x = y
  <2>1. eligible \subseteq Peers
    BY RoomTypes DEF Eligible
  <2>2. \A x \in eligible : w[x] \in Nat /\ w[x] # 0
    BY <2>1, RoomTypes DEF Eligible
  <2>3. \A x, y \in eligible : w[x] = w[y] => x = y
    BY <2>1, <2>2 DEF WatchesDiffer
  <2> HIDE DEF eligible, w
  <2> QED
    BY <2>1, <2>2, <2>3, ScreenConstants, FS_Subset
<1>8. \A x \in free : Granted(r, q, x) = Grant(free, at, eligible, w, x)
  BY <1>4 DEF Granted
<1> HIDE DEF free, at, eligible, w
<1>9. PICK j \in free : Grant(free, at, eligible, w, j) = p
  BY <1>3, <1>5, <1>6, <1>7, <1>8, GrantMaximal
<1>10. j \in Pairs /\ Granted(r, q, j) = p /\ p # None
  BY <1>5, <1>7, <1>8, <1>9 DEF free, FreePairs
<1>11. a.publisher[q][j] = p
  BY <1>1, <1>10
<1> QED
  BY <1>10, <1>11 DEF Eligible

-----------------------------------------------------------------------------
(***************************************************************************)
(* The notices of a set of pairs.                                          *)
(***************************************************************************)
LEMMA NoticesOfFacts ==
    ASSUME NEW r, NEW xs \in SUBSET (Peers \X Pairs)
    PROVE  /\ \A n \in NoticesOf(r, xs) :
                 \E q \in Peers, k \in Pairs, kind \in Media :
                    /\ <<q, k>> \in xs /\ r.output[q][k][kind].ready
                    /\ n = NoticeFor(r, q, k, kind)
           /\ \A q \in Peers, k \in Pairs, kind \in Media :
                 <<q, k>> \in xs /\ r.output[q][k][kind].ready =>
                    NoticeFor(r, q, k, kind) \in NoticesOf(r, xs)
<1>1. ASSUME NEW q, NEW k
      PROVE  PairNotices(r, q, k) =
               {NoticeFor(r, q, k, kind) : kind \in {kd \in Media : r.output[q][k][kd].ready}}
  BY DEF PairNotices, NoticeFor, VideoOf
<1>2. ASSUME NEW n \in NoticesOf(r, xs)
      PROVE  \E q \in Peers, k \in Pairs, kind \in Media :
                    /\ <<q, k>> \in xs /\ r.output[q][k][kind].ready
                    /\ n = NoticeFor(r, q, k, kind)
  <2>1. PICK x \in xs : n \in PairNotices(r, x[1], x[2])
    BY DEF NoticesOf
  <2>2. PICK kind \in Media : /\ r.output[x[1]][x[2]][kind].ready
                              /\ n = NoticeFor(r, x[1], x[2], kind)
    BY <1>1, <2>1
  <2>3. x[1] \in Peers /\ x[2] \in Pairs /\ x = <<x[1], x[2]>>
    OBVIOUS
  <2> QED
    BY <2>2, <2>3
<1>3. ASSUME NEW q \in Peers, NEW k \in Pairs, NEW kind \in Media,
             <<q, k>> \in xs, r.output[q][k][kind].ready
      PROVE  NoticeFor(r, q, k, kind) \in NoticesOf(r, xs)
  <2>1. NoticeFor(r, q, k, kind) \in PairNotices(r, q, k)
    BY <1>1, <1>3
  <2>2. PICK x \in xs : x = <<q, k>>
    BY <1>3
  <2>3. x[1] = q /\ x[2] = k
    BY <2>2
  <2>4. PairNotices(r, x[1], x[2]) \in {PairNotices(r, y[1], y[2]) : y \in xs}
    OBVIOUS
  <2> QED
    BY <2>1, <2>3, <2>4 DEF NoticesOf
<1> QED
  BY <1>2, <1>3

\* What a notice says is what the pair carries when the notice is made.
LEMMA NoticeFields ==
    ASSUME NEW r, NEW q, NEW k, NEW kind
    PROVE  LET n == NoticeFor(r, q, k, kind) IN
           /\ n.to = q /\ n.mid = r.output[q][k][kind].mid
           /\ n.publisher = r.publisher[q][k]
           /\ n.output = r.output[q][k][kind].track
           /\ n.publisher_video = VideoOf(r, r.publisher[q][k])
BY DEF NoticeFor

\* An output that is ready has a track, and a mid of its own kind.
LEMMA ReadyOutput ==
    ASSUME NEW r \in Rooms, OutputsWellFormed(r),
           NEW q \in Peers, NEW k \in Pairs, NEW kind \in Media,
           r.output[q][k][kind].ready
    PROVE  /\ r.output[q][k][kind].track \in Tracks
           /\ r.output[q][k][kind].track # None
           /\ r.output[q][k][kind].mid \in Mids
           /\ r.output[q][k][kind].mid # None
           /\ MediaOf(r.output[q][k][kind].mid) = kind
<1>1. r.output[q][k][kind].track # None
  BY DEF OutputsWellFormed
<1>2. r.output[q][k][kind].mid # None
  BY <1>1 DEF OutputsWellFormed
<1>3. MediaOf(r.output[q][k][kind].mid) = kind
  BY <1>2 DEF OutputsWellFormed
<1> QED
  BY <1>1, <1>2, <1>3, OutputTypes

\* append_pair_notices makes notices.
LEMMA NoticesType ==
    ASSUME NEW r \in Rooms, OutputsWellFormed(r), NEW xs \in SUBSET (Peers \X Pairs)
    PROVE  NoticesOf(r, xs) \in SUBSET Notices
<1> SUFFICES ASSUME NEW n \in NoticesOf(r, xs) PROVE n \in Notices
  OBVIOUS
<1>1. PICK q \in Peers, k \in Pairs, kind \in Media :
         r.output[q][k][kind].ready /\ n = NoticeFor(r, q, k, kind)
  BY NoticesOfFacts
<1>2. /\ r.output[q][k][kind].track \in Tracks /\ r.output[q][k][kind].mid \in Mids
      /\ r.publisher[q][k] \in Peers \cup {None}
  BY <1>1, ReadyOutput, OutputTypes
<1>3. VideoOf(r, r.publisher[q][k]) \in Tracks \cup {None}
  <2>1. "video" \in Media
    BY DEF Media
  <2> QED
    BY <1>2, <2>1, RoomTypes DEF VideoOf
<1> QED
  BY <1>1, <1>2, <1>3 DEF NoticeFor, Notices

(***************************************************************************)
(* The common end of the operations.                                       *)
(***************************************************************************)
LEMMA ChangeKeepsInv ==
    ASSUME TypeOK, ~closed, NEW r, NEW first \in SUBSET Notices,
           RoomOK(r, flights, fresh', alive), AssignAndPublish(r, first),
           fresh' \subseteq Tracks, left' \subseteq Peers, commands' \in Nat,
           installing' = None, sent' = None,
           UNCHANGED <<shutdown, media, alive>>
    PROVE  IInv' /\ NoPairWasted'
<1> USE DEF shutdown, media
<1>0. alive \subseteq Tracks /\ flights \subseteq Flights
  BY DEF TypeOK
<1>1. room' = Assigned(r)
  BY DEF AssignAndPublish
<1>2. RoomOK(room', flights', fresh', alive')
  BY <1>0, <1>1, AssignKeepsRoom
<1>3. room' \in Rooms /\ OutputsWellFormed(room')
  BY <1>2 DEF RoomOK, Structure
<1>4. pending' \in [first : SUBSET Notices, second : SUBSET Notices]
  <2>1. GrantedPairs(r) \in SUBSET (Peers \X Pairs)
    BY DEF GrantedPairs
  <2>2. NoticesOf(room', GrantedPairs(r)) \in SUBSET Notices
    BY <1>3, <2>1, NoticesType
  <2> QED
    BY <2>2 DEF AssignAndPublish
<1>5. TypeOK'
  BY <1>3, <1>4 DEF TypeOK, AssignAndPublish
<1>6. IInv'
  BY <1>2, <1>5 DEF IInv, InstallationOpen, RoomOK, Structure, WatchesDiffer,
     AbsentHaveNothing, OutputsWellFormed, TracksDiffer, PublishersSound,
     GenerationsPresent, TargetsCurrent
<1>7. ASSUME NEW q \in Peers
      PROVE  (FreePairs(room, q) # {} => Eligible(room, q) = {})'
  <2>1. /\ r \in Rooms /\ WatchesDiffer(r) /\ AbsentHaveNothing(r) /\ OutputsWellFormed(r)
    BY DEF RoomOK, Structure
  <2>2. FreePairs(Assigned(r), q) # {} => Eligible(Assigned(r), q) = {}
    BY <1>0, <2>1, AssignWastesNothing
  <2> QED
    BY <1>1, <2>2 DEF FreePairs, Eligible
<1> QED
  BY <1>6, <1>7 DEF NoPairWasted

\* Corrected of the next state, from what it says of the next tables.
LEMMA CorrectedThen ==
    ASSUME NEW r, room' = r,
           \A n \in pending'.first : \E k \in Pairs :
              /\ Addressed(r, n, k, fresh')
              /\ \/ Right(r, n, k)
                 \/ NoticeFor(r, n.to, k, MediaOf(n.mid)) \in pending'.second
    PROVE  ChangedAreCorrected'
<1>1. \A n \in pending'.first : \E k \in Pairs :
         /\ Addressed(room', n, k, fresh')
         /\ \/ Right(room', n, k)
            \/ NoticeFor(room', n.to, k, MediaOf(n.mid)) \in pending'.second
  OBVIOUS
<1> QED
  BY <1>1 DEF ChangedAreCorrected, Addressed, Right, NoticeFor, VideoOf

(***************************************************************************)
(* What the change and the assignment did, their notices make known.       *)
(***************************************************************************)
LEMMA ChangeIsAnnounced ==
    ASSUME TypeOK, NEW r, NEW first \in SUBSET Notices, Structure(r, fresh'),
           AssignAndPublish(r, first), Announced(r, first, fresh', left'),
           resetting = {}, \A t \in fresh' : handler[t] = None,
           installing' = None, UNCHANGED <<shutdown, alive>>
    PROVE  NoticesInv'
<1> DEFINE a == Assigned(r)
           xs == GrantedPairs(r)
           second == NoticesOf(a, xs)
<1>0. /\ r \in Rooms /\ OutputsWellFormed(r) /\ alive \subseteq Tracks
      /\ xs \in SUBSET (Peers \X Pairs)
  BY DEF TypeOK, Structure, GrantedPairs
<1>1. /\ room' = a /\ pending'.first = first /\ pending'.second = second
      /\ told' = told /\ handler' = handler
      /\ alive' = alive /\ resetting' = resetting /\ closed' = closed
  BY DEF AssignAndPublish, shutdown
<1>2. /\ a \in Rooms /\ SameShape(r, a)
      /\ \A q \in Peers, k \in Pairs :
            Granted(r, q, k) = None => a.publisher[q][k] = r.publisher[q][k]
  BY <1>0, AssignedFields
<1>3. ASSUME NEW q \in Peers, NEW k \in Pairs
      PROVE  \/ a.publisher[q][k] = r.publisher[q][k]
             \/ \A kind \in Media : NoticeFor(a, q, k, kind) \in second
  <2> SUFFICES ASSUME Granted(r, q, k) # None, NEW kind \in Media
               PROVE  NoticeFor(a, q, k, kind) \in second
    BY <1>2
  <2>1. k \in FreePairs(r, q) /\ <<q, k>> \in xs
    BY GrantedFacts DEF GrantedPairs
  <2>2. a.output[q][k][kind].ready
    BY <1>2, <2>1 DEF SameShape, FreePairs
  <2> QED
    BY <1>0, <2>1, <2>2, NoticesOfFacts
<1>4. Structure(a, fresh')
  BY <1>2, ShapeKeeps
<1>5. ASSUME NEW n \in second
      PROVE  \E k \in Pairs : /\ a.output[n.to][k][MediaOf(n.mid)].mid = n.mid
                              /\ n = NoticeFor(a, n.to, k, MediaOf(n.mid))
  <2>1. PICK q \in Peers, k \in Pairs, kind \in Media :
           a.output[q][k][kind].ready /\ n = NoticeFor(a, q, k, kind)
    BY <1>0, NoticesOfFacts
  <2>2. n.to = q /\ n.mid = a.output[q][k][kind].mid
    BY <2>1, NoticeFields
  <2>3. MediaOf(n.mid) = kind
    BY <1>2, <1>4, <2>1, <2>2, ReadyOutput DEF Structure
  <2> QED
    BY <2>1, <2>2, <2>3
<1>6. ASSUME NEW q \in Peers, NEW k \in Pairs, NEW kind \in Media
      PROVE  /\ a.output[q][k][kind].mid = r.output[q][k][kind].mid
             /\ a.output[q][k][kind].track = r.output[q][k][kind].track
             /\ a.input = r.input
             /\ a.publisher[q][k] = r.publisher[q][k] =>
                   NoticeFor(a, q, k, kind) = NoticeFor(r, q, k, kind)
  BY <1>2 DEF SameShape, NoticeFor, VideoOf
<1> HIDE DEF a, second, xs
<1>7. AssignedAreRight'
  BY <1>1, <1>5 DEF AssignedAreRight, NoticeFor, VideoOf
<1>8. ChangedAreCorrected'
  <2> SUFFICES ASSUME NEW n \in first
               PROVE  \E k \in Pairs :
                        /\ Addressed(a, n, k, fresh')
                        /\ \/ Right(a, n, k)
                           \/ NoticeFor(a, n.to, k, MediaOf(n.mid)) \in second
    BY <1>1, CorrectedThen
  <2>1. n.to \in Peers /\ MediaOf(n.mid) \in Media
    BY DEF Notices, MediaOf, Media
  <2>2. PICK k \in Pairs : Addressed(r, n, k, fresh') /\ Right(r, n, k)
    BY DEF Announced
  <2>3. Addressed(a, n, k, fresh')
    BY <1>6, <2>1, <2>2 DEF Addressed
  <2>4. a.publisher[n.to][k] = r.publisher[n.to][k] => Right(a, n, k)
    BY <1>6, <2>1, <2>2 DEF Right, VideoOf
  <2> QED
    BY <1>3, <2>1, <2>3, <2>4
<1>9. SubscribersDue'
  <2> SUFFICES ASSUME NEW q \in Peers \ left', NEW k \in Pairs, NEW kind \in Media,
                      a.output[q][k][kind].mid # None
               PROVE  \/ told[q][a.output[q][k][kind].mid] = a.publisher[q][k]
                      \/ \E n \in first \cup second :
                            /\ n.to = q /\ n.mid = a.output[q][k][kind].mid
                            /\ n.publisher = a.publisher[q][k]
    BY <1>1 DEF SubscribersDue
  <2>1. CASE a.publisher[q][k] = r.publisher[q][k]
    BY <1>6, <2>1 DEF Announced
  <2>2. CASE NoticeFor(a, q, k, kind) \in second
    BY <2>2, NoticeFields
  <2> QED
    BY <1>3, <2>1, <2>2
<1>10. OthersUntold(room, left)'
  <2> SUFFICES ASSUME NEW q \in Peers \ left', NEW m \in Mids,
                      \A k \in Pairs, kind \in Media : a.output[q][k][kind].mid # m
               PROVE  told[q][m] = None
    BY <1>1 DEF OthersUntold
  <2> QED
    BY <1>6 DEF Announced, OthersUntold
<1>11. ReportersDue'
  <2> SUFFICES ASSUME NEW q \in Peers, NEW k \in Pairs,
                      a.output[q][k]["video"].track \in alive
               PROVE  \/ handler[a.output[q][k]["video"].track] = Reporter(a, a.publisher[q][k])
                      \/ NoticeFor(a, q, k, "video") \in first \cup second
    BY <1>1 DEF ReportersDue, NoticeFor, VideoOf, Reporter
  <2>0. "video" \in Media
    BY DEF Media
  <2>1. CASE a.publisher[q][k] = r.publisher[q][k]
    <3>1. /\ NoticeFor(a, q, k, "video") = NoticeFor(r, q, k, "video")
          /\ a.output[q][k]["video"].track = r.output[q][k]["video"].track
          /\ Reporter(a, a.publisher[q][k]) = Reporter(r, r.publisher[q][k])
      BY <1>6, <2>0, <2>1 DEF Reporter
    <3> QED
      BY <3>1 DEF Announced
  <2> QED
    BY <1>3, <2>0, <2>1
<1> QED
  BY <1>1, <1>7, <1>8, <1>9, <1>10, <1>11 DEF NoticesInv

\* While publish_mutex is free everybody knows, and every reporter fits.
KnownOutside(r, xs, gone) ==
    /\ \A q \in Peers \ gone, k \in Pairs, kind \in Media :
          r.output[q][k][kind].mid # None /\ <<q, k>> \notin xs =>
             told[q][r.output[q][k][kind].mid] = r.publisher[q][k]
    /\ OthersUntold(r, gone)
    /\ \A q \in Peers, k \in Pairs :
          r.output[q][k]["video"].track \in alive /\ <<q, k>> \notin xs =>
             handler[r.output[q][k]["video"].track] = Reporter(r, r.publisher[q][k])

\* When nothing is published or installed, subscribers know what they carry.
LEMMA NothingDue ==
    ASSUME NoticesInv, ~closed, ~busy
    PROVE  KnownOutside(room, {}, left)
<1>1. pending.first = {} /\ pending.second = {} /\ installing = None
  BY DEF busy, publishing, NoNotices
<1> QED
  BY <1>1 DEF NoticesInv, SubscribersDue, ReportersDue, KnownOutside

\* It is enough to announce the pairs that changed.
LEMMA NoticesAnnounce ==
    ASSUME NEW b \in Rooms, NEW unused, NEW gone, OutputsWellFormed(b), TracksDiffer(b, unused),
           NEW xs \in SUBSET (Peers \X Pairs), KnownOutside(b, xs, gone),
           \A q \in Peers, k \in Pairs, kind \in Media :
              <<q, k>> \in xs => b.output[q][k][kind].ready
    PROVE  Announced(b, NoticesOf(b, xs), unused, gone)
<1> DEFINE first == NoticesOf(b, xs)
<1>1. ASSUME NEW n \in first
      PROVE  \E k \in Pairs : Addressed(b, n, k, unused) /\ Right(b, n, k)
  <2>1. PICK q \in Peers, k \in Pairs, kind \in Media :
           b.output[q][k][kind].ready /\ n = NoticeFor(b, q, k, kind)
    BY NoticesOfFacts
  <2>2. /\ n.to = q /\ n.mid = b.output[q][k][kind].mid
        /\ n.publisher = b.publisher[q][k] /\ n.output = b.output[q][k][kind].track
        /\ n.publisher_video = VideoOf(b, b.publisher[q][k])
    BY <2>1, NoticeFields
  <2>3. MediaOf(n.mid) = kind /\ n.output # None
    BY <2>1, <2>2, ReadyOutput
  <2>4. n.output \notin unused
    BY <2>2, <2>3 DEF TracksDiffer
  <2> QED
    BY <2>2, <2>3, <2>4 DEF Addressed, Right
<1>2. \A q \in Peers, k \in Pairs, kind \in Media :
         <<q, k>> \in xs => NoticeFor(b, q, k, kind) \in first
  BY NoticesOfFacts
<1>3. "video" \in Media
  BY DEF Media
<1> HIDE DEF first
<1>4. ASSUME NEW q \in Peers \ gone, NEW k \in Pairs, NEW kind \in Media,
             b.output[q][k][kind].mid # None
      PROVE  \/ told[q][b.output[q][k][kind].mid] = b.publisher[q][k]
             \/ \E n \in first : /\ n.to = q /\ n.mid = b.output[q][k][kind].mid
                                 /\ n.publisher = b.publisher[q][k]
  <2>1. CASE <<q, k>> \in xs
    BY <1>2, <2>1, NoticeFields
  <2>2. CASE <<q, k>> \notin xs
    BY <1>4, <2>2 DEF KnownOutside
  <2> QED
    BY <2>1, <2>2
<1>5. ASSUME NEW q \in Peers, NEW k \in Pairs, b.output[q][k]["video"].track \in alive
      PROVE  \/ handler[b.output[q][k]["video"].track] = Reporter(b, b.publisher[q][k])
             \/ NoticeFor(b, q, k, "video") \in first
  BY <1>2, <1>3, <1>5 DEF KnownOutside
<1>6. OthersUntold(b, gone)
  BY DEF KnownOutside
<1> QED
  BY <1>1, <1>4, <1>5, <1>6 DEF Announced, first

-----------------------------------------------------------------------------
(***************************************************************************)
(* clear_pair_locked: pairs may be released whatever they carry, and what  *)
(* the others carry has to be sound.                                       *)
(***************************************************************************)
SoundOutside(r, xs) ==
    \A q \in Peers, k \in Pairs : r.publisher[q][k] # None /\ <<q, k>> \notin xs =>
        /\ r.publisher[q][k] # q
        /\ r.publisher[q][k] \in r.present
        /\ r.streaming[r.publisher[q][k]]
        /\ r.watched[q][r.publisher[q][k]] # 0
        /\ \A j \in Pairs \ {k} : r.publisher[q][j] # r.publisher[q][k]
        /\ \A kind \in Media :
              /\ r.output[q][k][kind].ready
              /\ r.output[q][k][kind].generation = r.generation[r.output[q][k][kind].track]

\* An output that is not among those given a new generation keeps its own.
LEMMA OthersKeepGeneration ==
    ASSUME NEW r \in Rooms, NEW b, NEW xs, NEW kinds, NEW unused,
           Bumped(r, b, xs, kinds), TracksDiffer(r, unused),
           NEW q \in Peers, NEW k \in Pairs, NEW kind \in Media,
           ~(<<q, k>> \in xs /\ kind \in kinds),
           r.output[q][k][kind].track \in Tracks, r.output[q][k][kind].track # None
    PROVE  b.generation[r.output[q][k][kind].track] = r.generation[r.output[q][k][kind].track]
<1> DEFINE u == r.output[q][k][kind].track
<1>1. \A x \in Peers, j \in Pairs, kd \in Media : r.output[x][j][kd].track = u =>
         x = q /\ j = k /\ kd = kind
  BY DEF TracksDiffer
<1>2. \A t \in Tracks : b.generation[t] # r.generation[t] =>
         \E x \in Peers, j \in Pairs, kd \in Media :
            <<x, j>> \in xs /\ kd \in kinds /\ r.output[x][j][kd].track = t
  BY DEF Bumped
<1>3. u \in Tracks
  OBVIOUS
<1>4. ASSUME NEW x \in Peers, NEW j \in Pairs, NEW kd \in Media,
             <<x, j>> \in xs, kd \in kinds
      PROVE  r.output[x][j][kd].track # u
  BY <1>1, <1>4
<1> HIDE DEF u
<1>5. b.generation[u] = r.generation[u]
  BY ZenonT(30), <1>2, <1>3, <1>4
<1> QED
  BY <1>5 DEF u

\* A room that is sound but for these pairs is sound once they are released.
LEMMA ClearKeepsRoom ==
    ASSUME NEW r, NEW xs \in SUBSET (Peers \X Pairs), NEW fl, NEW unused, NEW live,
           Structure(r, unused), SoundOutside(r, xs),
           TargetsOutside(r, r, xs, Media, fl, unused, live)
    PROVE  RoomOK(Cleared(r, xs), fl, unused, live)
<1> DEFINE b == Cleared(r, xs)
<1>0. r \in Rooms /\ OutputsWellFormed(r) /\ TracksDiffer(r, unused)
  BY DEF Structure
<1>1. /\ b \in Rooms /\ SameShape(r, b) /\ Bumped(r, b, xs, Media)
      /\ \A q \in Peers, k \in Pairs :
            /\ <<q, k>> \in xs => b.publisher[q][k] = None
            /\ <<q, k>> \notin xs => /\ b.publisher[q][k] = r.publisher[q][k]
                                     /\ b.output[q][k] = r.output[q][k]
  BY <1>0, ClearedFields
<1> HIDE DEF b
<1>2. Structure(b, unused)
  BY <1>1, ShapeKeeps
<1>3. PublishersSound(b)
  <2> SUFFICES ASSUME NEW q \in Peers, NEW k \in Pairs, b.publisher[q][k] # None
               PROVE  LET p == b.publisher[q][k] IN
                      /\ p # q /\ p \in b.present /\ b.streaming[p] /\ b.watched[q][p] # 0
                      /\ \A kind \in Media : b.output[q][k][kind].ready
                      /\ \A j \in Pairs \ {k} : b.publisher[q][j] # p
    BY DEF PublishersSound
  <2>1. <<q, k>> \notin xs /\ b.publisher[q][k] = r.publisher[q][k]
    BY <1>1
  <2>2. \A j \in Pairs : b.publisher[q][j] = None \/ b.publisher[q][j] = r.publisher[q][j]
    BY <1>1
  <2> QED
    BY <1>1, <2>1, <2>2 DEF SoundOutside, SameShape
<1>4. GenerationsPresent(b)
  <2> SUFFICES ASSUME NEW q \in Peers, NEW k \in Pairs, NEW kind \in Media,
                      b.publisher[q][k] # None
               PROVE  b.output[q][k][kind].generation
                        = b.generation[b.output[q][k][kind].track]
    BY DEF GenerationsPresent
  <2> DEFINE u == r.output[q][k][kind].track
  <2>1. /\ <<q, k>> \notin xs /\ r.publisher[q][k] # None
        /\ b.output[q][k][kind] = r.output[q][k][kind]
    BY <1>1
  <2>2. r.output[q][k][kind].ready /\ r.output[q][k][kind].generation = r.generation[u]
    BY <2>1 DEF SoundOutside
  <2>3. u \in Tracks /\ u # None
    BY <1>0, <2>2, ReadyOutput
  <2>4. b.generation[u] = r.generation[u]
    <3>1. Bumped(r, b, xs, Media) /\ ~(<<q, k>> \in xs /\ kind \in Media)
      BY <1>1, <2>1
    <3> QED
      BY <1>0, <2>3, <3>1, OthersKeepGeneration
  <2> QED
    BY <2>1, <2>2, <2>4
<1>5. TargetsOutside(r, b, xs, Media, fl, unused, live)
  BY <1>1 DEF TargetsOutside
<1>6. TargetsCurrent(b, fl, unused, live)
  BY <1>0, <1>1, <1>5, BumpKeepsTargets
<1> QED
  BY <1>2, <1>3, <1>4, <1>6 DEF RoomOK, b

\* Notices of the released pairs are all there is to announce.
LEMMA ClearIsAnnounced ==
    ASSUME NEW r, NEW xs \in SUBSET (Peers \X Pairs), NEW unused, NEW gone,
           Structure(r, unused), KnownOutside(r, xs, gone),
           \A q \in Peers, k \in Pairs, kind \in Media :
              <<q, k>> \in xs => r.output[q][k][kind].ready
    PROVE  Announced(Cleared(r, xs), NoticesOf(Cleared(r, xs), xs), unused, gone)
<1> DEFINE b == Cleared(r, xs)
<1>0. r \in Rooms
  BY DEF Structure
<1>1. /\ b \in Rooms /\ SameShape(r, b)
      /\ \A q \in Peers, k \in Pairs :
            <<q, k>> \notin xs => b.publisher[q][k] = r.publisher[q][k]
  BY <1>0, ClearedFields
<1> HIDE DEF b
<1>2. OutputsWellFormed(b) /\ TracksDiffer(b, unused)
  BY <1>1, ShapeKeeps DEF Structure
<1>3. \A q \in Peers, k \in Pairs, kind \in Media :
         /\ b.output[q][k][kind].mid = r.output[q][k][kind].mid
         /\ b.output[q][k][kind].track = r.output[q][k][kind].track
         /\ b.output[q][k][kind].ready = r.output[q][k][kind].ready
         /\ b.input = r.input
  BY <1>1 DEF SameShape
<1>4. ASSUME NEW q \in Peers \ gone, NEW k \in Pairs, NEW kind \in Media,
             b.output[q][k][kind].mid # None, <<q, k>> \notin xs
      PROVE  told[q][b.output[q][k][kind].mid] = b.publisher[q][k]
  <2>1. /\ b.output[q][k][kind].mid = r.output[q][k][kind].mid
        /\ b.publisher[q][k] = r.publisher[q][k]
    BY <1>1, <1>3, <1>4
  <2>2. told[q][r.output[q][k][kind].mid] = r.publisher[q][k]
    BY <1>4, <2>1 DEF KnownOutside
  <2> QED
    BY <2>1, <2>2
<1>5. OthersUntold(b, gone)
  BY <1>3 DEF KnownOutside, OthersUntold
<1>6. ASSUME NEW q \in Peers, NEW k \in Pairs,
             b.output[q][k]["video"].track \in alive, <<q, k>> \notin xs
      PROVE  handler[b.output[q][k]["video"].track] = Reporter(b, b.publisher[q][k])
  <2>1. /\ b.output[q][k]["video"].track = r.output[q][k]["video"].track
        /\ Reporter(b, b.publisher[q][k]) = Reporter(r, r.publisher[q][k])
    BY <1>1, <1>3, <1>6 DEF Reporter, Media
  <2> QED
    BY <1>6, <2>1 DEF KnownOutside
<1>7. KnownOutside(b, xs, gone)
  BY <1>4, <1>5, <1>6 DEF KnownOutside
<1>8. \A q \in Peers, k \in Pairs, kind \in Media :
         <<q, k>> \in xs => b.output[q][k][kind].ready
  BY <1>3
<1> QED
  BY <1>1, <1>2, <1>7, <1>8, NoticesAnnounce DEF b

\* r, of which the pairs xs are to be released, is a room in other respects.
Releasable(r, xs, fl, unused, live) ==
    /\ xs \in SUBSET (Peers \X Pairs)
    /\ Structure(r, unused)
    /\ SoundOutside(r, xs)
    /\ TargetsOutside(r, r, xs, Media, fl, unused, live)
    /\ \A q \in Peers, k \in Pairs, kind \in Media :
          <<q, k>> \in xs => r.output[q][k][kind].ready

\* The operations that release pairs and then assign.
LEMMA ReleaseInv ==
    ASSUME IInv, ~closed, NEW r, NEW xs, Releasable(r, xs, flights, fresh, alive),
           AssignAndPublish(Cleared(r, xs), NoticesOf(Cleared(r, xs), xs)),
           NoticesInv => KnownOutside(r, xs, left'),
           fresh' = fresh, left' \subseteq Peers, commands' \in Nat,
           installing' = None, sent' = None, UNCHANGED <<shutdown, media, alive>>
    PROVE  IInv' /\ NoPairWasted' /\ (NoticesInv => NoticesInv')
<1> DEFINE b == Cleared(r, xs)
           first == NoticesOf(b, xs)
<1>0. /\ xs \in SUBSET (Peers \X Pairs) /\ Structure(r, fresh) /\ SoundOutside(r, xs)
      /\ TargetsOutside(r, r, xs, Media, flights, fresh, alive)
      /\ \A q \in Peers, k \in Pairs, kind \in Media :
            <<q, k>> \in xs => r.output[q][k][kind].ready
  BY DEF Releasable
<1>1. RoomOK(b, flights, fresh', alive)
  BY <1>0, ClearKeepsRoom
<1>2. first \in SUBSET Notices
  BY <1>0, <1>1, NoticesType DEF RoomOK, Structure
<1>3. TypeOK /\ fresh' \subseteq Tracks
  BY DEF IInv, TypeOK
<1>4. NoticesInv => Announced(b, first, fresh', left')
  BY <1>0, ClearIsAnnounced
<1>5. AssignAndPublish(b, first)
  OBVIOUS
<1>6. Structure(b, fresh')
  BY <1>1 DEF RoomOK
<1>7. NoticesInv => resetting = {} /\ \A t \in fresh' : handler[t] = None
  BY DEF NoticesInv
<1> HIDE DEF b, first
<1>8. IInv' /\ NoPairWasted'
  BY <1>1, <1>2, <1>3, <1>5, ChangeKeepsInv
<1>9. NoticesInv => NoticesInv'
  BY <1>2, <1>3, <1>4, <1>5, <1>6, <1>7, ChangeIsAnnounced
<1> QED
  BY <1>8, <1>9

-----------------------------------------------------------------------------
(***************************************************************************)
(* The operations, one by one.                                             *)
(***************************************************************************)
LEMMA JoinedFields ==
    ASSUME NEW r \in Rooms, NEW p \in Peers
    PROVE  LET b == WithPeer(r, p) IN
           /\ b \in Rooms
           /\ b.present = r.present \cup {p} /\ b.input = r.input
           /\ b.streaming = r.streaming /\ b.watched = r.watched
           /\ b.next_watch = r.next_watch /\ b.output = r.output
           /\ b.publisher = r.publisher /\ b.generation = r.generation
BY DEF WithPeer, Rooms

\* What a pair carries and what was told of it depend on these fields only.
SameMedia(r, b) ==
    b.output = r.output /\ b.publisher = r.publisher /\ b.input = r.input

\* Announced of the next state, from what it says of the next tables.
LEMMA AnnouncedThen ==
    ASSUME NEW first, Announced(room', first, fresh', left'),
           told' = told, handler' = handler, alive' = alive, installing'.notices = first
    PROVE  Announced(room, installing.notices, fresh, left)'
<1>1. (\A n \in installing.notices : \E k \in Pairs :
          Addressed(room, n, k, fresh) /\ Right(room, n, k))'
  BY DEF Announced, Addressed, Right, VideoOf
<1>2. (\A q \in Peers \ left, k \in Pairs, kind \in Media :
          room.output[q][k][kind].mid # None =>
             \/ told[q][room.output[q][k][kind].mid] = room.publisher[q][k]
             \/ \E n \in installing.notices :
                   /\ n.to = q /\ n.mid = room.output[q][k][kind].mid
                   /\ n.publisher = room.publisher[q][k])'
  BY DEF Announced
<1>3. OthersUntold(room, left)'
  BY DEF Announced, OthersUntold
<1>4. (\A q \in Peers, k \in Pairs : room.output[q][k]["video"].track \in alive =>
          \/ handler[room.output[q][k]["video"].track]
                = Reporter(room, room.publisher[q][k])
          \/ NoticeFor(room, q, k, "video") \in installing.notices)'
  BY DEF Announced, Reporter, NoticeFor, VideoOf
<1> QED
  BY <1>1, <1>2, <1>3, <1>4 DEF Announced

\* A step that touches none of these leaves what is due as it is.
LEMMA NoticesKept ==
    ASSUME NoticesInv, SameMedia(room, room'), closed' = closed, resetting' = resetting,
           installing' = installing, pending' = pending, told' = told, handler' = handler,
           fresh' = fresh, alive' = alive, left' = left
    PROVE  NoticesInv'
<1> USE DEF SameMedia
<1>1. \A q, k, kind : NoticeFor(room', q, k, kind) = NoticeFor(room, q, k, kind)
  BY DEF NoticeFor, VideoOf
<1>2. \A n, k : /\ Addressed(room', n, k, fresh') <=> Addressed(room, n, k, fresh)
                /\ Right(room', n, k) <=> Right(room, n, k)
  BY DEF Addressed, Right, VideoOf
<1>3. \A p : Reporter(room', p) = Reporter(room, p)
  BY DEF Reporter
<1>4. OthersUntold(room, left) => OthersUntold(room, left)'
  BY DEF OthersUntold
<1>5. AssignedAreRight => AssignedAreRight'
  BY DEF AssignedAreRight, NoticeFor, VideoOf
<1>6. ChangedAreCorrected => ChangedAreCorrected'
  <2> SUFFICES ASSUME ChangedAreCorrected PROVE ChangedAreCorrected'
    OBVIOUS
  <2> QED
    BY <1>1, <1>2, CorrectedThen DEF ChangedAreCorrected
<1>7. SubscribersDue => SubscribersDue'
  BY DEF SubscribersDue
<1>8. ReportersDue => ReportersDue'
  BY DEF ReportersDue, NoticeFor, VideoOf, Reporter
<1>9. ASSUME NEW first, Announced(room, first, fresh, left)
      PROVE  Announced(room', first, fresh', left')
  <2>1. \A n \in first : \E k \in Pairs : Addressed(room', n, k, fresh') /\ Right(room', n, k)
    BY <1>2, <1>9 DEF Announced
  <2>2. \A q \in Peers, k \in Pairs : room'.output[q][k]["video"].track \in alive =>
          \/ handler[room'.output[q][k]["video"].track] = Reporter(room', room'.publisher[q][k])
          \/ NoticeFor(room', q, k, "video") \in first
    BY <1>1, <1>3, <1>9 DEF Announced
  <2>3. \A q \in Peers \ left, k \in Pairs, kind \in Media :
          room'.output[q][k][kind].mid # None =>
             \/ told[q][room'.output[q][k][kind].mid] = room'.publisher[q][k]
             \/ \E n \in first : /\ n.to = q /\ n.mid = room'.output[q][k][kind].mid
                               /\ n.publisher = room'.publisher[q][k]
    BY <1>9 DEF Announced
  <2>4. OthersUntold(room', left')
    BY <1>9 DEF Announced, OthersUntold
  <2> QED
    BY <2>1, <2>2, <2>3, <2>4 DEF Announced
<1>10. CASE closed
  BY <1>10 DEF NoticesInv
<1>11. CASE ~closed /\ installing = None
  BY <1>4, <1>5, <1>6, <1>7, <1>8, <1>11 DEF NoticesInv
<1>12. CASE ~closed /\ installing # None
  <2>1. Announced(room, installing.notices, fresh, left)
    BY <1>12 DEF NoticesInv
  <2>2. Announced(room', installing.notices, fresh', left')
    BY <1>9, <2>1
  <2>3. Announced(room, installing.notices, fresh, left)'
    BY <2>2, AnnouncedThen
  <2> QED
    BY <1>12, <2>3 DEF NoticesInv
<1> QED
  BY <1>10, <1>11, <1>12

\* A command that finds nothing to do.
LEMMA NoChangeInv ==
    ASSUME IInv, NoPairWasted, ~closed, ~busy, NEW p \in Peers, NoChange(p), sent' = None,
           UNCHANGED <<shutdown, installing, media, outside>>
    PROVE  IInv' /\ NoPairWasted' /\ (NoticesInv => NoticesInv')
<1> USE DEF shutdown, media, outside, notices
<1>1. /\ room \in Rooms /\ RoomOK(room, flights, fresh, alive) /\ TypeOK
      /\ Structure(room, fresh)
  BY DEF IInv, RoomOK, Structure
<1>2. /\ room' \in Rooms
      /\ room'.present = room.present \cup {p} /\ room'.input = room.input
      /\ room'.streaming = room.streaming /\ room'.watched = room.watched
      /\ room'.next_watch = room.next_watch /\ room'.output = room.output
      /\ room'.publisher = room.publisher /\ room'.generation = room.generation
  BY <1>1, JoinedFields DEF NoChange
<1>3. /\ told' = told /\ handler' = handler /\ pending' = pending /\ commands' = commands
      /\ fresh' = fresh /\ alive' = alive /\ left' = left /\ flights' = flights
      /\ closed' = closed /\ resetting' = resetting /\ installing' = installing
      /\ installing = None
  BY DEF NoChange, busy
<1>4. Structure(room, fresh)'
  BY <1>1, <1>2, <1>3 DEF Structure, WatchesDiffer, AbsentHaveNothing,
     OutputsWellFormed, TracksDiffer
<1>5. RoomOK(room, flights, fresh, alive)'
  BY <1>1, <1>2, <1>3, <1>4 DEF RoomOK, PublishersSound, GenerationsPresent, TargetsCurrent
<1>6. IInv'
  BY <1>1, <1>2, <1>3, <1>5 DEF IInv, TypeOK, InstallationOpen
<1>7. ASSUME NEW q \in Peers, FreePairs(room, q)' # {}
      PROVE  Eligible(room, q)' = {}
  <2>1. FreePairs(room, q)' = FreePairs(room, q)
    BY <1>2, <1>3 DEF FreePairs
  <2>2. Eligible(room, q) = {}
    BY <1>3, <1>7, <2>1 DEF NoPairWasted
  <2>3. ~ \E x \in room'.present : x \in Eligible(room, q)'
    <3> SUFFICES ASSUME NEW x \in room'.present, x \in Eligible(room, q)'
                 PROVE  x \in Eligible(room, q)
      BY <2>2
    <3>1. x \in Peers /\ room.streaming[x]
      BY <1>1, <1>2, RoomTypes DEF Eligible
    <3>2. x \in room.present
      BY <1>1, <3>1 DEF Structure, AbsentHaveNothing
    <3> QED
      BY <1>2, <1>3, <3>2 DEF Eligible
  <2> QED
    BY <2>3 DEF Eligible
<1>8. NoPairWasted'
  BY <1>7 DEF NoPairWasted
<1>9. NoticesInv => NoticesInv'
  BY <1>2, <1>3, NoticesKept DEF SameMedia
<1> QED
  BY <1>6, <1>8, <1>9

\* What subscribers know stays right if the media of the room stay.
LEMMA SameMediaKnown ==
    ASSUME NEW r, NEW b, NEW gone, NEW xs, SameMedia(r, b), KnownOutside(r, {}, gone)
    PROVE  KnownOutside(b, xs, gone)
BY DEF SameMedia, KnownOutside, OthersUntold, Reporter

\* Targets copied by route stay current if the media of the room stay.
LEMMA SameMediaTargets ==
    ASSUME NEW r, NEW b, NEW xs, NEW fl, NEW unused, NEW live,
           SameMedia(r, b), b.generation = r.generation,
           TargetsCurrent(r, fl, unused, live)
    PROVE  TargetsOutside(b, b, xs, Media, fl, unused, live)
BY DEF SameMedia, TargetsCurrent, TargetsOutside

\* set_streaming releases every pair of a publisher that stops.
LEMMA SetStreamingInv ==
    ASSUME IInv, NoPairWasted, NEW p \in Peers, NEW streaming \in BOOLEAN,
           SetStreaming(p, streaming)
    PROVE  IInv' /\ NoPairWasted' /\ (NoticesInv => NoticesInv')
<1> USE DEF shutdown, media, outside, notices
<1>0. CASE room.streaming[p] = streaming
  BY <1>0, NoChangeInv DEF SetStreaming, Quiet
<1>1. CASE room.streaming[p] # streaming
  <2> DEFINE xs == Stopped(p, streaming)
             r == [WithPeer(room, p) EXCEPT !.streaming[p] = streaming]
  <2>1. /\ room \in Rooms /\ RoomOK(room, flights, fresh, alive) /\ TypeOK
        /\ Structure(room, fresh)
    BY DEF IInv, RoomOK, Structure
  <2>2. /\ r \in Rooms
        /\ r.present = room.present \cup {p} /\ r.input = room.input
        /\ r.streaming = [room.streaming EXCEPT ![p] = streaming]
        /\ r.watched = room.watched
        /\ r.next_watch = room.next_watch /\ r.output = room.output
        /\ r.publisher = room.publisher /\ r.generation = room.generation
    BY <2>1 DEF WithPeer, Rooms
  <2>3. /\ Command /\ ~closed /\ ~busy /\ installing' = None
        /\ AssignAndPublish(Cleared(r, xs), NoticesOf(Cleared(r, xs), xs))
        /\ fresh' = fresh /\ left' = left /\ sent' = None
        /\ UNCHANGED <<shutdown, media, alive>>
    BY <1>1 DEF SetStreaming, Quiet, busy
  <2>4. commands' \in Nat /\ left' \subseteq Peers
    BY <2>1, <2>3 DEF Command, TypeOK
  <2>5. /\ xs \in SUBSET (Peers \X Pairs)
        /\ \A q \in Peers, k \in Pairs :
              /\ <<q, k>> \in xs => room.publisher[q][k] = p
              /\ <<q, k>> \notin xs => streaming \/ room.publisher[q][k] # p
    BY DEF Stopped, BoundTo
  <2> HIDE DEF r, xs
  <2>6. Structure(r, fresh)
    <3>1. \A x \in Peers \ r.present : ~r.streaming[x]
      BY <2>1, <2>2, RoomTypes DEF Structure, AbsentHaveNothing
    <3> QED
      BY <2>1, <2>2, <3>1 DEF Structure, WatchesDiffer, AbsentHaveNothing,
         OutputsWellFormed, TracksDiffer
  <2>7. SoundOutside(r, xs)
    <3> SUFFICES ASSUME NEW q \in Peers, NEW k \in Pairs,
                        r.publisher[q][k] # None, <<q, k>> \notin xs
                 PROVE  LET x == r.publisher[q][k] IN
                        /\ x # q /\ x \in r.present /\ r.streaming[x] /\ r.watched[q][x] # 0
                        /\ \A j \in Pairs \ {k} : r.publisher[q][j] # x
                        /\ \A kind \in Media :
                              /\ r.output[q][k][kind].ready
                              /\ r.output[q][k][kind].generation
                                    = r.generation[r.output[q][k][kind].track]
      BY DEF SoundOutside
    <3> DEFINE x == r.publisher[q][k]
    <3>1. x \in Peers /\ room.streaming[x]
      BY <2>1, <2>2, RoomTypes DEF RoomOK, PublishersSound
    <3>2. r.streaming[x]
      BY <2>1, <2>2, <2>5, <3>1, RoomTypes
    <3> QED
      BY <2>1, <2>2, <3>2 DEF RoomOK, PublishersSound, GenerationsPresent
  <2>8. SameMedia(room, r)
    BY <2>2 DEF SameMedia
  <2>9. TargetsOutside(r, r, xs, Media, flights, fresh, alive)
    BY <2>1, <2>2, <2>8, SameMediaTargets DEF RoomOK
  <2>10. \A q \in Peers, k \in Pairs, kind \in Media :
            <<q, k>> \in xs => r.output[q][k][kind].ready
    BY <2>1, <2>2, <2>5, ScreenConstants DEF RoomOK, PublishersSound
  <2>11. NoticesInv => KnownOutside(r, xs, left')
    BY <2>3, <2>8, NothingDue, SameMediaKnown
  <2> QED
    <3>1. Releasable(r, xs, flights, fresh, alive)
      BY <2>5, <2>6, <2>7, <2>9, <2>10 DEF Releasable
    <3> QED
      BY <2>3, <2>4, <2>11, <3>1, ReleaseInv
<1> QED
  BY <1>0, <1>1

\* set_watching(true) gives the new watch a place of its own.
LEMMA StartWatchingInv ==
    ASSUME IInv, NoPairWasted, NEW q \in Peers, NEW p \in Peers, StartWatching(q, p)
    PROVE  IInv' /\ NoPairWasted' /\ (NoticesInv => NoticesInv')
<1> USE DEF shutdown, media, outside, notices
<1>0. CASE room.watched[q][p] # 0
  BY <1>0, NoChangeInv DEF StartWatching, Quiet
<1>1. CASE room.watched[q][p] = 0
  <2> DEFINE r == [WithPeer(room, q) EXCEPT
                     !.watched[q][p] = WithPeer(room, q).next_watch[q],
                     !.next_watch[q] = @ + 1]
  <2>1. /\ room \in Rooms /\ RoomOK(room, flights, fresh, alive) /\ TypeOK
        /\ Structure(room, fresh)
    BY DEF IInv, RoomOK, Structure
  <2>2. /\ r.present = room.present \cup {q} /\ r.input = room.input
        /\ r.streaming = room.streaming
        /\ r.watched = [room.watched EXCEPT ![q][p] = room.next_watch[q]]
        /\ r.next_watch = [room.next_watch EXCEPT ![q] = @ + 1]
        /\ r.output = room.output
        /\ r.publisher = room.publisher /\ r.generation = room.generation
    BY <2>1 DEF WithPeer, Rooms
  <2>3. r \in Rooms
    <3> DEFINE known == WithPeer(room, q)
    <3>1. known \in Rooms
      BY <2>1, JoinedFields
    <3>2. r = [known EXCEPT !.watched = r.watched, !.next_watch = r.next_watch]
      BY <2>2, <3>1, JoinedFields, <2>1 DEF Rooms
    <3> HIDE DEF known, r
    <3>3. r.watched \in [Peers -> [Peers -> Nat]] /\ r.next_watch \in [Peers -> Nat]
      BY <2>1, <2>2, RoomTypes
    <3> QED
      BY <3>1, <3>2, <3>3 DEF Rooms
  <2>4. /\ Command /\ ~closed /\ ~busy /\ installing' = None
        /\ AssignAndPublish(r, {})
        /\ fresh' = fresh /\ left' = left /\ sent' = None
        /\ UNCHANGED <<shutdown, media, alive>>
    BY <1>1 DEF StartWatching, Quiet, busy
  <2>5. commands' \in Nat /\ left' \subseteq Peers /\ fresh' \subseteq Tracks
    BY <2>1, <2>4 DEF Command, TypeOK
  <2> HIDE DEF r
  <2>6. /\ \A x \in Peers : /\ room.next_watch[x] \in Nat
                            /\ \A y \in Peers : /\ room.watched[x][y] \in Nat
                                                /\ room.watched[x][y] < room.next_watch[x]
        /\ room.next_watch[q] # 0
    BY <2>1, RoomTypes DEF Structure, WatchesDiffer
  <2>7. /\ \A x \in Peers : r.next_watch[x] =
                IF x = q THEN room.next_watch[q] + 1 ELSE room.next_watch[x]
        /\ \A x \in Peers, y \in Peers : r.watched[x][y] =
                IF x = q /\ y = p THEN room.next_watch[q] ELSE room.watched[x][y]
    BY <2>1, <2>2, RoomTypes
  <2>8. WatchesDiffer(r)
    <3> SUFFICES ASSUME NEW x \in Peers, NEW y \in Peers
                 PROVE  /\ r.watched[x][y] < r.next_watch[x]
                        /\ \A z \in Peers : r.watched[x][y] # 0
                              /\ r.watched[x][y] = r.watched[x][z] => y = z
      BY DEF WatchesDiffer
    <3>1. \A z \in Peers : room.watched[x][y] # 0
                              /\ room.watched[x][y] = room.watched[x][z] => y = z
      BY <2>1 DEF Structure, WatchesDiffer
    <3> QED
      BY <2>6, <2>7, <3>1
  <2>9. Structure(r, fresh)
    <3>1. \A x \in Peers \ r.present : ~r.streaming[x]
      BY <2>1, <2>2 DEF Structure, AbsentHaveNothing
    <3> QED
      BY <2>1, <2>2, <2>3, <2>8, <3>1 DEF Structure, AbsentHaveNothing,
         OutputsWellFormed, TracksDiffer
  <2>10. PublishersSound(r)
    <3> SUFFICES ASSUME NEW x \in Peers, NEW k \in Pairs, r.publisher[x][k] # None
                 PROVE  LET y == r.publisher[x][k] IN
                        /\ y # x /\ y \in r.present /\ r.streaming[y] /\ r.watched[x][y] # 0
                        /\ \A kind \in Media : r.output[x][k][kind].ready
                        /\ \A j \in Pairs \ {k} : r.publisher[x][j] # y
      BY DEF PublishersSound
    <3> DEFINE y == r.publisher[x][k]
    <3>1. y \in Peers /\ room.watched[x][y] # 0
      BY <2>1, <2>2, RoomTypes DEF RoomOK, PublishersSound
    <3>2. r.watched[x][y] # 0
      BY <2>6, <2>7, <3>1
    <3> QED
      BY <2>1, <2>2, <3>2 DEF RoomOK, PublishersSound
  <2>11. RoomOK(r, flights, fresh, alive)
    BY <2>1, <2>2, <2>9, <2>10 DEF RoomOK, GenerationsPresent, TargetsCurrent
  <2>12. IInv' /\ NoPairWasted'
    BY <2>1, <2>4, <2>5, <2>11, ChangeKeepsInv
  <2>13. ASSUME NoticesInv PROVE NoticesInv'
    <3>1. KnownOutside(r, {}, left')
      BY <2>2, <2>4, <2>13, NothingDue, SameMediaKnown DEF SameMedia
    <3>2. Announced(r, {}, fresh', left')
      BY <3>1 DEF KnownOutside, Announced
    <3> QED
      BY <2>1, <2>4, <2>9, <2>13, <3>2, ChangeIsAnnounced DEF NoticesInv
  <2> QED
    BY <2>12, <2>13
<1> QED
  BY <1>0, <1>1

\* set_watching(false) releases the pair of this subscriber only.
LEMMA StopWatchingInv ==
    ASSUME IInv, NoPairWasted, NEW q \in Peers, NEW p \in Peers, StopWatching(q, p)
    PROVE  IInv' /\ NoPairWasted' /\ (NoticesInv => NoticesInv')
<1> USE DEF shutdown, media, outside, notices
<1>0. CASE room.watched[q][p] = 0
  BY <1>0, NoChangeInv DEF StopWatching, Quiet
<1>1. CASE room.watched[q][p] # 0
  <2> DEFINE xs == {x \in BoundTo(room, p) : x[1] = q}
             r == [WithPeer(room, q) EXCEPT !.watched[q][p] = 0]
  <2>1. /\ room \in Rooms /\ RoomOK(room, flights, fresh, alive) /\ TypeOK
        /\ Structure(room, fresh)
    BY DEF IInv, RoomOK, Structure
  <2>2. /\ r \in Rooms
        /\ r.present = room.present \cup {q} /\ r.input = room.input
        /\ r.streaming = room.streaming
        /\ r.watched = [room.watched EXCEPT ![q][p] = 0]
        /\ r.next_watch = room.next_watch /\ r.output = room.output
        /\ r.publisher = room.publisher /\ r.generation = room.generation
    BY <2>1 DEF WithPeer, Rooms
  <2>3. /\ Command /\ ~closed /\ ~busy /\ installing' = None
        /\ AssignAndPublish(Cleared(r, xs), NoticesOf(Cleared(r, xs), xs))
        /\ fresh' = fresh /\ left' = left /\ sent' = None
        /\ UNCHANGED <<shutdown, media, alive>>
    BY <1>1 DEF StopWatching, Quiet, busy
  <2>4. commands' \in Nat /\ left' \subseteq Peers
    BY <2>1, <2>3 DEF Command, TypeOK
  <2>5. /\ xs \in SUBSET (Peers \X Pairs)
        /\ \A x \in Peers, k \in Pairs :
              /\ <<x, k>> \in xs => room.publisher[x][k] = p
              /\ <<x, k>> \notin xs => x # q \/ room.publisher[x][k] # p
    BY DEF BoundTo
  <2> HIDE DEF r, xs
  <2>6. \A x \in Peers, y \in Peers : r.watched[x][y] =
           IF x = q /\ y = p THEN 0 ELSE room.watched[x][y]
    BY <2>1, <2>2, RoomTypes
  <2>7. WatchesDiffer(r)
    <3> SUFFICES ASSUME NEW x \in Peers, NEW y \in Peers
                 PROVE  /\ r.watched[x][y] < r.next_watch[x]
                        /\ \A z \in Peers : r.watched[x][y] # 0
                              /\ r.watched[x][y] = r.watched[x][z] => y = z
      BY DEF WatchesDiffer
    <3>1. /\ room.watched[x][y] < room.next_watch[x]
          /\ room.watched[x][y] \in Nat /\ room.next_watch[x] \in Nat
          /\ \A z \in Peers : room.watched[x][y] # 0
                                /\ room.watched[x][y] = room.watched[x][z] => y = z
      BY <2>1, RoomTypes DEF Structure, WatchesDiffer
    <3> QED
      BY <2>2, <2>6, <3>1
  <2>8. Structure(r, fresh)
    <3>1. \A x \in Peers \ r.present : ~r.streaming[x]
      BY <2>1, <2>2 DEF Structure, AbsentHaveNothing
    <3> QED
      BY <2>1, <2>2, <2>7, <3>1 DEF Structure, AbsentHaveNothing,
         OutputsWellFormed, TracksDiffer
  <2>9. SoundOutside(r, xs)
    <3> SUFFICES ASSUME NEW x \in Peers, NEW k \in Pairs,
                        r.publisher[x][k] # None, <<x, k>> \notin xs
                 PROVE  LET y == r.publisher[x][k] IN
                        /\ y # x /\ y \in r.present /\ r.streaming[y] /\ r.watched[x][y] # 0
                        /\ \A j \in Pairs \ {k} : r.publisher[x][j] # y
                        /\ \A kind \in Media :
                              /\ r.output[x][k][kind].ready
                              /\ r.output[x][k][kind].generation
                                    = r.generation[r.output[x][k][kind].track]
      BY DEF SoundOutside
    <3> DEFINE y == r.publisher[x][k]
    <3>1. y \in Peers /\ room.watched[x][y] # 0
      BY <2>1, <2>2, RoomTypes DEF RoomOK, PublishersSound
    <3>2. r.watched[x][y] # 0
      BY <2>2, <2>5, <2>6, <3>1
    <3> QED
      BY <2>1, <2>2, <3>2 DEF RoomOK, PublishersSound, GenerationsPresent
  <2>10. SameMedia(room, r)
    BY <2>2 DEF SameMedia
  <2>11. TargetsOutside(r, r, xs, Media, flights, fresh, alive)
    BY <2>1, <2>2, <2>10, SameMediaTargets DEF RoomOK
  <2>12. \A x \in Peers, k \in Pairs, kind \in Media :
            <<x, k>> \in xs => r.output[x][k][kind].ready
    BY <2>1, <2>2, <2>5, ScreenConstants DEF RoomOK, PublishersSound
  <2>13. NoticesInv => KnownOutside(r, xs, left')
    BY <2>3, <2>10, NothingDue, SameMediaKnown
  <2> QED
    <3>1. Releasable(r, xs, flights, fresh, alive)
      BY <2>5, <2>8, <2>9, <2>11, <2>12 DEF Releasable
    <3> QED
      BY <2>3, <2>4, <2>13, <3>1, ReleaseInv
<1> QED
  BY <1>0, <1>1

\* Room b is room r without p.
Without(r, p, b) ==
    /\ b \in Rooms
    /\ b.present = r.present \ {p} /\ b.generation = r.generation
    /\ \A x \in Peers \ {p}, k \in Pairs, kind \in Media :
          b.output[x][k][kind] = r.output[x][k][kind]
    /\ \A x \in Peers \ {p}, k \in Pairs : b.publisher[x][k] = r.publisher[x][k]
    /\ \A x \in Peers \ {p}, kind \in Media : b.input[x][kind] = r.input[x][kind]
    /\ \A x \in Peers \ {p} : b.next_watch[x] = r.next_watch[x]
    /\ \A x \in Peers \ {p}, y \in Peers \ {p} :
          b.watched[x][y] = r.watched[x][y] /\ b.streaming[y] = r.streaming[y]
    /\ \A x \in Peers, y \in Peers :
          b.watched[x][y] = 0 \/ (x # p /\ b.watched[x][y] = r.watched[x][y])
    /\ \A k \in Pairs, kind \in Media : b.output[p][k][kind] = NoOutput
    /\ \A k \in Pairs : b.publisher[p][k] = None
    /\ b.streaming[p] = FALSE /\ b.next_watch[p] = 1

\* remove_peer before it releases the pairs of others.
LEMMA ForgottenFields ==
    ASSUME NEW r \in Rooms, NEW p \in Peers
    PROVE  Without(r, p, Forgotten(r, p))
<1> DEFINE b == Forgotten(r, p)
<1> DEFINE watched == [q \in Peers |-> [x \in Peers |->
                              IF q = p \/ x = p THEN 0 ELSE r.watched[q][x]]]
<1>1. /\ b.present = r.present \ {p} /\ b.generation = r.generation
      /\ b.input = [r.input EXCEPT ![p] = [kind \in Media |-> None]]
      /\ b.streaming = [r.streaming EXCEPT ![p] = FALSE]
      /\ b.watched = watched
      /\ b.next_watch = [r.next_watch EXCEPT ![p] = 1]
      /\ b.output = [r.output EXCEPT ![p] = [k \in Pairs |-> [kind \in Media |-> NoOutput]]]
      /\ b.publisher = [r.publisher EXCEPT ![p] = [k \in Pairs |-> None]]
  BY DEF Forgotten, Rooms
<1>2. NoOutput \in Outputs
  BY DEF NoOutput, Outputs
<1>3. watched \in [Peers -> [Peers -> Nat]]
  BY RoomTypes
<1>4. /\ b.input \in [Peers -> [Media -> Tracks \cup {None}]]
      /\ b.streaming \in [Peers -> BOOLEAN]
      /\ b.next_watch \in [Peers -> Nat]
      /\ b.publisher \in [Peers -> [Pairs -> Peers \cup {None}]]
  BY <1>1, RoomTypes
<1>5. b.output \in [Peers -> [Pairs -> [Media -> Outputs]]]
  BY <1>1, <1>2, RoomTypes
<1>6. b.present \in SUBSET Peers /\ b.generation \in [Tracks -> Nat]
  BY <1>1, RoomTypes
<1> HIDE DEF watched
<1>7. b = [r EXCEPT !.present = b.present, !.input = b.input, !.streaming = b.streaming,
                    !.watched = b.watched, !.next_watch = b.next_watch,
                    !.output = b.output, !.publisher = b.publisher]
  BY <1>1 DEF Forgotten, Rooms, watched
<1> HIDE DEF b
<1>8. b \in Rooms
  BY <1>1, <1>3, <1>4, <1>5, <1>6, <1>7 DEF Rooms
<1>9. /\ \A x \in Peers \ {p} : b.publisher[x] = r.publisher[x] /\ b.input[x] = r.input[x]
      /\ \A x \in Peers \ {p} : b.next_watch[x] = r.next_watch[x]
      /\ \A x \in Peers \ {p} : b.streaming[x] = r.streaming[x]
      /\ \A k \in Pairs : b.publisher[p][k] = None
      /\ b.streaming[p] = FALSE /\ b.next_watch[p] = 1
  BY <1>1, RoomTypes
<1>10. /\ \A x \in Peers \ {p} : b.output[x] = r.output[x]
       /\ \A k \in Pairs, kind \in Media : b.output[p][k][kind] = NoOutput
  BY <1>1, RoomTypes
<1>11. \A x \in Peers, y \in Peers :
          b.watched[x][y] = IF x = p \/ y = p THEN 0 ELSE r.watched[x][y]
  BY <1>1 DEF watched
<1> QED
  BY <1>1, <1>8, <1>9, <1>10, <1>11 DEF Without, b

\* Nothing of a peer that left is bound, watched or owed a notice.
LEMMA RemovePeerInv ==
    ASSUME IInv, NEW p \in Peers, RemovePeer(p)
    PROVE  IInv' /\ NoPairWasted' /\ (NoticesInv => NoticesInv')
<1> USE DEF shutdown, media, outside, notices
<1> DEFINE xs == {x \in BoundTo(room, p) : x[1] # p}
           r == Forgotten(room, p)
<1>1. /\ room \in Rooms /\ RoomOK(room, flights, fresh, alive) /\ TypeOK
      /\ Structure(room, fresh) /\ PublishersSound(room) /\ GenerationsPresent(room)
      /\ TargetsCurrent(room, flights, fresh, alive)
  BY DEF IInv, RoomOK, Structure
<1>0. Without(room, p, r)
  BY <1>1, ForgottenFields
<1>3. /\ ~closed /\ ~busy /\ installing' = None
      /\ AssignAndPublish(Cleared(r, xs), NoticesOf(Cleared(r, xs), xs))
      /\ fresh' = fresh /\ left' = left \cup {p} /\ sent' = None /\ commands' = commands
      /\ UNCHANGED <<shutdown, media, alive>>
  BY DEF RemovePeer, Quiet, busy
<1>4. commands' \in Nat /\ left' \subseteq Peers
  BY <1>1, <1>3 DEF TypeOK
<1>5. /\ xs \in SUBSET (Peers \X Pairs)
      /\ \A x \in Peers, k \in Pairs :
            /\ <<x, k>> \in xs => x # p /\ room.publisher[x][k] = p
            /\ <<x, k>> \notin xs => x = p \/ room.publisher[x][k] # p
  BY DEF BoundTo
<1>6. NoOutput.mid = None /\ NoOutput.track = None /\ NoOutput.ready = FALSE
  BY DEF NoOutput
<1> HIDE DEF r, xs
<1>2. /\ r \in Rooms
      /\ r.present = room.present \ {p} /\ r.generation = room.generation
      /\ \A x \in Peers \ {p}, k \in Pairs, kind \in Media :
            r.output[x][k][kind] = room.output[x][k][kind]
      /\ \A x \in Peers \ {p}, k \in Pairs : r.publisher[x][k] = room.publisher[x][k]
      /\ \A x \in Peers \ {p}, kind \in Media : r.input[x][kind] = room.input[x][kind]
      /\ \A x \in Peers \ {p} : r.next_watch[x] = room.next_watch[x]
      /\ \A x \in Peers \ {p}, y \in Peers \ {p} :
            r.watched[x][y] = room.watched[x][y] /\ r.streaming[y] = room.streaming[y]
      /\ \A x \in Peers, y \in Peers :
            r.watched[x][y] = 0 \/ (x # p /\ r.watched[x][y] = room.watched[x][y])
      /\ \A k \in Pairs, kind \in Media : r.output[p][k][kind] = NoOutput
      /\ \A k \in Pairs : r.publisher[p][k] = None
      /\ r.streaming[p] = FALSE /\ r.next_watch[p] = 1
  BY <1>0 DEF Without
<1>7. WatchesDiffer(r)
  <2> SUFFICES ASSUME NEW x \in Peers, NEW y \in Peers
               PROVE  /\ r.watched[x][y] < r.next_watch[x]
                      /\ \A z \in Peers : r.watched[x][y] # 0
                            /\ r.watched[x][y] = r.watched[x][z] => y = z
    BY DEF WatchesDiffer
  <2>1. /\ room.watched[x][y] < room.next_watch[x]
        /\ room.watched[x][y] \in Nat /\ room.next_watch[x] \in Nat
        /\ \A z \in Peers : room.watched[x][y] # 0
                              /\ room.watched[x][y] = room.watched[x][z] => y = z
    BY <1>1, RoomTypes DEF Structure, WatchesDiffer
  <2>2. \A z \in Peers : r.watched[x][z] = 0 \/ r.watched[x][z] = room.watched[x][z]
    BY <1>2
  <2>3. r.watched[x][y] < r.next_watch[x]
    BY <1>2, <2>1
  <2> QED
    BY <2>1, <2>2, <2>3
<1>8. AbsentHaveNothing(r)
  <2> SUFFICES ASSUME NEW x \in Peers \ r.present
               PROVE  /\ ~r.streaming[x]
                      /\ \A k \in Pairs, kind \in Media : r.output[x][k][kind].track = None
    BY DEF AbsentHaveNothing
  <2>1. CASE x = p
    BY <1>6, <1>2, <2>1
  <2>2. CASE x # p
    BY <1>1, <1>2, <2>2 DEF Structure, AbsentHaveNothing
  <2> QED
    BY <2>1, <2>2
<1>9. OutputsWellFormed(r)
  <2> SUFFICES ASSUME NEW x \in Peers, NEW k \in Pairs, NEW kind \in Media
               PROVE  LET out == r.output[x][k][kind] IN
                      /\ out.mid = None <=> out.track = None
                      /\ out.track = None => ~out.ready
                      /\ out.mid # None => MediaOf(out.mid) = kind
                      /\ \A j \in Pairs : out.mid # None /\ r.output[x][j][kind].mid = out.mid
                                             => j = k
    BY DEF OutputsWellFormed
  <2>1. CASE x = p
    BY <1>6, <1>2, <2>1
  <2>2. CASE x # p
    <3>1. /\ r.output[x][k][kind] = room.output[x][k][kind]
          /\ \A j \in Pairs : r.output[x][j][kind] = room.output[x][j][kind]
      BY <1>2, <2>2
    <3> QED
      BY <1>1, <3>1 DEF Structure, OutputsWellFormed
  <2> QED
    BY <2>1, <2>2
<1>10. ASSUME NEW x \in Peers, NEW k \in Pairs, NEW kind \in Media,
              r.output[x][k][kind].track # None
       PROVE  x # p /\ r.output[x][k][kind].track = room.output[x][k][kind].track
  BY <1>6, <1>10, <1>2
<1>11. TracksDiffer(r, fresh)
  <2> SUFFICES ASSUME NEW x \in Peers, NEW k \in Pairs, NEW kind \in Media,
                      r.output[x][k][kind].track # None
               PROVE  /\ r.output[x][k][kind].track \notin fresh
                      /\ \A y \in Peers, j \in Pairs, kd \in Media :
                            r.output[y][j][kd].track = r.output[x][k][kind].track =>
                               x = y /\ k = j /\ kind = kd
    BY DEF TracksDiffer
  <2>1. r.output[x][k][kind].track \notin fresh
    BY <1>1, <1>10 DEF Structure, TracksDiffer
  <2>2. ASSUME NEW y \in Peers, NEW j \in Pairs, NEW kd \in Media,
               r.output[y][j][kd].track = r.output[x][k][kind].track
        PROVE  x = y /\ k = j /\ kind = kd
    BY <1>1, <1>10, <2>2 DEF Structure, TracksDiffer
  <2> QED
    BY <2>1, <2>2
<1>12. Structure(r, fresh)
  BY <1>2, <1>7, <1>8, <1>9, <1>11 DEF Structure
<1>13. ASSUME NEW x \in Peers, NEW k \in Pairs, r.publisher[x][k] # None, <<x, k>> \notin xs
       PROVE  /\ x # p /\ r.publisher[x][k] = room.publisher[x][k]
              /\ r.publisher[x][k] \in Peers \ {p}
  BY <1>1, <1>5, <1>13, <1>2, RoomTypes
<1>14. SoundOutside(r, xs)
  <2> SUFFICES ASSUME NEW x \in Peers, NEW k \in Pairs,
                      r.publisher[x][k] # None, <<x, k>> \notin xs
               PROVE  LET y == r.publisher[x][k] IN
                      /\ y # x /\ y \in r.present /\ r.streaming[y] /\ r.watched[x][y] # 0
                      /\ \A j \in Pairs \ {k} : r.publisher[x][j] # y
                      /\ \A kind \in Media :
                            /\ r.output[x][k][kind].ready
                            /\ r.output[x][k][kind].generation
                                  = r.generation[r.output[x][k][kind].track]
    BY DEF SoundOutside
  <2> DEFINE y == r.publisher[x][k]
  <2>1. /\ x # p /\ y = room.publisher[x][k] /\ y \in Peers \ {p}
    BY <1>13
  <2>2. /\ y # x /\ y \in room.present /\ room.streaming[y] /\ room.watched[x][y] # 0
        /\ \A j \in Pairs \ {k} : room.publisher[x][j] # y
        /\ \A kind \in Media :
              /\ room.output[x][k][kind].ready
              /\ room.output[x][k][kind].generation
                    = room.generation[room.output[x][k][kind].track]
    BY <1>1, <2>1 DEF PublishersSound, GenerationsPresent
  <2>3. /\ r.streaming[y] /\ r.watched[x][y] # 0 /\ y \in r.present
        /\ \A j \in Pairs : r.publisher[x][j] = room.publisher[x][j]
        /\ \A kind \in Media : r.output[x][k][kind] = room.output[x][k][kind]
    BY <1>2, <2>1, <2>2
  <2> HIDE DEF y
  <2>4. /\ y # x /\ y \in r.present /\ r.streaming[y] /\ r.watched[x][y] # 0
        /\ \A j \in Pairs \ {k} : r.publisher[x][j] # y
        /\ \A kind \in Media :
              /\ r.output[x][k][kind].ready
              /\ r.output[x][k][kind].generation
                    = r.generation[r.output[x][k][kind].track]
    BY <1>2, <2>2, <2>3
  <2> QED
    BY <2>4 DEF y
<1>15. TargetsOutside(r, r, xs, Media, flights, fresh, alive)
  <2> SUFFICES ASSUME NEW f \in flights, NEW target \in f.targets
               PROVE  /\ target.output \in Tracks \ fresh
                      /\ target.generation \in Nat
                      /\ target.generation <= r.generation[target.output]
                      /\ target.generation = r.generation[target.output] =>
                            \A x \in Peers, k \in Pairs, kind \in Media :
                               r.output[x][k][kind].track = target.output
                                 /\ ~(<<x, k>> \in xs /\ kind \in Media) =>
                               /\ r.publisher[x][k] = f.source.publisher
                               /\ kind = f.source.kind
                               /\ (\/ r.input[f.source.publisher][kind] \in alive
                                   \/ f.source.input \in alive)
                                     => r.input[f.source.publisher][kind] = f.source.input
    BY DEF TargetsOutside
  <2>1. /\ target.output \in Tracks \ fresh
        /\ target.generation \in Nat
        /\ target.generation <= room.generation[target.output]
        /\ target.generation = room.generation[target.output] =>
              \A x \in Peers, k \in Pairs, kind \in Media :
                 room.output[x][k][kind].track = target.output =>
                    /\ room.publisher[x][k] = f.source.publisher
                    /\ kind = f.source.kind
                    /\ (\/ room.input[f.source.publisher][kind] \in alive
                        \/ f.source.input \in alive)
                          => room.input[f.source.publisher][kind] = f.source.input
    BY <1>1 DEF TargetsCurrent
  <2>2. f.source.publisher \in Peers
    BY <1>1 DEF TypeOK, Flights, Sources
  <2>3. ASSUME target.generation = r.generation[target.output],
               NEW x \in Peers, NEW k \in Pairs, NEW kind \in Media,
               r.output[x][k][kind].track = target.output, <<x, k>> \notin xs
        PROVE  /\ r.publisher[x][k] = f.source.publisher
               /\ kind = f.source.kind
               /\ (\/ r.input[f.source.publisher][kind] \in alive
                   \/ f.source.input \in alive)
                     => r.input[f.source.publisher][kind] = f.source.input
    <3>1. x # p /\ room.output[x][k][kind].track = target.output
      BY <1>10, <2>1, <2>3, ScreenConstants
    <3>2. /\ room.publisher[x][k] = f.source.publisher
          /\ kind = f.source.kind
          /\ (\/ room.input[f.source.publisher][kind] \in alive
              \/ f.source.input \in alive)
                => room.input[f.source.publisher][kind] = f.source.input
      BY <1>2, <2>1, <2>3, <3>1
    <3>3. f.source.publisher # p
      BY <1>5, <2>3, <3>1, <3>2
    <3>4. /\ r.publisher[x][k] = room.publisher[x][k]
          /\ r.input[f.source.publisher][kind] = room.input[f.source.publisher][kind]
      BY <1>2, <2>2, <3>1, <3>3
    <3> QED
      BY <3>2, <3>4
  <2> QED
    BY <1>2, <2>1, <2>3
<1>16. \A x \in Peers, k \in Pairs, kind \in Media :
          <<x, k>> \in xs => r.output[x][k][kind].ready
  <2> SUFFICES ASSUME NEW x \in Peers, NEW k \in Pairs, NEW kind \in Media, <<x, k>> \in xs
               PROVE  r.output[x][k][kind].ready
    OBVIOUS
  <2>1. x # p /\ room.publisher[x][k] = p
    BY <1>5
  <2>2. room.output[x][k][kind].ready
    BY <1>1, <2>1, ScreenConstants DEF PublishersSound
  <2> QED
    BY <1>2, <2>1, <2>2
<1>17. NoticesInv => KnownOutside(r, xs, left')
  <2>0. HAVE NoticesInv
  <2>1. KnownOutside(room, {}, left)
    BY <1>3, <2>0, NothingDue
  <2>2. ASSUME NEW x \in Peers \ left', NEW k \in Pairs, NEW kind \in Media,
               r.output[x][k][kind].mid # None, <<x, k>> \notin xs
        PROVE  told[x][r.output[x][k][kind].mid] = r.publisher[x][k]
    <3>1. /\ x \in Peers \ left /\ r.output[x][k][kind] = room.output[x][k][kind]
          /\ r.publisher[x][k] = room.publisher[x][k]
      BY <1>3, <1>2
    <3> QED
      BY <2>1, <2>2, <3>1 DEF KnownOutside
  <2>3. OthersUntold(r, left')
    <3> SUFFICES ASSUME NEW x \in Peers \ left', NEW m \in Mids,
                        \A k \in Pairs, kind \in Media : r.output[x][k][kind].mid # m
                 PROVE  told[x][m] = None
      BY DEF OthersUntold
    <3>1. /\ x \in Peers \ left
          /\ \A k \in Pairs, kind \in Media : room.output[x][k][kind].mid # m
      BY <1>3, <1>2
    <3> QED
      BY <2>1, <3>1 DEF KnownOutside, OthersUntold
  <2>4. ASSUME NEW x \in Peers, NEW k \in Pairs,
               r.output[x][k]["video"].track \in alive, <<x, k>> \notin xs
        PROVE  handler[r.output[x][k]["video"].track] = Reporter(r, r.publisher[x][k])
    <3>0. "video" \in Media
      BY DEF Media
    <3>1. r.output[x][k]["video"].track # None
      BY <1>1, <2>4, ScreenConstants DEF TypeOK
    <3>2. x # p /\ r.output[x][k]["video"].track = room.output[x][k]["video"].track
      BY <1>10, <3>0, <3>1
    <3>3. r.publisher[x][k] = room.publisher[x][k]
      BY <1>2, <3>2
    <3>4. Reporter(r, r.publisher[x][k]) = Reporter(room, room.publisher[x][k])
      <4>1. CASE r.publisher[x][k] = None
        BY <3>3, <4>1 DEF Reporter
      <4>2. CASE r.publisher[x][k] # None
        <5>1. r.publisher[x][k] \in Peers \ {p}
          BY <1>13, <2>4, <4>2
        <5>2. r.input[r.publisher[x][k]]["video"] = room.input[r.publisher[x][k]]["video"]
          BY <1>2, <3>0, <5>1
        <5> QED
          BY <3>3, <5>2 DEF Reporter
      <4> QED
        BY <4>1, <4>2
    <3>5. handler[room.output[x][k]["video"].track] = Reporter(room, room.publisher[x][k])
      BY <2>1, <2>4, <3>2 DEF KnownOutside
    <3> QED
      BY <3>2, <3>4, <3>5
  <2> QED
    BY <2>2, <2>3, <2>4 DEF KnownOutside
<1>18. Releasable(r, xs, flights, fresh, alive)
  BY <1>5, <1>12, <1>14, <1>15, <1>16 DEF Releasable
<1> QED
  BY <1>3, <1>4, <1>17, <1>18, ReleaseInv

\* register_input: the old input is stale for every flight that copied it.
LEMMA RegisterInputInv ==
    ASSUME IInv, NEW p \in Peers, NEW kind \in Media, NEW t \in Tracks,
           RegisterInput(p, kind, t)
    PROVE  IInv' /\ NoPairWasted' /\ (NoticesInv => NoticesInv')
<1> USE DEF shutdown, media, outside, notices
<1> DEFINE xs == BoundTo(room, p)
           b == [WithPeer(room, p) EXCEPT !.input[p][kind] = t]
           r == Begun(b, xs, {kind})
           first == NoticesOf(r, xs)
<1>1. /\ room \in Rooms /\ RoomOK(room, flights, fresh, alive) /\ TypeOK
      /\ Structure(room, fresh) /\ PublishersSound(room) /\ GenerationsPresent(room)
      /\ TargetsCurrent(room, flights, fresh, alive) /\ OutputsWellFormed(room)
  BY DEF IInv, RoomOK, Structure
<1>2. /\ b \in Rooms
      /\ b.present = room.present \cup {p} /\ b.streaming = room.streaming
      /\ b.input = [room.input EXCEPT ![p][kind] = t]
      /\ b.watched = room.watched
      /\ b.next_watch = room.next_watch /\ b.output = room.output
      /\ b.publisher = room.publisher /\ b.generation = room.generation
  BY <1>1 DEF WithPeer, Rooms
<1>3. /\ ~closed /\ ~busy /\ installing' = None
      /\ AssignAndPublish(r, first)
      /\ t \in fresh /\ fresh' = fresh \ {t} /\ left' = left
      /\ sent' = None /\ commands' = commands
      /\ UNCHANGED <<shutdown, media, alive>>
  BY DEF RegisterInput, Quiet, busy, Fresh
<1>4. /\ commands' \in Nat /\ left' \subseteq Peers /\ fresh' \subseteq Tracks
      /\ fresh' \subseteq fresh
  BY <1>1, <1>3 DEF TypeOK
<1>5. /\ xs \in SUBSET (Peers \X Pairs)
      /\ \A q \in Peers, k \in Pairs : <<q, k>> \in xs <=> room.publisher[q][k] = p
  BY DEF BoundTo
<1> HIDE DEF b, xs
<1>7. /\ r \in Rooms /\ SameShape(b, r) /\ Bumped(b, r, xs, {kind})
      /\ r.publisher = b.publisher
      /\ \A q \in Peers, k \in Pairs, kd \in Media :
            b.output[q][k][kd].track # None =>
               r.output[q][k][kd].generation =
                  IF <<q, k>> \in xs /\ kd \in {kind}
                  THEN r.generation[b.output[q][k][kd].track]
                  ELSE b.output[q][k][kd].generation
  <2> DEFINE kinds == {kind}
             a == Begun(b, xs, kinds)
  <2>1. kinds \in SUBSET Media
    OBVIOUS
  <2> HIDE DEF kinds
  <2>2. /\ a \in Rooms /\ SameShape(b, a) /\ Bumped(b, a, xs, kinds)
        /\ a.publisher = b.publisher
        /\ \A q \in Peers, k \in Pairs, kd \in Media :
              b.output[q][k][kd].track # None =>
                 a.output[q][k][kd].generation =
                    IF <<q, k>> \in xs /\ kd \in kinds
                    THEN a.generation[b.output[q][k][kd].track]
                    ELSE b.output[q][k][kd].generation
    BY <1>2, <1>5, <2>1, BegunFields
  <2>3. a = r
    BY DEF kinds
  <2> HIDE DEF a, r
  <2> QED
    BY <2>2, <2>3 DEF kinds
<1> HIDE DEF r
<1>8. Structure(b, fresh')
  <2>1. AbsentHaveNothing(b)
    BY <1>1, <1>2 DEF Structure, AbsentHaveNothing
  <2>2. TracksDiffer(b, fresh')
    BY <1>1, <1>2, <1>4 DEF Structure, TracksDiffer
  <2> QED
    BY <1>1, <1>2, <2>1, <2>2 DEF Structure, WatchesDiffer, OutputsWellFormed
<1>9. Structure(r, fresh')
  BY <1>7, <1>8, ShapeKeeps
<1>10. PublishersSound(r)
  <2> SUFFICES ASSUME NEW q \in Peers, NEW k \in Pairs, r.publisher[q][k] # None
               PROVE  LET x == r.publisher[q][k] IN
                      /\ x # q /\ x \in r.present /\ r.streaming[x] /\ r.watched[q][x] # 0
                      /\ \A kd \in Media : r.output[q][k][kd].ready
                      /\ \A j \in Pairs \ {k} : r.publisher[q][j] # x
    BY DEF PublishersSound
  <2>1. /\ \A kd \in Media : r.output[q][k][kd].ready = room.output[q][k][kd].ready
        /\ r.present = room.present \cup {p} /\ r.streaming = room.streaming
        /\ r.watched = room.watched /\ r.publisher = room.publisher
    BY <1>2, <1>7 DEF SameShape
  <2> QED
    BY <1>1, <2>1 DEF PublishersSound
<1>11. GenerationsPresent(r)
  <2> SUFFICES ASSUME NEW q \in Peers, NEW k \in Pairs, NEW kd \in Media,
                      r.publisher[q][k] # None
               PROVE  r.output[q][k][kd].generation = r.generation[r.output[q][k][kd].track]
    BY DEF GenerationsPresent
  <2>1. room.publisher[q][k] # None
    BY <1>2, <1>7
  <2>2. room.output[q][k][kd].track \in Tracks /\ room.output[q][k][kd].track # None
    BY <1>1, <2>1, BoundPair
  <2>3. /\ b.output[q][k][kd] = room.output[q][k][kd] /\ b.generation = room.generation
        /\ r.output[q][k][kd].track = b.output[q][k][kd].track
    BY <1>2, <1>7 DEF SameShape
  <2>4. room.output[q][k][kd].generation = room.generation[room.output[q][k][kd].track]
    BY <1>1, <2>1 DEF GenerationsPresent
  <2>5. CASE <<q, k>> \in xs /\ kd \in {kind}
    BY <1>7, <2>2, <2>3, <2>5
  <2>6. CASE ~(<<q, k>> \in xs /\ kd \in {kind})
    <3>1. r.generation[b.output[q][k][kd].track] = b.generation[b.output[q][k][kd].track]
      <4>1. b \in Rooms /\ Bumped(b, r, xs, {kind}) /\ TracksDiffer(b, fresh')
        BY <1>7, <1>8 DEF Structure
      <4>2. b.output[q][k][kd].track \in Tracks /\ b.output[q][k][kd].track # None
        BY <2>2, <2>3
      <4> QED
        BY <2>6, <4>1, <4>2, OthersKeepGeneration
    <3>2. r.output[q][k][kd].generation = b.output[q][k][kd].generation
      BY <1>7, <2>2, <2>3, <2>6
    <3> QED
      BY <2>3, <2>4, <3>1, <3>2
  <2> QED
    BY <2>5, <2>6
<1>12. TargetsOutside(b, r, xs, {kind}, flights, fresh', alive)
  <2> SUFFICES ASSUME NEW f \in flights, NEW target \in f.targets
               PROVE  /\ target.output \in Tracks \ fresh'
                      /\ target.generation \in Nat
                      /\ target.generation <= b.generation[target.output]
                      /\ target.generation = b.generation[target.output] =>
                            \A q \in Peers, k \in Pairs, kd \in Media :
                               b.output[q][k][kd].track = target.output
                                 /\ ~(<<q, k>> \in xs /\ kd \in {kind}) =>
                               /\ r.publisher[q][k] = f.source.publisher
                               /\ kd = f.source.kind
                               /\ (\/ b.input[f.source.publisher][kd] \in alive
                                   \/ f.source.input \in alive)
                                     => b.input[f.source.publisher][kd] = f.source.input
    BY DEF TargetsOutside
  <2>1. /\ target.output \in Tracks \ fresh
        /\ target.generation \in Nat
        /\ target.generation <= room.generation[target.output]
        /\ target.generation = room.generation[target.output] =>
              \A q \in Peers, k \in Pairs, kd \in Media :
                 room.output[q][k][kd].track = target.output =>
                    /\ room.publisher[q][k] = f.source.publisher
                    /\ kd = f.source.kind
                    /\ (\/ room.input[f.source.publisher][kd] \in alive
                        \/ f.source.input \in alive)
                          => room.input[f.source.publisher][kd] = f.source.input
    BY <1>1 DEF TargetsCurrent
  <2>2. f.source.publisher \in Peers
    BY <1>1 DEF TypeOK, Flights, Sources
  <2>3. ASSUME target.generation = b.generation[target.output],
               NEW q \in Peers, NEW k \in Pairs, NEW kd \in Media,
               b.output[q][k][kd].track = target.output, ~(<<q, k>> \in xs /\ kd \in {kind})
        PROVE  /\ r.publisher[q][k] = f.source.publisher
               /\ kd = f.source.kind
               /\ (\/ b.input[f.source.publisher][kd] \in alive
                   \/ f.source.input \in alive)
                     => b.input[f.source.publisher][kd] = f.source.input
    <3>1. /\ room.publisher[q][k] = f.source.publisher
          /\ kd = f.source.kind
          /\ (\/ room.input[f.source.publisher][kd] \in alive
              \/ f.source.input \in alive)
                => room.input[f.source.publisher][kd] = f.source.input
      BY <1>2, <2>1, <2>3
    <3>2. f.source.publisher # p \/ kd # kind
      BY <1>5, <2>3, <3>1
    <3>3. b.input[f.source.publisher][kd] = room.input[f.source.publisher][kd]
      BY <1>1, <1>2, <2>2, <3>2, RoomTypes
    <3> QED
      BY <1>2, <1>7, <3>1, <3>3
  <2> QED
    BY <1>2, <1>4, <2>1, <2>3
<1>13. TargetsCurrent(r, flights, fresh', alive)
  BY <1>2, <1>7, <1>12, BumpKeepsTargets
<1>14. RoomOK(r, flights, fresh', alive)
  BY <1>9, <1>10, <1>11, <1>13 DEF RoomOK
<1>15. first \in SUBSET Notices
  BY <1>5, <1>7, <1>9, NoticesType DEF Structure
<1>16. NoticesInv => Announced(r, first, fresh', left')
  <2>0. HAVE NoticesInv
  <2>1. KnownOutside(room, {}, left)
    BY <1>3, <2>0, NothingDue
  <2>2. \A q \in Peers, k \in Pairs, kd \in Media :
           /\ r.output[q][k][kd].mid = room.output[q][k][kd].mid
           /\ r.output[q][k][kd].track = room.output[q][k][kd].track
           /\ r.output[q][k][kd].ready = room.output[q][k][kd].ready
           /\ r.publisher[q][k] = room.publisher[q][k]
    BY <1>2, <1>7 DEF SameShape
  <2>3. \A q \in Peers \ {p} : r.input[q]["video"] = room.input[q]["video"]
    BY <1>1, <1>2, <1>7, RoomTypes DEF SameShape
  <2>4. ASSUME NEW q \in Peers \ left', NEW k \in Pairs, NEW kd \in Media,
               r.output[q][k][kd].mid # None, <<q, k>> \notin xs
        PROVE  told[q][r.output[q][k][kd].mid] = r.publisher[q][k]
    <3>1. told[q][room.output[q][k][kd].mid] = room.publisher[q][k]
      BY <1>3, <2>1, <2>2, <2>4 DEF KnownOutside
    <3> QED
      BY <2>2, <3>1
  <2>5. OthersUntold(r, left')
    BY <1>3, <2>1, <2>2 DEF KnownOutside, OthersUntold
  <2>6. ASSUME NEW q \in Peers, NEW k \in Pairs,
               r.output[q][k]["video"].track \in alive, <<q, k>> \notin xs
        PROVE  handler[r.output[q][k]["video"].track] = Reporter(r, r.publisher[q][k])
    <3>1. "video" \in Media
      BY DEF Media
    <3>2. r.output[q][k]["video"].track = room.output[q][k]["video"].track
      BY <2>2, <3>1
    <3>3. handler[room.output[q][k]["video"].track] = Reporter(room, room.publisher[q][k])
      BY <2>1, <2>6, <3>2 DEF KnownOutside
    <3>4. r.publisher[q][k] = room.publisher[q][k] /\ room.publisher[q][k] # p
      BY <1>5, <2>2, <2>6, <3>1
    <3>5. room.publisher[q][k] \in Peers \cup {None}
      BY <1>1, RoomTypes
    <3>6. Reporter(r, r.publisher[q][k]) = Reporter(room, room.publisher[q][k])
      BY <2>3, <3>4, <3>5 DEF Reporter
    <3> QED
      BY <3>2, <3>3, <3>6
  <2>7. KnownOutside(r, xs, left')
    BY <2>4, <2>5, <2>6 DEF KnownOutside
  <2>8. \A q \in Peers, k \in Pairs, kd \in Media :
           <<q, k>> \in xs => r.output[q][k][kd].ready
    <3> SUFFICES ASSUME NEW q \in Peers, NEW k \in Pairs, NEW kd \in Media, <<q, k>> \in xs
                 PROVE  r.output[q][k][kd].ready
      OBVIOUS
    <3>1. room.publisher[q][k] # None
      BY <1>5, ScreenConstants
    <3> QED
      BY <1>1, <2>2, <3>1 DEF PublishersSound
  <2> QED
    BY <1>5, <1>7, <1>9, <2>7, <2>8, NoticesAnnounce DEF Structure
<1> HIDE DEF first
<1>17. IInv' /\ NoPairWasted'
  BY <1>1, <1>3, <1>4, <1>14, <1>15, ChangeKeepsInv
<1>18. NoticesInv => NoticesInv'
  <2>1. NoticesInv => resetting = {} /\ \A x \in fresh' : handler[x] = None
    BY <1>3, <1>4 DEF NoticesInv
  <2> QED
    BY <1>1, <1>3, <1>9, <1>15, <1>16, <2>1, ChangeIsAnnounced
<1> QED
  BY <1>17, <1>18

-----------------------------------------------------------------------------
(***************************************************************************)
(* register_output.  There are as many pairs as mids of a kind at most, so *)
(* a mid that has no pair finds one that is open.                          *)
(***************************************************************************)
LEMMA LeastPair ==
    ASSUME NEW S \in SUBSET Pairs, S # {}
    PROVE  \E k \in S : \A j \in S : k <= j
<1> DEFINE at == [x \in Pairs |-> x]
<1>1. IsFiniteSet(S)
  BY PairsFinite, FS_Subset
<1>2. \A z \in S : at[z] = z /\ at[z] \in Nat
  BY ScreenConstants DEF Pairs
<1> HIDE DEF at
<1>3. \A y, z \in S : at[y] = at[z] => y = z
  BY <1>2
<1>4. /\ Cardinality(S) \in Nat
      /\ \A n \in 0 .. (Cardinality(S) - 1) : \E x \in S : Rank(S, at, x) = n
  BY <1>1, <1>2, <1>3, RankOnto
<1>5. Cardinality(S) # 0
  BY <1>1, FS_EmptySet
<1>6. 0 \in 0 .. (Cardinality(S) - 1)
  BY <1>4, <1>5
<1>7. PICK k \in S : Rank(S, at, k) = 0
  BY <1>4, <1>6
<1>8. Before(S, at, k) \in SUBSET S
  BY DEF Before
<1>9. IsFiniteSet(Before(S, at, k))
  BY <1>1, <1>8, FS_Subset
<1>10. Before(S, at, k) = {}
  BY <1>7, <1>9, FS_EmptySet DEF Rank
<1>11. \A j \in S : ~(at[j] < at[k])
  BY <1>10 DEF Before
<1>12. \A j \in S : k <= j
  BY <1>2, <1>11
<1> QED
  BY <1>12

\* output_pair_for finds a pair for a new mid, by the pigeonhole principle.
LEMMA OpenPairExists ==
    ASSUME NEW r \in Rooms, OutputsWellFormed(r), NEW q \in Peers, NEW m \in Mids,
           \A k \in Pairs : r.output[q][k][MediaOf(m)].mid # m
    PROVE  \E k \in Pairs : r.output[q][k][MediaOf(m)].mid = None
<1> DEFINE kind == MediaOf(m)
           mids == {x \in Mids : MediaOf(x) = kind}
           f == [k \in Pairs |-> r.output[q][k][kind].mid]
<1> SUFFICES ASSUME \A k \in Pairs : r.output[q][k][kind].mid # None PROVE FALSE
  OBVIOUS
<1>1. kind \in Media
  BY DEF MediaOf, Media
<1>2. \A k \in Pairs : r.output[q][k][kind].mid \in mids \ {m}
  <2> SUFFICES ASSUME NEW k \in Pairs PROVE r.output[q][k][kind].mid \in mids \ {m}
    OBVIOUS
  <2>1. r.output[q][k][kind].mid \in Mids
    BY <1>1, OutputTypes
  <2>2. MediaOf(r.output[q][k][kind].mid) = kind
    BY <1>1 DEF OutputsWellFormed
  <2> QED
    BY <2>1, <2>2
<1>3. f \in [Pairs -> mids \ {m}]
  BY <1>2
<1>4. mids \subseteq VideoMids \/ mids \subseteq AudioMids
  BY DEF MediaOf, Mids
<1>5. IsFiniteSet(VideoMids) /\ IsFiniteSet(AudioMids)
  BY ScreenConstants, FS_Subset DEF Mids
<1>6. IsFiniteSet(mids) /\ Cardinality(mids) <= PairCount /\ Cardinality(mids) \in Nat
  <2>1. CASE mids \subseteq VideoMids
    <3>1. IsFiniteSet(mids) /\ Cardinality(mids) <= Cardinality(VideoMids)
      BY <1>5, <2>1, FS_Subset
    <3> QED
      BY <1>5, <3>1, FS_CardinalityType, ScreenConstants
  <2>2. CASE mids \subseteq AudioMids
    <3>1. IsFiniteSet(mids) /\ Cardinality(mids) <= Cardinality(AudioMids)
      BY <1>5, <2>2, FS_Subset
    <3> QED
      BY <1>5, <3>1, FS_CardinalityType, ScreenConstants
  <2> QED
    BY <1>4, <2>1, <2>2
<1>7. m \in mids
  OBVIOUS
<1> HIDE DEF mids
<1>8. IsFiniteSet(mids \ {m}) /\ Cardinality(mids \ {m}) = Cardinality(mids) - 1
  BY <1>6, <1>7, FS_RemoveElement
<1>9. IsFiniteSet(Pairs) /\ Cardinality(Pairs) = PairCount
  BY ScreenConstants, FS_Interval, PairsFinite DEF Pairs
<1>10. Cardinality(mids \ {m}) < Cardinality(Pairs)
  BY <1>6, <1>8, <1>9, ScreenConstants
<1> HIDE DEF f
<1>11. PICK x \in Pairs, y \in Pairs : x # y /\ f[x] = f[y]
  BY <1>3, <1>8, <1>9, <1>10, FS_PigeonHole
<1>12. r.output[q][x][kind].mid = r.output[q][y][kind].mid
  BY <1>11 DEF f
<1> QED
  BY <1>1, <1>11, <1>12 DEF OutputsWellFormed

\* output_pair_for gives one mid the same pair every time.
LEMMA PairForFacts ==
    ASSUME NEW r \in Rooms, OutputsWellFormed(r), NEW q \in Peers, NEW m \in Mids
    PROVE  LET k == PairFor(r, q, m) IN
           /\ k \in Pairs
           /\ \/ r.output[q][k][MediaOf(m)].mid = m
              \/ r.output[q][k][MediaOf(m)].mid = None
           /\ \A j \in Pairs \ {k} : r.output[q][j][MediaOf(m)].mid # m
<1> DEFINE kind == MediaOf(m)
           same == {k \in Pairs : r.output[q][k][kind].mid = m}
           open == {k \in Pairs : r.output[q][k][kind].mid = None}
           candidates == IF same # {} THEN same ELSE open
           k == PairFor(r, q, m)
<1>0. kind \in Media /\ m # None
  BY ScreenConstants DEF MediaOf, Media
<1>1. candidates \in SUBSET Pairs
  OBVIOUS
<1>2. candidates # {}
  BY OpenPairExists
<1>3. \E x \in candidates : \A j \in candidates : x <= j
  BY <1>1, <1>2, LeastPair
<1>4. k = CHOOSE x \in candidates : \A j \in candidates : x <= j
  BY DEF PairFor
<1> HIDE DEF k, candidates
<1>5. k \in candidates
  BY <1>3, <1>4
<1>6. CASE same # {}
  <2>1. k \in Pairs /\ r.output[q][k][kind].mid = m
    BY <1>5, <1>6 DEF candidates
  <2>2. \A j \in Pairs : r.output[q][j][kind].mid = m => j = k
    BY <1>0, <2>1 DEF OutputsWellFormed
  <2> QED
    BY <2>1, <2>2 DEF k
<1>7. CASE same = {}
  <2>1. k \in Pairs /\ r.output[q][k][kind].mid = None
    BY <1>5, <1>7 DEF candidates
  <2>2. \A j \in Pairs : r.output[q][j][kind].mid # m
    BY <1>7
  <2> QED
    BY <2>1, <2>2 DEF k
<1> QED
  BY <1>6, <1>7

\* Room a is room b with another output.
Replaced(b, a, q, k, kind, m, t) ==
    /\ a \in Rooms
    /\ a.present = b.present /\ a.input = b.input /\ a.streaming = b.streaming
    /\ a.watched = b.watched /\ a.next_watch = b.next_watch
    /\ a.publisher = b.publisher /\ a.generation = b.generation
    /\ a.output[q][k][kind].mid = m /\ a.output[q][k][kind].track = t
    /\ a.output[q][k][kind].ready = FALSE
    /\ \A x \in Peers, j \in Pairs, kd \in Media :
          ~(x = q /\ j = k /\ kd = kind) => a.output[x][j][kd] = b.output[x][j][kd]

\* An output that is put into a pair changes nothing else.
LEMMA ReplacedFields ==
    ASSUME NEW b \in Rooms, NEW q \in Peers, NEW k \in Pairs, NEW kind \in Media,
           NEW m \in Mids, NEW t \in Tracks
    PROVE  Replaced(b, [b EXCEPT !.output[q][k][kind] =
                           [NoOutput EXCEPT !.mid = m, !.track = t]], q, k, kind, m, t)
<1> DEFINE out == [NoOutput EXCEPT !.mid = m, !.track = t]
           a == [b EXCEPT !.output[q][k][kind] = out]
<1>1. /\ out \in Outputs /\ out.mid = m /\ out.track = t /\ out.ready = FALSE
  BY DEF NoOutput, Outputs
<1> HIDE DEF out
<1>2. /\ a.present = b.present /\ a.input = b.input /\ a.streaming = b.streaming
      /\ a.watched = b.watched /\ a.next_watch = b.next_watch
      /\ a.publisher = b.publisher /\ a.generation = b.generation
      /\ a.output = [b.output EXCEPT ![q][k][kind] = out]
  BY DEF Rooms
<1>3. a = [b EXCEPT !.output = a.output]
  BY <1>2 DEF Rooms
<1> HIDE DEF a
<1>4. a.output \in [Peers -> [Pairs -> [Media -> Outputs]]]
  BY <1>1, <1>2, RoomTypes
<1>5. a \in Rooms
  BY <1>3, <1>4 DEF Rooms
<1>6. \A x \in Peers, j \in Pairs, kd \in Media : a.output[x][j][kd] =
         IF x = q /\ j = k /\ kd = kind THEN out ELSE b.output[x][j][kd]
  BY <1>2, RoomTypes
<1>7. Replaced(b, a, q, k, kind, m, t)
  BY <1>1, <1>2, <1>5, <1>6 DEF Replaced
<1> QED
  BY <1>7 DEF a, out

\* A new track of a pair that carries nobody has no targets yet.
LEMMA ReplacedKeepsRoom ==
    ASSUME NEW b, NEW a, NEW q \in Peers, NEW k \in Pairs, NEW kind \in Media,
           NEW m \in Mids, NEW t \in Tracks, NEW fl, NEW unused, NEW left_over, NEW live,
           Replaced(b, a, q, k, kind, m, t), RoomOK(b, fl, unused, live),
           MediaOf(m) = kind, b.publisher[q][k] = None, q \in b.present,
           \A j \in Pairs \ {k} : b.output[q][j][kind].mid # m,
           t \in unused, left_over = unused \ {t}
    PROVE  RoomOK(a, fl, left_over, live)
<1>0. m # None /\ t # None
  BY ScreenConstants
<1>1. /\ Structure(b, unused) /\ PublishersSound(b) /\ GenerationsPresent(b)
      /\ TargetsCurrent(b, fl, unused, live) /\ b \in Rooms
  BY DEF RoomOK, Structure
<1>2. /\ a \in Rooms
      /\ a.present = b.present /\ a.input = b.input /\ a.streaming = b.streaming
      /\ a.watched = b.watched /\ a.next_watch = b.next_watch
      /\ a.publisher = b.publisher /\ a.generation = b.generation
      /\ a.output[q][k][kind].mid = m /\ a.output[q][k][kind].track = t
      /\ a.output[q][k][kind].ready = FALSE
      /\ \A x \in Peers, j \in Pairs, kd \in Media :
            ~(x = q /\ j = k /\ kd = kind) => a.output[x][j][kd] = b.output[x][j][kd]
  BY DEF Replaced
<1>3. WatchesDiffer(a)
  BY <1>1, <1>2 DEF Structure, WatchesDiffer
<1>4. AbsentHaveNothing(a)
  BY <1>1, <1>2 DEF Structure, AbsentHaveNothing
<1>5. OutputsWellFormed(a)
  <2> SUFFICES ASSUME NEW x \in Peers, NEW j \in Pairs, NEW kd \in Media
               PROVE  LET out == a.output[x][j][kd] IN
                      /\ out.mid = None <=> out.track = None
                      /\ out.track = None => ~out.ready
                      /\ out.mid # None => MediaOf(out.mid) = kd
                      /\ \A i \in Pairs : out.mid # None /\ a.output[x][i][kd].mid = out.mid
                                             => i = j
    BY DEF OutputsWellFormed
  <2>1. CASE x = q /\ j = k /\ kd = kind
    BY <1>0, <1>2, <2>1
  <2>2. CASE ~(x = q /\ j = k /\ kd = kind)
    <3>1. a.output[x][j][kd] = b.output[x][j][kd]
      BY <1>2, <2>2
    <3>2. LET out == b.output[x][j][kd] IN
          /\ out.mid = None <=> out.track = None
          /\ out.track = None => ~out.ready
          /\ out.mid # None => MediaOf(out.mid) = kd
          /\ \A i \in Pairs : out.mid # None /\ b.output[x][i][kd].mid = out.mid => i = j
      BY <1>1 DEF Structure, OutputsWellFormed
    <3>3. ASSUME NEW i \in Pairs, a.output[x][j][kd].mid # None,
                 a.output[x][i][kd].mid = a.output[x][j][kd].mid
          PROVE  i = j
      <4>1. CASE x = q /\ i = k /\ kd = kind
        BY <1>2, <2>2, <3>1, <3>3, <4>1
      <4>2. CASE ~(x = q /\ i = k /\ kd = kind)
        BY <1>2, <3>1, <3>2, <3>3, <4>2
      <4> QED
        BY <4>1, <4>2
    <3> QED
      BY <3>1, <3>2, <3>3
  <2> QED
    BY <2>1, <2>2
<1>6. \A x \in Peers, j \in Pairs, kd \in Media : b.output[x][j][kd].track # t
  BY <1>0, <1>1 DEF Structure, TracksDiffer
<1>7. TracksDiffer(a, left_over)
  <2> SUFFICES ASSUME NEW x \in Peers, NEW j \in Pairs, NEW kd \in Media,
                      a.output[x][j][kd].track # None
               PROVE  /\ a.output[x][j][kd].track \notin left_over
                      /\ \A y \in Peers, i \in Pairs, kx \in Media :
                            a.output[y][i][kx].track = a.output[x][j][kd].track =>
                               x = y /\ j = i /\ kd = kx
    BY DEF TracksDiffer
  <2>1. CASE x = q /\ j = k /\ kd = kind
    <3>1. a.output[x][j][kd].track = t
      BY <1>2, <2>1
    <3>2. ASSUME NEW y \in Peers, NEW i \in Pairs, NEW kx \in Media,
                 a.output[y][i][kx].track = t
          PROVE  y = q /\ i = k /\ kx = kind
      BY <1>2, <1>6, <3>2
    <3> QED
      BY <2>1, <3>1, <3>2
  <2>2. CASE ~(x = q /\ j = k /\ kd = kind)
    <3>1. a.output[x][j][kd] = b.output[x][j][kd]
      BY <1>2, <2>2
    <3>2. /\ b.output[x][j][kd].track \notin unused
          /\ \A y \in Peers, i \in Pairs, kx \in Media :
                b.output[y][i][kx].track = b.output[x][j][kd].track =>
                   x = y /\ j = i /\ kd = kx
      BY <1>1, <3>1 DEF Structure, TracksDiffer
    <3>3. ASSUME NEW y \in Peers, NEW i \in Pairs, NEW kx \in Media,
                 a.output[y][i][kx].track = a.output[x][j][kd].track
          PROVE  x = y /\ j = i /\ kd = kx
      <4>1. ~(y = q /\ i = k /\ kx = kind)
        BY <1>2, <1>6, <3>1, <3>3
      <4>2. a.output[y][i][kx] = b.output[y][i][kx]
        BY <1>2, <4>1
      <4> QED
        BY <3>1, <3>2, <3>3, <4>2
    <3> QED
      BY <3>1, <3>2, <3>3
  <2> QED
    BY <2>1, <2>2
<1>8. Structure(a, left_over)
  BY <1>2, <1>3, <1>4, <1>5, <1>7 DEF Structure
<1>9. \A x \in Peers, j \in Pairs, kd \in Media : a.publisher[x][j] # None =>
         b.publisher[x][j] # None /\ a.output[x][j][kd] = b.output[x][j][kd]
  BY <1>2
<1>10. PublishersSound(a)
  <2> SUFFICES ASSUME NEW x \in Peers, NEW j \in Pairs, a.publisher[x][j] # None
               PROVE  LET p == a.publisher[x][j] IN
                      /\ p # x /\ p \in a.present /\ a.streaming[p] /\ a.watched[x][p] # 0
                      /\ \A kd \in Media : a.output[x][j][kd].ready
                      /\ \A i \in Pairs \ {j} : a.publisher[x][i] # p
    BY DEF PublishersSound
  <2>1. \A kd \in Media : a.output[x][j][kd] = b.output[x][j][kd]
    BY <1>9
  <2> QED
    BY <1>1, <1>2, <2>1 DEF PublishersSound
<1>11. GenerationsPresent(a)
  BY <1>1, <1>2, <1>9 DEF GenerationsPresent
<1>12. TargetsCurrent(a, fl, left_over, live)
  <2> SUFFICES ASSUME NEW f \in fl, NEW target \in f.targets
               PROVE  /\ target.output \in Tracks \ left_over
                      /\ target.generation \in Nat
                      /\ target.generation <= a.generation[target.output]
                      /\ target.generation = a.generation[target.output] =>
                           \A x \in Peers, j \in Pairs, kd \in Media :
                             a.output[x][j][kd].track = target.output =>
                               /\ a.publisher[x][j] = f.source.publisher
                               /\ kd = f.source.kind
                               /\ (\/ a.input[f.source.publisher][kd] \in live
                                   \/ f.source.input \in live)
                                     => a.input[f.source.publisher][kd] = f.source.input
    BY DEF TargetsCurrent
  <2>1. /\ target.output \in Tracks \ unused
        /\ target.generation \in Nat
        /\ target.generation <= b.generation[target.output]
        /\ target.generation = b.generation[target.output] =>
             \A x \in Peers, j \in Pairs, kd \in Media :
               b.output[x][j][kd].track = target.output =>
                 /\ b.publisher[x][j] = f.source.publisher
                 /\ kd = f.source.kind
                 /\ (\/ b.input[f.source.publisher][kd] \in live
                     \/ f.source.input \in live)
                       => b.input[f.source.publisher][kd] = f.source.input
    BY <1>1 DEF TargetsCurrent
  <2>2. \A x \in Peers, j \in Pairs, kd \in Media :
           a.output[x][j][kd].track = target.output =>
              a.output[x][j][kd] = b.output[x][j][kd]
    BY <1>2, <2>1
  <2> QED
    BY <1>2, <2>1, <2>2
<1> QED
  BY <1>8, <1>10, <1>11, <1>12 DEF RoomOK

\* What the new output needs to be told was told, or was never told otherwise.
LEMMA ReplacedIsAnnounced ==
    ASSUME NEW b, NEW a, NEW q \in Peers, NEW k \in Pairs, NEW kind \in Media,
           NEW m \in Mids, NEW t \in Tracks, NEW unused, NEW left_over, NEW gone,
           NEW first \in SUBSET Notices,
           Replaced(b, a, q, k, kind, m, t), Structure(b, unused),
           MediaOf(m) = kind, b.publisher[q][k] = None,
           \A j \in Pairs \ {k} : b.output[q][j][kind].mid # m,
           b.output[q][k][kind].mid = m \/ b.output[q][k][kind].mid = None,
           t \in unused, left_over = unused \ {t}, handler[t] = None,
           Announced(b, first, unused, gone)
    PROVE  Announced(a, first, left_over, gone)
<1>0. m # None /\ t # None /\ "video" \in Media
  BY ScreenConstants DEF Media
<1>1. b \in Rooms /\ OutputsWellFormed(b) /\ TracksDiffer(b, unused)
  BY DEF Structure
<1>2. /\ a.input = b.input /\ a.publisher = b.publisher
      /\ a.output[q][k][kind].mid = m /\ a.output[q][k][kind].track = t
      /\ \A x \in Peers, j \in Pairs, kd \in Media :
            ~(x = q /\ j = k /\ kd = kind) => a.output[x][j][kd] = b.output[x][j][kd]
  BY DEF Replaced
<1>3. ASSUME NEW n \in first
      PROVE  \E j \in Pairs : Addressed(a, n, j, left_over) /\ Right(a, n, j)
  <2>1. PICK j \in Pairs : Addressed(b, n, j, unused) /\ Right(b, n, j)
    BY DEF Announced
  <2> DEFINE kd == MediaOf(n.mid)
  <2>2. n.to \in Peers /\ n.mid \in Mids /\ n.output \in Tracks /\ kd \in Media
    BY DEF Notices, MediaOf, Media
  <2>3. Right(a, n, j)
    BY <1>2, <2>1 DEF Right, VideoOf
  <2>4. n.output \notin unused /\ n.output # t /\ b.output[n.to][j][kd].mid = n.mid
    BY <2>1 DEF Addressed
  <2> HIDE DEF kd
  <2>5. a.output[n.to][j][kd].mid = n.mid
    <3>1. CASE n.to = q /\ j = k /\ kd = kind
      <4>1. n.mid # None
        BY <2>2, ScreenConstants
      <4> QED
        BY <1>2, <2>4, <3>1, <4>1
    <3>2. CASE ~(n.to = q /\ j = k /\ kd = kind)
      BY <1>2, <2>2, <2>4, <3>2
    <3> QED
      BY <3>1, <3>2
  <2>6. \/ n.output = a.output[n.to][j][kd].track
        \/ \A x \in Peers, i \in Pairs, kx \in Media : a.output[x][i][kx].track # n.output
    <3>1. \/ n.output = b.output[n.to][j][kd].track
          \/ \A x \in Peers, i \in Pairs, kx \in Media : b.output[x][i][kx].track # n.output
      BY <2>1 DEF Addressed, kd
    <3>2. CASE n.output = b.output[n.to][j][kd].track
      <4>1. CASE n.to = q /\ j = k /\ kd = kind
        <5>1. n.output # None
          BY <2>2, ScreenConstants
        <5>2. \A x \in Peers, i \in Pairs, kx \in Media :
                 b.output[x][i][kx].track = n.output => x = q /\ i = k /\ kx = kind
          BY <1>1, <3>2, <4>1, <5>1 DEF TracksDiffer
        <5>3. \A x \in Peers, i \in Pairs, kx \in Media : a.output[x][i][kx].track # n.output
          BY <1>2, <2>4, <5>2
        <5> QED
          BY <5>3
      <4>2. CASE ~(n.to = q /\ j = k /\ kd = kind)
        BY <1>2, <2>2, <3>2, <4>2
      <4> QED
        BY <4>1, <4>2
    <3>3. CASE \A x \in Peers, i \in Pairs, kx \in Media : b.output[x][i][kx].track # n.output
      BY <1>2, <2>4, <3>3
    <3> QED
      BY <3>1, <3>2, <3>3
  <2>7. Addressed(a, n, j, left_over)
    BY <2>4, <2>5, <2>6 DEF Addressed, kd
  <2> QED
    BY <2>3, <2>7
<1>4. ASSUME NEW x \in Peers \ gone, NEW j \in Pairs, NEW kd \in Media,
             b.output[x][j][kd].mid # None
      PROVE  \/ told[x][b.output[x][j][kd].mid] = b.publisher[x][j]
             \/ \E n \in first : /\ n.to = x /\ n.mid = b.output[x][j][kd].mid
                                 /\ n.publisher = b.publisher[x][j]
  BY <1>4 DEF Announced
<1>5. ASSUME q \notin gone, b.output[q][k][kind].mid = None
      PROVE  told[q][m] = None
  <2>1. \A j \in Pairs, kd \in Media : b.output[q][j][kd].mid # m
    <3> SUFFICES ASSUME NEW j \in Pairs, NEW kd \in Media, b.output[q][j][kd].mid = m
                 PROVE  FALSE
      OBVIOUS
    <3>1. kd = kind
      BY <1>0, <1>1 DEF OutputsWellFormed
    <3> QED
      BY <1>0, <1>5, <3>1
  <2> QED
    BY <1>5, <2>1 DEF Announced, OthersUntold
<1>6. ASSUME NEW x \in Peers \ gone, NEW j \in Pairs, NEW kd \in Media,
             a.output[x][j][kd].mid # None
      PROVE  \/ told[x][a.output[x][j][kd].mid] = a.publisher[x][j]
             \/ \E n \in first : /\ n.to = x /\ n.mid = a.output[x][j][kd].mid
                                 /\ n.publisher = a.publisher[x][j]
  <2>1. CASE x = q /\ j = k /\ kd = kind
    <3>1. a.output[x][j][kd].mid = m /\ a.publisher[x][j] = b.publisher[x][j]
      BY <1>2, <2>1
    <3>2. CASE b.output[q][k][kind].mid = m
      BY <1>0, <1>4, <2>1, <3>1, <3>2
    <3>3. CASE b.output[q][k][kind].mid = None
      BY <1>5, <2>1, <3>1, <3>3
    <3> QED
      BY <3>2, <3>3
  <2>2. CASE ~(x = q /\ j = k /\ kd = kind)
    <3>1. a.output[x][j][kd] = b.output[x][j][kd] /\ a.publisher[x][j] = b.publisher[x][j]
      BY <1>2, <2>2
    <3> QED
      BY <1>4, <1>6, <3>1
  <2> QED
    BY <2>1, <2>2
<1>7. OthersUntold(a, gone)
  <2> SUFFICES ASSUME NEW x \in Peers \ gone, NEW mx \in Mids,
                      \A j \in Pairs, kd \in Media : a.output[x][j][kd].mid # mx
               PROVE  told[x][mx] = None
    BY DEF OthersUntold
  <2>1. \A j \in Pairs, kd \in Media : b.output[x][j][kd].mid # mx
    <3> SUFFICES ASSUME NEW j \in Pairs, NEW kd \in Media
                 PROVE  b.output[x][j][kd].mid # mx
      OBVIOUS
    <3>1. CASE x = q /\ j = k /\ kd = kind
      <4>1. mx # None /\ mx # m
        BY <1>2, <3>1, ScreenConstants
      <4> QED
        BY <3>1, <4>1
    <3>2. CASE ~(x = q /\ j = k /\ kd = kind)
      BY <1>2, <3>2
    <3> QED
      BY <3>1, <3>2
  <2> QED
    BY <2>1 DEF Announced, OthersUntold
<1>8. ASSUME NEW x \in Peers, NEW j \in Pairs, a.output[x][j]["video"].track \in alive
      PROVE  \/ handler[a.output[x][j]["video"].track] = Reporter(a, a.publisher[x][j])
             \/ NoticeFor(a, x, j, "video") \in first
  <2>1. CASE x = q /\ j = k /\ "video" = kind
    BY <1>2, <2>1 DEF Reporter
  <2>2. CASE ~(x = q /\ j = k /\ "video" = kind)
    <3>1. a.output[x][j]["video"] = b.output[x][j]["video"]
      BY <1>0, <1>2, <2>2
    <3>2. /\ NoticeFor(a, x, j, "video") = NoticeFor(b, x, j, "video")
          /\ Reporter(a, a.publisher[x][j]) = Reporter(b, b.publisher[x][j])
      BY <1>2, <3>1 DEF NoticeFor, VideoOf, Reporter
    <3> QED
      BY <1>8, <3>1, <3>2 DEF Announced
  <2> QED
    BY <2>1, <2>2
<1> QED
  BY <1>3, <1>6, <1>7, <1>8 DEF Announced

\* RoomOK of the next state, from what it says of the next tables.
LEMMA RoomThen ==
    ASSUME RoomOK(room', flights', fresh', alive')
    PROVE  RoomOK(room, flights, fresh, alive)'
BY DEF RoomOK, Structure, WatchesDiffer, AbsentHaveNothing, OutputsWellFormed, TracksDiffer,
   PublishersSound, GenerationsPresent, TargetsCurrent

\* register_output, first critical section.
LEMMA InstallOutputInv ==
    ASSUME IInv, NEW q \in Peers, NEW m \in Mids, NEW t \in Tracks, InstallOutput(q, m, t)
    PROVE  IInv' /\ NoPairWasted' /\ (NoticesInv => NoticesInv')
<1> USE DEF shutdown, media, outside, notices
<1> DEFINE k == PairFor(room, q, m)
           kind == MediaOf(m)
           known == WithPeer(room, q)
           xs == IF room.publisher[q][k] = None THEN {} ELSE {<<q, k>>}
           b == Cleared(known, xs)
           first == NoticesOf(b, xs)
<1>1. /\ room \in Rooms /\ RoomOK(room, flights, fresh, alive) /\ TypeOK
      /\ Structure(room, fresh) /\ PublishersSound(room) /\ GenerationsPresent(room)
      /\ TargetsCurrent(room, flights, fresh, alive) /\ OutputsWellFormed(room)
  BY DEF IInv, RoomOK, Structure
<1>2. /\ k \in Pairs
      /\ room.output[q][k][kind].mid = m \/ room.output[q][k][kind].mid = None
      /\ \A j \in Pairs \ {k} : room.output[q][j][kind].mid # m
  BY <1>1, PairForFacts
<1>3. kind \in Media
  BY DEF MediaOf, Media
<1>4. /\ ~closed /\ ~busy /\ installing = None
      /\ installing' = [owner |-> q, mid |-> m, pair |-> k, notices |-> first]
      /\ room' = [b EXCEPT !.output[q][k][kind] = [NoOutput EXCEPT !.mid = m, !.track = t]]
      /\ t \in fresh /\ fresh' = fresh \ {t} /\ sent' = None
      /\ UNCHANGED <<shutdown, notices, media, alive, left, commands>>
  BY DEF InstallOutput, Quiet, busy, Fresh
<1>5. /\ known \in Rooms
      /\ known.present = room.present \cup {q} /\ known.input = room.input
      /\ known.streaming = room.streaming /\ known.watched = room.watched
      /\ known.next_watch = room.next_watch /\ known.output = room.output
      /\ known.publisher = room.publisher /\ known.generation = room.generation
  BY <1>1, JoinedFields
<1> HIDE DEF k, known, kind
<1>6. /\ xs \in SUBSET (Peers \X Pairs)
      /\ \A x \in Peers, j \in Pairs : <<x, j>> \in xs =>
            x = q /\ j = k /\ room.publisher[x][j] # None
      /\ room.publisher[q][k] # None => <<q, k>> \in xs
  BY <1>2
<1> HIDE DEF xs
<1>7. Structure(known, fresh)
  BY <1>1, <1>5 DEF Structure, WatchesDiffer, AbsentHaveNothing, OutputsWellFormed,
     TracksDiffer
<1>8. SoundOutside(known, xs)
  BY <1>1, <1>5 DEF SoundOutside, PublishersSound, GenerationsPresent
<1>9. SameMedia(room, known)
  BY <1>5 DEF SameMedia
<1>10. TargetsOutside(known, known, xs, Media, flights, fresh, alive)
  BY <1>1, <1>5, <1>9, SameMediaTargets
<1>11. \A x \in Peers, j \in Pairs, kd \in Media :
          <<x, j>> \in xs => known.output[x][j][kd].ready
  BY <1>1, <1>5, <1>6 DEF PublishersSound
<1>12. RoomOK(b, flights, fresh, alive)
  BY <1>6, <1>7, <1>8, <1>10, ClearKeepsRoom
<1>13. /\ b \in Rooms /\ SameShape(known, b)
       /\ \A x \in Peers, j \in Pairs :
             /\ <<x, j>> \in xs => b.publisher[x][j] = None
             /\ <<x, j>> \notin xs => b.publisher[x][j] = known.publisher[x][j]
  BY <1>5, <1>6, ClearedFields
<1>14. NoticesInv => Announced(b, first, fresh, left)
  <2>1. NoticesInv => KnownOutside(known, xs, left)
    BY <1>4, <1>9, NothingDue, SameMediaKnown
  <2> QED
    BY <1>6, <1>7, <1>11, <2>1, ClearIsAnnounced
<1> HIDE DEF b
<1>15. first \in SUBSET Notices
  BY <1>6, <1>12, NoticesType DEF RoomOK, Structure
<1> HIDE DEF first
<1>16. /\ b.publisher[q][k] = None /\ q \in b.present
       /\ b.output[q][k][kind].mid = m \/ b.output[q][k][kind].mid = None
       /\ \A j \in Pairs \ {k} : b.output[q][j][kind].mid # m
  BY <1>2, <1>3, <1>5, <1>6, <1>13 DEF SameShape
<1>17. Replaced(b, room', q, k, kind, m, t)
  BY <1>2, <1>3, <1>4, <1>13, ReplacedFields
<1>18. MediaOf(m) = kind
  BY DEF kind
<1>19. RoomOK(room', flights, fresh', alive)
  BY <1>2, <1>3, <1>4, <1>12, <1>16, <1>17, <1>18, ReplacedKeepsRoom
<1>20. RoomOK(room, flights, fresh, alive)'
  <2>1. flights' = flights /\ alive' = alive
    BY <1>4
  <2> QED
    BY <1>19, <2>1, RoomThen
<1>21. TypeOK'
  <2>1. room' \in Rooms
    BY <1>17 DEF Replaced
  <2> QED
    BY <1>1, <1>2, <1>4, <1>15, <2>1 DEF TypeOK, Installations
<1>22. installing' # None /\ installing'.owner = q /\ installing'.pair = k
         /\ installing'.mid = m /\ installing'.notices = first
  <2>1. installing' \in Installations
    BY <1>2, <1>4, <1>15 DEF Installations
  <2> QED
    BY <1>4, <2>1, NoInstallation
<1>23. InstallationOpen'
  <2>1. room'.output[q][k][MediaOf(m)].mid = m /\ ~room'.output[q][k][MediaOf(m)].ready
    BY <1>17, <1>18 DEF Replaced
  <2> QED
    BY <1>4, <1>22, <2>1 DEF InstallationOpen, busy, publishing
<1>24. IInv'
  BY <1>4, <1>20, <1>21, <1>23 DEF IInv
<1>25. NoPairWasted'
  BY <1>22 DEF NoPairWasted
<1>26. ASSUME NoticesInv PROVE NoticesInv'
  <2>1. /\ resetting = {} /\ \A x \in fresh : handler[x] = None
    BY <1>4, <1>26 DEF NoticesInv
  <2>2. Announced(b, first, fresh, left) /\ Structure(b, fresh)
    BY <1>12, <1>14, <1>26 DEF RoomOK
  <2>3. Announced(room', first, fresh', left)
    BY <1>2, <1>3, <1>4, <1>15, <1>16, <1>17, <1>18, <2>1, <2>2, ReplacedIsAnnounced
  <2>4. Announced(room, installing.notices, fresh, left)'
    <3>1. /\ told' = told /\ handler' = handler /\ alive' = alive /\ left' = left
          /\ installing'.notices = first
      BY <1>4, <1>22
    <3> QED
      BY <1>4, <2>3, <3>1, AnnouncedThen
  <2> QED
    BY <1>4, <1>22, <2>1, <2>4 DEF NoticesInv
<1> QED
  BY <1>24, <1>25, <1>26

\* The room that setDescription leaves when outputs have become ready.
SameButReady(r, b) ==
    /\ b.present = r.present /\ b.input = r.input /\ b.streaming = r.streaming
    /\ b.watched = r.watched /\ b.next_watch = r.next_watch
    /\ b.publisher = r.publisher /\ b.generation = r.generation
    /\ \A q \in Peers, k \in Pairs, kind \in Media :
          /\ b.output[q][k][kind].mid = r.output[q][k][kind].mid
          /\ b.output[q][k][kind].track = r.output[q][k][kind].track
          /\ b.output[q][k][kind].generation = r.output[q][k][kind].generation
          /\ r.output[q][k][kind].ready => b.output[q][k][kind].ready

\* That a pair becomes ready changes nothing else of the room.
LEMMA ReadyKeepsRoom ==
    ASSUME NEW r, NEW b \in Rooms, NEW fl, NEW unused, NEW live, SameButReady(r, b),
           OutputsWellFormed(b), RoomOK(r, fl, unused, live)
    PROVE  RoomOK(b, fl, unused, live)
<1> USE DEF SameButReady
<1>1. /\ WatchesDiffer(r) /\ AbsentHaveNothing(r) /\ TracksDiffer(r, unused)
      /\ PublishersSound(r) /\ GenerationsPresent(r) /\ TargetsCurrent(r, fl, unused, live)
  BY DEF RoomOK, Structure
<1>2. WatchesDiffer(b) /\ AbsentHaveNothing(b)
  BY <1>1 DEF WatchesDiffer, AbsentHaveNothing
<1>3. TracksDiffer(b, unused)
  <2> SUFFICES ASSUME NEW q \in Peers, NEW k \in Pairs, NEW kind \in Media,
                      b.output[q][k][kind].track # None
               PROVE  /\ b.output[q][k][kind].track \notin unused
                      /\ \A x \in Peers, j \in Pairs, kd \in Media :
                            b.output[x][j][kd].track = b.output[q][k][kind].track =>
                                q = x /\ k = j /\ kind = kd
    BY DEF TracksDiffer
  <2> DEFINE t == r.output[q][k][kind].track
  <2>1. t # None /\ b.output[q][k][kind].track = t
    OBVIOUS
  <2>2. /\ t \notin unused
        /\ \A x \in Peers, j \in Pairs, kd \in Media :
              r.output[x][j][kd].track = t => q = x /\ k = j /\ kind = kd
    BY <1>1, <2>1 DEF TracksDiffer
  <2> HIDE DEF t
  <2> QED
    BY <2>1, <2>2
<1>4. PublishersSound(b)
  <2> SUFFICES ASSUME NEW q \in Peers, NEW k \in Pairs, b.publisher[q][k] # None
               PROVE  LET x == b.publisher[q][k] IN
                      /\ x # q /\ x \in b.present /\ b.streaming[x] /\ b.watched[q][x] # 0
                      /\ \A kd \in Media : b.output[q][k][kd].ready
                      /\ \A j \in Pairs \ {k} : b.publisher[q][j] # x
    BY DEF PublishersSound
  <2> QED
    BY <1>1 DEF PublishersSound
<1>5. GenerationsPresent(b)
  <2> SUFFICES ASSUME NEW q \in Peers, NEW k \in Pairs, NEW kind \in Media,
                      b.publisher[q][k] # None
               PROVE  b.output[q][k][kind].generation = b.generation[b.output[q][k][kind].track]
    BY DEF GenerationsPresent
  <2>1. r.output[q][k][kind].generation = r.generation[r.output[q][k][kind].track]
    BY <1>1 DEF GenerationsPresent
  <2> QED
    BY <2>1
<1>6. TargetsCurrent(b, fl, unused, live)
  <2> SUFFICES ASSUME NEW f \in fl, NEW target \in f.targets
               PROVE  /\ target.output \in Tracks \ unused
                      /\ target.generation \in Nat
                      /\ target.generation <= b.generation[target.output]
                      /\ target.generation = b.generation[target.output] =>
                            \A q \in Peers, k \in Pairs, kind \in Media :
                               b.output[q][k][kind].track = target.output =>
                                  /\ b.publisher[q][k] = f.source.publisher
                                  /\ kind = f.source.kind
                                  /\ (\/ b.input[f.source.publisher][kind] \in live
                                      \/ f.source.input \in live)
                                       => b.input[f.source.publisher][kind] = f.source.input
    BY DEF TargetsCurrent
  <2> QED
    BY <1>1 DEF TargetsCurrent
<1> QED
  BY <1>2, <1>3, <1>4, <1>5, <1>6 DEF RoomOK, Structure

\* That an output is ready now is nothing to announce.
LEMMA AnnouncedKept ==
    ASSUME NEW r, NEW b, NEW first \in SUBSET Notices, NEW unused, NEW gone,
           b.publisher = r.publisher, b.input = r.input,
           \A q \in Peers, k \in Pairs, kind \in Media :
              /\ b.output[q][k][kind].mid = r.output[q][k][kind].mid
              /\ b.output[q][k][kind].track = r.output[q][k][kind].track,
           Announced(r, first, unused, gone)
    PROVE  Announced(b, first, unused, gone)
<1>0. "video" \in Media
  BY DEF Media
<1>1. ASSUME NEW n \in first
      PROVE  \E k \in Pairs : Addressed(b, n, k, unused) /\ Right(b, n, k)
  <2>1. PICK k \in Pairs : Addressed(r, n, k, unused) /\ Right(r, n, k)
    BY DEF Announced
  <2>2. n.to \in Peers /\ MediaOf(n.mid) \in Media
    BY DEF Notices, MediaOf, Media
  <2>3. Addressed(b, n, k, unused) /\ Right(b, n, k)
    BY <2>1, <2>2 DEF Addressed, Right, VideoOf
  <2> QED
    BY <2>3
<1>2. ASSUME NEW q \in Peers \ gone, NEW k \in Pairs, NEW kind \in Media,
             b.output[q][k][kind].mid # None
      PROVE  \/ told[q][b.output[q][k][kind].mid] = b.publisher[q][k]
             \/ \E n \in first : /\ n.to = q /\ n.mid = b.output[q][k][kind].mid
                                 /\ n.publisher = b.publisher[q][k]
  BY <1>2 DEF Announced
<1>3. OthersUntold(b, gone)
  BY DEF Announced, OthersUntold
<1>4. ASSUME NEW q \in Peers, NEW k \in Pairs, b.output[q][k]["video"].track \in alive
      PROVE  \/ handler[b.output[q][k]["video"].track] = Reporter(b, b.publisher[q][k])
             \/ NoticeFor(b, q, k, "video") \in first
  <2>1. /\ b.output[q][k]["video"].track = r.output[q][k]["video"].track
        /\ NoticeFor(b, q, k, "video") = NoticeFor(r, q, k, "video")
        /\ Reporter(b, b.publisher[q][k]) = Reporter(r, r.publisher[q][k])
    BY <1>0 DEF NoticeFor, VideoOf, Reporter
  <2> QED
    BY <1>4, <2>1 DEF Announced
<1> QED
  BY <1>1, <1>2, <1>3, <1>4 DEF Announced

\* register_output, second critical section, also after close().
LEMMA OutputReadyInv ==
    ASSUME IInv, OutputReady
    PROVE  IInv' /\ NoPairWasted' /\ (NoticesInv => NoticesInv')
<1> USE DEF shutdown, media, outside, notices
<1> DEFINE q == installing.owner
           k == installing.pair
           kind == MediaOf(installing.mid)
           first == installing.notices
           r == [room EXCEPT !.output[q][k][kind].ready = TRUE]
<1>1. /\ room \in Rooms /\ RoomOK(room, flights, fresh, alive) /\ TypeOK
      /\ Structure(room, fresh) /\ PublishersSound(room) /\ GenerationsPresent(room)
      /\ TargetsCurrent(room, flights, fresh, alive) /\ OutputsWellFormed(room)
  BY DEF IInv, RoomOK, Structure
<1>2. installing # None /\ installing \in Installations
  BY <1>1 DEF OutputReady, TypeOK
<1>3. /\ q \in Peers /\ k \in Pairs /\ kind \in Media /\ first \in SUBSET Notices
      /\ installing.mid \in Mids
  BY <1>2 DEF Installations, MediaOf, Media
<1>4. /\ installing' = None /\ sent' = None
      /\ UNCHANGED <<shutdown, media, outside, commands>>
  BY DEF OutputReady, Quiet
<1>5. CASE closed
  <2>1. /\ room' = room /\ pending' = [first |-> first, second |-> {}]
        /\ told' = told /\ handler' = handler
    BY <1>5 DEF OutputReady
  <2>2. TypeOK'
    BY <1>1, <1>3, <1>4, <2>1 DEF TypeOK
  <2>3. RoomOK(room, flights, fresh, alive)'
    BY <1>1, <1>4, <2>1, RoomThen
  <2>4. room'.present = {}
    BY <1>5, <2>1 DEF IInv
  <2>5. IInv'
    BY <1>4, <2>2, <2>3, <2>4 DEF IInv, InstallationOpen
  <2>6. NoPairWasted'
    BY <2>4 DEF NoPairWasted, Eligible
  <2>7. NoticesInv'
    BY <1>4, <1>5 DEF NoticesInv
  <2> QED
    BY <2>5, <2>6, <2>7
<1>6. CASE ~closed
  <2>1. AssignAndPublish(r, first)
    BY <1>6 DEF OutputReady
  <2>2. /\ r.present = room.present /\ r.input = room.input /\ r.streaming = room.streaming
        /\ r.watched = room.watched /\ r.next_watch = room.next_watch
        /\ r.publisher = room.publisher /\ r.generation = room.generation
        /\ r.output = [room.output EXCEPT ![q][k][kind].ready = TRUE]
    BY <1>1 DEF Rooms
  <2>3. r = [room EXCEPT !.output = r.output]
    BY <1>1, <2>2 DEF Rooms
  <2> DEFINE now == [room.output[q][k][kind] EXCEPT !.ready = TRUE]
  <2>0. r.output = [room.output EXCEPT ![q][k][kind] = now]
    BY <2>2
  <2> HIDE DEF r, q, k, kind, first
  <2>4. /\ room.output[q][k][kind] \in Outputs /\ now \in Outputs
        /\ now.mid = room.output[q][k][kind].mid /\ now.ready
        /\ now.track = room.output[q][k][kind].track
        /\ now.generation = room.output[q][k][kind].generation
    <3>1. room.output[q][k][kind] \in Outputs
      BY <1>1, <1>3, OutputTypes
    <3> QED
      BY <3>1 DEF Outputs
  <2> HIDE DEF now
  <2>5. r.output \in [Peers -> [Pairs -> [Media -> Outputs]]]
    BY <1>1, <1>3, <2>0, <2>4, RoomTypes
  <2>6. r \in Rooms
    BY <1>1, <2>3, <2>5 DEF Rooms
  <2>7. \A x \in Peers, j \in Pairs, kd \in Media : r.output[x][j][kd] =
           IF x = q /\ j = k /\ kd = kind THEN now ELSE room.output[x][j][kd]
    BY <1>1, <1>3, <2>0, RoomTypes
  <2>8. \A x \in Peers, j \in Pairs, kd \in Media :
           /\ r.output[x][j][kd].mid = room.output[x][j][kd].mid
           /\ r.output[x][j][kd].track = room.output[x][j][kd].track
           /\ r.output[x][j][kd].generation = room.output[x][j][kd].generation
           /\ room.output[x][j][kd].ready => r.output[x][j][kd].ready
           /\ ~(x = q /\ j = k /\ kd = kind) =>
                 r.output[x][j][kd].ready = room.output[x][j][kd].ready
    <3> SUFFICES ASSUME NEW x \in Peers, NEW j \in Pairs, NEW kd \in Media
                 PROVE  /\ r.output[x][j][kd].mid = room.output[x][j][kd].mid
                        /\ r.output[x][j][kd].track = room.output[x][j][kd].track
                        /\ r.output[x][j][kd].generation = room.output[x][j][kd].generation
                        /\ room.output[x][j][kd].ready => r.output[x][j][kd].ready
                        /\ ~(x = q /\ j = k /\ kd = kind) =>
                              r.output[x][j][kd].ready = room.output[x][j][kd].ready
      OBVIOUS
    <3>1. CASE x = q /\ j = k /\ kd = kind
      BY <2>4, <2>7, <3>1
    <3>2. CASE ~(x = q /\ j = k /\ kd = kind)
      BY <2>7, <3>2
    <3> QED
      BY <3>1, <3>2
  <2>9. room.output[q][k][kind].track # None
    <3>1. room.output[q][k][kind].mid = installing.mid
      BY <1>2, <1>6 DEF IInv, InstallationOpen, q, k, kind
    <3>2. room.output[q][k][kind].mid # None
      BY <1>3, <3>1, ScreenConstants
    <3> QED
      BY <1>1, <1>3, <3>2 DEF OutputsWellFormed
  <2>10. OutputsWellFormed(r)
    <3> SUFFICES ASSUME NEW x \in Peers, NEW j \in Pairs, NEW kd \in Media
                 PROVE  LET out == r.output[x][j][kd] IN
                        /\ out.mid = None <=> out.track = None
                        /\ out.track = None => ~out.ready
                        /\ out.mid # None => MediaOf(out.mid) = kd
                        /\ \A i \in Pairs : out.mid # None /\ r.output[x][i][kd].mid = out.mid
                                               => i = j
      BY DEF OutputsWellFormed
    <3>1. LET out == room.output[x][j][kd] IN
          /\ out.mid = None <=> out.track = None
          /\ out.track = None => ~out.ready
          /\ out.mid # None => MediaOf(out.mid) = kd
          /\ \A i \in Pairs : out.mid # None /\ room.output[x][i][kd].mid = out.mid => i = j
      BY <1>1 DEF OutputsWellFormed
    <3>2. r.output[x][j][kd].track = None => ~r.output[x][j][kd].ready
      BY <2>8, <2>9, <3>1
    <3>3. \A i \in Pairs : r.output[x][j][kd].mid # None
              /\ r.output[x][i][kd].mid = r.output[x][j][kd].mid => i = j
      BY <2>8, <3>1
    <3> QED
      BY <2>8, <3>1, <3>2, <3>3
  <2>11. SameButReady(room, r)
    <3>1. \A x \in Peers, j \in Pairs, kd \in Media :
             /\ r.output[x][j][kd].mid = room.output[x][j][kd].mid
             /\ r.output[x][j][kd].track = room.output[x][j][kd].track
             /\ r.output[x][j][kd].generation = room.output[x][j][kd].generation
             /\ room.output[x][j][kd].ready => r.output[x][j][kd].ready
      BY <2>8
    <3> QED
      BY <2>2, <3>1 DEF SameButReady
  <2>15. RoomOK(r, flights, fresh', alive)
    BY <1>1, <1>4, <2>6, <2>10, <2>11, ReadyKeepsRoom
  <2>16. /\ fresh' \subseteq Tracks /\ left' \subseteq Peers /\ commands' \in Nat
    BY <1>1, <1>4 DEF TypeOK
  <2>17. IInv' /\ NoPairWasted'
    BY <1>1, <1>3, <1>4, <1>6, <2>1, <2>15, <2>16, ChangeKeepsInv
  <2>18. ASSUME NoticesInv PROVE NoticesInv'
    <3>1. /\ resetting = {} /\ \A t \in fresh : handler[t] = None
          /\ Announced(room, first, fresh, left)
      BY <1>2, <1>6, <2>18 DEF NoticesInv, first
    <3>2. Announced(r, first, fresh, left)
      <4>1. \A x \in Peers, j \in Pairs, kd \in Media :
               /\ r.output[x][j][kd].mid = room.output[x][j][kd].mid
               /\ r.output[x][j][kd].track = room.output[x][j][kd].track
        BY <2>8
      <4>2. r.publisher = room.publisher /\ r.input = room.input
        BY <2>2
      <4>3. first \in SUBSET Notices
        BY <1>3 DEF first
      <4> QED
        BY <3>1, <4>1, <4>2, <4>3, AnnouncedKept
    <3>3. Structure(r, fresh') /\ Announced(r, first, fresh', left')
      BY <1>4, <2>15, <3>2 DEF RoomOK
    <3>4. \A t \in fresh' : handler[t] = None
      BY <1>4, <3>1
    <3> QED
      BY <1>1, <1>3, <1>4, <2>1, <3>1, <3>3, <3>4, ChangeIsAnnounced
  <2> QED
    BY <2>17, <2>18
<1> QED
  BY <1>5, <1>6

-----------------------------------------------------------------------------
(***************************************************************************)
(* publish, one notice at a time.                                          *)
(***************************************************************************)
LEMMA PublishNoticeInv ==
    ASSUME IInv, NoPairWasted, NEW k \in pending.first \cup pending.second, PublishNotice(k)
    PROVE  IInv' /\ NoPairWasted'
<1> USE DEF shutdown, media, outside
<1>1. /\ TypeOK /\ RoomOK(room, flights, fresh, alive) /\ InstallationOpen
      /\ closed => room.present = {}
  BY DEF IInv
<1>2. /\ k \in Notices /\ pending \in [first : SUBSET Notices, second : SUBSET Notices]
      /\ told \in [Peers -> [Mids -> Peers \cup {None}]]
      /\ handler \in [Tracks -> Reporters \cup {None}]
  BY <1>1 DEF TypeOK
<1>3. /\ UNCHANGED <<room, shutdown, installing, media, outside, commands>>
      /\ sent' = None
      /\ handler' = HandlerAfter(k)
      /\ told' = IF k.to \in left THEN told ELSE [told EXCEPT ![k.to][k.mid] = k.publisher]
  BY DEF PublishNotice, Quiet
<1>4. publishing
  BY DEF publishing, NoNotices
<1>5. installing' = None
  BY <1>1, <1>3, <1>4 DEF InstallationOpen
<1>6. /\ k.to \in Peers /\ k.mid \in Mids /\ k.publisher \in Peers \cup {None}
      /\ k.output \in Tracks /\ k.publisher_video \in Tracks \cup {None}
  BY <1>2 DEF Notices
<1>7. told' \in [Peers -> [Mids -> Peers \cup {None}]]
  BY <1>2, <1>3, <1>6
<1>8. handler' \in [Tracks -> Reporters \cup {None}]
  BY <1>2, <1>3, <1>6 DEF HandlerAfter, Reporters
<1>9. pending' \in [first : SUBSET Notices, second : SUBSET Notices]
  BY <1>2 DEF PublishNotice
<1>10. TypeOK'
  BY <1>1, <1>3, <1>5, <1>7, <1>8, <1>9 DEF TypeOK
<1>11. RoomOK(room, flights, fresh, alive)'
  BY <1>1, <1>3, RoomThen
<1>12. IInv'
  BY <1>1, <1>3, <1>5, <1>10, <1>11 DEF IInv, InstallationOpen
<1>13. NoPairWasted'
  BY <1>3 DEF NoPairWasted, FreePairs, Eligible
<1> QED
  BY <1>12, <1>13

\* A notice that is sent makes its pair right, or a later one will.
LEMMA PublishNoticeKeepsNotices ==
    ASSUME IInv, NoticesInv, ~closed,
           NEW n \in pending.first \cup pending.second, PublishNotice(n)
    PROVE  NoticesInv'
<1>1. /\ n \in Notices /\ TypeOK /\ TracksDiffer(room, fresh) /\ OutputsWellFormed(room)
      /\ room \in Rooms /\ InstallationOpen
      /\ told \in [Peers -> [Mids -> Peers \cup {None}]]
      /\ handler \in [Tracks -> Reporters \cup {None}]
      /\ pending \in [first : SUBSET Notices, second : SUBSET Notices]
      /\ None \notin alive
  BY ScreenConstants DEF IInv, TypeOK, RoomOK, Structure
<1>2. /\ n.to \in Peers /\ n.mid \in Mids /\ n.output \in Tracks
      /\ MediaOf(n.mid) \in Media /\ n.mid # None
  BY <1>1, ScreenConstants DEF Notices, MediaOf, Media
<1>3. /\ room' = room /\ alive' = alive /\ left' = left /\ fresh' = fresh
      /\ closed' = closed /\ resetting' = resetting /\ installing' = installing
      /\ told' = IF n.to \in left THEN told
                 ELSE [told EXCEPT ![n.to][n.mid] = n.publisher]
  BY DEF PublishNotice, shutdown, outside
<1>4. \/ /\ n \in pending.first /\ pending'.first = pending.first \ {n}
         /\ pending'.second = pending.second
      \/ /\ n \in pending.second /\ pending.first = {} /\ pending'.first = {}
         /\ pending'.second = pending.second \ {n}
  BY <1>1 DEF PublishNotice
<1>5. installing = None
  BY <1>1 DEF InstallationOpen, publishing, NoNotices
<1>6. /\ resetting = {} /\ \A t \in fresh : handler[t] = None
      /\ AssignedAreRight /\ ChangedAreCorrected /\ SubscribersDue
      /\ OthersUntold(room, left) /\ ReportersDue
  BY <1>5 DEF NoticesInv
<1>7. /\ \A t \in Tracks : t # n.output \/ n.output \notin alive => handler'[t] = handler[t]
      /\ n.output \in alive => handler'[n.output] =
            IF n.publisher = None THEN None
            ELSE [keyframes_from |-> IF n.mid \in VideoMids THEN n.publisher_video ELSE None]
  <2>1. handler' = HandlerAfter(n)
    BY DEF PublishNotice
  <2> QED
    BY <1>1, <1>2, <2>1 DEF HandlerAfter
<1>8. \A q \in Peers, m \in Mids : told'[q][m] =
         IF q = n.to /\ m = n.mid /\ q \notin left THEN n.publisher ELSE told[q][m]
  BY <1>1, <1>2, <1>3
\* What n says is right, or a notice of the assignment is still to come.
<1>9. PICK k \in Pairs : /\ Addressed(room, n, k, fresh)
                         /\ \/ Right(room, n, k)
                            \/ NoticeFor(room, n.to, k, MediaOf(n.mid)) \in pending'.second
  <2>1. CASE n \in pending.first /\ pending'.second = pending.second
    BY <1>6, <2>1 DEF ChangedAreCorrected
  <2>2. CASE n \in pending.second
    <3>1. PICK k \in Pairs : /\ room.output[n.to][k][MediaOf(n.mid)].mid = n.mid
                             /\ n = NoticeFor(room, n.to, k, MediaOf(n.mid))
      BY <1>6, <2>2 DEF AssignedAreRight
    <3>2. /\ n.output = room.output[n.to][k][MediaOf(n.mid)].track
          /\ n.publisher = room.publisher[n.to][k]
          /\ n.publisher_video = VideoOf(room, room.publisher[n.to][k])
      BY <3>1, NoticeFields
    <3>3. n.output # None
      BY <1>2, ScreenConstants
    <3>4. n.output \notin fresh
      BY <1>1, <1>2, <3>2, <3>3 DEF TracksDiffer
    <3> QED
      BY <3>1, <3>2, <3>4 DEF Addressed, Right
  <2> QED
    BY <1>4, <2>1, <2>2
<1>10. /\ room.output[n.to][k][MediaOf(n.mid)].mid = n.mid /\ n.output \notin fresh
       /\ \/ n.output = room.output[n.to][k][MediaOf(n.mid)].track
          \/ \A q \in Peers, j \in Pairs, kind \in Media :
                room.output[q][j][kind].track # n.output
  BY <1>9 DEF Addressed
<1>11. AssignedAreRight'
  <2> SUFFICES ASSUME NEW x \in pending'.second
               PROVE  \E j \in Pairs : /\ room.output[x.to][j][MediaOf(x.mid)].mid = x.mid
                                       /\ x = NoticeFor(room, x.to, j, MediaOf(x.mid))
    BY <1>3 DEF AssignedAreRight, NoticeFor, VideoOf
  <2>1. x \in pending.second
    BY <1>4
  <2> QED
    BY <1>6, <2>1 DEF AssignedAreRight
<1>12. ChangedAreCorrected'
  <2> SUFFICES ASSUME NEW x \in pending'.first
               PROVE  \E j \in Pairs :
                        /\ Addressed(room, x, j, fresh)
                        /\ \/ Right(room, x, j)
                           \/ NoticeFor(room, x.to, j, MediaOf(x.mid)) \in pending'.second
    BY <1>3, CorrectedThen
  <2>1. x \in pending.first /\ pending'.second = pending.second
    BY <1>4
  <2> QED
    BY <1>6, <2>1 DEF ChangedAreCorrected
<1>13. SubscribersDue'
  <2> SUFFICES ASSUME NEW q \in Peers \ left, NEW j \in Pairs, NEW kind \in Media,
                      room.output[q][j][kind].mid # None
               PROVE  \/ told'[q][room.output[q][j][kind].mid] = room.publisher[q][j]
                      \/ \E x \in pending'.first \cup pending'.second :
                            /\ x.to = q /\ x.mid = room.output[q][j][kind].mid
                            /\ x.publisher = room.publisher[q][j]
    BY SMTT(30), <1>3 DEF SubscribersDue
  <2> DEFINE m == room.output[q][j][kind].mid
  <2>0. m \in Mids
    BY <1>1, OutputTypes
  <2>1. CASE n.to = q /\ n.mid = m
    <3>1. told'[q][m] = n.publisher
      BY <1>8, <2>0, <2>1
    <3>2. kind = MediaOf(n.mid)
      BY <1>1, <2>1 DEF OutputsWellFormed
    <3>a. \A i \in Pairs : m # None /\ room.output[q][i][kind].mid = m => i = j
      BY <1>1 DEF OutputsWellFormed
    <3>b. room.output[q][k][kind].mid = m
      BY <1>10, <2>1, <3>2
    <3>3. j = k
      BY <3>a, <3>b
    <3>4. CASE Right(room, n, k)
      BY <2>1, <3>1, <3>3, <3>4 DEF Right
    <3>5. CASE NoticeFor(room, n.to, k, MediaOf(n.mid)) \in pending'.second
      <4>1. NoticeFor(room, q, j, kind) \in pending'.second
        BY <2>1, <3>2, <3>3, <3>5
      <4>2. /\ NoticeFor(room, q, j, kind).to = q /\ NoticeFor(room, q, j, kind).mid = m
            /\ NoticeFor(room, q, j, kind).publisher = room.publisher[q][j]
        BY NoticeFields
      <4> QED
        BY <4>1, <4>2
    <3> QED
      BY <1>9, <3>4, <3>5
  <2>2. CASE ~(n.to = q /\ n.mid = m)
    <3>1. told'[q][m] = told[q][m]
      BY <1>8, <2>0, <2>2
    <3>2. ASSUME NEW x \in pending.first \cup pending.second, x.to = q, x.mid = m
          PROVE  x \in pending'.first \cup pending'.second
      BY <1>4, <2>2, <3>2
    <3>3. \/ told[q][m] = room.publisher[q][j]
          \/ \E x \in pending.first \cup pending.second :
                x.to = q /\ x.mid = m /\ x.publisher = room.publisher[q][j]
      BY <1>6 DEF SubscribersDue
    <3> QED
      BY <3>1, <3>2, <3>3
  <2> QED
    BY <2>1, <2>2
<1>14. OthersUntold(room, left)'
  <2> SUFFICES ASSUME NEW q \in Peers \ left, NEW m \in Mids,
                      \A j \in Pairs, kind \in Media : room.output[q][j][kind].mid # m
               PROVE  told'[q][m] = None
    BY <1>3 DEF OthersUntold
  <2>1. ~(q = n.to /\ m = n.mid)
    BY <1>2, <1>10
  <2>2. told[q][m] = None
    BY <1>6 DEF OthersUntold
  <2> QED
    BY <1>8, <2>1, <2>2
<1>15. ReportersDue'
  <2> SUFFICES ASSUME NEW q \in Peers, NEW j \in Pairs,
                      room.output[q][j]["video"].track \in alive
               PROVE  \/ handler'[room.output[q][j]["video"].track]
                            = Reporter(room, room.publisher[q][j])
                      \/ NoticeFor(room, q, j, "video") \in pending'.first \cup pending'.second
    BY <1>3 DEF ReportersDue, NoticeFor, VideoOf, Reporter
  <2> DEFINE t == room.output[q][j]["video"].track
  <2>0. "video" \in Media /\ t \in Tracks /\ t # None
    BY <1>1, OutputTypes DEF Media
  <2>1. CASE n.output = t
    <3>1. n.output = room.output[n.to][k][MediaOf(n.mid)].track
      BY <1>10, <2>0, <2>1
    <3>a. \A x \in Peers, i \in Pairs, kd \in Media :
             room.output[x][i][kd].track = t => q = x /\ j = i /\ "video" = kd
      BY <1>1, <2>0 DEF TracksDiffer
    <3>b. MediaOf(n.mid) \in Media /\ n.to \in Peers
      BY <1>2 DEF MediaOf, Media
    <3>2. n.to = q /\ k = j /\ MediaOf(n.mid) = "video"
      <4> HIDE DEF t
      <4> QED BY <2>1, <3>1, <3>a, <3>b
    <3>3. n.mid \in VideoMids
      BY <3>2 DEF MediaOf
    <3>4. handler'[t] = IF n.publisher = None THEN None
                        ELSE [keyframes_from |-> n.publisher_video]
      BY <1>7, <2>1, <3>3
    <3>5. CASE Right(room, n, k)
      <4>1. n.publisher = room.publisher[q][j] /\ n.publisher_video = VideoOf(room, n.publisher)
        BY <3>2, <3>5 DEF Right
      <4> QED
        BY <3>4, <4>1 DEF VideoOf, Reporter
    <3>6. CASE NoticeFor(room, n.to, k, MediaOf(n.mid)) \in pending'.second
      BY <3>2, <3>6
    <3> QED
      BY <1>9, <3>5, <3>6
  <2>2. CASE n.output # t
    <3>1. handler'[t] = handler[t]
      BY <1>7, <2>0, <2>2
    <3>2. NoticeFor(room, q, j, "video") # n
      BY <2>2, NoticeFields
    <3>3. NoticeFor(room, q, j, "video") \in pending.first \cup pending.second =>
             NoticeFor(room, q, j, "video") \in pending'.first \cup pending'.second
      BY <1>4, <3>2
    <3>4. \/ handler[t] = Reporter(room, room.publisher[q][j])
          \/ NoticeFor(room, q, j, "video") \in pending.first \cup pending.second
      BY <1>6 DEF ReportersDue
    <3> QED
      BY <3>1, <3>3, <3>4
  <2> QED
    BY <2>1, <2>2
<1>16. \A t \in fresh' : handler'[t] = None
  <2>1. fresh \subseteq Tracks
    BY <1>1 DEF TypeOK
  <2> QED
    BY <1>3, <1>6, <1>7, <1>10, <2>1
<1> QED
  BY <1>3, <1>5, <1>6, <1>11, <1>12, <1>13, <1>14, <1>15, <1>16 DEF NoticesInv

-----------------------------------------------------------------------------
(***************************************************************************)
(* Packets.                                                                *)
(***************************************************************************)

\* The targets route copies are the outputs that carry its source.
LEMMA StartFlightInv ==
    ASSUME IInv, NEW source \in Sources,
           Locked(room.input[source.publisher][source.kind]) = Locked(source.input),
           StartFlight(source)
    PROVE  flights' \subseteq Flights /\ TargetsCurrent(room, flights', fresh, alive)
<1> DEFINE p == source.publisher
           kind == source.kind
           new == [source |-> source, targets |-> TargetsOf(p, kind)]
<1>1. /\ TypeOK /\ room \in Rooms
      /\ Structure(room, fresh) /\ OutputsWellFormed(room) /\ TracksDiffer(room, fresh)
      /\ PublishersSound(room) /\ GenerationsPresent(room)
      /\ TargetsCurrent(room, flights, fresh, alive)
  BY DEF IInv, RoomOK, Structure
<1>2. flights' = flights \/ flights' = flights \cup {new}
  BY DEF StartFlight
<1>3. p \in Peers /\ p # None /\ source.input \in Tracks /\ kind \in Media
  BY ScreenConstants DEF Sources
<1>4. ASSUME NEW target \in TargetsOf(p, kind)
      PROVE  /\ target \in Targets
             /\ target.output \in Tracks \ fresh
             /\ target.generation = room.generation[target.output]
             /\ \A x \in Peers, j \in Pairs, kd \in Media :
                   room.output[x][j][kd].track = target.output =>
                       room.publisher[x][j] = p /\ kd = kind
  <2>1. PICK x \in BoundTo(room, p) :
           /\ room.output[x[1]][x[2]][kind].ready
           /\ target = [output |-> room.output[x[1]][x[2]][kind].track,
                        generation |-> room.output[x[1]][x[2]][kind].generation]
    BY DEF TargetsOf
  <2> DEFINE q == x[1]
             k == x[2]
             out == room.output[q][k][kind]
  <2>2. q \in Peers /\ k \in Pairs /\ room.publisher[q][k] = p
    BY DEF BoundTo
  <2>3. out \in Outputs /\ out.generation \in Nat /\ out.track \in Tracks \cup {None}
    BY <1>1, <1>3, <2>2, OutputTypes DEF Outputs
  <2>4. out.track # None
    BY <1>1, <1>3, <2>1, <2>2 DEF OutputsWellFormed
  <2>5. out.generation = room.generation[out.track]
    BY <1>1, <1>3, <2>2 DEF GenerationsPresent
  <2>6. /\ out.track \notin fresh
        /\ \A y \in Peers, j \in Pairs, kd \in Media :
              room.output[y][j][kd].track = out.track => q = y /\ k = j /\ kind = kd
    <3>1. TracksDiffer(room, fresh) /\ q \in Peers /\ k \in Pairs /\ kind \in Media
          /\ room.output[q][k][kind].track # None
      BY <1>1, <1>3, <2>2, <2>4
    <3> HIDE DEF q, k, p, kind, new
    <3> QED
      BY <3>1 DEF TracksDiffer
  <2>7. target = [output |-> out.track, generation |-> out.generation]
    BY <2>1
  <2> HIDE DEF q, k, out
  <2>8. target.output = out.track /\ target.generation = out.generation /\ target \in Targets
    BY <2>3, <2>7 DEF Targets
  <2> QED
    BY <2>2, <2>3, <2>4, <2>5, <2>6, <2>8
<1>5. new \in Flights
  BY <1>4 DEF Flights
<1>6. flights' \subseteq Flights
  BY <1>1, <1>2, <1>5 DEF TypeOK
<1>7. (room.input[p][kind] \in alive \/ source.input \in alive) =>
          room.input[p][kind] = source.input
  <2>1. None \notin alive
    BY <1>1, ScreenConstants DEF TypeOK
  <2> QED
    BY <2>1 DEF Locked
<1>8. TargetsCurrent(room, {new}, fresh, alive)
  <2> SUFFICES ASSUME NEW f \in {new}, NEW target \in f.targets
               PROVE  /\ target.output \in Tracks \ fresh
                      /\ target.generation \in Nat
                      /\ target.generation <= room.generation[target.output]
                      /\ \A x \in Peers, j \in Pairs, kd \in Media :
                            room.output[x][j][kd].track = target.output =>
                                /\ room.publisher[x][j] = f.source.publisher
                                /\ kd = f.source.kind
                                /\ (\/ room.input[f.source.publisher][kd] \in alive
                                    \/ f.source.input \in alive)
                                      => room.input[f.source.publisher][kd] = f.source.input
    BY DEF TargetsCurrent
  <2>1. target \in TargetsOf(p, kind) /\ f.source = source
    OBVIOUS
  <2>2. target.generation \in Nat
    BY <1>4, <2>1 DEF Targets
  <2> HIDE DEF p, kind, new
  <2>3. f.source.publisher = p /\ f.source.kind = kind
    BY <2>1 DEF p, kind
  <2> QED
    BY <1>4, <1>7, <2>1, <2>2, <2>3
<1>9. TargetsCurrent(room, flights', fresh, alive)
  <2> HIDE DEF new
  <2> QED
    BY <1>1, <1>2, <1>8 DEF TargetsCurrent
<1> QED
  BY <1>6, <1>9

\* Other flights, and nothing else of the router changed.
LEMMA FlightsChanged ==
    ASSUME IInv, NoPairWasted,
           UNCHANGED <<room, shutdown, installing, notices, outside, commands>>,
           flights' \subseteq Flights, delayed' \subseteq Sources,
           sent' \in [output : Tracks, source : Sources] \cup {None},
           TargetsCurrent(room, flights', fresh, alive)
    PROVE  IInv' /\ NoPairWasted' /\ (NoticesInv => NoticesInv')
<1>1. /\ room' = room /\ closed' = closed /\ resetting' = resetting
      /\ installing' = installing /\ pending' = pending /\ told' = told
      /\ handler' = handler /\ fresh' = fresh /\ alive' = alive /\ left' = left
      /\ commands' = commands
  BY DEF shutdown, notices, outside
<1>2. TypeOK'
  BY <1>1 DEF IInv, TypeOK
<1>3. RoomOK(room, flights', fresh, alive)
  BY DEF IInv, RoomOK
<1>4. RoomOK(room', flights', fresh', alive')
  BY <1>1, <1>3
<1>5. (closed => room.present = {})' /\ InstallationOpen'
  BY <1>1 DEF IInv, InstallationOpen, publishing
<1>6. IInv'
  BY <1>2, <1>4, <1>5, RoomThen DEF IInv
<1>7. NoPairWasted'
  BY <1>1 DEF NoPairWasted, FreePairs, Eligible
<1>8. SameMedia(room, room')
  BY <1>1 DEF SameMedia
<1>9. NoticesInv => NoticesInv'
  BY <1>1, <1>8, NoticesKept
<1> QED
  BY <1>6, <1>7, <1>9

\* route: the targets of a packet are copied, or the packet is delayed.
LEMMA RouteInv ==
    ASSUME IInv, NoPairWasted, NEW p \in Peers, NEW kind \in Media,
           RouteNow(p, kind) \/ RouteDelayed(p, kind)
    PROVE  IInv' /\ NoPairWasted' /\ (NoticesInv => NoticesInv')
<1>1. TypeOK
  BY DEF IInv
<1> DEFINE source == [publisher |-> p, kind |-> kind, input |-> room.input[p][kind]]
<1>2. source \in Sources
  BY <1>1 DEF RouteNow, RouteDelayed, Routable, TypeOK, Sources
<1>3. CASE RouteNow(p, kind)
  <2>1. /\ StartFlight(source)
        /\ Locked(room.input[source.publisher][source.kind]) = Locked(source.input)
    BY <1>3 DEF RouteNow
  <2>2. flights' \subseteq Flights /\ TargetsCurrent(room, flights', fresh, alive)
    <3> HIDE DEF source
    <3> QED BY <1>2, <2>1, StartFlightInv
  <2>3. /\ UNCHANGED <<room, shutdown, installing, notices, delayed, outside, commands>>
        /\ sent' = None
    BY <1>3 DEF RouteNow, Quiet
  <2> QED
    BY <1>1, <2>2, <2>3, FlightsChanged DEF TypeOK
<1>4. CASE RouteDelayed(p, kind)
  <2>1. /\ delayed' = delayed \cup {source}
        /\ UNCHANGED <<room, shutdown, installing, notices, flights, outside, commands>>
        /\ sent' = None
    BY <1>4 DEF RouteDelayed, Quiet
  <2>2. TargetsCurrent(room, flights', fresh, alive)
    BY <2>1 DEF IInv, RoomOK
  <2>3. flights' \subseteq Flights /\ delayed' \subseteq Sources
    BY <1>1, <1>2, <2>1 DEF TypeOK
  <2> QED
    BY <2>1, <2>2, <2>3, FlightsChanged
<1> QED
  BY <1>3, <1>4

\* A delayed packet is sent only if its input is still the publisher's.
LEMMA ForwardDelayedInv ==
    ASSUME IInv, NoPairWasted, NEW d \in delayed, ForwardDelayed(d)
    PROVE  IInv' /\ NoPairWasted' /\ (NoticesInv => NoticesInv')
<1>1. TypeOK /\ d \in Sources
  BY DEF IInv, TypeOK
<1>2. /\ delayed' = delayed \ {d}
      /\ UNCHANGED <<room, shutdown, installing, notices, outside, commands>>
      /\ sent' = None
  BY DEF ForwardDelayed, Quiet
<1>3. flights' \subseteq Flights /\ TargetsCurrent(room, flights', fresh, alive)
  <2>1. CASE /\ Locked(room.input[d.publisher][d.kind]) = Locked(d.input)
             /\ StartFlight(d)
    BY <1>1, <2>1, StartFlightInv
  <2>2. CASE flights' = flights
    BY <1>1, <2>2 DEF TypeOK, IInv, RoomOK
  <2> QED
    BY <2>1, <2>2 DEF ForwardDelayed
<1>4. delayed' \subseteq Sources
  BY <1>1, <1>2 DEF TypeOK
<1> QED
  BY <1>2, <1>3, <1>4, FlightsChanged

\* send_packets: a target is served outside of the lock, or refused.
LEMMA SendPacketInv ==
    ASSUME IInv, NoPairWasted, NEW f \in flights, NEW target \in f.targets,
           SendPacket(f, target)
    PROVE  IInv' /\ NoPairWasted' /\ (NoticesInv => NoticesInv')
<1> DEFINE rest == [f EXCEPT !.targets = @ \ {target}]
<1>1. TypeOK /\ f \in Flights
  BY DEF IInv, TypeOK
<1>2. /\ flights' \subseteq flights \cup {rest}
      /\ UNCHANGED <<room, shutdown, installing, notices, delayed, outside, commands>>
      /\ sent' \in {[output |-> target.output, source |-> f.source], None}
  BY DEF SendPacket, Quiet
<1>3. rest \in Flights /\ rest.source = f.source /\ rest.targets \subseteq f.targets
  BY <1>1 DEF Flights
<1>4. TargetsCurrent(room, flights, fresh, alive)
  BY DEF IInv, RoomOK
<1>5. TargetsCurrent(room, flights', fresh, alive)
  <2> HIDE DEF rest
  <2>1. TargetsCurrent(room, {rest}, fresh, alive)
    BY <1>3, <1>4 DEF TargetsCurrent
  <2> QED
    BY <1>2, <1>4, <2>1 DEF TargetsCurrent
<1>6. target.output \in Tracks
  BY <1>4 DEF TargetsCurrent
<1>7. sent' \in [output : Tracks, source : Sources] \cup {None}
  BY <1>1, <1>2, <1>6 DEF Flights
<1>8. flights' \subseteq Flights /\ delayed' \subseteq Sources
  BY <1>1, <1>2, <1>3 DEF TypeOK
<1> QED
  BY <1>2, <1>5, <1>7, <1>8, FlightsChanged

-----------------------------------------------------------------------------
(***************************************************************************)
(* close, and tracks that go.                                              *)
(***************************************************************************)

\* A room nobody is in, whatever its rewriters count.
Empty(r) ==
    /\ r \in Rooms
    /\ r.present = {}
    /\ \A q \in Peers, k \in Pairs, kind \in Media : r.output[q][k][kind] = NoOutput
    /\ \A q \in Peers, k \in Pairs : r.publisher[q][k] = None
    /\ \A q \in Peers : ~r.streaming[q] /\ r.next_watch[q] = 1
    /\ \A q \in Peers, p \in Peers : r.watched[q][p] = 0

\* A room that was just made has nothing in its tables.
LEMMA NoRoomEmpty ==
    /\ Empty(NoRoom)
    /\ \A g \in [Tracks -> Nat] : /\ Empty([NoRoom EXCEPT !.generation = g])
                                  /\ [NoRoom EXCEPT !.generation = g].generation = g
<1>1. NoOutput \in Outputs
  BY DEF NoOutput, Outputs
<1>2. NoRoom \in Rooms
  BY <1>1 DEF NoRoom, Rooms
<1>3. Empty(NoRoom)
  BY <1>2 DEF NoRoom, Empty
<1> SUFFICES ASSUME NEW g \in [Tracks -> Nat]
             PROVE  /\ Empty([NoRoom EXCEPT !.generation = g])
                    /\ [NoRoom EXCEPT !.generation = g].generation = g
  BY <1>3
<1> DEFINE r == [NoRoom EXCEPT !.generation = g]
<1>4. r \in Rooms /\ r.generation = g
  BY <1>2 DEF Rooms
<1>5. /\ r.present = NoRoom.present /\ r.streaming = NoRoom.streaming
      /\ r.watched = NoRoom.watched /\ r.next_watch = NoRoom.next_watch
      /\ r.output = NoRoom.output /\ r.publisher = NoRoom.publisher
  BY <1>2 DEF Rooms
<1> HIDE DEF r
<1>6. Empty(r)
  BY <1>3, <1>4, <1>5 DEF Empty
<1> QED
  BY <1>4, <1>6 DEF r

\* An empty room is sound whatever is in flight to its former tracks.
LEMMA EmptyRoomOK ==
    ASSUME NEW r, Empty(r), NEW fl, NEW unused, NEW live,
           \A f \in fl : \A target \in f.targets :
              /\ target.output \in Tracks \ unused
              /\ target.generation \in Nat
              /\ target.generation <= r.generation[target.output]
    PROVE  RoomOK(r, fl, unused, live)
<1>1. /\ NoOutput.mid = None /\ NoOutput.track = None /\ NoOutput.ready = FALSE
  BY DEF NoOutput
<1>2. WatchesDiffer(r) /\ AbsentHaveNothing(r) /\ OutputsWellFormed(r)
  BY <1>1 DEF Empty, WatchesDiffer, AbsentHaveNothing, OutputsWellFormed
<1>3. TracksDiffer(r, unused) /\ PublishersSound(r) /\ GenerationsPresent(r)
  BY <1>1 DEF Empty, TracksDiffer, PublishersSound, GenerationsPresent
<1>4. TargetsCurrent(r, fl, unused, live)
  BY <1>1, ScreenConstants DEF Empty, TargetsCurrent
<1> QED
  BY <1>2, <1>3, <1>4 DEF Empty, RoomOK, Structure

\* close: the tables are emptied, and the sinks of the tracks are still to be taken.
LEMMA CloseInv ==
    ASSUME IInv, NoPairWasted, Close
    PROVE  IInv' /\ NoPairWasted' /\ (NoticesInv => NoticesInv')
<1>1. /\ closed' = TRUE /\ resetting' = LiveOutputs
      /\ room' = [NoRoom EXCEPT !.generation = room.generation]
      /\ delayed' = {} /\ sent' = None
      /\ installing' = installing /\ pending' = pending /\ told' = told
      /\ handler' = handler /\ flights' = flights
      /\ fresh' = fresh /\ alive' = alive /\ left' = left /\ commands' = commands
  BY DEF Close, Quiet, notices, outside
<1>2. TypeOK /\ TargetsCurrent(room, flights, fresh, alive) /\ InstallationOpen
  BY DEF IInv, RoomOK
<1>3. room.generation \in [Tracks -> Nat]
  BY <1>2, RoomTypes DEF TypeOK
<1>4. RoomOK(room', flights, fresh, alive) /\ room'.present = {}
  <2>1. \A f \in flights : \A target \in f.targets :
           /\ target.output \in Tracks \ fresh
           /\ target.generation \in Nat
           /\ target.generation <= room.generation[target.output]
    BY <1>2 DEF TargetsCurrent
  <2>2. Empty(room') /\ room'.generation = room.generation
    BY <1>1, <1>3, NoRoomEmpty
  <2> QED
    BY <2>1, <2>2, EmptyRoomOK DEF Empty
<1>5. RoomOK(room', flights', fresh', alive')
  BY <1>1, <1>4
<1>6. TypeOK'
  <2>1. room' \in Rooms
    BY <1>4 DEF RoomOK, Structure
  <2>2. LiveOutputs \subseteq Tracks
    BY <1>2 DEF LiveOutputs, TypeOK
  <2> QED
    BY <1>1, <1>2, <2>1, <2>2 DEF TypeOK
<1>7. InstallationOpen'
  BY <1>1, <1>2 DEF InstallationOpen, publishing
<1>8. IInv'
  BY <1>4, <1>5, <1>6, <1>7, RoomThen DEF IInv
<1>9. NoPairWasted'
  BY <1>4 DEF NoPairWasted, Eligible
<1>10. NoticesInv'
  BY <1>1 DEF NoticesInv
<1> QED
  BY <1>8, <1>9, <1>10

\* close takes the sink of one track.
LEMMA DetachTrackInv ==
    ASSUME IInv, NoPairWasted, NEW t \in Tracks, DetachTrack(t)
    PROVE  IInv' /\ NoPairWasted' /\ (NoticesInv => NoticesInv')
<1>1. /\ t \in resetting /\ resetting' = resetting \ {t}
      /\ handler' = [handler EXCEPT ![t] = None]
      /\ room' = room /\ closed' = closed /\ installing' = installing
      /\ pending' = pending /\ told' = told /\ flights' = flights /\ delayed' = delayed
      /\ sent' = None /\ fresh' = fresh /\ alive' = alive /\ left' = left
      /\ commands' = commands
  BY DEF DetachTrack, Quiet, media, outside
<1>2. TypeOK'
  BY <1>1 DEF IInv, TypeOK
<1>3. RoomOK(room', flights', fresh', alive')
  BY <1>1 DEF IInv
<1>4. (closed => room.present = {})' /\ InstallationOpen'
  BY <1>1 DEF IInv, InstallationOpen, publishing
<1>5. IInv'
  BY <1>2, <1>3, <1>4, RoomThen DEF IInv
<1>6. NoPairWasted'
  BY <1>1 DEF NoPairWasted, FreePairs, Eligible
<1>7. NoticesInv => NoticesInv'
  BY <1>1 DEF NoticesInv
<1> QED
  BY <1>5, <1>6, <1>7

\* A track that is gone frees no pair and owes no reporter.
LEMMA TrackExpiresInv ==
    ASSUME IInv, NoPairWasted, NEW t \in Tracks, TrackExpires(t)
    PROVE  IInv' /\ NoPairWasted' /\ (NoticesInv => NoticesInv')
<1>1. /\ alive' = alive \ {t} /\ handler' = [handler EXCEPT ![t] = None]
      /\ room' = room /\ closed' = closed /\ resetting' = resetting
      /\ installing' = installing /\ pending' = pending /\ told' = told
      /\ flights' = flights /\ delayed' = delayed /\ sent' = None
      /\ fresh' = fresh /\ left' = left /\ commands' = commands
  BY DEF TrackExpires, Quiet, shutdown, media
<1>2. TypeOK /\ RoomOK(room, flights, fresh, alive)
  BY DEF IInv
<1>3. TypeOK'
  BY <1>1, <1>2 DEF TypeOK
<1>4. RoomOK(room', flights', fresh', alive')
  <2>1. TargetsCurrent(room, flights, fresh, alive')
    BY <1>1, <1>2 DEF RoomOK, TargetsCurrent
  <2>2. RoomOK(room, flights, fresh, alive')
    BY <1>2, <2>1 DEF RoomOK
  <2> QED
    BY <1>1, <2>2
<1>5. (closed => room.present = {})' /\ InstallationOpen'
  BY <1>1 DEF IInv, InstallationOpen, publishing
<1>6. IInv'
  BY <1>3, <1>4, <1>5, RoomThen DEF IInv
<1>7. NoPairWasted'
  <2>1. \A q \in Peers : /\ FreePairs(room, q)' \subseteq FreePairs(room, q)
                         /\ Eligible(room, q)' \subseteq Eligible(room, q)
    BY <1>1 DEF FreePairs, Eligible
  <2> QED
    BY <1>1, <2>1 DEF NoPairWasted
<1>8. ASSUME NoticesInv PROVE NoticesInv'
  <2> SUFFICES ASSUME ~closed PROVE NoticesInv'
    BY <1>1 DEF NoticesInv
  <2>1. handler \in [Tracks -> Reporters \cup {None}] /\ fresh \subseteq Tracks
    BY <1>2 DEF TypeOK
  <2>2. \A x \in Tracks : x # t => handler'[x] = handler[x]
    BY <1>1, <2>1
  <2>3. resetting' = {} /\ \A x \in fresh' : handler'[x] = None
    BY <1>1, <1>8, <2>1 DEF NoticesInv
  <2>4. CASE installing # None
    <3>1. Announced(room, installing.notices, fresh, left)
      BY <1>8, <2>4 DEF NoticesInv
    <3>2. Announced(room, installing.notices, fresh, left)'
      <4>1. \A n \in installing'.notices : \E k \in Pairs :
               Addressed(room, n, k, fresh)' /\ Right(room, n, k)'
        BY <1>1, <3>1 DEF Announced, Addressed, Right, VideoOf
      <4>2. OthersUntold(room, left)'
        BY <1>1, <3>1 DEF Announced, OthersUntold
      <4>3. (\A q \in Peers, k \in Pairs : room.output[q][k]["video"].track \in alive =>
                \/ handler[room.output[q][k]["video"].track]
                      = Reporter(room, room.publisher[q][k])
                \/ NoticeFor(room, q, k, "video") \in installing.notices)'
        <5> SUFFICES ASSUME NEW q \in Peers, NEW k \in Pairs,
                            room.output[q][k]["video"].track \in alive \ {t}
                     PROVE  \/ handler'[room.output[q][k]["video"].track]
                                  = Reporter(room, room.publisher[q][k])
                            \/ NoticeFor(room, q, k, "video") \in installing.notices
          BY <1>1 DEF Reporter, NoticeFor, VideoOf
        <5>1. room.output[q][k]["video"].track \in Tracks
          BY <1>2 DEF TypeOK
        <5> QED
          BY <2>2, <3>1, <5>1 DEF Announced
      <4>4. (\A q \in Peers \ left, k \in Pairs, kind \in Media :
               room.output[q][k][kind].mid # None =>
                 \/ told[q][room.output[q][k][kind].mid] = room.publisher[q][k]
                 \/ \E n \in installing.notices :
                       /\ n.to = q /\ n.mid = room.output[q][k][kind].mid
                       /\ n.publisher = room.publisher[q][k])'
        BY <1>1, <3>1 DEF Announced
      <4> QED
        BY <4>1, <4>2, <4>3, <4>4 DEF Announced
    <3> QED
      BY <1>1, <2>3, <2>4, <3>2 DEF NoticesInv
  <2>5. CASE installing = None
    <3>1. /\ AssignedAreRight /\ ChangedAreCorrected /\ SubscribersDue
          /\ OthersUntold(room, left) /\ ReportersDue
      BY <1>8, <2>5 DEF NoticesInv
    <3>2. AssignedAreRight'
      BY SMTT(30), <1>1, <3>1 DEF AssignedAreRight, NoticeFor, VideoOf
    <3>3. ChangedAreCorrected'
      BY <1>1, <3>1, CorrectedThen DEF ChangedAreCorrected
    <3>4. SubscribersDue'
      BY <1>1, <3>1 DEF SubscribersDue
    <3>5. OthersUntold(room, left)'
      BY <1>1, <3>1 DEF OthersUntold
    <3>6. ReportersDue'
      <4> SUFFICES ASSUME NEW q \in Peers, NEW k \in Pairs,
                          room.output[q][k]["video"].track \in alive \ {t}
                   PROVE  \/ handler'[room.output[q][k]["video"].track]
                                = Reporter(room, room.publisher[q][k])
                          \/ NoticeFor(room, q, k, "video") \in pending.first \cup pending.second
        BY <1>1 DEF ReportersDue, Reporter, NoticeFor, VideoOf
      <4>1. room.output[q][k]["video"].track \in Tracks
        BY <1>2 DEF TypeOK
      <4> QED
        BY <2>2, <3>1, <4>1 DEF ReportersDue
    <3> QED
      BY <1>1, <2>3, <2>5, <3>2, <3>3, <3>4, <3>5, <3>6 DEF NoticesInv
  <2> QED
    BY <2>4, <2>5
<1> QED
  BY <1>6, <1>7, <1>8

-----------------------------------------------------------------------------
(***************************************************************************)
(* The induction.                                                          *)
(***************************************************************************)
RouterInv == IInv /\ NoPairWasted /\ NoticesInv

\* A router begins with an empty room.
LEMMA InitInv == Init => RouterInv
<1> SUFFICES ASSUME Init PROVE RouterInv
  OBVIOUS
<1>1. /\ room = NoRoom /\ closed = FALSE /\ resetting = {} /\ installing = None
      /\ pending = NoNotices /\ told = [q \in Peers |-> [m \in Mids |-> None]]
      /\ handler = [t \in Tracks |-> None] /\ flights = {} /\ delayed = {}
      /\ sent = None /\ fresh = Tracks /\ alive = Tracks /\ left = {} /\ commands = 0
  BY DEF Init
<1>2. Empty(room)
  BY <1>1, NoRoomEmpty
<1>3. /\ RoomOK(room, flights, fresh, alive) /\ room.present = {}
      /\ \A q \in Peers, k \in Pairs, kind \in Media : room.output[q][k][kind] = NoOutput
      /\ \A q \in Peers, k \in Pairs : room.publisher[q][k] = None
  BY <1>1, <1>2, EmptyRoomOK DEF Empty
<1>4. TypeOK
  <2>1. room \in Rooms
    BY <1>3 DEF RoomOK, Structure
  <2>2. pending \in [first : SUBSET Notices, second : SUBSET Notices]
    BY <1>1 DEF NoNotices
  <2> QED
    BY <1>1, <2>1, <2>2 DEF TypeOK
<1>5. IInv
  BY <1>1, <1>3, <1>4 DEF IInv, InstallationOpen
<1>6. NoPairWasted
  BY <1>3 DEF NoPairWasted, Eligible
<1>7. NoticesInv
  <2>1. pending.first = {} /\ pending.second = {}
    BY <1>1 DEF NoNotices
  <2>2. NoOutput.mid = None /\ NoOutput.track = None
    BY DEF NoOutput
  <2>3. OthersUntold(room, left)
    BY <1>1 DEF OthersUntold
  <2>4. SubscribersDue
    BY <1>3, <2>2 DEF SubscribersDue
  <2>5. ReportersDue
    BY <1>1, <1>3, <2>2, ScreenConstants DEF ReportersDue, Media
  <2> QED
    BY <1>1, <2>1, <2>3, <2>4, <2>5 DEF NoticesInv, AssignedAreRight, ChangedAreCorrected
<1> QED
  BY <1>5, <1>6, <1>7 DEF RouterInv

\* Every step of the router keeps the invariant.
LEMMA NextInv == RouterInv /\ [Next]_vars => RouterInv'
<1> SUFFICES ASSUME RouterInv, [Next]_vars PROVE RouterInv'
  OBVIOUS
<1>0. /\ IInv /\ NoPairWasted /\ NoticesInv
      /\ Publishers \subseteq Peers /\ Subscribers \subseteq Peers
  BY DEF RouterInv, Peers
<1> HIDE DEF Peers
<1>1. ASSUME NEW p \in Publishers, NEW kind \in Media, NEW t \in Tracks,
             RegisterInput(p, kind, t)
      PROVE  RouterInv'
  BY <1>0, <1>1, RegisterInputInv DEF RouterInv
<1>2. ASSUME NEW q \in Subscribers, NEW m \in Mids, NEW t \in Tracks, InstallOutput(q, m, t)
      PROVE  RouterInv'
  BY <1>0, <1>2, InstallOutputInv DEF RouterInv
<1>3. CASE OutputReady
  BY <1>0, <1>3, OutputReadyInv DEF RouterInv
<1>4. ASSUME NEW p \in Publishers, NEW streaming \in BOOLEAN, SetStreaming(p, streaming)
      PROVE  RouterInv'
  BY <1>0, <1>4, SetStreamingInv DEF RouterInv
<1>5. ASSUME NEW q \in Subscribers, NEW p \in Publishers, StartWatching(q, p)
      PROVE  RouterInv'
  BY <1>0, <1>5, StartWatchingInv DEF RouterInv
<1>6. ASSUME NEW q \in Subscribers, NEW p \in Publishers, StopWatching(q, p)
      PROVE  RouterInv'
  BY <1>0, <1>6, StopWatchingInv DEF RouterInv
<1>7. ASSUME NEW p \in Peers, RemovePeer(p) PROVE RouterInv'
  BY <1>0, <1>7, RemovePeerInv DEF RouterInv
<1>8. ASSUME NEW n \in pending.first \cup pending.second, PublishNotice(n)
      PROVE  RouterInv'
  <2>1. closed' = closed
    BY <1>8 DEF PublishNotice, shutdown
  <2>2. NoticesInv'
    <3>1. CASE closed
      BY <2>1, <3>1 DEF NoticesInv
    <3>2. CASE ~closed
      BY <1>0, <1>8, <3>2, PublishNoticeKeepsNotices
    <3> QED
      BY <3>1, <3>2
  <2> QED
    BY <1>0, <1>8, <2>2, PublishNoticeInv DEF RouterInv
<1>9. ASSUME NEW p \in Peers, NEW kind \in Media, RouteNow(p, kind) \/ RouteDelayed(p, kind)
      PROVE  RouterInv'
  BY <1>0, <1>9, RouteInv DEF RouterInv
<1>10. ASSUME NEW d \in delayed, ForwardDelayed(d) PROVE RouterInv'
  BY <1>0, <1>10, ForwardDelayedInv DEF RouterInv
<1>11. ASSUME NEW f \in flights, NEW target \in f.targets, SendPacket(f, target)
       PROVE  RouterInv'
  BY <1>0, <1>11, SendPacketInv DEF RouterInv
<1>12. CASE Close
  BY <1>0, <1>12, CloseInv DEF RouterInv
<1>13. ASSUME NEW t \in Tracks, DetachTrack(t) \/ TrackExpires(t) PROVE RouterInv'
  BY <1>0, <1>13, DetachTrackInv, TrackExpiresInv DEF RouterInv
<1>14. CASE UNCHANGED vars
  <2>1. /\ UNCHANGED <<room, shutdown, installing, notices, outside, commands>>
        /\ flights' = flights /\ delayed' = delayed /\ sent' = sent
    BY <1>14 DEF vars, media
  <2>2. /\ flights' \subseteq Flights /\ delayed' \subseteq Sources
        /\ sent' \in [output : Tracks, source : Sources] \cup {None}
    BY <1>0, <2>1 DEF IInv, TypeOK
  <2>3. TargetsCurrent(room, flights', fresh, alive)
    BY <1>0, <2>1 DEF IInv, RoomOK
  <2> QED
    BY <1>0, <2>1, <2>2, <2>3, FlightsChanged DEF RouterInv
<1>15. CASE Next
  BY <1>1, <1>2, <1>3, <1>4, <1>5, <1>6, <1>7, <1>8, <1>9, <1>10, <1>11, <1>12, <1>13,
     <1>15 DEF Next
<1> QED
  BY <1>14, <1>15

\* The inductive invariant holds in every behaviour of the router.
THEOREM Invariance == Spec => []RouterInv
BY InitInv, NextInv, PTL DEF Spec

(***************************************************************************)
(* Nobody sees a screen they do not watch or that is not shared: whatever  *)
(* set_streaming, set_watching, register_track, remove_peer and close      *)
(* interleave, a bound pair is ready and its publisher is another peer     *)
(* that streams, is watched, and is on no other pair of the subscriber.    *)
(***************************************************************************)
THEOREM ScreenBindingsAreSound == Spec => []BindingsSound
<1>1. RouterInv => BindingsSound
  BY DEF RouterInv, IInv, RoomOK, PublishersSound, BindingsSound
<1> QED
  BY <1>1, Invariance, PTL

\* Outside register_output, only the lack of a pair keeps a watched screen away.
THEOREM NoPairIsWasted == Spec => []NoPairWasted
<1>1. RouterInv => NoPairWasted
  BY DEF RouterInv
<1> QED
  BY <1>1, Invariance, PTL

(***************************************************************************)
(* The notices an operation collects make up for all it did to the pairs,  *)
(* those of the assignment correct those of the change, and publish sends  *)
(* them in that order: when publish_mutex is free again every subscriber   *)
(* was last told what its pairs carry.                                     *)
(***************************************************************************)
THEOREM SubscribersAreInformed == Spec => []SubscribersInformed
<1>1. RouterInv => SubscribersInformed
  BY NothingDue DEF RouterInv, KnownOutside, SubscribersInformed
<1> QED
  BY <1>1, Invariance, PTL

\* And the reporter of each video output asks the publisher's present input.
THEOREM KeyframesAlwaysReachSource == Spec => []KeyframesReachSource
<1>1. RouterInv => KeyframesReachSource
  <2> SUFFICES ASSUME RouterInv, ~busy, ~closed, NEW q \in Peers, NEW k \in Pairs,
                      room.output[q][k]["video"].track \in alive
               PROVE  handler[room.output[q][k]["video"].track]
                        = Reporter(room, room.publisher[q][k])
    BY DEF KeyframesReachSource, Reporter
  <2>1. KnownOutside(room, {}, left)
    BY NothingDue DEF RouterInv
  <2> QED
    BY <2>1 DEF KnownOutside
<1> QED
  BY <1>1, Invariance, PTL

(***************************************************************************)
(* A route call sends to the targets it copied under the lock, after any   *)
(* number of other operations.  The generation of the output's rewriter    *)
(* rejects what is stale, so that a packet that goes out is of the         *)
(* publisher, the kind and the input that the pair carries at that moment. *)
(***************************************************************************)
THEOREM ScreensStayApart == Spec => NoCrossTalk
<1> DEFINE Own == sent' # None =>
             \A q \in Peers, k \in Pairs, kind \in Media :
                room.output[q][k][kind].track = sent'.output =>
                   LET source == sent'.source IN
                   /\ room.publisher[q][k] = source.publisher
                   /\ kind = source.kind
                   /\ Locked(room.input[source.publisher][kind]) = Locked(source.input)
<1>1. RouterInv /\ [Next]_vars => [Own]_vars
  <2> SUFFICES ASSUME RouterInv, Next PROVE Own
    OBVIOUS
  <2>1. ASSUME NEW f \in flights, NEW target \in f.targets, SendPacket(f, target)
        PROVE  Own
    <3> SUFFICES ASSUME sent' # None, NEW q \in Peers, NEW k \in Pairs, NEW kind \in Media,
                        room.output[q][k][kind].track = sent'.output
                 PROVE  /\ room.publisher[q][k] = sent'.source.publisher
                        /\ kind = sent'.source.kind
                        /\ Locked(room.input[sent'.source.publisher][kind])
                              = Locked(sent'.source.input)
      OBVIOUS
    <3>1. /\ target.generation = room.generation[target.output]
          /\ sent' = [output |-> target.output, source |-> f.source]
      BY <2>1 DEF SendPacket, Accepts, Quiet
    <3>2. sent'.output = target.output /\ sent'.source = f.source
      BY <3>1
    <3>3. TargetsCurrent(room, flights, fresh, alive)
      BY DEF RouterInv, IInv, RoomOK
    <3>4. /\ room.publisher[q][k] = f.source.publisher
          /\ kind = f.source.kind
          /\ (\/ room.input[f.source.publisher][kind] \in alive
              \/ f.source.input \in alive)
                => room.input[f.source.publisher][kind] = f.source.input
      BY <3>1, <3>2, <3>3 DEF TargetsCurrent
    <3> QED
      BY <3>2, <3>4 DEF Locked
  <2>2. ASSUME NEW p, NEW kind, NEW t, RegisterInput(p, kind, t) PROVE sent' = None
    BY <2>2 DEF RegisterInput, Quiet
  <2>3. ASSUME NEW q, NEW m, NEW t, InstallOutput(q, m, t) PROVE sent' = None
    BY <2>3 DEF InstallOutput, Quiet
  <2>4. OutputReady => sent' = None
    BY DEF OutputReady, Quiet
  <2>5. ASSUME NEW p, NEW x, SetStreaming(p, x) \/ StartWatching(p, x) \/ StopWatching(p, x)
        PROVE  sent' = None
    BY <2>5 DEF SetStreaming, StartWatching, StopWatching, Quiet
  <2>6. ASSUME NEW p, RemovePeer(p) PROVE sent' = None
    BY <2>6 DEF RemovePeer, Quiet
  <2>7. ASSUME NEW n, PublishNotice(n) PROVE sent' = None
    BY <2>7 DEF PublishNotice, Quiet
  <2>8. ASSUME NEW p, NEW kind, RouteNow(p, kind) \/ RouteDelayed(p, kind)
        PROVE  sent' = None
    BY <2>8 DEF RouteNow, RouteDelayed, Quiet
  <2>9. ASSUME NEW d, ForwardDelayed(d) PROVE sent' = None
    BY <2>9 DEF ForwardDelayed, Quiet
  <2>10. Close => sent' = None
    BY DEF Close, Quiet
  <2>11. ASSUME NEW t, DetachTrack(t) \/ TrackExpires(t) PROVE sent' = None
    BY <2>11 DEF DetachTrack, TrackExpires, Quiet
  <2>12. CASE sent' = None
    BY <2>12
  <2> HIDE DEF Own
  <2> QED
    BY <2>1, <2>2, <2>3, <2>4, <2>5, <2>6, <2>7, <2>8, <2>9, <2>10, <2>11, <2>12 DEF Next
<1> QED
  BY <1>1, Invariance, PTL DEF Spec, NoCrossTalk
===============================================================================
