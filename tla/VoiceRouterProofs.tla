-------------------------- MODULE VoiceRouterProofs --------------------------
(***************************************************************************)
(* Proofs about VoiceRouter, for every set of peers, tracks and mids.      *)
(*                                                                         *)
(* The properties of the bindings are not inductive by themselves.  That   *)
(* no packet crosses over, for one, rests on generations: a target copied  *)
(* by route still has the generation of its rewriter only if nothing was   *)
(* rebound since.  That in turn needs every bound slot to hold the present *)
(* generation of its rewriter, and no two slots to share a track.  The     *)
(* parts below are stated for any values of the tables, because they must  *)
(* also hold in the middle of an operation, where assign_available_locked  *)
(* starts from.                                                            *)
(***************************************************************************)
EXTENDS VoiceRouter, SlotAssignmentProofs

TablesType(o, i, s, g) ==
    /\ o \in [Peers -> Nat]
    /\ i \in [Peers -> Tracks \cup {None}]
    /\ s \in [Peers -> [Mids -> Slots]]
    /\ g \in [Tracks -> Nat]

OrdersDiffer(o, next) ==
    /\ \A p \in Peers : o[p] < next
    /\ \A p, q \in Peers : o[p] # 0 /\ o[p] = o[q] => p = q

\* The positions in the vector of outputs, and which fields are set when.
OutputsWellFormed(s) ==
    \A q \in Peers, m \in Mids :
        /\ s[q][m].at = 0 <=> s[q][m].track = None
        /\ s[q][m].at = 0 => s[q][m].publisher = None
        /\ s[q][m].at <= Cardinality({n \in Mids : s[q][n].at # 0})
        /\ \A n \in Mids : s[q][m].at # 0 /\ s[q][m].at = s[q][n].at => m = n

PublishersSound(o, s) ==
    \A q \in Peers, m \in Mids : s[q][m].publisher # None =>
        /\ s[q][m].publisher # q
        /\ o[s[q][m].publisher] # 0
        /\ \A n \in Mids \ {m} : s[q][n].publisher # s[q][m].publisher

TracksDiffer(s, unused) ==
    \A q \in Peers, m \in Mids : s[q][m].track # None =>
        /\ s[q][m].track \notin unused
        /\ \A r \in Peers, n \in Mids :
              s[r][n].track = s[q][m].track => q = r /\ m = n

GenerationsPresent(s, g) ==
    \A q \in Peers, m \in Mids :
        s[q][m].publisher # None => s[q][m].generation = g[s[q][m].track]

\* Acceptable targets belong to the source their slot carries.
TargetsCurrent(fl, i, s, g, unused, live) ==
    \A f \in fl : \A target \in f.targets :
        /\ target.output \in Tracks \ unused
        /\ target.generation \in Nat
        /\ target.generation <= g[target.output]
        /\ target.generation = g[target.output] =>
              \A q \in Peers, m \in Mids : s[q][m].track = target.output =>
                  /\ s[q][m].publisher = f.source.publisher
                  /\ (i[f.source.publisher] \in live \/ f.source.input \in live)
                        => i[f.source.publisher] = f.source.input

TablesOK(o, i, s, g, fl, next, unused, live) ==
    /\ TablesType(o, i, s, g)
    /\ OrdersDiffer(o, next)
    /\ OutputsWellFormed(s)
    /\ PublishersSound(o, s)
    /\ TracksDiffer(s, unused)
    /\ GenerationsPresent(s, g)
    /\ TargetsCurrent(fl, i, s, g, unused, live)

IInv == TypeOK /\ TablesOK(order, input, slot, generation, flights,
                           next_order, fresh, alive)

(***************************************************************************)
(* The notices still to be sent, between the change that caused them and   *)
(* the last of them.  Those of the assignment say what their slot carries. *)
(* One of the change itself may already be out of date, but then one of    *)
(* the assignment corrects it; and its track is the slot's or, when        *)
(* register_output replaced that, no slot's any more.                      *)
(***************************************************************************)
AssignedAreRight ==
    \A n \in pending.second : n = NoticeOf(slot, n.to, n.mid)

ChangedAreCorrected ==
    \A n \in pending.first :
        /\ n.output \notin fresh
        /\ \/ n.output = slot[n.to][n.mid].track
           \/ \A q \in Peers, m \in Mids : slot[q][m].track # n.output
        /\ \/ n.publisher = slot[n.to][n.mid].publisher
           \/ NoticeOf(slot, n.to, n.mid) \in pending.second

\* A subscriber that does not know what a slot carries has a notice coming.
SubscribersDue ==
    \A q \in Peers \ left, m \in Mids :
        \/ told[q][m] = slot[q][m].publisher
        \/ \E n \in pending.first \cup pending.second :
              n.to = q /\ n.mid = m /\ n.publisher = slot[q][m].publisher

\* So has a track whose handler does not fit its slot.
ReportersDue ==
    \A q \in Peers, m \in Mids : slot[q][m].track \in alive =>
        \/ slot[q][m].track \in handler <=> slot[q][m].publisher # None
        \/ NoticeOf(slot, q, m) \in pending.first \cup pending.second

NoticesInv ==
    ~closed => /\ resetting = {}
               /\ handler \cap fresh = {}
               /\ AssignedAreRight
               /\ ChangedAreCorrected
               /\ SubscribersDue
               /\ ReportersDue

-----------------------------------------------------------------------------
\* A slot that carries somebody has a track.
LEMMA BoundSlot ==
    ASSUME NEW s \in [Peers -> [Mids -> Slots]], OutputsWellFormed(s),
           NEW q \in Peers, NEW m \in Mids, s[q][m].publisher # None
    PROVE  s[q][m].track \in Tracks /\ s[q][m].track # None
<1>1. s[q][m] \in Slots
  OBVIOUS
<1>2. s[q][m].at # 0 /\ s[q][m].track # None
  BY DEF OutputsWellFormed
<1> QED
  BY <1>1, <1>2 DEF Slots

\* Rebinding slots does not disturb the vector of outputs.
LEMMA SamePlaces ==
    ASSUME NEW s, OutputsWellFormed(s), NEW a,
           \A q \in Peers, m \in Mids :
              /\ a[q][m].at = s[q][m].at
              /\ a[q][m].track = s[q][m].track
              /\ a[q][m].at = 0 => a[q][m].publisher = None
    PROVE  OutputsWellFormed(a)
<1> SUFFICES ASSUME NEW q \in Peers, NEW m \in Mids
             PROVE  /\ a[q][m].at = 0 <=> a[q][m].track = None
                    /\ a[q][m].at = 0 => a[q][m].publisher = None
                    /\ a[q][m].at <= Cardinality({n \in Mids : a[q][n].at # 0})
                    /\ \A n \in Mids :
                          a[q][m].at # 0 /\ a[q][m].at = a[q][n].at => m = n
  BY DEF OutputsWellFormed
<1>1. {n \in Mids : a[q][n].at # 0} = {n \in Mids : s[q][n].at # 0}
  OBVIOUS
<1>2. /\ s[q][m].at = 0 <=> s[q][m].track = None
      /\ s[q][m].at <= Cardinality({n \in Mids : s[q][n].at # 0})
      /\ \A n \in Mids : s[q][m].at # 0 /\ s[q][m].at = s[q][n].at => m = n
  BY DEF OutputsWellFormed
<1>3. a[q][m].at <= Cardinality({n \in Mids : a[q][n].at # 0})
  BY <1>1, <1>2
<1>4. \A n \in Mids : a[q][m].at # 0 /\ a[q][m].at = a[q][n].at => m = n
  BY <1>2
<1>5. a[q][m].at = 0 <=> a[q][m].track = None
  BY <1>2
<1> QED
  BY <1>3, <1>4, <1>5

-----------------------------------------------------------------------------
(***************************************************************************)
(* What assign_available_locked does to the tables.                        *)
(***************************************************************************)
LEMMA GrantedFacts ==
    ASSUME NEW o, NEW i, NEW s, NEW q \in Peers, NEW m \in Mids,
           Granted(o, i, s, q, m) # None
    PROVE  /\ s[q][m].publisher = None
           /\ s[q][m].track \in alive
           /\ Granted(o, i, s, q, m) \in Eligible(o, i, s, q)
BY GrantMatches DEF Granted, Matches, FreeSlots

\* The assignment gives no two slots of a subscriber to one publisher.
LEMMA GrantedDiffer ==
    ASSUME NEW o, NEW i, NEW s, NEW g, TablesType(o, i, s, g),
           OutputsWellFormed(s), alive \subseteq Tracks,
           NEW q \in Peers, NEW m \in Mids, NEW n \in Mids, m # n,
           Granted(o, i, s, q, m) # None
    PROVE  Granted(o, i, s, q, m) # Granted(o, i, s, q, n)
<1> DEFINE free == FreeSlots(s, q)
           at == [x \in Mids |-> s[q][x].at]
<1>1. IsFiniteSet(free)
  BY RouterConstants, FS_Subset DEF FreeSlots
<1>2. ASSUME NEW x \in free
      PROVE  at[x] \in Nat /\ at[x] # 0
  <2>1. x \in Mids /\ s[q][x].track \in Tracks
    BY DEF FreeSlots
  <2>2. s[q][x] \in Slots /\ s[q][x].track # None
    BY <2>1, RouterConstants DEF TablesType
  <2>3. s[q][x].at \in Nat /\ s[q][x].at # 0
    BY <2>1, <2>2 DEF Slots, OutputsWellFormed
  <2> QED
    BY <2>1, <2>3
<1>3. \A x, y \in free : at[x] = at[y] => x = y
  BY <1>2 DEF FreeSlots, OutputsWellFormed
<1> HIDE DEF free, at
<1>4. Grant(free, at, Eligible(o, i, s, q), o, m)
        # Grant(free, at, Eligible(o, i, s, q), o, n)
  BY <1>1, <1>2, <1>3, GrantInjective DEF Granted, free, at
<1> QED
  BY <1>4 DEF Granted, free, at

\* A slot after the assignment: bound as before, newly granted, or free.
LEMMA AssignedFields ==
    ASSUME NEW o, NEW i, NEW s, NEW g, TablesType(o, i, s, g),
           alive \subseteq Tracks, NEW q \in Peers, NEW m \in Mids
    PROVE  LET a == AssignedSlots(o, i, s, g)
               p == Granted(o, i, s, q, m)
           IN  /\ a \in [Peers -> [Mids -> Slots]]
               /\ a[q][m].at = s[q][m].at
               /\ a[q][m].track = s[q][m].track
               /\ p = None => a[q][m] = s[q][m]
               /\ p # None => /\ a[q][m].publisher = p
                              /\ a[q][m].generation = g[s[q][m].track] + 1
<1> DEFINE a == AssignedSlots(o, i, s, g)
<1>1. ASSUME NEW r \in Peers, NEW n \in Mids
      PROVE  /\ a[r][n] \in Slots
             /\ a[r][n].at = s[r][n].at
             /\ a[r][n].track = s[r][n].track
             /\ Granted(o, i, s, r, n) = None => a[r][n] = s[r][n]
             /\ Granted(o, i, s, r, n) # None =>
                   /\ a[r][n].publisher = Granted(o, i, s, r, n)
                   /\ a[r][n].generation = g[s[r][n].track] + 1
  <2>1. s[r][n] \in Slots
    BY DEF TablesType
  <2>2. CASE Granted(o, i, s, r, n) = None
    BY <2>1, <2>2 DEF AssignedSlots
  <2>3. CASE Granted(o, i, s, r, n) # None
    <3> HIDE DEF a
    <3>0. /\ Granted(o, i, s, r, n) \in Eligible(o, i, s, r)
          /\ s[r][n].track \in alive
      BY <2>3, GrantedFacts
    <3>1. Granted(o, i, s, r, n) \in Peers /\ s[r][n].track \in Tracks
      BY <3>0 DEF Eligible
    <3>2. g[s[r][n].track] + 1 \in Nat
      BY <3>1 DEF TablesType
    <3>3. a[r][n] = [s[r][n] EXCEPT !.publisher = Granted(o, i, s, r, n),
                                    !.generation = g[s[r][n].track] + 1]
      BY <2>3 DEF AssignedSlots, a
    <3> QED
      BY <2>1, <2>3, <3>1, <3>2, <3>3 DEF Slots
  <2> QED
    BY <2>2, <2>3
<1>2. a \in [Peers -> [Mids -> Slots]]
  BY <1>1 DEF AssignedSlots
<1> QED
  BY <1>1, <1>2

\* The assignment counts the generation of a slot on exactly if it grants it.
LEMMA AssignedGenerationsFacts ==
    ASSUME NEW o, NEW i, NEW s, NEW g, TablesType(o, i, s, g),
           alive \subseteq Tracks
    PROVE  LET h == AssignedGenerations(o, i, s, g)
           IN  /\ h \in [Tracks -> Nat]
               /\ \A t \in Tracks : h[t] = g[t] \/ h[t] = g[t] + 1
               /\ \A q \in Peers, m \in Mids : Granted(o, i, s, q, m) # None =>
                     h[s[q][m].track] = g[s[q][m].track] + 1
               /\ \A t \in Tracks : h[t] # g[t] =>
                     \E q \in Peers, m \in Mids :
                        s[q][m].track = t /\ Granted(o, i, s, q, m) # None
<1> DEFINE h == AssignedGenerations(o, i, s, g)
           ts == {s[x[1]][x[2]].track : x \in GrantedSlots(o, i, s)}
<1>1. \A t \in Tracks : h[t] = IF t \in ts THEN g[t] + 1 ELSE g[t]
  BY DEF AssignedGenerations, BumpGeneration
<1>2. \A t \in Tracks : g[t] \in Nat
  BY DEF TablesType
<1>3. h \in [Tracks -> Nat]
  BY <1>1, <1>2 DEF AssignedGenerations, BumpGeneration
<1>4. ASSUME NEW q \in Peers, NEW m \in Mids, Granted(o, i, s, q, m) # None
      PROVE  s[q][m].track \in ts /\ s[q][m].track \in Tracks
  <2>1. <<q, m>> \in GrantedSlots(o, i, s)
    BY <1>4 DEF GrantedSlots
  <2>2. s[<<q, m>>[1]][<<q, m>>[2]].track \in ts
    BY <2>1
  <2> QED
    BY <1>4, <2>2, GrantedFacts, ZenonT(40)
<1>5. ASSUME NEW t \in ts
      PROVE  \E q \in Peers, m \in Mids :
                s[q][m].track = t /\ Granted(o, i, s, q, m) # None
  BY DEF GrantedSlots
<1> HIDE DEF ts, h
<1>6. \A t \in Tracks : h[t] = g[t] \/ h[t] = g[t] + 1
  BY <1>1
<1>7. \A q \in Peers, m \in Mids : Granted(o, i, s, q, m) # None =>
         h[s[q][m].track] = g[s[q][m].track] + 1
  BY <1>1, <1>4
<1>8. \A t \in Tracks : h[t] # g[t] => t \in ts
  BY <1>1
<1> QED
  BY <1>3, <1>5, <1>6, <1>7, <1>8 DEF h

(***************************************************************************)
(* The assignment keeps every part of the invariant.                       *)
(***************************************************************************)
LEMMA AssignKeepsTables ==
    ASSUME NEW o, NEW i, NEW s, NEW g, NEW fl, NEW next, NEW unused, NEW live,
           alive \subseteq Tracks,
           TablesOK(o, i, s, g, fl, next, unused, live)
    PROVE  TablesOK(o, i, AssignedSlots(o, i, s, g), AssignedGenerations(o, i, s, g),
                    fl, next, unused, live)
<1> DEFINE a == AssignedSlots(o, i, s, g)
           h == AssignedGenerations(o, i, s, g)
           P(q, m) == Granted(o, i, s, q, m)
<1> USE DEF TablesOK
<1>a. /\ a \in [Peers -> [Mids -> Slots]]
      /\ \A q \in Peers, m \in Mids :
            /\ a[q][m].at = s[q][m].at
            /\ a[q][m].track = s[q][m].track
            /\ P(q, m) = None => a[q][m] = s[q][m]
            /\ P(q, m) # None => /\ a[q][m].publisher = P(q, m)
                                 /\ a[q][m].generation = g[s[q][m].track] + 1
  <2>1. a \in [Peers -> [Mids -> Slots]]
    <3>1. CASE Peers = {} \/ Mids = {}
      BY <3>1 DEF AssignedSlots
    <3>2. CASE Peers # {} /\ Mids # {}
      BY <3>2, AssignedFields
    <3> QED BY <3>1, <3>2
  <2> QED
    BY <2>1, AssignedFields
<1>h. /\ h \in [Tracks -> Nat]
      /\ \A t \in Tracks : h[t] = g[t] \/ h[t] = g[t] + 1
      /\ \A q \in Peers, m \in Mids : P(q, m) # None =>
            h[s[q][m].track] = g[s[q][m].track] + 1
      /\ \A t \in Tracks : h[t] # g[t] =>
            \E q \in Peers, m \in Mids : s[q][m].track = t /\ P(q, m) # None
  BY AssignedGenerationsFacts
<1>g. ASSUME NEW q \in Peers, NEW m \in Mids, P(q, m) # None
      PROVE  /\ s[q][m].publisher = None
             /\ s[q][m].track \in Tracks
             /\ P(q, m) \in Peers /\ P(q, m) # q /\ o[P(q, m)] # 0
             /\ \A n \in Mids : s[q][n].publisher # P(q, m)
             /\ \A n \in Mids : n # m => P(q, n) # P(q, m)
  <2>1. /\ s[q][m].publisher = None
        /\ s[q][m].track \in Tracks
        /\ P(q, m) \in Eligible(o, i, s, q)
    BY <1>g, GrantedFacts
  <2>2. \A n \in Mids : n # m => P(q, n) # P(q, m)
    BY <1>g, GrantedDiffer
  <2> QED
    BY <2>1, <2>2 DEF Eligible
<1> HIDE DEF a, h, P
<1>1. TablesType(o, i, a, h)
  BY <1>a, <1>h DEF TablesType
<1>2. OutputsWellFormed(a)
  <2>1. ASSUME NEW q \in Peers, NEW m \in Mids, a[q][m].at = 0
        PROVE  a[q][m].publisher = None
    <3>1. s[q][m].at = 0 /\ s[q][m].track = None /\ s[q][m].publisher = None
      BY <1>a, <2>1 DEF OutputsWellFormed
    <3>2. P(q, m) = None
      BY <1>g, <3>1, RouterConstants
    <3> QED
      BY <1>a, <3>1, <3>2
  <2> QED
    BY <1>a, <2>1, SamePlaces
<1>3. PublishersSound(o, a)
  <2> SUFFICES ASSUME NEW q \in Peers, NEW m \in Mids, a[q][m].publisher # None
               PROVE  /\ a[q][m].publisher # q
                      /\ o[a[q][m].publisher] # 0
                      /\ \A n \in Mids \ {m} :
                            a[q][n].publisher # a[q][m].publisher
    BY DEF PublishersSound
  <2>1. CASE P(q, m) # None
    <3>1. a[q][m].publisher = P(q, m)
      BY <1>a, <2>1
    <3>2. ASSUME NEW n \in Mids \ {m}
          PROVE  a[q][n].publisher # P(q, m)
      <4>1. CASE P(q, n) = None
        BY <1>a, <1>g, <2>1, <4>1
      <4>2. CASE P(q, n) # None
        BY <1>a, <1>g, <2>1, <4>2
      <4> QED
        BY <4>1, <4>2
    <3> QED
      BY <1>g, <2>1, <3>1, <3>2
  <2>2. CASE P(q, m) = None
    <3>1. a[q][m] = s[q][m]
      BY <1>a, <2>2
    <3>2. ASSUME NEW n \in Mids \ {m}
          PROVE  a[q][n].publisher # a[q][m].publisher
      <4>1. CASE P(q, n) = None
        BY <1>a, <3>1, <4>1 DEF PublishersSound
      <4>2. CASE P(q, n) # None
        BY <1>a, <1>g, <3>1, <4>2
      <4> QED
        BY <4>1, <4>2
    <3> QED
      BY <3>1, <3>2 DEF PublishersSound
  <2> QED
    BY <2>1, <2>2
<1>4. TracksDiffer(a, unused)
  BY <1>a DEF TracksDiffer
<1>5. GenerationsPresent(a, h)
  <2> SUFFICES ASSUME NEW q \in Peers, NEW m \in Mids, a[q][m].publisher # None
               PROVE  a[q][m].generation = h[a[q][m].track]
    BY DEF GenerationsPresent
  <2>1. CASE P(q, m) # None
    BY <1>a, <1>h, <2>1
  <2>2. CASE P(q, m) = None
    <3>1. a[q][m] = s[q][m] /\ s[q][m].publisher # None
      BY <1>a, <2>2
    <3>2. s[q][m] \in Slots /\ s[q][m].track # None
      BY <3>1 DEF TablesType, OutputsWellFormed
    <3>3. s[q][m].track \in Tracks
      BY <3>2 DEF Slots
    <3>4. h[s[q][m].track] = g[s[q][m].track]
      BY <1>h, <2>2, <3>2, <3>3 DEF TracksDiffer
    <3> QED
      BY <3>1, <3>4 DEF GenerationsPresent
  <2> QED
    BY <2>1, <2>2
<1>6. TargetsCurrent(fl, i, a, h, unused, live)
  <2> SUFFICES ASSUME NEW f \in fl, NEW target \in f.targets
               PROVE  /\ target.output \in Tracks \ unused
                      /\ target.generation \in Nat
                      /\ target.generation <= h[target.output]
                      /\ target.generation = h[target.output] =>
                          \A q \in Peers, m \in Mids : a[q][m].track = target.output =>
                            /\ a[q][m].publisher = f.source.publisher
                            /\ (i[f.source.publisher] \in live \/ f.source.input \in live)
                                 => i[f.source.publisher] = f.source.input
    BY DEF TargetsCurrent
  <2>1. /\ target.output \in Tracks \ unused
        /\ target.generation \in Nat
        /\ target.generation <= g[target.output]
        /\ g[target.output] \in Nat
    BY DEF TargetsCurrent, TablesType
  <2>2. CASE h[target.output] = g[target.output]
    <3>1. ASSUME NEW q \in Peers, NEW m \in Mids, a[q][m].track = target.output
          PROVE  a[q][m] = s[q][m]
      BY <1>a, <1>h, <2>1, <2>2, <3>1
    <3> QED
      BY <1>a, <2>1, <2>2, <3>1 DEF TargetsCurrent
  <2>3. CASE h[target.output] = g[target.output] + 1
    <3>1. target.generation <= h[target.output] /\ target.generation # h[target.output]
      BY <2>1, <2>3
    <3> QED
      BY <2>1, <3>1
  <2> QED
    BY <1>h, <2>1, <2>2, <2>3
<1> QED
  BY <1>1, <1>2, <1>3, <1>4, <1>5, <1>6 DEF a, h

(***************************************************************************)
(* The assignment at the end of every change fills what can be filled.     *)
(***************************************************************************)
LEMMA AssignWastesNothing ==
    ASSUME NEW o, NEW i, NEW s, NEW g, NEW fl, NEW next, NEW unused, NEW live,
           alive \subseteq Tracks,
           TablesOK(o, i, s, g, fl, next, unused, live),
           NEW q \in Peers
    PROVE  LET a == AssignedSlots(o, i, s, g)
           IN  FreeSlots(a, q) # {} => Eligible(o, i, a, q) = {}
<1> DEFINE a == AssignedSlots(o, i, s, g)
           free == FreeSlots(s, q)
           eligible == Eligible(o, i, s, q)
           at == [n \in Mids |-> s[q][n].at]
<1> SUFFICES ASSUME NEW m \in FreeSlots(a, q), NEW p \in Eligible(o, i, a, q)
             PROVE  FALSE
  OBVIOUS
<1>a. \A n \in Mids :
         /\ a[q][n].track = s[q][n].track
         /\ Granted(o, i, s, q, n) = None => a[q][n] = s[q][n]
         /\ Granted(o, i, s, q, n) # None => a[q][n].publisher = Granted(o, i, s, q, n)
  BY AssignedFields DEF TablesOK
<1>g. \A n \in Mids : Granted(o, i, s, q, n) # None => s[q][n].publisher = None
  BY GrantedFacts
<1> HIDE DEF a
<1>1. m \in Mids /\ a[q][m].publisher = None /\ a[q][m].track \in alive
  BY DEF FreeSlots
<1>2. /\ p \in Peers /\ o[p] # 0 /\ p # q /\ i[p] \in alive
      /\ \A n \in Mids : a[q][n].publisher # p
  BY DEF Eligible
<1>3. Granted(o, i, s, q, m) = None /\ m \in free
  BY <1>1, <1>a DEF FreeSlots
<1>4. p \in eligible
  <2>1. \A n \in Mids : s[q][n].publisher # p
    BY <1>2, <1>a, <1>g, RouterConstants
  <2> QED
    BY <1>2, <2>1 DEF Eligible
<1>5. /\ IsFiniteSet(free) /\ IsFiniteSet(eligible) /\ None \notin eligible
  BY RouterConstants, FS_Subset DEF FreeSlots, Eligible
<1>6. ASSUME NEW x \in free PROVE x \in Mids /\ at[x] \in Nat /\ at[x] # 0
  <2>1. x \in Mids /\ s[q][x].track \in Tracks
    BY DEF FreeSlots
  <2>2. s[q][x] \in Slots /\ s[q][x].track # None
    BY <2>1, RouterConstants DEF TablesOK, TablesType
  <2>3. s[q][x].at \in Nat /\ s[q][x].at # 0
    BY <2>1, <2>2 DEF Slots, TablesOK, OutputsWellFormed
  <2> QED
    BY <2>1, <2>3
<1>7. \A x, y \in free : at[x] = at[y] => x = y
  <2> SUFFICES ASSUME NEW x \in free, NEW y \in free, at[x] = at[y] PROVE x = y
    OBVIOUS
  <2>1. x \in Mids /\ y \in Mids /\ s[q][x].at # 0 /\ s[q][x].at = s[q][y].at
    BY <1>6
  <2> QED
    BY <2>1 DEF TablesOK, OutputsWellFormed
<1>8. /\ \A x \in eligible : o[x] \in Nat
      /\ \A x, y \in eligible : o[x] = o[y] => x = y
  BY DEF TablesOK, TablesType, OrdersDiffer, Eligible
<1>9. Grant(free, at, eligible, o, m) = None
  BY <1>3 DEF Granted
<1> HIDE DEF free, eligible, at
<1>10. PICK r \in free : Grant(free, at, eligible, o, r) = p
  BY <1>3, <1>4, <1>5, <1>6, <1>7, <1>8, <1>9, GrantMaximal
<1>11. r \in Mids /\ Granted(o, i, s, q, r) = p
  BY <1>6, <1>10 DEF Granted, free, at, eligible
<1> QED
  BY <1>2, <1>11, <1>a, RouterConstants

-----------------------------------------------------------------------------
\* A router begins with empty tables.
LEMMA InitInv == Init => IInv
<1> SUFFICES ASSUME Init PROVE IInv
  OBVIOUS
<1>0. NoSlot \in Slots
  BY DEF NoSlot, Slots
<1> USE DEF Init
<1>1. TypeOK
  <2>1. slot \in [Peers -> [Mids -> Slots]]
    BY <1>0
  <2>2. pending \in [first : SUBSET Notices, second : SUBSET Notices]
    BY DEF NoNotices
  <2>3. told \in [Peers -> [Mids -> Peers \cup {None}]]
    OBVIOUS
  <2>4. /\ order \in [Peers -> Nat]
        /\ next_order \in Nat \ {0}
        /\ input \in [Peers -> Tracks \cup {None}]
        /\ generation \in [Tracks -> Nat]
    OBVIOUS
  <2>5. closed \in BOOLEAN
    OBVIOUS
  <2>6. /\ resetting \subseteq Tracks /\ handler \subseteq Tracks
        /\ flights \subseteq Flights /\ delayed \subseteq Sources
        /\ sent \in [output : Tracks, source : Sources] \cup {None}
        /\ fresh \subseteq Tracks /\ alive \subseteq Tracks
        /\ left \subseteq Peers
    OBVIOUS
  <2> HIDE DEF Init
  <2> QED
    BY <2>1, <2>2, <2>3, <2>4, <2>5, <2>6 DEF TypeOK
<1>2. TablesType(order, input, slot, generation)
  BY <1>1 DEF TablesType, TypeOK
<1> USE DEF NoSlot
<1>3. OrdersDiffer(order, next_order)
  BY DEF OrdersDiffer
<1>4. OutputsWellFormed(slot)
  <2>1. \A q \in Peers : {n \in Mids : slot[q][n].at # 0} = {}
    OBVIOUS
  <2>2. Cardinality({}) = 0
    BY FS_EmptySet
  <2>3. \A q \in Peers, m \in Mids :
            slot[q][m].at = 0 /\ slot[q][m].track = None /\ slot[q][m].publisher = None
    OBVIOUS
  <2>4. \A q \in Peers : Cardinality({n \in Mids : slot[q][n].at # 0}) = 0
    BY <2>1, <2>2
  <2> HIDE DEF Init
  <2> QED
    BY <2>3, <2>4 DEF OutputsWellFormed
<1>5. PublishersSound(order, slot) /\ TracksDiffer(slot, fresh)
  BY DEF PublishersSound, TracksDiffer
<1>6. GenerationsPresent(slot, generation)
  BY DEF GenerationsPresent
<1>7. TargetsCurrent(flights, input, slot, generation, fresh, alive)
  BY DEF TargetsCurrent
<1> QED
  BY <1>1, <1>2, <1>3, <1>4, <1>5, <1>6, <1>7 DEF IInv, TablesOK

(***************************************************************************)
(* The common end of the three operations: tables that satisfy the         *)
(* invariant in the middle of an operation satisfy it at its end.          *)
(***************************************************************************)
LEMMA ChangeKeepsInv ==
    ASSUME TypeOK, NEW o, NEW i, NEW s, NEW g, NEW first \in SUBSET Notices,
           TablesOK(o, i, s, g, flights, next_order', fresh', alive),
           AssignAndPublish(o, i, s, g, first),
           next_order' \in Nat \ {0}, fresh' \subseteq Tracks, left' \subseteq Peers,
           UNCHANGED <<shutdown, media, alive>>
    PROVE  IInv' /\ NoSlotWasted'
<1> USE DEF shutdown, media
<1>0. alive \subseteq Tracks
  BY DEF TypeOK
<1>1. TablesOK(order', input', slot', generation', flights', next_order',
               fresh', alive')
  BY <1>0, AssignKeepsTables DEF AssignAndPublish
<1>2. pending' \in [first : SUBSET Notices, second : SUBSET Notices]
  <2> DEFINE a == AssignedSlots(o, i, s, g)
  <2>1. ASSUME NEW x \in GrantedSlots(o, i, s)
        PROVE  NoticeOf(a, x[1], x[2]) \in Notices
    <3>1. x[1] \in Peers /\ x[2] \in Mids
      BY DEF GrantedSlots
    <3>2. a[x[1]][x[2]] \in Slots
      BY <1>0, <3>1, AssignedFields DEF TablesOK
    <3> QED
      BY <3>1, <3>2 DEF NoticeOf, Notices, Slots
  <2> QED
    BY <2>1 DEF AssignAndPublish, InOrder
<1>3. TypeOK'
  BY <1>1, <1>2 DEF TypeOK, TablesOK, TablesType, AssignAndPublish
<1>4. IInv'
  BY <1>1, <1>3 DEF IInv, TablesOK, TablesType, OrdersDiffer, OutputsWellFormed,
     PublishersSound, TracksDiffer, GenerationsPresent, TargetsCurrent
<1>5. ASSUME NEW q \in Peers
      PROVE  (FreeSlots(slot, q) # {} => Eligible(order, input, slot, q) = {})'
  <2>1. /\ order' = o /\ input' = i /\ slot' = AssignedSlots(o, i, s, g)
        /\ alive' = alive
    BY DEF AssignAndPublish
  <2> QED
    BY <1>0, <2>1, AssignWastesNothing DEF FreeSlots, Eligible
<1> QED
  BY <1>4, <1>5 DEF NoSlotWasted

(***************************************************************************)
(* What the change and the assignment did, their notices make known: it is *)
(* enough that the notices of the change cover what the change itself did. *)
(***************************************************************************)
LEMMA ChangeIsAnnounced ==
    ASSUME TypeOK, NEW o, NEW i, NEW s, NEW g, NEW first \in SUBSET Notices,
           TablesType(o, i, s, g), TracksDiffer(s, fresh'),
           AssignAndPublish(o, i, s, g, first),
           resetting = {}, handler \cap fresh' = {},
           UNCHANGED <<shutdown, alive>>,
           \A n \in first :
              /\ n.output \notin fresh'
              /\ \/ n.output = s[n.to][n.mid].track
                 \/ \A q \in Peers, m \in Mids : s[q][m].track # n.output
              /\ n.publisher = s[n.to][n.mid].publisher,
           \A q \in Peers \ left', m \in Mids :
              \/ told[q][m] = s[q][m].publisher
              \/ \E n \in first : n.to = q /\ n.mid = m,
           \A q \in Peers, m \in Mids : s[q][m].track \in alive =>
              \/ s[q][m].track \in handler <=> s[q][m].publisher # None
              \/ NoticeOf(s, q, m) \in first
    PROVE  NoticesInv'
<1> DEFINE a == AssignedSlots(o, i, s, g)
           second == {NoticeOf(a, x[1], x[2]) : x \in GrantedSlots(o, i, s)}
<1>1. /\ slot' = a /\ pending'.first = first /\ pending'.second = second
      /\ told' = told /\ handler' = handler
      /\ alive' = alive /\ resetting' = resetting
  BY DEF AssignAndPublish, InOrder, shutdown
<1>2. ASSUME NEW q \in Peers, NEW m \in Mids
      PROVE  /\ a[q][m].track = s[q][m].track
             /\ \/ a[q][m] = s[q][m]
                \/ NoticeOf(a, q, m) \in second
  <2>1. alive \subseteq Tracks
    BY DEF TypeOK
  <2>2. /\ a[q][m].track = s[q][m].track
        /\ Granted(o, i, s, q, m) = None => a[q][m] = s[q][m]
    BY <2>1, AssignedFields
  <2>3. CASE Granted(o, i, s, q, m) # None
    <3>1. <<q, m>> \in GrantedSlots(o, i, s)
      BY <2>3 DEF GrantedSlots
    <3>2. NoticeOf(a, <<q, m>>[1], <<q, m>>[2]) \in second
      BY <3>1
    <3> QED
      BY <2>2, <3>2
  <2> QED
    BY <2>2, <2>3
<1>3. ASSUME NEW n \in second
      PROVE  n = NoticeOf(a, n.to, n.mid)
  <2>1. PICK x \in GrantedSlots(o, i, s) : n = NoticeOf(a, x[1], x[2])
    OBVIOUS
  <2>2. n.to = x[1] /\ n.mid = x[2]
    BY <2>1 DEF NoticeOf
  <2> QED
    BY <2>1, <2>2
<1>4. ASSUME NEW n \in first
      PROVE  n.to \in Peers /\ n.mid \in Mids
  BY DEF Notices
<1> HIDE DEF a, second
<1>5. AssignedAreRight'
  BY <1>1, <1>3 DEF AssignedAreRight, NoticeOf
<1>6. ChangedAreCorrected'
  <2> SUFFICES ASSUME NEW n \in first
               PROVE  /\ n.output \notin fresh'
                      /\ \/ n.output = a[n.to][n.mid].track
                         \/ \A q \in Peers, m \in Mids : a[q][m].track # n.output
                      /\ \/ n.publisher = a[n.to][n.mid].publisher
                         \/ NoticeOf(a, n.to, n.mid) \in second
    BY <1>1 DEF ChangedAreCorrected, NoticeOf
  <2> QED
    BY <1>2, <1>4
<1>7. SubscribersDue'
  <2> SUFFICES ASSUME NEW q \in Peers \ left', NEW m \in Mids
               PROVE  \/ told[q][m] = a[q][m].publisher
                      \/ \E n \in first \cup second :
                            n.to = q /\ n.mid = m /\ n.publisher = a[q][m].publisher
    BY <1>1 DEF SubscribersDue
  <2>1. CASE a[q][m] = s[q][m]
    BY <2>1
  <2>2. CASE NoticeOf(a, q, m) \in second
    <3>1. /\ NoticeOf(a, q, m).to = q /\ NoticeOf(a, q, m).mid = m
          /\ NoticeOf(a, q, m).publisher = a[q][m].publisher
      BY DEF NoticeOf
    <3> QED
      BY <2>2, <3>1
  <2> QED
    BY <1>2, <2>1, <2>2
<1>8. ReportersDue'
  <2> SUFFICES ASSUME NEW q \in Peers, NEW m \in Mids, a[q][m].track \in alive
               PROVE  \/ a[q][m].track \in handler <=> a[q][m].publisher # None
                      \/ NoticeOf(a, q, m) \in first \cup second
    BY <1>1 DEF ReportersDue, NoticeOf
  <2>1. CASE a[q][m] = s[q][m]
    <3>1. NoticeOf(a, q, m) = NoticeOf(s, q, m)
      BY <2>1 DEF NoticeOf
    <3> QED
      BY <2>1, <3>1
  <2> QED
    BY <1>2, <2>1
<1> QED
  BY <1>1, <1>5, <1>6, <1>7, <1>8 DEF NoticesInv

\* While no notice is pending, everybody knows and every handler fits.
LEMMA NothingDue ==
    ASSUME NoticesInv, ~closed, ~publishing
    PROVE  /\ \A q \in Peers \ left, m \in Mids : told[q][m] = slot[q][m].publisher
           /\ \A q \in Peers, m \in Mids : slot[q][m].track \in alive =>
                 (slot[q][m].track \in handler <=> slot[q][m].publisher # None)
<1>1. pending.first = {} /\ pending.second = {}
  BY DEF publishing, NoNotices
<1> QED
  BY <1>1 DEF NoticesInv, SubscribersDue, ReportersDue

\* What is said of a slot is a notice.
LEMMA NoticeType ==
    ASSUME NEW s \in [Peers -> [Mids -> Slots]], NEW x \in Peers \X Mids
    PROVE  NoticeOf(s, x[1], x[2]) \in Notices
<1>1. s[x[1]][x[2]] \in Slots
  OBVIOUS
<1> QED
  BY <1>1 DEF NoticeOf, Notices, Slots

\* peer_for_locked gives a new peer a place of its own.
LEMMA OrderFacts ==
    ASSUME TypeOK, OrdersDiffer(order, next_order), NEW p \in Peers
    PROVE  /\ OrderWith(p) \in [Peers -> Nat]
           /\ NextOrderWith(p) \in Nat \ {0}
           /\ OrdersDiffer(OrderWith(p), NextOrderWith(p))
           /\ \A q \in Peers : order[q] # 0 => OrderWith(p)[q] # 0
<1>1. order \in [Peers -> Nat] /\ next_order \in Nat \ {0}
  BY DEF TypeOK
<1>2. CASE order[p] # 0
  BY <1>1, <1>2 DEF OrderWith, NextOrderWith
<1>3. CASE order[p] = 0
  <2>1. OrderWith(p) = [order EXCEPT ![p] = next_order]
        /\ NextOrderWith(p) = next_order + 1
    BY <1>3 DEF OrderWith, NextOrderWith
  <2>2. \A q \in Peers : OrderWith(p)[q] = IF q = p THEN next_order ELSE order[q]
    BY <1>1, <2>1
  <2>3. OrdersDiffer(OrderWith(p), NextOrderWith(p))
    BY <1>1, <2>1, <2>2 DEF OrdersDiffer
  <2> QED
    BY <1>1, <2>1, <2>2, <2>3
<1> QED
  BY <1>2, <1>3

\* begin_source or end_source on all the rewriters that carry p.
LEMMA BumpFacts ==
    ASSUME TypeOK, OutputsWellFormed(slot), NEW p \in Peers,
           NEW places \in SUBSET BoundTo(slot, p)
    PROVE  LET g == BumpGeneration(generation, {slot[x[1]][x[2]].track : x \in places})
           IN  /\ g \in [Tracks -> Nat]
               /\ \A u \in Tracks : g[u] = generation[u] \/ g[u] = generation[u] + 1
               /\ \A q \in Peers, m \in Mids : <<q, m>> \in places =>
                     /\ slot[q][m].track \in Tracks
                     /\ g[slot[q][m].track] = generation[slot[q][m].track] + 1
               /\ \A u \in Tracks : g[u] # generation[u] =>
                     \E q \in Peers, m \in Mids :
                        <<q, m>> \in places /\ slot[q][m].track = u
<1> DEFINE ts == {slot[x[1]][x[2]].track : x \in places}
           g == BumpGeneration(generation, ts)
<1>1. \A u \in Tracks : generation[u] \in Nat
  BY DEF TypeOK
<1>2. \A u \in Tracks : g[u] = IF u \in ts THEN generation[u] + 1 ELSE generation[u]
  BY DEF BumpGeneration
<1>3. g \in [Tracks -> Nat]
  BY <1>1 DEF BumpGeneration
<1>4. ASSUME NEW q \in Peers, NEW m \in Mids, <<q, m>> \in places
      PROVE  slot[q][m].track \in Tracks /\ slot[q][m].track \in ts
  <2>1. slot[<<q, m>>[1]][<<q, m>>[2]].track \in ts
    BY <1>4
  <2>2. slot[q][m].publisher = p
    BY <1>4 DEF BoundTo
  <2> QED
    BY <2>1, <2>2, RouterConstants, BoundSlot DEF TypeOK
<1>5. ASSUME NEW u \in ts
      PROVE  \E q \in Peers, m \in Mids :
                <<q, m>> \in places /\ slot[q][m].track = u
  <2>1. PICK x \in places : u = slot[x[1]][x[2]].track
    OBVIOUS
  <2>2. x[1] \in Peers /\ x[2] \in Mids /\ x = <<x[1], x[2]>>
    BY DEF BoundTo
  <2> QED
    BY <2>1, <2>2
<1> HIDE DEF ts, g
<1>6. \A u \in Tracks : g[u] # generation[u] => u \in ts
  BY <1>2
<1>7. \A u \in Tracks : g[u] = generation[u] \/ g[u] = generation[u] + 1
  BY <1>2
<1>8. \A q \in Peers, m \in Mids : <<q, m>> \in places =>
         /\ slot[q][m].track \in Tracks
         /\ g[slot[q][m].track] = generation[slot[q][m].track] + 1
  BY <1>2, <1>4
<1> QED
  BY <1>3, <1>5, <1>6, <1>7, <1>8 DEF g, ts

\* register_input: a publisher's track is stored, and slots are assigned.
LEMMA RegisterInputInv ==
    ASSUME IInv, NEW p \in Peers, NEW t \in Tracks, RegisterInput(p, t)
    PROVE  IInv' /\ NoSlotWasted' /\ (NoticesInv => NoticesInv')
<1> DEFINE carrying == BoundTo(slot, p)
           g == BumpGeneration(generation, {slot[x[1]][x[2]].track : x \in carrying})
           s == [q \in Peers |-> [m \in Mids |->
                   IF slot[q][m].publisher = p
                   THEN [slot[q][m] EXCEPT !.generation = g[slot[q][m].track]]
                   ELSE slot[q][m]]]
           i == [input EXCEPT ![p] = t]
           first == {NoticeOf(slot, x[1], x[2]) : x \in carrying}
<1>1. /\ AssignAndPublish(OrderWith(p), i, s, g, first)
      /\ next_order' = NextOrderWith(p)
      /\ t \in fresh /\ fresh' = fresh \ {t}
      /\ UNCHANGED <<shutdown, media, alive, left>>
  BY DEF RegisterInput, TrackReady
<1>2. /\ TypeOK
      /\ TablesOK(order, input, slot, generation, flights, next_order, fresh, alive)
  BY DEF IInv
<1>o. /\ OrderWith(p) \in [Peers -> Nat]
      /\ NextOrderWith(p) \in Nat \ {0}
      /\ OrdersDiffer(OrderWith(p), NextOrderWith(p))
      /\ \A q \in Peers : order[q] # 0 => OrderWith(p)[q] # 0
  BY <1>2, OrderFacts DEF TablesOK
<1>g. /\ g \in [Tracks -> Nat]
      /\ \A u \in Tracks : g[u] = generation[u] \/ g[u] = generation[u] + 1
      /\ \A q \in Peers, m \in Mids : slot[q][m].publisher = p =>
            /\ slot[q][m].track \in Tracks
            /\ g[slot[q][m].track] = generation[slot[q][m].track] + 1
      /\ \A u \in Tracks : g[u] # generation[u] =>
            \E q \in Peers, m \in Mids :
               slot[q][m].publisher = p /\ slot[q][m].track = u
  <2>1. carrying \in SUBSET BoundTo(slot, p)
    OBVIOUS
  <2>2. \A q \in Peers, m \in Mids :
           <<q, m>> \in carrying <=> slot[q][m].publisher = p
    BY DEF BoundTo
  <2> HIDE DEF carrying
  <2> QED
    BY <1>2, <2>1, <2>2, BumpFacts, ZenonT(40) DEF TablesOK
<1>s. /\ s \in [Peers -> [Mids -> Slots]]
      /\ \A q \in Peers, m \in Mids :
            /\ s[q][m].at = slot[q][m].at
            /\ s[q][m].track = slot[q][m].track
            /\ s[q][m].publisher = slot[q][m].publisher
            /\ slot[q][m].publisher = p => s[q][m].generation = g[slot[q][m].track]
            /\ slot[q][m].publisher # p => s[q][m] = slot[q][m]
  <2> HIDE DEF g
  <2>1. ASSUME NEW q \in Peers, NEW m \in Mids
        PROVE  /\ s[q][m] \in Slots
               /\ s[q][m].at = slot[q][m].at
               /\ s[q][m].track = slot[q][m].track
               /\ s[q][m].publisher = slot[q][m].publisher
               /\ slot[q][m].publisher = p => s[q][m].generation = g[slot[q][m].track]
               /\ slot[q][m].publisher # p => s[q][m] = slot[q][m]
    <3>1. slot[q][m] \in Slots
      BY <1>2 DEF TypeOK
    <3>2. CASE slot[q][m].publisher = p
      <4>1. g[slot[q][m].track] \in Nat
        BY <1>g, <3>2
      <4>2. s[q][m] = [slot[q][m] EXCEPT !.generation = g[slot[q][m].track]]
        BY <3>2
      <4> QED
        BY <3>1, <3>2, <4>1, <4>2 DEF Slots
    <3>3. CASE slot[q][m].publisher # p
      BY <3>1, <3>3
    <3> QED
      BY <3>2, <3>3
  <2> QED
    BY <2>1
<1>i. /\ i \in [Peers -> Tracks \cup {None}]
      /\ \A q \in Peers : q # p => i[q] = input[q]
  BY <1>2 DEF TypeOK
<1>f. first \in SUBSET Notices
  BY <1>2, NoticeType DEF TypeOK, BoundTo
<1> HIDE DEF g, s, i, first, carrying
<1>3. TablesType(OrderWith(p), i, s, g)
  BY <1>o, <1>i, <1>s, <1>g DEF TablesType
<1>4. OutputsWellFormed(s)
  <2>1. OutputsWellFormed(slot)
    BY <1>2 DEF TablesOK
  <2>2. ASSUME NEW q \in Peers, NEW m \in Mids, s[q][m].at = 0
        PROVE  s[q][m].publisher = None
    <3>1. slot[q][m].at = 0
      BY <1>s, <2>2
    <3>2. slot[q][m].publisher = None
      BY <2>1, <3>1 DEF OutputsWellFormed
    <3> QED
      BY <1>s, <3>2
  <2> QED
    BY <1>s, <2>1, <2>2, SamePlaces
<1>5. PublishersSound(OrderWith(p), s)
  <2> SUFFICES ASSUME NEW q \in Peers, NEW m \in Mids, s[q][m].publisher # None
               PROVE  /\ s[q][m].publisher # q
                      /\ OrderWith(p)[s[q][m].publisher] # 0
                      /\ \A n \in Mids \ {m} :
                            s[q][n].publisher # s[q][m].publisher
    BY DEF PublishersSound
  <2>1. PublishersSound(order, slot) /\ slot[q][m] \in Slots
    BY <1>2 DEF TablesOK, TypeOK
  <2>2. slot[q][m].publisher \in Peers /\ slot[q][m].publisher # None
    BY <1>s, <2>1 DEF Slots
  <2>3. /\ slot[q][m].publisher # q
        /\ order[slot[q][m].publisher] # 0
        /\ \A n \in Mids \ {m} : slot[q][n].publisher # slot[q][m].publisher
    BY <2>1, <2>2 DEF PublishersSound
  <2> QED
    BY <1>s, <1>o, <2>2, <2>3
<1>6. TracksDiffer(s, fresh \ {t})
  BY <1>2, <1>s DEF TablesOK, TracksDiffer
<1>7. GenerationsPresent(s, g)
  <2> SUFFICES ASSUME NEW q \in Peers, NEW m \in Mids, s[q][m].publisher # None
               PROVE  s[q][m].generation = g[s[q][m].track]
    BY DEF GenerationsPresent
  <2>1. CASE slot[q][m].publisher = p
    BY <1>s, <2>1
  <2>2. CASE slot[q][m].publisher # p
    <3>1. slot[q][m].track # None /\ slot[q][m].track \in Tracks
      BY <1>2, <1>s, BoundSlot DEF TablesOK, TablesType
    <3>3. g[slot[q][m].track] = generation[slot[q][m].track]
      BY <1>2, <1>g, <2>2, <3>1 DEF TablesOK, TracksDiffer
    <3> QED
      BY <1>2, <1>s, <2>2, <3>3 DEF TablesOK, GenerationsPresent
  <2> QED
    BY <2>1, <2>2
<1>8. TargetsCurrent(flights, i, s, g, fresh \ {t}, alive)
  <2> SUFFICES ASSUME NEW f \in flights, NEW target \in f.targets
               PROVE  /\ target.output \in Tracks \ (fresh \ {t})
                      /\ target.generation \in Nat
                      /\ target.generation <= g[target.output]
                      /\ target.generation = g[target.output] =>
                          \A q \in Peers, m \in Mids : s[q][m].track = target.output =>
                            /\ s[q][m].publisher = f.source.publisher
                            /\ (i[f.source.publisher] \in alive \/ f.source.input \in alive)
                                 => i[f.source.publisher] = f.source.input
    BY DEF TargetsCurrent
  <2>1. /\ target.output \in Tracks \ fresh
        /\ target.generation \in Nat
        /\ target.generation <= generation[target.output]
        /\ target.generation = generation[target.output] =>
            \A q \in Peers, m \in Mids : slot[q][m].track = target.output =>
              /\ slot[q][m].publisher = f.source.publisher
              /\ (input[f.source.publisher] \in alive \/ f.source.input \in alive)
                   => input[f.source.publisher] = f.source.input
    BY <1>2 DEF TablesOK, TargetsCurrent
  <2>2. f.source.publisher \in Peers /\ generation[target.output] \in Nat
    BY <1>2, <2>1 DEF TypeOK, Flights, Sources
  <2>3. CASE g[target.output] = generation[target.output] + 1
    BY <2>1, <2>2, <2>3
  <2>4. CASE g[target.output] = generation[target.output]
    <3>1. ASSUME NEW q \in Peers, NEW m \in Mids, s[q][m].track = target.output
          PROVE  slot[q][m].publisher # p
      BY <1>s, <1>g, <2>1, <2>2, <2>4, <3>1
    <3> QED
      BY <1>s, <1>i, <2>1, <2>2, <2>4, <3>1
  <2> QED
    BY <1>g, <2>1, <2>3, <2>4
<1>9. TablesOK(OrderWith(p), i, s, g, flights, next_order', fresh', alive)
  BY <1>1, <1>o, <1>3, <1>4, <1>5, <1>6, <1>7, <1>8 DEF TablesOK
<1>10. fresh' \subseteq Tracks /\ left' \subseteq Peers
  BY <1>1, <1>2 DEF TypeOK
<1>11. ASSUME NoticesInv PROVE NoticesInv'
  <2>1. ~closed /\ ~publishing
    BY DEF RegisterInput
  <2>2. /\ \A q \in Peers \ left, m \in Mids : told[q][m] = slot[q][m].publisher
        /\ \A q \in Peers, m \in Mids : slot[q][m].track \in alive =>
              (slot[q][m].track \in handler <=> slot[q][m].publisher # None)
    BY <1>11, <2>1, NothingDue
  <2>3. ASSUME NEW n \in first
        PROVE  /\ n.output \notin fresh'
               /\ n.output = s[n.to][n.mid].track
               /\ n.publisher = s[n.to][n.mid].publisher
    <3>1. PICK x \in carrying : n = NoticeOf(slot, x[1], x[2])
      BY DEF first
    <3>2. x[1] \in Peers /\ x[2] \in Mids /\ slot[x[1]][x[2]].publisher = p
      BY DEF carrying, BoundTo
    <3>3. /\ n.to = x[1] /\ n.mid = x[2]
          /\ n.publisher = slot[x[1]][x[2]].publisher
          /\ n.output = slot[x[1]][x[2]].track
      BY <3>1 DEF NoticeOf
    <3>4. slot[x[1]][x[2]].track \in Tracks
      BY <1>g, <3>2
    <3>5. slot[x[1]][x[2]].track \notin fresh
      BY <1>2, <3>2, <3>4, RouterConstants DEF TablesOK, TracksDiffer
    <3> QED
      BY <1>1, <1>s, <3>2, <3>3, <3>5
  <2>4. resetting = {} /\ handler \cap fresh' = {}
    BY <1>1, <1>11, <2>1 DEF NoticesInv
  <2>5. \A q \in Peers \ left', m \in Mids :
           \/ told[q][m] = s[q][m].publisher
           \/ \E n \in first : n.to = q /\ n.mid = m
    BY <1>1, <1>s, <2>2
  <2>6. \A q \in Peers, m \in Mids : s[q][m].track \in alive =>
           \/ s[q][m].track \in handler <=> s[q][m].publisher # None
           \/ NoticeOf(s, q, m) \in first
    BY <1>s, <2>2
  <2> QED
    BY <1>1, <1>2, <1>f, <1>3, <1>9, <2>3, <2>4, <2>5, <2>6, ChangeIsAnnounced
       DEF TablesOK
<1> QED
  BY <1>1, <1>2, <1>o, <1>f, <1>9, <1>10, <1>11, ChangeKeepsInv

\* register_output: a slot is added or replaced, and slots are assigned.
LEMMA RegisterOutputInv ==
    ASSUME IInv, NEW q \in Peers, NEW m \in Mids, NEW t \in Tracks,
           RegisterOutput(q, m, t)
    PROVE  IInv' /\ NoSlotWasted' /\ (NoticesInv => NoticesInv')
<1> DEFINE old == slot[q][m]
           bound == old.publisher # None
           present == {n \in Mids : slot[q][n].at # 0}
           at == IF old.at # 0 THEN old.at ELSE 1 + Cardinality(present)
           new == [NoSlot EXCEPT !.at = at, !.track = t]
           s == [slot EXCEPT ![q][m] = new]
           g == BumpGeneration(generation, IF bound THEN {old.track} ELSE {})
           first == IF bound
                    THEN {[to |-> q, mid |-> m, publisher |-> None,
                           output |-> old.track]}
                    ELSE {}
<1>1. /\ AssignAndPublish(OrderWith(q), input, s, g, first)
      /\ next_order' = NextOrderWith(q)
      /\ t \in fresh /\ fresh' = fresh \ {t}
      /\ UNCHANGED <<shutdown, media, alive, left>>
  BY DEF RegisterOutput, TrackReady
<1>2. /\ TypeOK
      /\ TablesOK(order, input, slot, generation, flights, next_order, fresh, alive)
  BY DEF IInv
<1>o. /\ OrderWith(q) \in [Peers -> Nat]
      /\ NextOrderWith(q) \in Nat \ {0}
      /\ OrdersDiffer(OrderWith(q), NextOrderWith(q))
      /\ \A r \in Peers : order[r] # 0 => OrderWith(q)[r] # 0
  BY <1>2, OrderFacts DEF TablesOK
<1>old. /\ old \in Slots /\ old.at \in Nat /\ old.track \in Tracks \cup {None}
        /\ bound => old.track \in Tracks /\ old.track # None
  <2>1. old \in Slots
    BY <1>2 DEF TypeOK
  <2>2. bound => old.track \in Tracks /\ old.track # None
    BY <1>2, BoundSlot DEF TablesOK, TablesType
  <2> QED
    BY <2>1, <2>2 DEF Slots
<1>c. IsFiniteSet(present) /\ Cardinality(present) \in Nat
  BY RouterConstants, FS_Subset, FS_CardinalityType
<1>at. at \in Nat /\ at # 0
  BY <1>old, <1>c
<1>g. /\ g \in [Tracks -> Nat]
      /\ \A u \in Tracks : g[u] = IF bound /\ u = old.track
                                  THEN generation[u] + 1 ELSE generation[u]
      /\ \A u \in Tracks : generation[u] \in Nat
  <2>1. \A u \in Tracks : generation[u] \in Nat
    BY <1>2 DEF TypeOK
  <2> QED
    BY <2>1 DEF BumpGeneration
<1>new. /\ new \in Slots /\ new.at = at /\ new.track = t
        /\ new.publisher = None
  BY <1>at DEF NoSlot, Slots
<1>s. /\ s \in [Peers -> [Mids -> Slots]]
      /\ s[q][m] = new
      /\ \A r \in Peers, n \in Mids : (r # q \/ n # m) => s[r][n] = slot[r][n]
  BY <1>2, <1>new DEF TypeOK
<1>f. first \in SUBSET Notices
  BY <1>old DEF Notices
<1>fresh. \A r \in Peers, n \in Mids : slot[r][n].track # t
  BY <1>1, <1>2, RouterConstants DEF TablesOK, TracksDiffer
<1> HIDE DEF g, s, new, at, first
<1>3. TablesType(OrderWith(q), input, s, g)
  BY <1>2, <1>o, <1>s, <1>g DEF TablesType, TypeOK
<1>4. OutputsWellFormed(s)
  <2> SUFFICES ASSUME NEW r \in Peers, NEW n \in Mids
               PROVE  /\ s[r][n].at = 0 <=> s[r][n].track = None
                      /\ s[r][n].at = 0 => s[r][n].publisher = None
                      /\ s[r][n].at <= Cardinality({k \in Mids : s[r][k].at # 0})
                      /\ \A k \in Mids :
                            s[r][n].at # 0 /\ s[r][n].at = s[r][k].at => n = k
    BY DEF OutputsWellFormed
  <2> DEFINE before(x) == {k \in Mids : slot[x][k].at # 0}
             after(x) == {k \in Mids : s[x][k].at # 0}
  <2>1. ASSUME NEW x \in Peers, NEW k \in Mids
        PROVE  /\ slot[x][k].at = 0 <=> slot[x][k].track = None
               /\ slot[x][k].at = 0 => slot[x][k].publisher = None
               /\ \A l \in Mids :
                     slot[x][k].at # 0 /\ slot[x][k].at = slot[x][l].at => k = l
               /\ slot[x][k].at \in Nat
    <3>1. OutputsWellFormed(slot) /\ slot[x][k] \in Slots
      BY <1>2 DEF TablesOK, TypeOK
    <3>2. slot[x][k].at \in Nat
      BY <3>1 DEF Slots
    <3> QED
      BY <3>1, <3>2 DEF OutputsWellFormed
  <2>c. ASSUME NEW x \in Peers, NEW k \in Mids
        PROVE  slot[x][k].at <= Cardinality(before(x))
    BY <1>2 DEF TablesOK, OutputsWellFormed
  <2>2. CASE r # q
    <3>1. \A k \in Mids : s[r][k] = slot[r][k]
      BY <1>s, <2>2
    <3>2. after(r) = before(r)
      BY <3>1
    <3>3. s[r][n].at <= Cardinality(after(r))
      BY <2>c, <3>1, <3>2
    <3>4. \A k \in Mids : s[r][n].at # 0 /\ s[r][n].at = s[r][k].at => n = k
      BY <2>1, <3>1
    <3>5. /\ s[r][n].at = 0 <=> s[r][n].track = None
          /\ s[r][n].at = 0 => s[r][n].publisher = None
      BY <2>1, <3>1
    <3> QED
      BY <3>3, <3>4, <3>5
  <2>3. CASE r = q /\ old.at # 0
    <3>1. \A k \in Mids : s[r][k].at = slot[r][k].at
      BY <1>s, <1>new, <2>3 DEF at
    <3>2. after(r) = before(r)
      BY <3>1
    <3>3. s[r][n].at <= Cardinality(after(r))
      BY <2>c, <3>1, <3>2
    <3>4. \A k \in Mids : s[r][n].at # 0 /\ s[r][n].at = s[r][k].at => n = k
      BY <2>1, <3>1
    <3>5. /\ s[r][n].at = 0 <=> s[r][n].track = None
          /\ s[r][n].at = 0 => s[r][n].publisher = None
      <4>1. CASE n = m
        BY <1>s, <1>new, <1>at, <2>3, <4>1, RouterConstants
      <4>2. CASE n # m
        BY <1>s, <2>1, <2>3, <4>2
      <4> QED
        BY <4>1, <4>2
    <3> QED
      BY <3>3, <3>4, <3>5
  <2>4. CASE r = q /\ old.at = 0
    <3>1. /\ \A k \in Mids : k # m => s[r][k] = slot[r][k]
          /\ s[r][m].at = 1 + Cardinality(present)
      BY <1>s, <1>new, <2>4 DEF at
    <3>2. after(r) = present \cup {m} /\ m \notin present
      BY <1>s, <1>new, <1>at, <2>4
    <3>3. Cardinality(after(r)) = Cardinality(present) + 1
      BY <1>c, <3>2, FS_AddElement
    <3>4. \A k \in Mids : k # m => s[r][k].at <= Cardinality(present)
                                   /\ s[r][k].at \in Nat
      BY <2>1, <2>c, <2>4, <3>1
    <3>5. CASE n = m
      <4>1. \A k \in Mids : s[r][n].at # 0 /\ s[r][n].at = s[r][k].at => n = k
        BY <1>c, <3>1, <3>4, <3>5
      <4>2. s[r][n].at <= Cardinality(after(r))
        BY <1>c, <3>1, <3>3, <3>5
      <4> QED
        BY <1>s, <1>new, <1>at, <2>4, <3>5, <4>1, <4>2, RouterConstants
    <3>6. CASE n # m
      <4>1. \A k \in Mids : s[r][n].at # 0 /\ s[r][n].at = s[r][k].at => n = k
        BY <1>c, <2>1, <2>4, <3>1, <3>4, <3>6
      <4>2. s[r][n].at <= Cardinality(after(r))
        BY <1>c, <3>3, <3>4, <3>6
      <4> QED
        BY <2>1, <2>4, <3>1, <3>6, <4>1, <4>2
    <3> QED
      BY <3>5, <3>6
  <2> QED
    BY <2>2, <2>3, <2>4
<1>5. PublishersSound(OrderWith(q), s)
  <2> SUFFICES ASSUME NEW r \in Peers, NEW n \in Mids, s[r][n].publisher # None
               PROVE  /\ s[r][n].publisher # r
                      /\ OrderWith(q)[s[r][n].publisher] # 0
                      /\ \A k \in Mids \ {n} :
                            s[r][k].publisher # s[r][n].publisher
    BY DEF PublishersSound
  <2>1. PublishersSound(order, slot) /\ slot[r][n] \in Slots
    BY <1>2 DEF TablesOK, TypeOK
  <2>2. s[r][n] = slot[r][n]
    BY <1>s, <1>new
  <2>3. slot[r][n].publisher \in Peers
    BY <2>1, <2>2 DEF Slots
  <2>4. /\ slot[r][n].publisher # r
        /\ order[slot[r][n].publisher] # 0
        /\ \A k \in Mids \ {n} : slot[r][k].publisher # slot[r][n].publisher
    BY <2>1, <2>2 DEF PublishersSound
  <2>5. \A k \in Mids \ {n} : s[r][k].publisher # s[r][n].publisher
    BY <1>s, <1>new, <2>2, <2>4
  <2> QED
    BY <1>o, <2>2, <2>3, <2>4, <2>5
<1>6. TracksDiffer(s, fresh \ {t})
  <2> SUFFICES ASSUME NEW r \in Peers, NEW n \in Mids, s[r][n].track # None
               PROVE  /\ s[r][n].track \notin fresh \ {t}
                      /\ \A x \in Peers, k \in Mids :
                            s[x][k].track = s[r][n].track => r = x /\ n = k
    BY DEF TracksDiffer
  <2>1. CASE r = q /\ n = m
    BY <1>s, <1>new, <1>fresh, <2>1
  <2>2. CASE r # q \/ n # m
    BY <1>2, <1>s, <1>new, <1>fresh, <2>2 DEF TablesOK, TracksDiffer
  <2> QED
    BY <2>1, <2>2
<1>7. GenerationsPresent(s, g)
  <2> SUFFICES ASSUME NEW r \in Peers, NEW n \in Mids, s[r][n].publisher # None
               PROVE  s[r][n].generation = g[s[r][n].track]
    BY DEF GenerationsPresent
  <2>1. s[r][n] = slot[r][n] /\ (r # q \/ n # m)
    BY <1>s, <1>new
  <2>2. slot[r][n].track \in Tracks /\ slot[r][n].track # None
    BY <1>2, <2>1, BoundSlot DEF TablesOK, TablesType
  <2>3. slot[r][n].track # old.track
    BY <1>2, <2>1, <2>2 DEF TablesOK, TracksDiffer
  <2> QED
    BY <1>2, <1>g, <2>1, <2>2, <2>3 DEF TablesOK, GenerationsPresent
<1>8. TargetsCurrent(flights, input, s, g, fresh \ {t}, alive)
  <2> SUFFICES ASSUME NEW f \in flights, NEW target \in f.targets
               PROVE  /\ target.output \in Tracks \ (fresh \ {t})
                      /\ target.generation \in Nat
                      /\ target.generation <= g[target.output]
                      /\ target.generation = g[target.output] =>
                          \A r \in Peers, n \in Mids : s[r][n].track = target.output =>
                            /\ s[r][n].publisher = f.source.publisher
                            /\ (input[f.source.publisher] \in alive \/ f.source.input \in alive)
                                 => input[f.source.publisher] = f.source.input
    BY DEF TargetsCurrent
  <2>1. /\ target.output \in Tracks \ fresh
        /\ target.generation \in Nat
        /\ target.generation <= generation[target.output]
        /\ target.generation = generation[target.output] =>
            \A r \in Peers, n \in Mids : slot[r][n].track = target.output =>
              /\ slot[r][n].publisher = f.source.publisher
              /\ (input[f.source.publisher] \in alive \/ f.source.input \in alive)
                   => input[f.source.publisher] = f.source.input
    BY <1>2 DEF TablesOK, TargetsCurrent
  <2>2. target.output # t
    BY <1>1, <2>1
  <2>3. \A r \in Peers, n \in Mids : s[r][n].track = target.output => s[r][n] = slot[r][n]
    BY <1>s, <1>new, <2>2
  <2>4. CASE g[target.output] = generation[target.output]
    BY <2>1, <2>3, <2>4
  <2>5. CASE g[target.output] = generation[target.output] + 1
    BY <1>g, <2>1, <2>5
  <2> QED
    BY <1>g, <2>1, <2>4, <2>5
<1>9. TablesOK(OrderWith(q), input, s, g, flights, next_order', fresh', alive)
  BY <1>1, <1>o, <1>3, <1>4, <1>5, <1>6, <1>7, <1>8 DEF TablesOK
<1>10. fresh' \subseteq Tracks /\ left' \subseteq Peers
  BY <1>1, <1>2 DEF TypeOK
<1>11. ASSUME NoticesInv PROVE NoticesInv'
  <2>1. ~closed /\ ~publishing
    BY DEF RegisterOutput
  <2>2. /\ \A r \in Peers \ left, n \in Mids : told[r][n] = slot[r][n].publisher
        /\ \A r \in Peers, n \in Mids : slot[r][n].track \in alive =>
              (slot[r][n].track \in handler <=> slot[r][n].publisher # None)
    BY <1>11, <2>1, NothingDue
  <2>3. resetting = {} /\ handler \cap fresh' = {} /\ t \notin handler
    BY <1>1, <1>11, <2>1 DEF NoticesInv
  <2>4. ASSUME NEW k \in first
        PROVE  /\ k.output \notin fresh'
               /\ \A r \in Peers, n \in Mids : s[r][n].track # k.output
               /\ k.publisher = s[k.to][k.mid].publisher
    <3>1. /\ bound
          /\ k = [to |-> q, mid |-> m, publisher |-> None, output |-> old.track]
      BY DEF first
    <3>2. /\ k.to = q /\ k.mid = m /\ k.publisher = None
          /\ k.output = slot[q][m].track
      BY <3>1
    <3>3. slot[q][m].track # None
      BY <1>old, <3>1
    <3>4. /\ slot[q][m].track \notin fresh
          /\ \A r \in Peers, n \in Mids :
                slot[r][n].track = slot[q][m].track => q = r /\ m = n
      BY <1>2, <3>3 DEF TablesOK, TracksDiffer
    <3>5. ASSUME NEW r \in Peers, NEW n \in Mids
          PROVE  s[r][n].track # k.output
      BY <1>1, <1>s, <1>new, <3>2, <3>4
    <3> QED
      BY <1>1, <1>s, <1>new, <3>2, <3>4, <3>5
  <2>5. ASSUME NEW r \in Peers \ left', NEW n \in Mids
        PROVE  \/ told[r][n] = s[r][n].publisher
               \/ \E k \in first : k.to = r /\ k.mid = n
    <3>1. CASE r = q /\ n = m /\ bound
      <4>1. [to |-> q, mid |-> m, publisher |-> None, output |-> old.track] \in first
        BY <3>1 DEF first
      <4> QED
        BY <3>1, <4>1
    <3>2. CASE r = q /\ n = m /\ ~bound
      BY <1>1, <1>s, <1>new, <2>2, <3>2
    <3>3. CASE r # q \/ n # m
      BY <1>1, <1>s, <2>2, <3>3
    <3> QED
      BY <3>1, <3>2, <3>3
  <2>6. ASSUME NEW r \in Peers, NEW n \in Mids, s[r][n].track \in alive
        PROVE  \/ s[r][n].track \in handler <=> s[r][n].publisher # None
               \/ NoticeOf(s, r, n) \in first
    <3>1. CASE r = q /\ n = m
      BY <1>s, <1>new, <2>3, <3>1
    <3>2. CASE r # q \/ n # m
      BY <1>s, <2>2, <2>6, <3>2
    <3> QED
      BY <3>1, <3>2
  <2> QED
    BY <1>1, <1>2, <1>f, <1>3, <1>9, <2>3, <2>4, <2>5, <2>6, ChangeIsAnnounced
       DEF TablesOK
<1> QED
  BY <1>1, <1>2, <1>o, <1>f, <1>9, <1>10, <1>11, ChangeKeepsInv

\* remove_peer: the peer's slots and those that carried it go, and slots are assigned.
LEMMA RemovePeerInv ==
    ASSUME IInv, NEW p \in Peers, RemovePeer(p)
    PROVE  IInv' /\ NoSlotWasted' /\ (NoticesInv => NoticesInv')
<1> DEFINE carrying == {x \in BoundTo(slot, p) : x[1] # p}
           g == BumpGeneration(generation, {slot[x[1]][x[2]].track : x \in carrying})
           s == [q \in Peers |-> [m \in Mids |->
                   IF q = p THEN NoSlot
                   ELSE IF slot[q][m].publisher = p
                   THEN [slot[q][m] EXCEPT !.publisher = None, !.generation = 0]
                   ELSE slot[q][m]]]
           o == [order EXCEPT ![p] = 0]
           i == [input EXCEPT ![p] = None]
           first == {NoticeOf(s, x[1], x[2]) : x \in carrying}
<1>1. /\ AssignAndPublish(o, i, s, g, first)
      /\ left' = left \cup {p}
      /\ UNCHANGED <<next_order, shutdown, media, fresh, alive>>
  BY DEF RemovePeer
<1>2. /\ TypeOK
      /\ TablesOK(order, input, slot, generation, flights, next_order, fresh, alive)
  BY DEF IInv
<1>g. /\ g \in [Tracks -> Nat]
      /\ \A u \in Tracks : g[u] = generation[u] \/ g[u] = generation[u] + 1
      /\ \A q \in Peers, m \in Mids : q # p /\ slot[q][m].publisher = p =>
            /\ slot[q][m].track \in Tracks
            /\ g[slot[q][m].track] = generation[slot[q][m].track] + 1
      /\ \A u \in Tracks : g[u] # generation[u] =>
            \E q \in Peers, m \in Mids :
               slot[q][m].publisher = p /\ slot[q][m].track = u
  <2>1. carrying \in SUBSET BoundTo(slot, p)
    OBVIOUS
  <2>2. \A q \in Peers, m \in Mids :
           <<q, m>> \in carrying <=> q # p /\ slot[q][m].publisher = p
    BY DEF BoundTo
  <2> HIDE DEF carrying
  <2>3. /\ g \in [Tracks -> Nat]
        /\ \A u \in Tracks : g[u] = generation[u] \/ g[u] = generation[u] + 1
        /\ \A q \in Peers, m \in Mids : <<q, m>> \in carrying =>
              /\ slot[q][m].track \in Tracks
              /\ g[slot[q][m].track] = generation[slot[q][m].track] + 1
        /\ \A u \in Tracks : g[u] # generation[u] =>
              \E q \in Peers, m \in Mids :
                 <<q, m>> \in carrying /\ slot[q][m].track = u
    BY <1>2, <2>1, BumpFacts DEF TablesOK
  <2> HIDE DEF g
  <2>4. \A q \in Peers, m \in Mids : q # p /\ slot[q][m].publisher = p =>
           /\ slot[q][m].track \in Tracks
           /\ g[slot[q][m].track] = generation[slot[q][m].track] + 1
    BY <2>2, <2>3
  <2>5. ASSUME NEW u \in Tracks, g[u] # generation[u]
        PROVE  \E q \in Peers, m \in Mids :
                  slot[q][m].publisher = p /\ slot[q][m].track = u
    <3>1. PICK q \in Peers, m \in Mids :
             <<q, m>> \in carrying /\ slot[q][m].track = u
      BY <2>3, <2>5
    <3> QED
      BY <2>2, <3>1
  <2> QED
    BY <2>3, <2>4, <2>5
<1>n. NoSlot \in Slots
  BY DEF NoSlot, Slots
<1>s. /\ s \in [Peers -> [Mids -> Slots]]
      /\ \A m \in Mids : s[p][m] = NoSlot
      /\ \A q \in Peers, m \in Mids : q # p =>
            /\ s[q][m].at = slot[q][m].at
            /\ s[q][m].track = slot[q][m].track
            /\ slot[q][m].publisher = p => s[q][m].publisher = None
            /\ slot[q][m].publisher # p => s[q][m] = slot[q][m]
  <2>1. ASSUME NEW q \in Peers, NEW m \in Mids, q # p
        PROVE  /\ s[q][m] \in Slots
               /\ s[q][m].at = slot[q][m].at
               /\ s[q][m].track = slot[q][m].track
               /\ slot[q][m].publisher = p => s[q][m].publisher = None
               /\ slot[q][m].publisher # p => s[q][m] = slot[q][m]
    <3>1. slot[q][m] \in Slots
      BY <1>2 DEF TypeOK
    <3>2. CASE slot[q][m].publisher = p
      <4>1. s[q][m] = [slot[q][m] EXCEPT !.publisher = None, !.generation = 0]
        BY <2>1, <3>2
      <4> HIDE DEF s
      <4>2. s[q][m] \in Slots
        <5> DEFINE rec == slot[q][m]
        <5>1. /\ rec.at \in Nat /\ rec.track \in Tracks \cup {None}
              /\ rec = [at |-> rec.at, track |-> rec.track,
                        publisher |-> rec.publisher, generation |-> rec.generation]
          BY <3>1 DEF Slots
        <5> HIDE DEF rec
        <5>2. s[q][m] = [at |-> rec.at, track |-> rec.track,
                         publisher |-> None, generation |-> 0]
          BY <4>1, <5>1 DEF rec
        <5> QED
          BY <5>1, <5>2 DEF Slots
      <4>3. /\ s[q][m].at = slot[q][m].at
            /\ s[q][m].track = slot[q][m].track
            /\ s[q][m].publisher = None
        BY <3>1, <4>1 DEF Slots
      <4> QED
        BY <3>2, <4>2, <4>3
    <3>3. CASE slot[q][m].publisher # p
      BY <2>1, <3>1, <3>3
    <3> QED
      BY <3>2, <3>3
  <2>2. \A m \in Mids : s[p][m] = NoSlot
    OBVIOUS
  <2>3. s \in [Peers -> [Mids -> Slots]]
    <3>1. \A q \in Peers, m \in Mids : s[q][m] \in Slots
      BY <1>n, <2>1, <2>2
    <3> QED
      BY <3>1
  <2> QED
    BY <2>1, <2>2, <2>3
<1>i. /\ i \in [Peers -> Tracks \cup {None}]
      /\ o \in [Peers -> Nat]
      /\ \A q \in Peers : q # p => i[q] = input[q] /\ o[q] = order[q]
      /\ o[p] = 0
  BY <1>2 DEF TypeOK
<1>f. first \in SUBSET Notices
  BY <1>s, NoticeType, ZenonT(40) DEF BoundTo
<1>np. NoSlot.at = 0 /\ NoSlot.track = None /\ NoSlot.publisher = None
  BY DEF NoSlot
<1> HIDE DEF g, s, i, o, first, carrying
<1>3. TablesType(o, i, s, g)
  BY <1>i, <1>s, <1>g DEF TablesType
<1>4. OutputsWellFormed(s)
  <2> DEFINE base == [q \in Peers |-> [m \in Mids |-> IF q = p THEN NoSlot ELSE slot[q][m]]]
  <2>1. OutputsWellFormed(base)
    <3> SUFFICES ASSUME NEW q \in Peers, NEW m \in Mids
                 PROVE  /\ base[q][m].at = 0 <=> base[q][m].track = None
                        /\ base[q][m].at = 0 => base[q][m].publisher = None
                        /\ base[q][m].at <= Cardinality({n \in Mids : base[q][n].at # 0})
                        /\ \A n \in Mids :
                              base[q][m].at # 0 /\ base[q][m].at = base[q][n].at => m = n
      BY DEF OutputsWellFormed
    <3>1. CASE q = p
      <4>1. {n \in Mids : base[q][n].at # 0} = {}
        BY <1>np, <3>1
      <4>2. Cardinality({}) = 0
        BY FS_EmptySet
      <4>3. base[q][m] = NoSlot
        BY <3>1
      <4> HIDE DEF base
      <4>4. base[q][m].at <= Cardinality({n \in Mids : base[q][n].at # 0})
        <5>1. Cardinality({n \in Mids : base[q][n].at # 0}) = 0
          BY <4>1, <4>2
        <5>2. base[q][m].at = 0
          BY <1>np, <4>3
        <5> QED
          BY <5>1, <5>2
      <4> QED
        BY <1>np, <4>3, <4>4
    <3>2. CASE q # p
      <4>1. \A n \in Mids : base[q][n] = slot[q][n]
        BY <3>2
      <4>2. {n \in Mids : base[q][n].at # 0} = {n \in Mids : slot[q][n].at # 0}
        BY <4>1
      <4>3. /\ slot[q][m].at = 0 <=> slot[q][m].track = None
            /\ slot[q][m].at = 0 => slot[q][m].publisher = None
            /\ \A n \in Mids : slot[q][m].at # 0 /\ slot[q][m].at = slot[q][n].at => m = n
        BY <1>2 DEF TablesOK, OutputsWellFormed
      <4>4. slot[q][m].at <= Cardinality({n \in Mids : slot[q][n].at # 0})
        BY <1>2 DEF TablesOK, OutputsWellFormed
      <4>5. base[q][m].at <= Cardinality({n \in Mids : base[q][n].at # 0})
        BY <4>1, <4>2, <4>4
      <4> HIDE DEF base
      <4> QED
        BY <4>1, <4>3, <4>5
    <3> QED
      BY <3>1, <3>2
  <2>2. ASSUME NEW q \in Peers, NEW m \in Mids
        PROVE  /\ s[q][m].at = base[q][m].at
               /\ s[q][m].track = base[q][m].track
               /\ s[q][m].at = 0 => s[q][m].publisher = None
    <3>1. CASE q = p
      BY <1>np, <1>s, <3>1
    <3>2. CASE q # p
      <4>1. s[q][m].at = slot[q][m].at /\ s[q][m].track = slot[q][m].track
        BY <1>s, <3>2
      <4>2. slot[q][m].at = 0 => slot[q][m].publisher = None
        BY <1>2 DEF TablesOK, OutputsWellFormed
      <4>3. s[q][m].at = 0 => s[q][m].publisher = None
        BY <1>s, <3>2, <4>1, <4>2
      <4> QED
        BY <3>2, <4>1, <4>3
    <3> QED
      BY <3>1, <3>2
  <2> HIDE DEF base
  <2> QED
    BY <2>1, <2>2, SamePlaces
<1>5. PublishersSound(o, s)
  <2> SUFFICES ASSUME NEW q \in Peers, NEW m \in Mids, s[q][m].publisher # None
               PROVE  /\ s[q][m].publisher # q
                      /\ o[s[q][m].publisher] # 0
                      /\ \A n \in Mids \ {m} :
                            s[q][n].publisher # s[q][m].publisher
    BY DEF PublishersSound
  <2>1. PublishersSound(order, slot) /\ slot[q][m] \in Slots
    BY <1>2 DEF TablesOK, TypeOK
  <2>2. q # p /\ slot[q][m].publisher # p /\ s[q][m] = slot[q][m]
    BY <1>s, <1>np
  <2>3. slot[q][m].publisher \in Peers
    BY <2>1, <2>2 DEF Slots
  <2>4. /\ slot[q][m].publisher # q
        /\ order[slot[q][m].publisher] # 0
        /\ \A n \in Mids \ {m} : slot[q][n].publisher # slot[q][m].publisher
    BY <2>1, <2>2 DEF PublishersSound
  <2>5. \A n \in Mids \ {m} : s[q][n].publisher # s[q][m].publisher
    BY <1>s, <2>2, <2>4
  <2> QED
    BY <1>i, <2>2, <2>3, <2>4, <2>5
<1>6. TracksDiffer(s, fresh)
  <2> SUFFICES ASSUME NEW q \in Peers, NEW m \in Mids, s[q][m].track # None
               PROVE  /\ s[q][m].track \notin fresh
                      /\ \A r \in Peers, n \in Mids :
                            s[r][n].track = s[q][m].track => q = r /\ m = n
    BY DEF TracksDiffer
  <2>1. q # p /\ s[q][m].track = slot[q][m].track
    BY <1>s, <1>np
  <2>2. \A r \in Peers, n \in Mids :
           s[r][n].track = s[q][m].track => slot[r][n].track = slot[q][m].track
    BY <1>s, <1>np, <2>1
  <2> QED
    BY <1>2, <2>1, <2>2 DEF TablesOK, TracksDiffer
<1>7. GenerationsPresent(s, g)
  <2> SUFFICES ASSUME NEW q \in Peers, NEW m \in Mids, s[q][m].publisher # None
               PROVE  s[q][m].generation = g[s[q][m].track]
    BY DEF GenerationsPresent
  <2>1. q # p /\ slot[q][m].publisher # p /\ s[q][m] = slot[q][m]
    BY <1>s, <1>np
  <2>2. slot[q][m].track # None /\ slot[q][m].track \in Tracks
    BY <1>2, <2>1, BoundSlot DEF TablesOK, TablesType
  <2>3. g[slot[q][m].track] = generation[slot[q][m].track]
    BY <1>2, <1>g, <2>1, <2>2 DEF TablesOK, TracksDiffer
  <2> QED
    BY <1>2, <2>1, <2>3 DEF TablesOK, GenerationsPresent
<1>8. TargetsCurrent(flights, i, s, g, fresh, alive)
  <2> SUFFICES ASSUME NEW f \in flights, NEW target \in f.targets
               PROVE  /\ target.output \in Tracks \ fresh
                      /\ target.generation \in Nat
                      /\ target.generation <= g[target.output]
                      /\ target.generation = g[target.output] =>
                          \A q \in Peers, m \in Mids : s[q][m].track = target.output =>
                            /\ s[q][m].publisher = f.source.publisher
                            /\ (i[f.source.publisher] \in alive \/ f.source.input \in alive)
                                 => i[f.source.publisher] = f.source.input
    BY DEF TargetsCurrent
  <2>1. /\ target.output \in Tracks \ fresh
        /\ target.generation \in Nat
        /\ target.generation <= generation[target.output]
        /\ target.generation = generation[target.output] =>
            \A q \in Peers, m \in Mids : slot[q][m].track = target.output =>
              /\ slot[q][m].publisher = f.source.publisher
              /\ (input[f.source.publisher] \in alive \/ f.source.input \in alive)
                   => input[f.source.publisher] = f.source.input
    BY <1>2 DEF TablesOK, TargetsCurrent
  <2>2. f.source.publisher \in Peers /\ generation[target.output] \in Nat
    BY <1>2, <2>1 DEF TypeOK, Flights, Sources
  <2>3. CASE g[target.output] = generation[target.output] + 1
    BY <2>1, <2>2, <2>3
  <2>4. CASE g[target.output] = generation[target.output]
    <3>1. ASSUME NEW q \in Peers, NEW m \in Mids, s[q][m].track = target.output
          PROVE  q # p /\ slot[q][m].publisher # p /\ s[q][m] = slot[q][m]
      <4>1. q # p
        BY <1>s, <1>np, <2>1, <3>1, RouterConstants
      <4> QED
        BY <1>s, <1>g, <2>1, <2>2, <2>4, <3>1, <4>1
    <3> QED
      BY <1>i, <2>1, <2>2, <2>4, <3>1
  <2> QED
    BY <1>g, <2>1, <2>3, <2>4
<1>9. OrdersDiffer(o, next_order)
  BY <1>2, <1>i DEF TablesOK, OrdersDiffer, TypeOK
<1>10. TablesOK(o, i, s, g, flights, next_order', fresh', alive)
  BY <1>1, <1>3, <1>4, <1>5, <1>6, <1>7, <1>8, <1>9 DEF TablesOK
<1>11. fresh' \subseteq Tracks /\ left' \subseteq Peers /\ next_order' \in Nat \ {0}
  BY <1>1, <1>2 DEF TypeOK
<1>12. ASSUME NoticesInv PROVE NoticesInv'
  <2>1. ~closed /\ ~publishing
    BY DEF RemovePeer
  <2>2. /\ \A q \in Peers \ left, m \in Mids : told[q][m] = slot[q][m].publisher
        /\ \A q \in Peers, m \in Mids : slot[q][m].track \in alive =>
              (slot[q][m].track \in handler <=> slot[q][m].publisher # None)
    BY <1>12, <2>1, NothingDue
  <2>3. resetting = {} /\ handler \cap fresh' = {}
    BY <1>1, <1>12, <2>1 DEF NoticesInv
  <2>4. ASSUME NEW n \in first
        PROVE  /\ n.output \notin fresh'
               /\ n.output = s[n.to][n.mid].track
               /\ n.publisher = s[n.to][n.mid].publisher
    <3>1. PICK x \in carrying : n = NoticeOf(s, x[1], x[2])
      BY DEF first
    <3>2. /\ x[1] \in Peers /\ x[2] \in Mids /\ x[1] # p
          /\ slot[x[1]][x[2]].publisher = p
      BY DEF carrying, BoundTo
    <3>3. /\ n.to = x[1] /\ n.mid = x[2]
          /\ n.publisher = s[x[1]][x[2]].publisher
          /\ n.output = s[x[1]][x[2]].track
      BY <3>1 DEF NoticeOf
    <3>4. slot[x[1]][x[2]].track \in Tracks
      BY <1>g, <3>2
    <3>5. slot[x[1]][x[2]].track \notin fresh
      BY <1>2, <3>2, <3>4, RouterConstants DEF TablesOK, TracksDiffer
    <3> QED
      BY <1>1, <1>s, <3>2, <3>3, <3>5
  <2>5. ASSUME NEW q \in Peers, NEW m \in Mids, q # p, slot[q][m].publisher = p
        PROVE  NoticeOf(s, q, m) \in first
    <3>1. <<q, m>> \in carrying
      BY <2>5 DEF carrying, BoundTo
    <3>2. NoticeOf(s, <<q, m>>[1], <<q, m>>[2]) \in first
      BY <3>1 DEF first
    <3> QED
      BY <3>2
  <2>6. ASSUME NEW q \in Peers \ left', NEW m \in Mids
        PROVE  \/ told[q][m] = s[q][m].publisher
               \/ \E n \in first : n.to = q /\ n.mid = m
    <3>1. q # p /\ q \in Peers \ left
      BY <1>1
    <3>2. CASE slot[q][m].publisher = p
      <4>1. NoticeOf(s, q, m).to = q /\ NoticeOf(s, q, m).mid = m
        BY DEF NoticeOf
      <4> QED
        BY <2>5, <3>1, <3>2, <4>1
    <3>3. CASE slot[q][m].publisher # p
      BY <1>s, <2>2, <3>1, <3>3
    <3> QED
      BY <3>2, <3>3
  <2>7. ASSUME NEW q \in Peers, NEW m \in Mids, s[q][m].track \in alive
        PROVE  \/ s[q][m].track \in handler <=> s[q][m].publisher # None
               \/ NoticeOf(s, q, m) \in first
    <3>1. None \notin alive
      BY <1>2, RouterConstants DEF TypeOK
    <3>2. q # p
      BY <1>s, <1>np, <2>7, <3>1
    <3> QED
      BY <1>s, <2>2, <2>5, <2>7, <3>2
  <2> QED
    BY <1>1, <1>2, <1>f, <1>3, <1>10, <2>3, <2>4, <2>6, <2>7, ChangeIsAnnounced
       DEF TablesOK
<1> QED
  BY <1>1, <1>2, <1>f, <1>10, <1>11, <1>12, ChangeKeepsInv

-----------------------------------------------------------------------------
\* Steps that touch neither the tables nor the packets under way.
LEMMA TablesUntouched ==
    ASSUME IInv, TypeOK', UNCHANGED <<bindings, flights, fresh, alive>>
    PROVE  IInv'
<1>1. TablesOK(order', input', slot', generation', flights', next_order',
               fresh', alive')
  BY DEF IInv, bindings
<1> QED
  BY <1>1 DEF IInv

\* publish: a notice is sent and the SR reporter of its track follows.
LEMMA PublishNoticeInv ==
    ASSUME IInv, NEW n \in pending.first \cup pending.second, PublishNotice(n)
    PROVE  IInv'
<1>1. TypeOK /\ n \in Notices
  BY DEF IInv, TypeOK
<1>2. /\ n.to \in Peers /\ n.mid \in Mids /\ n.publisher \in Peers \cup {None}
      /\ n.output \in Tracks \cup {None}
  BY <1>1 DEF Notices
<1>3. /\ UNCHANGED <<bindings, shutdown, media, outside>>
      /\ handler' = IF n.output \notin alive THEN handler
                    ELSE IF n.publisher = None THEN handler \ {n.output}
                    ELSE handler \cup {n.output}
      /\ told' = IF n.to \in left THEN told
                 ELSE [told EXCEPT ![n.to][n.mid] = n.publisher]
  BY DEF PublishNotice, HandlerAfter
<1>4. pending' \in [first : SUBSET Notices, second : SUBSET Notices]
  <2>1. pending \in [first : SUBSET Notices, second : SUBSET Notices]
    BY <1>1 DEF TypeOK
  <2>2. \/ pending' = [pending EXCEPT !.first = @ \ {n}]
        \/ pending' = [pending EXCEPT !.second = @ \ {n}]
    BY DEF PublishNotice
  <2> QED
    BY <2>1, <2>2
<1>5. handler' \subseteq Tracks
  BY <1>1, <1>3 DEF TypeOK
<1>6. told' \in [Peers -> [Mids -> Peers \cup {None}]]
  BY <1>1, <1>2, <1>3 DEF TypeOK
<1>7. TypeOK'
  BY <1>1, <1>3, <1>4, <1>5, <1>6
     DEF TypeOK, bindings, shutdown, media, outside
<1> QED
  BY <1>3, <1>7, TablesUntouched DEF bindings, media, outside

\* The targets route copies are the slots that carry its source.
LEMMA StartFlightInv ==
    ASSUME IInv, NEW source \in Sources,
           Locked(input[source.publisher]) = Locked(source.input),
           StartFlight(source)
    PROVE  /\ flights' \subseteq Flights
           /\ TargetsCurrent(flights', input, slot, generation, fresh, alive)
<1> DEFINE p == source.publisher
           new == [source |-> source, targets |-> TargetsOf(p)]
<1>1. /\ TypeOK
      /\ TablesOK(order, input, slot, generation, flights, next_order, fresh, alive)
  BY DEF IInv
<1>2. flights' = flights \/ flights' = flights \cup {new}
  BY DEF StartFlight
<1>3. p \in Peers /\ source.input \in Tracks
  BY DEF Sources
<1>4. ASSUME NEW target \in TargetsOf(p)
      PROVE  /\ target \in Targets
             /\ target.output \in Tracks \ fresh
             /\ target.generation = generation[target.output]
             /\ \A r \in Peers, n \in Mids :
                   slot[r][n].track = target.output => slot[r][n].publisher = p
  <2>1. PICK x \in BoundTo(slot, p) :
           target = [output |-> slot[x[1]][x[2]].track,
                     generation |-> slot[x[1]][x[2]].generation]
    BY DEF TargetsOf
  <2> DEFINE q == x[1]
             m == x[2]
  <2>2. q \in Peers /\ m \in Mids /\ slot[q][m].publisher = p
    BY DEF BoundTo
  <2>3. slot[q][m].track \in Tracks /\ slot[q][m].track # None
    BY <1>1, <1>3, <2>2, BoundSlot, RouterConstants DEF TablesOK, TablesType
  <2>4. slot[q][m] \in Slots
    BY <1>1, <2>2 DEF TypeOK
  <2>5. slot[q][m].generation = generation[slot[q][m].track]
    BY <1>1, <1>3, <2>2, RouterConstants DEF TablesOK, GenerationsPresent
  <2>6. /\ slot[q][m].track \notin fresh
        /\ \A r \in Peers, n \in Mids :
              slot[r][n].track = slot[q][m].track => q = r /\ m = n
    BY <1>1, <2>2, <2>3 DEF TablesOK, TracksDiffer
  <2>7. target.output = slot[q][m].track /\ target.generation = slot[q][m].generation
    BY <2>1
  <2>8. target \in Targets
    BY <2>1, <2>3, <2>4 DEF Targets, Slots
  <2> QED
    BY <2>2, <2>3, <2>5, <2>6, <2>7, <2>8, SMTT(30)
<1>5. new \in Flights
  BY <1>4 DEF Flights
<1>6. flights' \subseteq Flights
  BY <1>1, <1>2, <1>5 DEF TypeOK
<1>7. (input[p] \in alive \/ source.input \in alive) => input[p] = source.input
  <2>1. None \notin alive
    BY <1>1, RouterConstants DEF TypeOK
  <2> QED
    BY <2>1 DEF Locked
<1>8. TargetsCurrent(flights', input, slot, generation, fresh, alive)
  <2> SUFFICES ASSUME NEW f \in flights', NEW target \in f.targets
               PROVE  /\ target.output \in Tracks \ fresh
                      /\ target.generation \in Nat
                      /\ target.generation <= generation[target.output]
                      /\ target.generation = generation[target.output] =>
                          \A q \in Peers, m \in Mids : slot[q][m].track = target.output =>
                            /\ slot[q][m].publisher = f.source.publisher
                            /\ (input[f.source.publisher] \in alive \/ f.source.input \in alive)
                                 => input[f.source.publisher] = f.source.input
    BY DEF TargetsCurrent
  <2>1. CASE f \in flights
    BY <1>1, <2>1 DEF TablesOK, TargetsCurrent
  <2>2. CASE f = new
    <3>1. target \in TargetsOf(p) /\ f.source = source
      BY <2>2
    <3>2. target.generation \in Nat
      BY <1>1, <1>4, <3>1 DEF TypeOK
    <3> QED
      BY <1>4, <1>7, <3>1, <3>2
  <2> QED
    BY <1>2, <2>1, <2>2
<1> QED
  BY <1>6, <1>8

\* What a new set of flights and nothing else in the tables leaves intact.
LEMMA FlightsChanged ==
    ASSUME IInv, UNCHANGED <<bindings, shutdown, notices, outside>>,
           flights' \subseteq Flights, delayed' \subseteq Sources,
           sent' \in [output : Tracks, source : Sources] \cup {None},
           TargetsCurrent(flights', input, slot, generation, fresh, alive)
    PROVE  IInv'
<1>1. TypeOK'
  BY DEF IInv, TypeOK, bindings, shutdown, notices, outside
<1>2. TablesOK(order, input, slot, generation, flights', next_order, fresh, alive)
  BY DEF IInv, TablesOK
<1>3. TablesOK(order', input', slot', generation', flights', next_order',
               fresh', alive')
  BY <1>2 DEF bindings, outside
<1> QED
  BY <1>1, <1>3 DEF IInv

\* route: the targets of a packet are copied, or the packet is delayed.
LEMMA RouteInv ==
    ASSUME IInv, NEW p \in Peers, RouteNow(p) \/ RouteDelayed(p)
    PROVE  IInv'
<1>1. TypeOK
  BY DEF IInv
<1> DEFINE source == [publisher |-> p, input |-> input[p]]
<1>2. input[p] \in alive /\ source \in Sources
  BY <1>1 DEF RouteNow, RouteDelayed, TypeOK, Sources
<1>3. CASE RouteNow(p)
  <2>1. StartFlight(source) /\ Locked(input[source.publisher]) = Locked(source.input)
    BY <1>3 DEF RouteNow
  <2>2. /\ flights' \subseteq Flights
        /\ TargetsCurrent(flights', input, slot, generation, fresh, alive)
    <3> HIDE DEF source
    <3> QED BY <1>2, <2>1, StartFlightInv
  <2>3. UNCHANGED <<bindings, shutdown, notices, delayed, sent, outside>>
    BY <1>3 DEF RouteNow
  <2> QED
    BY <1>1, <2>2, <2>3, FlightsChanged DEF TypeOK
<1>4. CASE RouteDelayed(p)
  <2>1. /\ delayed' = delayed \cup {source}
        /\ UNCHANGED <<bindings, shutdown, notices, flights, sent, outside>>
    BY <1>4 DEF RouteDelayed
  <2>2. TargetsCurrent(flights', input, slot, generation, fresh, alive)
    BY <2>1 DEF IInv, TablesOK
  <2> QED
    BY <1>1, <1>2, <2>1, <2>2, FlightsChanged DEF TypeOK
<1> QED
  BY <1>3, <1>4

\* A delayed packet is forwarded to the targets of that moment.
LEMMA ForwardDelayedInv ==
    ASSUME IInv, NEW d \in delayed, ForwardDelayed(d)
    PROVE  IInv'
<1>1. TypeOK /\ d \in Sources
  BY DEF IInv, TypeOK
<1>2. /\ delayed' = delayed \ {d}
      /\ UNCHANGED <<bindings, shutdown, notices, sent, outside>>
  BY DEF ForwardDelayed
<1>3. CASE order[d.publisher] # 0 /\ Locked(input[d.publisher]) = Locked(d.input)
  <2>1. /\ flights' \subseteq Flights
        /\ TargetsCurrent(flights', input, slot, generation, fresh, alive)
    BY <1>1, <1>3, StartFlightInv DEF ForwardDelayed
  <2> QED
    BY <1>1, <1>2, <2>1, FlightsChanged DEF TypeOK
<1>4. CASE ~(order[d.publisher] # 0 /\ Locked(input[d.publisher]) = Locked(d.input))
  <2>1. flights' = flights
    BY <1>4 DEF ForwardDelayed
  <2>2. TargetsCurrent(flights', input, slot, generation, fresh, alive)
    BY <2>1 DEF IInv, TablesOK
  <2> QED
    BY <1>1, <1>2, <2>1, <2>2, FlightsChanged DEF TypeOK
<1> QED
  BY <1>3, <1>4

\* send_packets: a target is served outside of the lock, or refused.
LEMMA SendPacketInv ==
    ASSUME IInv, NEW f \in flights, NEW target \in f.targets, SendPacket(f, target)
    PROVE  IInv'
<1> DEFINE rest == [f EXCEPT !.targets = @ \ {target}]
<1>1. TypeOK /\ f \in Flights
  BY DEF IInv, TypeOK
<1>2. /\ flights' \subseteq flights \cup {rest}
      /\ UNCHANGED <<bindings, shutdown, notices, delayed, outside>>
      /\ \/ sent' = [output |-> target.output, source |-> f.source]
         \/ sent' = sent
  BY DEF SendPacket
<1>3. rest \in Flights /\ rest.source = f.source /\ rest.targets \subseteq f.targets
  BY <1>1 DEF Flights
<1>4. TargetsCurrent(flights, input, slot, generation, fresh, alive)
  BY DEF IInv, TablesOK
<1>5. TargetsCurrent(flights', input, slot, generation, fresh, alive)
  <2> HIDE DEF rest
  <2>1. TargetsCurrent({rest}, input, slot, generation, fresh, alive)
    BY <1>3, <1>4 DEF TargetsCurrent
  <2> QED
    BY <1>2, <1>4, <2>1 DEF TargetsCurrent
<1>6. target.output \in Tracks
  BY <1>4 DEF TargetsCurrent
<1>7. sent' \in [output : Tracks, source : Sources] \cup {None}
  BY <1>1, <1>2, <1>6 DEF TypeOK, Flights
<1>8. flights' \subseteq Flights /\ delayed' \subseteq Sources
  BY <1>1, <1>2, <1>3 DEF TypeOK
<1> QED
  BY <1>2, <1>5, <1>7, <1>8, FlightsChanged

\* close: the tables are emptied, and the sinks of the tracks are still to be taken.
LEMMA CloseInv ==
    ASSUME IInv, Close
    PROVE  IInv'
<1>1. /\ TypeOK
      /\ TablesOK(order, input, slot, generation, flights, next_order, fresh, alive)
  BY DEF IInv
<1>2. /\ order' = [p \in Peers |-> 0]
      /\ input' = [p \in Peers |-> None]
      /\ slot' = [q \in Peers |-> [m \in Mids |-> NoSlot]]
      /\ delayed' = {} /\ closed' = TRUE
      /\ resetting' = LiveOutputs
      /\ UNCHANGED <<next_order, generation, notices, flights, sent, outside>>
  BY DEF Close
<1>3. NoSlot \in Slots /\ NoSlot.at = 0 /\ NoSlot.track = None
      /\ NoSlot.publisher = None
  BY DEF NoSlot, Slots
<1>4. TypeOK'
  <2>1. slot' \in [Peers -> [Mids -> Slots]]
    BY <1>2, <1>3
  <2>2. resetting' \subseteq Tracks /\ closed' \in BOOLEAN
    BY <1>1, <1>2 DEF TypeOK, LiveOutputs
  <2>3. order' \in [Peers -> Nat] /\ input' \in [Peers -> Tracks \cup {None}]
    BY <1>2
  <2> QED
    BY <1>1, <1>2, <2>1, <2>2, <2>3 DEF TypeOK, notices, outside
<1>5. \A q \in Peers, m \in Mids : slot'[q][m] = NoSlot
  BY <1>2
<1>6. TablesType(order', input', slot', generation')
  BY <1>4 DEF TablesType, TypeOK
<1>7. OrdersDiffer(order', next_order')
  BY <1>1, <1>2 DEF OrdersDiffer, TypeOK
<1>8. OutputsWellFormed(slot')
  <2> SUFFICES ASSUME NEW q \in Peers, NEW m \in Mids
               PROVE  slot'[q][m].at <= Cardinality({n \in Mids : slot'[q][n].at # 0})
    BY <1>3, <1>5 DEF OutputsWellFormed
  <2>1. {n \in Mids : slot'[q][n].at # 0} = {}
    BY <1>3, <1>5
  <2>2. Cardinality({n \in Mids : slot'[q][n].at # 0}) = 0
    BY <2>1, FS_EmptySet
  <2>3. slot'[q][m].at = 0
    BY <1>3, <1>5
  <2> QED
    BY <2>2, <2>3
<1>9. /\ PublishersSound(order', slot') /\ TracksDiffer(slot', fresh')
      /\ GenerationsPresent(slot', generation')
  BY <1>3, <1>5 DEF PublishersSound, TracksDiffer, GenerationsPresent
<1>10. TargetsCurrent(flights', input', slot', generation', fresh', alive')
  <2>1. TargetsCurrent(flights, input, slot, generation, fresh, alive)
    BY <1>1 DEF TablesOK
  <2>2. /\ flights' = flights /\ generation' = generation /\ fresh' = fresh
        /\ alive' = alive
    BY <1>2 DEF outside
  <2> QED
    BY <1>3, <1>5, <2>1, <2>2, RouterConstants DEF TargetsCurrent
<1> QED
  BY <1>4, <1>6, <1>7, <1>8, <1>9, <1>10 DEF IInv, TablesOK

\* close takes the sink of one track.
LEMMA DetachTrackInv ==
    ASSUME IInv, NEW t \in Tracks, DetachTrack(t)
    PROVE  IInv'
<1>1. TypeOK'
  BY DEF IInv, DetachTrack, TypeOK, bindings, media, outside
<1> QED
  BY <1>1, TablesUntouched DEF DetachTrack, media, outside

\* MediaConnections drops a track, and its handler goes with it.
LEMMA TrackExpiresInv ==
    ASSUME IInv, NEW t \in Tracks, TrackExpires(t)
    PROVE  IInv'
<1>1. /\ alive' = alive \ {t} /\ handler' = handler \ {t}
      /\ UNCHANGED <<bindings, shutdown, pending, told, media, fresh, left>>
  BY DEF TrackExpires
<1>2. TypeOK'
  BY <1>1 DEF IInv, TypeOK, bindings, shutdown, media
<1>3. TargetsCurrent(flights, input, slot, generation, fresh, alive')
  BY <1>1 DEF IInv, TablesOK, TargetsCurrent
<1>4. TablesOK(order, input, slot, generation, flights, next_order, fresh, alive')
  BY <1>3 DEF IInv, TablesOK
<1>5. TablesOK(order', input', slot', generation', flights', next_order',
               fresh', alive')
  BY <1>1, <1>4 DEF bindings, media
<1> QED
  BY <1>2, <1>5 DEF IInv

\* Every step of the router keeps the invariant.
LEMMA NextInv == IInv /\ [Next]_vars => IInv'
<1> SUFFICES ASSUME IInv, [Next]_vars PROVE IInv'
  OBVIOUS
<1>1. ASSUME NEW p \in Peers, NEW t \in Tracks, RegisterInput(p, t) PROVE IInv'
  BY <1>1, RegisterInputInv
<1>2. ASSUME NEW q \in Peers, NEW m \in Mids, NEW t \in Tracks, RegisterOutput(q, m, t)
      PROVE  IInv'
  BY <1>2, RegisterOutputInv
<1>3. ASSUME NEW p \in Peers, RemovePeer(p) PROVE IInv'
  BY <1>3, RemovePeerInv
<1>4. ASSUME NEW n \in pending.first \cup pending.second, PublishNotice(n) PROVE IInv'
  BY <1>4, PublishNoticeInv
<1>5. ASSUME NEW p \in Peers, RouteNow(p) \/ RouteDelayed(p) PROVE IInv'
  BY <1>5, RouteInv
<1>6. ASSUME NEW d \in delayed, ForwardDelayed(d) PROVE IInv'
  BY <1>6, ForwardDelayedInv
<1>7. ASSUME NEW f \in flights, NEW target \in f.targets, SendPacket(f, target) PROVE IInv'
  BY <1>7, SendPacketInv
<1>8. CASE Close
  BY <1>8, CloseInv
<1>9. ASSUME NEW t \in Tracks, DetachTrack(t) \/ TrackExpires(t) PROVE IInv'
  BY <1>9, DetachTrackInv, TrackExpiresInv
<1>10. CASE UNCHANGED vars
  <2>1. TypeOK'
    BY <1>10 DEF IInv, TypeOK, vars, bindings, shutdown, notices, media, outside
  <2> QED
    BY <1>10, <2>1, TablesUntouched DEF vars, bindings, media, outside
<1> QED
  BY <1>1, <1>2, <1>3, <1>4, <1>5, <1>6, <1>7, <1>8, <1>9, <1>10 DEF Next

\* The inductive invariant holds in every behaviour of the router.
THEOREM Invariance == Spec => []IInv
BY InitInv, NextInv, PTL DEF Spec

\* The router's variables keep their types.
THEOREM TypeCorrect == Spec => []TypeOK
<1>1. IInv => TypeOK
  BY DEF IInv
<1> QED
  BY <1>1, Invariance, PTL

(***************************************************************************)
(* No subscriber is bound to itself, to one publisher twice, or to a peer  *)
(* the router does not know, whatever register_track, remove_peer and      *)
(* close interleave.                                                       *)
(***************************************************************************)
THEOREM BindingsAreSound == Spec => []BindingsSound
<1>1. IInv => BindingsSound
  BY DEF IInv, TablesOK, PublishersSound, BindingsSound
<1> QED
  BY <1>1, Invariance, PTL

-----------------------------------------------------------------------------
(***************************************************************************)
(* Only the three operations can free a slot or bring a publisher, and     *)
(* they end with an assignment; everything else leaves the bindings alone, *)
(* takes tracks away, or empties the tables.                               *)
(***************************************************************************)
LEMMA NoSlotWastedStep == IInv /\ NoSlotWasted /\ [Next]_vars => NoSlotWasted'
<1> SUFFICES ASSUME IInv, NoSlotWasted, [Next]_vars PROVE NoSlotWasted'
  OBVIOUS
<1>0. None \notin alive
  BY RouterConstants DEF IInv, TypeOK
<1>1. ASSUME NEW p \in Peers, NEW t \in Tracks, RegisterInput(p, t)
      PROVE  NoSlotWasted'
  BY <1>1, RegisterInputInv
<1>2. ASSUME NEW q \in Peers, NEW m \in Mids, NEW t \in Tracks, RegisterOutput(q, m, t)
      PROVE  NoSlotWasted'
  BY <1>2, RegisterOutputInv
<1>3. ASSUME NEW p \in Peers, RemovePeer(p) PROVE NoSlotWasted'
  BY <1>3, RemovePeerInv
<1>4. CASE UNCHANGED <<order, input, slot, alive>>
  BY <1>4 DEF NoSlotWasted, FreeSlots, Eligible
<1>5. CASE Close
  <2>1. \A p \in Peers : order'[p] = 0
    BY <1>5 DEF Close
  <2> QED
    BY <2>1 DEF NoSlotWasted, Eligible
<1>6. ASSUME NEW t \in Tracks, TrackExpires(t) PROVE NoSlotWasted'
  <2>1. UNCHANGED <<order, input, slot>> /\ alive' \subseteq alive
    BY <1>6 DEF TrackExpires, bindings
  <2>2. \A q \in Peers : /\ FreeSlots(slot, q)' \subseteq FreeSlots(slot, q)
                         /\ Eligible(order, input, slot, q)'
                               \subseteq Eligible(order, input, slot, q)
    BY <2>1 DEF FreeSlots, Eligible
  <2> QED
    BY <2>2 DEF NoSlotWasted
<1>7. ASSUME NEW n, PublishNotice(n) PROVE UNCHANGED <<order, input, slot, alive>>
  BY <1>7 DEF PublishNotice, bindings, outside
<1>8. ASSUME NEW p, RouteNow(p) \/ RouteDelayed(p) \/ ForwardDelayed(p)
      PROVE  UNCHANGED <<order, input, slot, alive>>
  BY <1>8 DEF RouteNow, RouteDelayed, ForwardDelayed, bindings, outside
<1>9. ASSUME NEW f, NEW target, SendPacket(f, target)
      PROVE  UNCHANGED <<order, input, slot, alive>>
  BY <1>9 DEF SendPacket, bindings, outside
<1>10. ASSUME NEW t, DetachTrack(t) PROVE UNCHANGED <<order, input, slot, alive>>
  BY <1>10 DEF DetachTrack, bindings, outside
<1>11. UNCHANGED vars => UNCHANGED <<order, input, slot, alive>>
  BY DEF vars, bindings, outside
<1> QED
  BY <1>1, <1>2, <1>3, <1>4, <1>5, <1>6, <1>7, <1>8, <1>9, <1>10, <1>11 DEF Next

(***************************************************************************)
(* In every state of every behaviour, no usable slot stays empty while a   *)
(* live publisher waits for one.                                           *)
(***************************************************************************)
THEOREM NothingWasted == Spec => []NoSlotWasted
<1>1. Init => NoSlotWasted
  BY DEF Init, NoSlotWasted, Eligible
<1> QED
  BY <1>1, Invariance, NoSlotWastedStep, PTL DEF Spec

-----------------------------------------------------------------------------
\* A notice that is sent was due, or is followed by the one that corrects it.
LEMMA PublishNoticeKeepsNotices ==
    ASSUME IInv, NoticesInv, ~closed,
           NEW k \in pending.first \cup pending.second, PublishNotice(k)
    PROVE  NoticesInv'
<1>1. /\ k \in Notices /\ TypeOK /\ TracksDiffer(slot, fresh)
      /\ slot \in [Peers -> [Mids -> Slots]]
      /\ told \in [Peers -> [Mids -> Peers \cup {None}]]
      /\ pending \in [first : SUBSET Notices, second : SUBSET Notices]
      /\ None \notin alive
  BY RouterConstants DEF IInv, TypeOK, TablesOK
<1>2. k.to \in Peers /\ k.mid \in Mids
  BY <1>1 DEF Notices
<1>3. /\ slot' = slot /\ alive' = alive /\ left' = left /\ fresh' = fresh
      /\ closed' = closed /\ resetting' = resetting
      /\ handler' = IF k.output \notin alive THEN handler
                    ELSE IF k.publisher = None THEN handler \ {k.output}
                    ELSE handler \cup {k.output}
      /\ told' = IF k.to \in left THEN told
                 ELSE [told EXCEPT ![k.to][k.mid] = k.publisher]
  BY DEF PublishNotice, HandlerAfter, bindings, shutdown, outside
<1>4. \/ /\ k \in pending.first /\ pending'.first = pending.first \ {k}
         /\ pending'.second = pending.second
      \/ /\ k \in pending.second /\ pending.first = {} /\ pending'.first = {}
         /\ pending'.second = pending.second \ {k}
  BY <1>1 DEF PublishNotice
<1>5. /\ resetting = {} /\ handler \cap fresh = {} /\ AssignedAreRight
      /\ ChangedAreCorrected /\ SubscribersDue /\ ReportersDue
  BY DEF NoticesInv
\* What k says is right, or a notice of the assignment is still to come.
<1>6. /\ k.output \notin fresh \/ k.output \notin alive
      /\ \/ k.output = slot[k.to][k.mid].track
         \/ \A q \in Peers, m \in Mids : slot[q][m].track # k.output
      /\ \/ k.publisher = slot[k.to][k.mid].publisher
         \/ NoticeOf(slot, k.to, k.mid) \in pending'.second
  <2>1. CASE k \in pending.first /\ pending'.second = pending.second
    BY <1>5, <2>1 DEF ChangedAreCorrected
  <2>2. CASE k \in pending.second
    <3>1. k = NoticeOf(slot, k.to, k.mid)
      BY <1>5, <2>2 DEF AssignedAreRight
    <3>2. /\ k.output = slot[k.to][k.mid].track
          /\ k.publisher = slot[k.to][k.mid].publisher
      BY <3>1 DEF NoticeOf
    <3>3. k.output \in alive => k.output \notin fresh
      BY <1>1, <1>2, <3>2 DEF TracksDiffer
    <3> QED
      BY <3>2, <3>3
  <2> QED
    BY <1>4, <2>1, <2>2
<1>7. AssignedAreRight'
  BY <1>3, <1>4, <1>5 DEF AssignedAreRight, NoticeOf
<1>8. ChangedAreCorrected'
  <2> SUFFICES ASSUME NEW n \in pending'.first
               PROVE  /\ n.output \notin fresh
                      /\ \/ n.output = slot[n.to][n.mid].track
                         \/ \A q \in Peers, m \in Mids : slot[q][m].track # n.output
                      /\ \/ n.publisher = slot[n.to][n.mid].publisher
                         \/ NoticeOf(slot, n.to, n.mid) \in pending'.second
    BY <1>3 DEF ChangedAreCorrected, NoticeOf
  <2>1. n \in pending.first /\ pending'.second = pending.second
    BY <1>4
  <2> QED
    BY <1>5, <2>1 DEF ChangedAreCorrected
<1>9. SubscribersDue'
  <2> SUFFICES ASSUME NEW q \in Peers \ left, NEW m \in Mids
               PROVE  \/ told'[q][m] = slot[q][m].publisher
                      \/ \E n \in pending'.first \cup pending'.second :
                            /\ n.to = q /\ n.mid = m
                            /\ n.publisher = slot[q][m].publisher
    BY <1>3 DEF SubscribersDue
  <2>1. CASE k.to = q /\ k.mid = m
    <3>1. told'[q][m] = k.publisher
      BY <1>1, <1>2, <1>3, <2>1
    <3>2. /\ NoticeOf(slot, q, m).to = q /\ NoticeOf(slot, q, m).mid = m
          /\ NoticeOf(slot, q, m).publisher = slot[q][m].publisher
      BY DEF NoticeOf
    <3> QED
      BY <1>6, <2>1, <3>1, <3>2
  <2>2. CASE ~(k.to = q /\ k.mid = m)
    <3>1. told'[q][m] = told[q][m]
      BY <1>1, <1>2, <1>3, <2>2
    <3>2. ASSUME NEW n \in pending.first \cup pending.second, n.to = q, n.mid = m
          PROVE  n \in pending'.first \cup pending'.second
      BY <1>4, <2>2, <3>2
    <3> QED
      BY <1>5, <3>1, <3>2 DEF SubscribersDue
  <2> QED
    BY <2>1, <2>2
<1>10. ReportersDue'
  <2> SUFFICES ASSUME NEW q \in Peers, NEW m \in Mids, slot[q][m].track \in alive
               PROVE  \/ slot[q][m].track \in handler' <=> slot[q][m].publisher # None
                      \/ NoticeOf(slot, q, m) \in pending'.first \cup pending'.second
    BY <1>3 DEF ReportersDue, NoticeOf
  <2>1. CASE k.output = slot[q][m].track
    <3>1. k.to = q /\ k.mid = m
      BY <1>1, <1>2, <1>6, <2>1 DEF TracksDiffer
    <3>2. slot[q][m].track \in handler' <=> k.publisher # None
      BY <1>3, <2>1
    <3> QED
      BY <1>6, <3>1, <3>2
  <2>2. CASE k.output # slot[q][m].track
    <3>1. slot[q][m].track \in handler' <=> slot[q][m].track \in handler
      BY <1>3, <2>2
    <3>2. NoticeOf(slot, q, m) # k
      BY <2>2 DEF NoticeOf
    <3>3. NoticeOf(slot, q, m) \in pending.first \cup pending.second =>
             NoticeOf(slot, q, m) \in pending'.first \cup pending'.second
      BY <1>4, <3>2
    <3> QED
      BY <1>5, <3>1, <3>3 DEF ReportersDue
  <2> QED
    BY <2>1, <2>2
<1>11. handler' \cap fresh' = {}
  BY <1>3, <1>5, <1>6
<1> QED
  BY <1>3, <1>5, <1>7, <1>8, <1>9, <1>10, <1>11 DEF NoticesInv

\* Every step keeps track of what subscribers still have to be told.
LEMMA NoticesStep == IInv /\ NoticesInv /\ [Next]_vars => NoticesInv'
<1> SUFFICES ASSUME IInv, NoticesInv, [Next]_vars PROVE NoticesInv'
  OBVIOUS
<1> DEFINE Same == UNCHANGED <<slot, closed, resetting, pending, told, handler,
                               fresh, alive, left>>
<1>0. CASE closed'
  BY <1>0 DEF NoticesInv
<1>1. ASSUME NEW p \in Peers, NEW t \in Tracks, RegisterInput(p, t)
      PROVE  NoticesInv'
  BY <1>1, RegisterInputInv
<1>2. ASSUME NEW q \in Peers, NEW m \in Mids, NEW t \in Tracks, RegisterOutput(q, m, t)
      PROVE  NoticesInv'
  BY <1>2, RegisterOutputInv
<1>3. ASSUME NEW p \in Peers, RemovePeer(p) PROVE NoticesInv'
  BY <1>3, RemovePeerInv
<1>4. ASSUME NEW n \in pending.first \cup pending.second, PublishNotice(n)
      PROVE  NoticesInv'
  <2>1. closed' = closed
    BY <1>4 DEF PublishNotice, shutdown
  <2> QED
    BY <1>0, <1>4, <2>1, PublishNoticeKeepsNotices DEF IInv, TypeOK
<1>5. CASE Same
  BY <1>5 DEF NoticesInv, AssignedAreRight, ChangedAreCorrected, SubscribersDue,
     ReportersDue, NoticeOf
<1>6. CASE Close
  BY <1>6 DEF Close, NoticesInv
<1>7. ASSUME NEW t \in Tracks, DetachTrack(t) PROVE NoticesInv'
  BY <1>7 DEF DetachTrack, NoticesInv
<1>8. ASSUME NEW t \in Tracks, TrackExpires(t) PROVE NoticesInv'
  <2> SUFFICES ASSUME ~closed PROVE NoticesInv'
    BY <1>8 DEF TrackExpires, shutdown, NoticesInv
  <2>1. /\ resetting = {} /\ handler \cap fresh = {} /\ AssignedAreRight
        /\ ChangedAreCorrected /\ SubscribersDue /\ ReportersDue
    BY DEF NoticesInv
  <2>2. /\ UNCHANGED <<slot, closed, resetting, pending, told, fresh, left>>
        /\ alive' = alive \ {t} /\ handler' = handler \ {t}
    BY <1>8 DEF TrackExpires, bindings, shutdown
  <2>3. AssignedAreRight' /\ ChangedAreCorrected' /\ SubscribersDue'
    BY <2>1, <2>2 DEF AssignedAreRight, ChangedAreCorrected, SubscribersDue, NoticeOf
  <2>4. ReportersDue'
    BY <2>1, <2>2 DEF ReportersDue, NoticeOf
  <2> QED
    BY <2>1, <2>2, <2>3, <2>4 DEF NoticesInv
<1>9. ASSUME NEW p, RouteNow(p) \/ RouteDelayed(p) \/ ForwardDelayed(p) PROVE Same
  BY <1>9 DEF RouteNow, RouteDelayed, ForwardDelayed, bindings, shutdown, notices, outside
<1>10. ASSUME NEW f, NEW target, SendPacket(f, target) PROVE Same
  BY <1>10 DEF SendPacket, bindings, shutdown, notices, outside
<1>11. UNCHANGED vars => Same
  BY DEF vars, bindings, shutdown, notices, outside
<1> HIDE DEF Same
<1> QED
  BY <1>1, <1>2, <1>3, <1>4, <1>5, <1>6, <1>7, <1>8, <1>9, <1>10, <1>11 DEF Next

(***************************************************************************)
(* Whenever no notice is under way, every subscriber of the room has been  *)
(* told what each of its slots carries and every output track has its SR   *)
(* reporter exactly while its slot is bound: publish_mutex, held from the  *)
(* change to its last notice, and the order of the notices are enough for  *)
(* any number of peers and slots.                                          *)
(***************************************************************************)
THEOREM ChangesAreAnnounced == Spec => []NoticesTakeEffect
<1>1. Init => NoticesInv
  <2> SUFFICES ASSUME Init PROVE NoticesInv
    OBVIOUS
  <2>1. pending.first = {} /\ pending.second = {}
    BY DEF Init, NoNotices
  <2>2. \A q \in Peers, m \in Mids : /\ slot[q][m].track = None
                                     /\ slot[q][m].publisher = None
                                     /\ told[q][m] = None
    BY DEF Init, NoSlot
  <2> QED
    BY <2>1, <2>2 DEF Init, NoticesInv, AssignedAreRight, ChangedAreCorrected,
       SubscribersDue, ReportersDue
<1>2. NoticesInv => NoticesTakeEffect
  BY NothingDue DEF NoticesTakeEffect, SubscribersInformed, ReportersInstalled
<1> QED
  BY <1>1, <1>2, Invariance, NoticesStep, PTL DEF Spec

-----------------------------------------------------------------------------
(***************************************************************************)
(* Every packet sent on the track of a slot comes from the publisher and   *)
(* the input that the slot carries when it is sent, although send_packets  *)
(* holds no lock of the router.                                            *)
(***************************************************************************)
THEOREM PacketsStayInTheirSlot == Spec => NoCrossTalk
<1> DEFINE Own == sent' # sent =>
             \A q \in Peers, m \in Mids : slot[q][m].track = sent'.output =>
               LET p == sent'.source.publisher IN
               /\ slot[q][m].publisher = p
               /\ Locked(input[p]) = Locked(sent'.source.input)
<1>1. IInv /\ [Next]_vars => [Own]_vars
  <2> SUFFICES ASSUME IInv, Next PROVE Own
    OBVIOUS
  <2>1. ASSUME NEW f \in flights, NEW target \in f.targets, SendPacket(f, target)
        PROVE  Own
    <3> SUFFICES ASSUME sent' # sent, NEW q \in Peers, NEW m \in Mids,
                        slot[q][m].track = sent'.output
                 PROVE  /\ slot[q][m].publisher = sent'.source.publisher
                        /\ Locked(input[sent'.source.publisher])
                              = Locked(sent'.source.input)
      OBVIOUS
    <3>1. /\ target.generation = generation[target.output]
          /\ sent' = [output |-> target.output, source |-> f.source]
      BY <2>1 DEF SendPacket, Accepts
    <3>2. sent'.output = target.output /\ sent'.source = f.source
      BY <3>1
    <3>3. TargetsCurrent(flights, input, slot, generation, fresh, alive)
      BY DEF IInv, TablesOK
    <3>4. /\ slot[q][m].publisher = f.source.publisher
          /\ (input[f.source.publisher] \in alive \/ f.source.input \in alive)
                => input[f.source.publisher] = f.source.input
      BY <3>1, <3>2, <3>3 DEF TargetsCurrent
    <3> QED
      BY <3>2, <3>4 DEF Locked
  <2>2. ASSUME NEW p, NEW t, RegisterInput(p, t) PROVE sent' = sent
    BY <2>2 DEF RegisterInput, media
  <2>3. ASSUME NEW q, NEW m, NEW t, RegisterOutput(q, m, t) PROVE sent' = sent
    BY <2>3 DEF RegisterOutput, media
  <2>4. ASSUME NEW p, RemovePeer(p) PROVE sent' = sent
    BY <2>4 DEF RemovePeer, media
  <2>5. ASSUME NEW n, PublishNotice(n) PROVE sent' = sent
    BY <2>5 DEF PublishNotice, media
  <2>6. ASSUME NEW p, RouteNow(p) \/ RouteDelayed(p) \/ ForwardDelayed(p)
        PROVE  sent' = sent
    BY <2>6 DEF RouteNow, RouteDelayed, ForwardDelayed
  <2>7. Close => sent' = sent
    BY DEF Close
  <2>8. ASSUME NEW t, DetachTrack(t) \/ TrackExpires(t) PROVE sent' = sent
    BY <2>8 DEF DetachTrack, TrackExpires, media
  <2> QED
    BY <2>1, <2>2, <2>3, <2>4, <2>5, <2>6, <2>7, <2>8 DEF Next
<1> QED
  BY <1>1, Invariance, PTL DEF Spec, NoCrossTalk
=============================================================================
