--------------------------- MODULE SlotAssignment ---------------------------
(***************************************************************************)
(* How a router hands the free receive slots of ONE subscriber to the      *)
(* publishers that still need one: the loop that assign_available_locked   *)
(* of VoiceRouter and of ScreenRouter runs for every subscriber.           *)
(*                                                                         *)
(* The code walks the eligible publishers in their order and gives each    *)
(* the first slot that is still free, until one of the two runs out.  The  *)
(* n-th free slot therefore goes to the n-th eligible publisher, and that  *)
(* is what Grant says: a slot and a publisher match when as many free      *)
(* slots stand before the one as eligible publishers before the other.     *)
(* SlotAssignmentLoop has the loop itself and compares the two.            *)
(***************************************************************************)
EXTENDS Naturals, FiniteSets

CONSTANT None   \* std::nullopt, an expired weak_ptr, an absent entry

(***************************************************************************)
(* The members of S that come before x in the order given by key, an       *)
(* injective function into the naturals.                                   *)
(***************************************************************************)
Before(S, key, x) == {y \in S : key[y] < key[x]}

Rank(S, key, x) == Cardinality(Before(S, key, x))

(***************************************************************************)
(* free: the slots without publisher whose track lives, at: their position *)
(* in the vector of outputs; eligible: the publishers the loop does not    *)
(* skip, order: their place in the outer vector.                           *)
(***************************************************************************)
Matches(free, at, eligible, order, slot, publisher) ==
    /\ slot \in free
    /\ publisher \in eligible
    /\ Rank(free, at, slot) = Rank(eligible, order, publisher)

Grant(free, at, eligible, order, slot) ==
    IF \E p \in eligible : Matches(free, at, eligible, order, slot, p)
    THEN CHOOSE p \in eligible : Matches(free, at, eligible, order, slot, p)
    ELSE None
=============================================================================
