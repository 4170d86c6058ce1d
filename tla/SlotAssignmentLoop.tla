------------------------- MODULE SlotAssignmentLoop -------------------------
(***************************************************************************)
(* The loop of assign_available_locked for one subscriber, as the code     *)
(* runs it, compared on every bounded input with Grant of SlotAssignment,  *)
(* which the routers' models use in its place.                             *)
(***************************************************************************)
EXTENDS SlotAssignment

Publishers(outputs) == {outputs[k].publisher : k \in DOMAIN outputs} \ {None}

\* The outputs the loop may still give away: no publisher, and a live track.
FreeOutputs(outputs) == {k \in DOMAIN outputs : outputs[k].publisher = None /\ outputs[k].live}

(***************************************************************************)
(* One iteration: a peer the loop does not skip, and that no output        *)
(* carries yet, takes the first free output.  The break of the code, when  *)
(* no output is free, leaves the outputs as every later iteration would.   *)
(***************************************************************************)
AssignTo(outputs, willing, peer) ==
    LET free == FreeOutputs(outputs)
    IN  IF peer \notin willing \ Publishers(outputs) \/ free = {} THEN outputs
        ELSE LET first == CHOOSE k \in free : \A j \in free : k <= j
             IN  [outputs EXCEPT ![first].publisher = peer]

\* The loop over the peers 1..count of the room, in their order.
AssignAvailable(outputs, willing, count) ==
    LET after[n \in 0..count] == IF n = 0 THEN outputs
                                 ELSE AssignTo(after[n - 1], willing, n)
    IN  after[count]

(***************************************************************************)
(* The outputs the room can have produced for peers 1..count: no publisher *)
(* twice, and none outside the room.                                       *)
(***************************************************************************)
GivenOutputs(count, slots) ==
    {outputs \in UNION {[1..n -> [publisher : 1..count \cup {None}, live : BOOLEAN]] :
                          n \in 0..slots} :
       \A j, k \in DOMAIN outputs :
          j # k /\ outputs[j].publisher # None =>
             outputs[j].publisher # outputs[k].publisher}

(***************************************************************************)
(* The loop of assign_available_locked computes Grant: every output that   *)
(* was free carries the publisher Grant gives it, and every other output   *)
(* what it carried before.                                                 *)
(***************************************************************************)
LoopIsGrant(count, slots) ==
    LET identity(S) == [x \in S |-> x]
    IN  \A given \in GivenOutputs(count, slots), willing \in SUBSET (1..count) :
          \A k \in DOMAIN given :
             AssignAvailable(given, willing, count)[k].publisher =
               IF k \in FreeOutputs(given)
               THEN Grant(FreeOutputs(given), identity(DOMAIN given),
                          willing \ Publishers(given), identity(1..count), k)
               ELSE given[k].publisher

ASSUME LoopComputesGrant == LoopIsGrant(4, 3)
=============================================================================
