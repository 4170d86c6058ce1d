---------------------------- MODULE OrderedChannel ----------------------------
(***************************************************************************)
(* What a session promises to whoever calls send: a message that its queue *)
(* takes is written once, after those taken before it, unless the          *)
(* connection breaks; a message that finds the queue full, or closed, is   *)
(* dropped.                                                                *)
(***************************************************************************)
EXTENDS Naturals, Sequences

CONSTANTS Messages, Capacity

VARIABLES
    waiting,     \* taken and not yet written
    delivered,   \* written
    open,        \* the queue takes messages
    broken       \* a write has failed

vars == <<waiting, delivered, open, broken>>

Init ==
    /\ waiting = <<>> /\ delivered = <<>>
    /\ open = TRUE /\ broken = FALSE

Take(m) ==
    /\ open /\ Len(waiting) < Capacity
    /\ waiting' = Append(waiting, m)
    /\ UNCHANGED <<delivered, open, broken>>

Deliver ==
    /\ waiting # <<>> /\ ~broken
    /\ waiting' = Tail(waiting)
    /\ delivered' = Append(delivered, Head(waiting))
    /\ UNCHANGED <<open, broken>>

Close == open' = FALSE /\ UNCHANGED <<waiting, delivered, broken>>

Break ==
    /\ waiting # <<>> /\ ~broken
    /\ broken' = TRUE
    /\ open' = FALSE
    /\ UNCHANGED <<waiting, delivered>>

Next == (\E m \in Messages : Take(m)) \/ Deliver \/ Close \/ Break

(***************************************************************************)
(* Fairness: the connection keeps accepting what is written to it, or      *)
(* breaks.                                                                 *)
(***************************************************************************)
Spec == Init /\ [][Next]_vars /\ WF_vars(Deliver \/ Break)
===============================================================================
