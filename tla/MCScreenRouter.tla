---------------------------- MODULE MCScreenRouter ----------------------------
(* ScreenRouter for TLC: peers, tracks and mids are model values. *)
EXTENDS ScreenRouter, TLC

\* Tracks are interchangeable, and so are peers that have the same roles.
Symmetry == Permutations(Tracks) \cup Permutations(Publishers \ Subscribers)
===============================================================================
