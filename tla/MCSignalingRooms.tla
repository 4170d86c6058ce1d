--------------------------- MODULE MCSignalingRooms ---------------------------
(* SignalingRooms for TLC: sessions and rooms are model values. *)
EXTENDS SignalingRooms, TLC

\* Sessions are interchangeable, and so are rooms.
Symmetry == Permutations(Sessions) \cup Permutations(RoomIds)
===============================================================================
