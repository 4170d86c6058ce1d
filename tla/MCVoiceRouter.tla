---------------------------- MODULE MCVoiceRouter ----------------------------
(* VoiceRouter for TLC: peers and tracks are model values.  The comparison *)
(* of the loop of the code with Grant is evaluated before the run starts.  *)
EXTENDS VoiceRouter, SlotAssignmentLoop, TLC

\* Peers and tracks are interchangeable: only `order` and `at` rank them.
Symmetry == Permutations(Peers) \cup Permutations(Tracks)
=============================================================================
