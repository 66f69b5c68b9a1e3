------------------------- MODULE MCInstanceLifecycle -------------------------
(* Small instances of InstanceLifecycle for TLC. *)
EXTENDS InstanceLifecycle, TLC

\* Interchangeable ids: none of the safety properties names one.
Symmetry == Permutations(Calls) \cup Permutations(Clients) \cup Permutations(Keys)
=============================================================================
