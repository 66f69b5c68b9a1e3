----------------------------- MODULE MCUserAdmin -----------------------------
(* Small instances of UserAdmin for TLC. *)
EXTENDS UserAdmin, TLC

\* A life of the container with deaths and changes but no requests; one with
\* a death, a fault of the seed and requests one by one; one with two requests
\* at a time and no mishap.
LongOrBusy ==
  {[deaths |-> 2, faults |-> 0, changes |-> 1, requests |-> 0, given |-> Secrets],
   [deaths |-> 1, faults |-> 1, changes |-> 0, requests |-> 1, given |-> {}],
   [deaths |-> 0, faults |-> 0, changes |-> 0, requests |-> 2, given |-> {}]}

Symmetric == Permutations(Ids) \cup Permutations(Requests) \cup Permutations(Secrets)
=============================================================================
