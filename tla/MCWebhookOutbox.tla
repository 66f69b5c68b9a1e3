--------------------------- MODULE MCWebhookOutbox ---------------------------
(* Small instances of WebhookOutbox for TLC. *)
EXTENDS WebhookOutbox, TLC

\* Nothing goes wrong, and nobody interferes.
Untouched == {[secrets |-> 0, resends |-> 0, crashes |-> 0, faults |-> 0]}

\* Every row may be sent again once, and the process may die once.
ResendsAndCrash == {[secrets |-> 0, resends |-> 1, crashes |-> 1, faults |-> 0]}

\* That, or a crash, a failing statement and a rotation of the secret.
ResendsOrFaults ==
  ResendsAndCrash \cup {[secrets |-> 1, resends |-> 0, crashes |-> 1, faults |-> 1]}

\* Interchangeable ids: none of the safety properties names one.
Symmetry == Permutations(Webhooks) \cup Permutations(Events) \cup Permutations(Ticks)
=============================================================================
