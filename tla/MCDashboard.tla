----------------------------- MODULE MCDashboard -----------------------------
(* Small instances of Dashboard for TLC.  The views never meet, so they take *)
(* their model values from the same sets, and one permutation serves all.    *)
EXTENDS Dashboard, TLC

Symmetric == Permutations(Ids) \cup Permutations(Chats)
=============================================================================
