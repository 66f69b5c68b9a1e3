--------------------------- MODULE MCMessageSync ---------------------------
(* Instances of MessageSync for TLC. *)
EXTENDS MessageSync
=============================================================================
