--------------------------- MODULE WebhookPromise ----------------------------
(***************************************************************************)
(* What the webhook outbox promises to the owner of a webhook, without     *)
(* workers, batches, attempts or timers: a delivery that was queued is     *)
(* owed until it is settled; it is called delivered only after the target  *)
(* took it; and a settled delivery is owed again only by a manual resend.  *)
(***************************************************************************)
CONSTANT Deliveries

VARIABLES
  state,     \* state[d] \in {"none", "owed", "delivered", "givenUp", "cancelled"}
  accepted   \* deliveries the target has taken at least once

vars == <<state, accepted>>

Init ==
  /\ state = [d \in Deliveries |-> "none"]
  /\ accepted = {}

\* The deliveries of one event are queued together.
Queue(S) ==
  /\ S # {}
  /\ \A d \in S : state[d] = "none"
  /\ state' = [d \in Deliveries |-> IF d \in S THEN "owed" ELSE state[d]]
  /\ UNCHANGED accepted

\* The target takes a delivery: perhaps again, perhaps after its webhook was
\* deleted, but never one that was not queued.
Take(d) ==
  /\ state[d] # "none"
  /\ accepted' = accepted \cup {d}
  /\ UNCHANGED state

Deliver(d) ==
  /\ state[d] = "owed"
  /\ d \in accepted
  /\ state' = [state EXCEPT ![d] = "delivered"]
  /\ UNCHANGED accepted

GiveUp(d) ==
  /\ state[d] = "owed"
  /\ state' = [state EXCEPT ![d] = "givenUp"]
  /\ UNCHANGED accepted

Requeue(d) ==
  /\ state[d] \in {"delivered", "givenUp"}
  /\ state' = [state EXCEPT ![d] = "owed"]
  /\ UNCHANGED accepted

\* Deleting webhooks cancels all their deliveries.
Cancel(S) ==
  /\ S # {}
  /\ \A d \in S : state[d] \in {"owed", "delivered", "givenUp"}
  /\ state' = [d \in Deliveries |-> IF d \in S THEN "cancelled" ELSE state[d]]
  /\ UNCHANGED accepted

Next ==
  \/ \E S \in SUBSET Deliveries : Queue(S) \/ Cancel(S)
  \/ \E d \in Deliveries : Take(d) \/ Deliver(d) \/ GiveUp(d) \/ Requeue(d)

Spec == Init /\ [][Next]_vars
=============================================================================
