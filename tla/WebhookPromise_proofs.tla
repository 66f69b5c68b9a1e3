------------------------ MODULE WebhookPromise_proofs ------------------------
(***************************************************************************)
(* The outbox implements WebhookPromise: under the mapping PromiseState    *)
(* every step of WebhookOutbox is a step of the promise or a stutter, for  *)
(* every value of the constants.                                           *)
(***************************************************************************)
EXTENDS WebhookOutbox_proofs

\* What the promise says of a row depends on three variables only.
LEMMA SameRowSamePromise ==
  ASSUME UNCHANGED <<status, dispatch, matches>>
  PROVE  PromiseState' = PromiseState
BY DEF PromiseState, PromiseOf, Queued, Open

LEMMA PromiseValues ==
  ASSUME TypeOK, NEW d \in Deliveries
  PROVE  /\ PromiseState[d] = PromiseOf(d)
         /\ status[d] \in {"pending", "failed"} <=> PromiseState[d] = "owed"
         /\ status[d] = "success" <=> PromiseState[d] = "delivered"
         /\ status[d] = "dead" <=> PromiseState[d] = "givenUp"
         /\ status[d] = "none" /\ Queued(d) <=> PromiseState[d] = "cancelled"
         /\ status[d] = "none" /\ ~Queued(d) <=> PromiseState[d] = "none"
<1>1. status[d] \in {"none", "pending", "failed", "success", "dead"}
  BY DEF TypeOK, RowTypes
<1>2. PromiseState[d] = PromiseOf(d)
  BY DEF PromiseState
<1>. QED
  BY <1>1, <1>2 DEF PromiseOf, Open

\* The same after the step.
LEMMA PromiseValuesNext ==
  ASSUME TypeOK', NEW d \in Deliveries
  PROVE  /\ status'[d] \in {"pending", "failed"} => PromiseState'[d] = "owed"
         /\ status'[d] = "success" => PromiseState'[d] = "delivered"
         /\ status'[d] = "dead" => PromiseState'[d] = "givenUp"
         /\ status'[d] = "none" =>
              PromiseState'[d] = IF dispatch'[d[1]] = "stored" /\ d[2] \in matches'[d[1]]
                                   THEN "cancelled" ELSE "none"
<1>1. status'[d] \in {"none", "pending", "failed", "success", "dead"}
  BY DEF TypeOK, RowTypes
<1>. QED
  BY <1>1 DEF PromiseState, PromiseOf, Open, Queued

LEMMA PromiseIsFunction ==
  /\ PromiseState = [d \in Deliveries |-> PromiseState[d]]
  /\ PromiseState' = [d \in Deliveries |-> PromiseState'[d]]
BY DEF PromiseState

\* A row whose status, event and matches a step leaves alone keeps its promise.
LEMMA SameStatusSamePromise ==
  ASSUME TypeOK, TypeOK', NEW d \in Deliveries, status'[d] = status[d],
         dispatch'[d[1]] = "stored" /\ d[2] \in matches'[d[1]] <=> Queued(d)
  PROVE  PromiseState'[d] = PromiseState[d]
<1>1. status[d] \in {"none", "pending", "failed", "success", "dead"}
  BY DEF TypeOK, RowTypes
<1>. QED
  BY <1>1, PromiseValues, PromiseValuesNext

\* A row that is there was queued.
LEMMA ExistingIsQueued ==
  ASSUME TypeOK, QueuedForAllOrNone, NEW d \in Deliveries, Exists(d)
  PROVE  Queued(d)
<1>1. d[1] \in Events /\ d[2] \in Webhooks /\ d = <<d[1], d[2]>>
  BY RowIsPair
<1>. QED
  BY <1>1 DEF QueuedForAllOrNone, Queued

\* The final update of a row settles it or leaves it owed.
LEMMA RecordKeepsPromise ==
  ASSUME IInv, IInv', NEW t \in Ticks,
         RecordSuccess(t) \/ RecordFailure(t) \/ RecordRetired(t)
  PROVE  \/ UNCHANGED <<PromiseState, accepted>>
         \/ \E d \in Deliveries : Promise!Deliver(d) \/ Promise!GiveUp(d)
<1>. DEFINE d == Head(batch[t]).id
<1>0. TypeOK /\ TypeOK' /\ BatchShape /\ CopiesInv
  BY DEF IInv, CopiesInv
<1>1. /\ batch[t] # <<>> /\ d \in Deliveries /\ d = batch[t][1].id /\ Exists(d)
      /\ UNCHANGED <<accepted, dispatch, matches>>
  BY <1>0, FinalUpdate, BatchHead DEF Record, historyVars, eventVars
<1>2. PICK st \in {"failed", "success", "dead"} :
        /\ status' = [status EXCEPT ![d] = st]
        /\ st = "success" => RecordSuccess(t)
  <2>1. CASE RecordSuccess(t)
    BY <2>1 DEF RecordSuccess, Record
  <2>2. CASE RecordFailure(t)
    BY <2>2 DEF RecordFailure, Record
  <2>3. CASE RecordRetired(t)
    BY <2>3 DEF RecordRetired, Record
  <2>. QED
    BY <2>1, <2>2, <2>3
<1>3. Open(d)
  BY <1>0, <1>1, HeadRow
<1>4. PromiseState[d] = "owed"
  BY <1>0, <1>1, <1>3, PromiseValues DEF Open
<1>5. ASSUME NEW r \in Deliveries, r # d PROVE PromiseState'[r] = PromiseState[r]
  <2>1. status'[r] = status[r]
    BY <1>2, <1>5
  <2>. QED
    BY <1>0, <1>1, <2>1, SameStatusSamePromise DEF Queued
<1>6. status'[d] = st
  BY <1>0, <1>1, <1>2 DEF TypeOK, RowTypes
<1>7. CASE st = "failed"
  <2>1. PromiseState'[d] = "owed"
    BY <1>0, <1>1, <1>6, <1>7, PromiseValuesNext
  <2>2. PromiseState' = PromiseState
    BY <1>4, <1>5, <2>1, PromiseIsFunction
  <2>. QED
    BY <1>1, <2>2
<1>8. CASE st = "success"
  <2>1. PromiseState'[d] = "delivered"
    BY <1>0, <1>1, <1>6, <1>8, PromiseValuesNext
  <2>2. PromiseState' = [PromiseState EXCEPT ![d] = "delivered"]
    BY <1>1, <1>5, <2>1, PromiseIsFunction
  <2>3. d \in accepted
    BY <1>1, <1>2, <1>8 DEF RecordSuccess, IInv, SettlesAccepted
  <2>. QED
    BY <1>1, <1>4, <2>2, <2>3 DEF Promise!Deliver
<1>9. CASE st = "dead"
  <2>1. PromiseState'[d] = "givenUp"
    BY <1>0, <1>1, <1>6, <1>9, PromiseValuesNext
  <2>2. PromiseState' = [PromiseState EXCEPT ![d] = "givenUp"]
    BY <1>1, <1>5, <2>1, PromiseIsFunction
  <2>. QED
    BY <1>1, <1>4, <2>2 DEF Promise!GiveUp
<1>. QED
  BY <1>2, <1>7, <1>8, <1>9

LEMMA RemoveKeepsPromise ==
  ASSUME IInv, IInv', NEW S \in SUBSET Webhooks, RemoveWebhooks(S)
  PROVE  \/ UNCHANGED <<PromiseState, accepted>>
         \/ \E R \in SUBSET Deliveries : Promise!Cancel(R)
<1>. DEFINE R == {d \in Deliveries : d[2] \in S /\ Exists(d)}
<1>0. TypeOK /\ TypeOK' /\ QueuedForAllOrNone
  BY DEF IInv
<1>1. UNCHANGED <<accepted, dispatch, matches>>
  BY DEF RemoveWebhooks, eventVars
<1>2. ASSUME NEW d \in R
      PROVE  PromiseState[d] \in {"owed", "delivered", "givenUp"} /\ PromiseState'[d] = "cancelled"
  <2>1. Queued(d) /\ status[d] # "none"
    BY <1>0, ExistingIsQueued DEF Exists
  <2>2. status[d] \in {"pending", "failed", "success", "dead"}
    BY <1>0, <2>1 DEF TypeOK, RowTypes
  <2>3. status'[d] = "none"
    BY DEF RemoveWebhooks
  <2>4. PromiseState[d] \in {"owed", "delivered", "givenUp"}
    BY <1>0, <2>2, PromiseValues
  <2>5. PromiseState'[d] = "cancelled"
    BY <1>0, <1>1, <2>1, <2>3, PromiseValuesNext DEF Queued
  <2>. QED
    BY <2>4, <2>5
<1>3. ASSUME NEW d \in Deliveries \ R PROVE PromiseState'[d] = PromiseState[d]
  <2>1. status'[d] = status[d]
    BY DEF RemoveWebhooks, Exists
  <2>. QED
    BY <1>0, <1>1, <2>1, SameStatusSamePromise DEF Queued
<1>4. CASE R = {}
  <2>1. PromiseState' = PromiseState
    BY <1>3, <1>4, PromiseIsFunction
  <2>. QED
    BY <1>1, <2>1
<1>5. CASE R # {}
  <2>1. PromiseState' = [d \in Deliveries |-> IF d \in R THEN "cancelled" ELSE PromiseState[d]]
    BY <1>2, <1>3, PromiseIsFunction
  <2>. QED
    BY <1>1, <1>2, <1>5, <2>1 DEF Promise!Cancel
<1>. QED
  BY <1>4, <1>5

LEMMA InsertKeepsPromise ==
  ASSUME IInv, IInv', NEW e \in Events, InsertRows(e)
  PROVE  \/ UNCHANGED <<PromiseState, accepted>>
         \/ \E R \in SUBSET Deliveries : Promise!Queue(R)
<1>. DEFINE R == {e} \X matches[e]
<1>0. TypeOK /\ TypeOK' /\ QueuedForAllOrNone
  BY DEF IInv
<1>1. /\ UNCHANGED <<accepted, matches>>
      /\ dispatch[e] # "stored"
      /\ dispatch' = [dispatch EXCEPT ![e] = "stored"]
      /\ status' = [d \in Deliveries |-> IF d \in R THEN "pending" ELSE status[d]]
  BY DEF InsertRows, CreateMany, historyVars
<1>2. R \in SUBSET Deliveries
  BY <1>0 DEF TypeOK, EventTypes, Deliveries
<1>3. ASSUME NEW d \in R PROVE PromiseState[d] = "none" /\ PromiseState'[d] = "owed"
  <2>1. d[1] = e /\ d \in Deliveries
    BY <1>2
  <2>2. ~Queued(d)
    BY <1>1, <2>1 DEF Queued
  <2>3. status[d] = "none"
    BY <1>0, <2>1, <2>2, ExistingIsQueued DEF Exists
  <2>4. PromiseState[d] = "none"
    BY <1>0, <2>1, <2>2, <2>3, PromiseValues
  <2>5. PromiseState'[d] = "owed"
    BY <1>0, <1>1, <2>1, PromiseValuesNext
  <2>. QED
    BY <2>4, <2>5
<1>4. ASSUME NEW d \in Deliveries \ R PROVE PromiseState'[d] = PromiseState[d]
  <2>1. status'[d] = status[d]
    BY <1>1
  <2>2. d[1] \in Events /\ d = <<d[1], d[2]>>
    BY RowIsPair
  <2>3. d[1] = e => d[2] \notin matches[e]
    BY <2>2
  <2>4. dispatch'[d[1]] = "stored" /\ d[2] \in matches'[d[1]] <=> Queued(d)
    BY <1>0, <1>1, <2>2, <2>3 DEF Queued, TypeOK, EventTypes
  <2>. QED
    BY <1>0, <2>1, <2>4, SameStatusSamePromise
<1>5. CASE R = {}
  <2>1. PromiseState' = PromiseState
    BY <1>4, <1>5, PromiseIsFunction
  <2>. QED
    BY <1>1, <2>1
<1>6. CASE R # {}
  <2>1. PromiseState' = [d \in Deliveries |-> IF d \in R THEN "owed" ELSE PromiseState[d]]
    BY <1>3, <1>4, PromiseIsFunction
  <2>. QED
    BY <1>1, <1>2, <1>3, <1>6, <2>1 DEF Promise!Queue
<1>. QED
  BY <1>5, <1>6

LEMMA ResendKeepsPromise ==
  ASSUME IInv, IInv', NEW d \in Deliveries, Resend(d)
  PROVE  UNCHANGED <<PromiseState, accepted>> \/ Promise!Requeue(d)
<1>0. TypeOK /\ TypeOK' /\ QueuedForAllOrNone
  BY DEF IInv
<1>1. /\ UNCHANGED <<accepted, dispatch, matches>>
      /\ Exists(d) /\ status' = [status EXCEPT ![d] = "pending"]
  BY DEF Resend, Requeue, eventVars
<1>2. status[d] \in {"pending", "failed", "success", "dead"} /\ status'[d] = "pending"
  BY <1>0, <1>1 DEF TypeOK, RowTypes, Exists
<1>3. PromiseState'[d] = "owed"
  BY <1>0, <1>2, PromiseValuesNext
<1>4. ASSUME NEW r \in Deliveries, r # d PROVE PromiseState'[r] = PromiseState[r]
  <2>1. status'[r] = status[r]
    BY <1>1, <1>4
  <2>. QED
    BY <1>0, <1>1, <2>1, SameStatusSamePromise DEF Queued
<1>5. CASE PromiseState[d] = "owed"
  <2>1. PromiseState' = PromiseState
    BY <1>3, <1>4, <1>5, PromiseIsFunction
  <2>. QED
    BY <1>1, <2>1
<1>6. CASE PromiseState[d] \in {"delivered", "givenUp"}
  <2>1. PromiseState' = [PromiseState EXCEPT ![d] = "owed"]
    BY <1>3, <1>4, PromiseIsFunction
  <2>. QED
    BY <1>1, <1>6, <2>1 DEF Promise!Requeue
<1>. QED
  BY <1>0, <1>2, <1>5, <1>6, PromiseValues

\* The dispatcher's other steps and a restart store nothing.
LEMMA DispatchKeepsPromise ==
  ASSUME IInv, IInv',
         \/ \E e \in Events : Publish(e) \/ Match(e) \/ InsertRefused(e) \/ DispatchFault(e)
         \/ CrashRestart
  PROVE  UNCHANGED <<PromiseState, accepted>>
<1>0. TypeOK /\ TypeOK'
  BY DEF IInv
<1>1. UNCHANGED <<status, accepted>>
  BY DEF Publish, Match, InsertRefused, DispatchFault, CrashRestart, rowVars, historyVars
<1>2. ASSUME NEW e \in Events
      PROVE  /\ dispatch'[e] = "stored" <=> dispatch[e] = "stored"
             /\ dispatch[e] = "stored" => matches'[e] = matches[e]
  BY <1>0 DEF Publish, Match, InsertRefused, DispatchFault, CrashRestart, TypeOK, EventTypes
<1>3. ASSUME NEW d \in Deliveries PROVE PromiseState'[d] = PromiseState[d]
  <2>1. d[1] \in Events
    BY RowIsPair
  <2>2. dispatch'[d[1]] = "stored" /\ d[2] \in matches'[d[1]] <=> Queued(d)
    BY <1>2, <2>1 DEF Queued
  <2>. QED
    BY <1>0, <1>1, <2>2, SameStatusSamePromise
<1>. QED
  BY <1>1, <1>3, PromiseIsFunction

\* Only a row of the batch, which was queued, reaches a target.
LEMMA PostKeepsPromise ==
  ASSUME IInv, NEW t \in Ticks, PostAccepted(t) \/ PostFailed(t)
  PROVE  \/ UNCHANGED <<PromiseState, accepted>>
         \/ \E d \in Deliveries : Promise!Take(d)
<1>. DEFINE d == Head(batch[t]).id
<1>0. TypeOK /\ BatchShape /\ BatchRows
  BY DEF IInv
<1>1. batch[t] # <<>>
  BY <1>0 DEF PostAccepted, PostFailed, BatchShape
<1>2. d \in Deliveries /\ d = batch[t][1].id /\ 1 \in 1..Len(batch[t])
  BY <1>0, <1>1, BatchHead
<1>3. Queued(d)
  BY <1>0, <1>2 DEF BatchRows
<1>4. status[d] \in {"none", "pending", "failed", "success", "dead"}
  BY <1>0, <1>2 DEF TypeOK, RowTypes
<1>5. PromiseState[d] # "none"
  BY <1>0, <1>2, <1>3, <1>4, PromiseValues
<1>6. PromiseState' = PromiseState
  BY SameRowSamePromise DEF PostAccepted, PostFailed, rowVars, eventVars
<1>7. accepted' \in {accepted, accepted \cup {d}}
  BY DEF PostAccepted, PostFailed
<1>. QED
  BY <1>2, <1>5, <1>6, <1>7 DEF Promise!Take

LEMMA PromiseInit == Init => Promise!Init
<1>. SUFFICES ASSUME Init PROVE Promise!Init
  OBVIOUS
<1>1. TypeOK
  BY TypeInit
<1>2. ASSUME NEW d \in Deliveries PROVE PromiseState[d] = "none"
  <2>1. status[d] = "none" /\ ~Queued(d)
    BY RowIsPair DEF Init, Queued
  <2>. QED
    BY <1>1, <2>1, PromiseValues
<1>. QED
  BY <1>2, PromiseIsFunction DEF Init, Promise!Init

LEMMA PromiseStep ==
  ASSUME IInv, IInv', [Next]_vars
  PROVE  [Promise!Next]_(Promise!vars)
<1>1. ASSUME NEW S \in SUBSET Webhooks, RemoveWebhooks(S) PROVE [Promise!Next]_(Promise!vars)
  BY <1>1, RemoveKeepsPromise DEF Promise!Next, Promise!vars
<1>2. ASSUME NEW d \in Deliveries, Resend(d) PROVE [Promise!Next]_(Promise!vars)
  BY <1>2, ResendKeepsPromise DEF Promise!Next, Promise!vars
<1>3. ASSUME NEW e \in Events, InsertRows(e) PROVE [Promise!Next]_(Promise!vars)
  BY <1>3, InsertKeepsPromise DEF Promise!Next, Promise!vars
<1>4. ASSUME \/ \E e \in Events : Publish(e) \/ Match(e) \/ InsertRefused(e) \/ DispatchFault(e)
             \/ CrashRestart
      PROVE  [Promise!Next]_(Promise!vars)
  BY <1>4, DispatchKeepsPromise DEF Promise!vars
<1>5. ASSUME NEW t \in Ticks, PostAccepted(t) \/ PostFailed(t) PROVE [Promise!Next]_(Promise!vars)
  BY <1>5, PostKeepsPromise DEF Promise!Next, Promise!vars
<1>6. ASSUME NEW t \in Ticks, RecordSuccess(t) \/ RecordFailure(t) \/ RecordRetired(t)
      PROVE  [Promise!Next]_(Promise!vars)
  BY <1>6, RecordKeepsPromise DEF Promise!Next, Promise!vars
<1>7. CASE UNCHANGED <<status, dispatch, matches, accepted>>
  BY <1>7, SameRowSamePromise DEF Promise!vars
<1>. QED
  BY <1>1, <1>2, <1>3, <1>4, <1>5, <1>6, <1>7
     DEF Next, ApiStep, DispatchStep, WorkerStep, CreateWebhook, SetActive, SetSubscription,
         RegenerateSecret, BackoffElapses, Elapse, Tick, QueryDue, BeginDeliver,
         RecordSuccessThrows, TickThrows, BatchThrows, rowVars, eventVars, historyVars, vars

\* The durable outbox keeps the promise it makes to the owner of a webhook
\* (webhook-dispatcher.service.ts, webhook-delivery.worker.ts): a queued
\* delivery is owed until it is delivered, given up or cancelled.
THEOREM OutboxImplementsPromise == Spec => KeepsPromise
<1>1. Init => Promise!Init
  BY PromiseInit
<1>2. IInv /\ IInv' /\ [Next]_vars => [Promise!Next]_(Promise!vars)
  BY PromiseStep
<1>. QED
  BY <1>1, <1>2, Invariant, PTL DEF Spec, KeepsPromise, Promise!Spec
=============================================================================
