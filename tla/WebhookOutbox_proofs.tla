------------------------ MODULE WebhookOutbox_proofs -------------------------
(***************************************************************************)
(* Theorems about WebhookOutbox for every value of its constants: any      *)
(* number of events, webhooks, overlapping ticks, retries, rows per batch, *)
(* resends, crashes and faults.                                            *)
(***************************************************************************)
EXTENDS WebhookOutbox, TLAPS

USE ConstantsAssumption DEF ConstantsAssumption

LEMMA EmptyBatch == <<>> \in Seq(Snapshot) /\ Len(<<>>) = 0
OBVIOUS

\* The batch findMany returns is a sequence of copies of due rows.
LEMMA FetchedBatch ==
  ASSUME TypeOK, NEW n \in Nat, NEW s \in [1..n -> due]
  PROVE  /\ [i \in 1..n |-> SnapshotOf(s[i])] \in Seq(Snapshot)
         /\ Len([i \in 1..n |-> SnapshotOf(s[i])]) = n
<1>1. ASSUME NEW i \in 1..n PROVE SnapshotOf(s[i]) \in Snapshot
  <2>1. s[i] \in Deliveries
    BY DEF TypeOK, RowTypes
  <2>2. s[i][2] \in Webhooks
    BY <2>1 DEF Deliveries
  <2>3. attempts[s[i]] \in Nat /\ secret[s[i][2]] \in Nat
    BY <2>1, <2>2 DEF TypeOK, RowTypes, HookTypes
  <2>. QED
    BY <2>1, <2>3 DEF SnapshotOf, Snapshot
<1>. QED
  BY <1>1

\* A non-empty batch has a head, and the rest is a batch.
LEMMA BatchHead ==
  ASSUME TypeOK, NEW t \in Ticks, batch[t] # <<>>
  PROVE  /\ Len(batch[t]) \in Nat \ {0}
         /\ Head(batch[t]) = batch[t][1]
         /\ Head(batch[t]) \in Snapshot
         /\ Head(batch[t]).id \in Deliveries
         /\ Head(batch[t]).attempts \in Nat
         /\ Tail(batch[t]) \in Seq(Snapshot)
         /\ Len(Tail(batch[t])) = Len(batch[t]) - 1
         /\ \A i \in 1..(Len(batch[t]) - 1) : Tail(batch[t])[i] = batch[t][i + 1]
<1>1. batch[t] \in Seq(Snapshot)
  BY DEF TypeOK, WorkerTypes
<1>2. Head(batch[t]) \in Snapshot
  BY <1>1
<1>. QED
  BY <1>1, <1>2 DEF Snapshot

\* The bounds of a behaviour are numbers.
LEMMA BoundTypes ==
  bound \in Bounds => {bound.secrets, bound.resends, bound.crashes, bound.faults} \subseteq Nat
BY BoundsAssumption

LEMMA TypeInit == Init => TypeOK
<1>. SUFFICES ASSUME Init PROVE TypeOK
  OBVIOUS
<1>1. HookTypes
  BY BoundTypes DEF Init, HookTypes
<1>2. EventTypes
  BY DEF Init, EventTypes
<1>3. RowTypes
  BY DEF Init, RowTypes
<1>4. WorkerTypes
  BY EmptyBatch DEF Init, WorkerTypes
<1>5. HistoryTypes
  BY BoundTypes DEF Init, HistoryTypes
<1>6. BudgetTypes
  BY BoundTypes DEF Init, BudgetTypes
<1>. QED
  BY <1>1, <1>2, <1>3, <1>4, <1>5, <1>6 DEF TypeOK

-----------------------------------------------------------------------------
(* What an action leaves alone keeps its types. *)

LEMMA HookFrame == HookTypes /\ UNCHANGED <<hookVars, bound>> => HookTypes'
BY DEF HookTypes, hookVars

LEMMA EventFrame == EventTypes /\ UNCHANGED eventVars => EventTypes'
BY DEF EventTypes, eventVars

LEMMA RowFrame == RowTypes /\ UNCHANGED rowVars => RowTypes'
BY DEF RowTypes, rowVars

LEMMA WorkerFrame == WorkerTypes /\ UNCHANGED workerVars => WorkerTypes'
BY DEF WorkerTypes, workerVars

LEMMA HistoryFrame == HistoryTypes /\ UNCHANGED <<historyVars, bound>> => HistoryTypes'
BY DEF HistoryTypes, historyVars

LEMMA BudgetFrame == BudgetTypes /\ (NoFault \/ DatabaseFault) => BudgetTypes'
BY BoundTypes DEF BudgetTypes, NoFault, DatabaseFault, budgetVars

LEMMA DueTypes ==
  ASSUME RowTypes, NEW S \in SUBSET Deliveries, DueNow(S) \/ NotDue(S)
  PROVE  /\ due' \in SUBSET Deliveries
         /\ older' \in SUBSET (Deliveries \X Deliveries)
BY DEF RowTypes, DueNow, NotDue

\* The final update of a row keeps the types, whatever it writes.
LEMMA RecordTypes ==
  ASSUME TypeOK, NEW t \in Ticks, batch[t] # <<>>,
         NEW st \in {"failed", "success", "dead"}, NEW made \in Nat,
         NEW error \in {"null", "error", "inactive"}, Record(t, st, made, error)
  PROVE  TypeOK'
<1>1. Head(batch[t]).id \in Deliveries /\ Tail(batch[t]) \in Seq(Snapshot)
  BY BatchHead
<1>2. RowTypes'
  BY <1>1, DueTypes DEF Record, TypeOK, RowTypes
<1>3. WorkerTypes'
  BY <1>1, EmptyBatch DEF Record, NextRow, Finished, TypeOK, WorkerTypes
<1>. QED
  BY <1>2, <1>3, HookFrame, EventFrame, HistoryFrame, BudgetFrame DEF Record, TypeOK, NoFault, budgetVars

\* No step takes a variable out of its type.
LEMMA TypeNext ==
  ASSUME TypeOK, BatchShape, [Next]_vars
  PROVE  TypeOK'
<1>. USE HookFrame, EventFrame, RowFrame, WorkerFrame, HistoryFrame, BudgetFrame
     DEF TypeOK, NoFault, DatabaseFault, budgetVars
<1>1. ASSUME NEW w \in Webhooks,
             \/ CreateWebhook(w)
             \/ \E state \in {"active", "inactive"} : SetActive(w, state)
             \/ \E linked \in BOOLEAN : SetSubscription(w, linked)
             \/ RegenerateSecret(w)
      PROVE  TypeOK'
  <2>1. HookTypes'
    BY <1>1, BoundTypes DEF CreateWebhook, SetActive, SetSubscription, RegenerateSecret, HookTypes, BudgetTypes
  <2>. QED
    BY <1>1, <2>1 DEF CreateWebhook, SetActive, SetSubscription, RegenerateSecret
<1>2. ASSUME NEW S \in SUBSET Webhooks, RemoveWebhooks(S) PROVE TypeOK'
  <2>1. HookTypes'
    BY <1>2 DEF RemoveWebhooks, HookTypes
  <2>2. RowTypes'
    BY <1>2, DueTypes DEF RemoveWebhooks, RowTypes
  <2>3. HistoryTypes'
    BY <1>2 DEF RemoveWebhooks, HistoryTypes
  <2>. QED
    BY <1>2, <2>1, <2>2, <2>3 DEF RemoveWebhooks
<1>3. ASSUME NEW d \in Deliveries, Resend(d) PROVE TypeOK'
  <2>1. RowTypes'
    BY <1>3, DueTypes DEF Resend, Requeue, RowTypes
  <2>2. HistoryTypes'
    BY <1>3, BoundTypes DEF Resend, Requeue, HistoryTypes, BudgetTypes
  <2>. QED
    BY <1>3, <2>1, <2>2 DEF Resend, Requeue
<1>4. ASSUME NEW e \in Events, Publish(e) \/ Match(e) \/ InsertRefused(e) \/ DispatchFault(e)
      PROVE  TypeOK'
  <2>1. EventTypes'
    BY <1>4 DEF Publish, Match, InsertRefused, DispatchFault, EventTypes
  <2>. QED
    BY <1>4, <2>1 DEF Publish, Match, InsertRefused, DispatchFault
<1>5. ASSUME NEW e \in Events, InsertRows(e) PROVE TypeOK'
  <2>1. {e} \X matches[e] \in SUBSET Deliveries
    BY DEF Deliveries, EventTypes
  <2>2. RowTypes'
    BY <1>5, <2>1, DueTypes DEF InsertRows, CreateMany, RowTypes
  <2>3. EventTypes'
    BY <1>5 DEF InsertRows, CreateMany, EventTypes
  <2>. QED
    BY <1>5, <2>2, <2>3 DEF InsertRows, CreateMany
<1>6. ASSUME NEW d \in Deliveries, BackoffElapses(d) PROVE TypeOK'
  <2>1. RowTypes'
    BY <1>6, DueTypes DEF BackoffElapses, Elapse, RowTypes
  <2>. QED
    BY <1>6, <2>1 DEF BackoffElapses, Elapse
<1>7. ASSUME NEW t \in Ticks, Tick(t) PROVE TypeOK'
  <2>1. WorkerTypes'
    BY <1>7 DEF Tick, WorkerTypes
  <2>. QED
    BY <1>7, <2>1 DEF Tick
<1>8. ASSUME NEW t \in Ticks, QueryDue(t) PROVE TypeOK'
  <2>1. PICK n \in 0..BATCH : \E s \in [1..n -> due] :
          IF n = 0
            THEN Finished(t)
            ELSE /\ pc' = [pc EXCEPT ![t] = "loop"]
                 /\ batch' = [batch EXCEPT ![t] = [i \in 1..n |-> SnapshotOf(s[i])]]
                 /\ UNCHANGED running
    BY <1>8 DEF QueryDue
  <2>. n \in Nat
    OBVIOUS
  <2>2. PICK s \in [1..n -> due] :
          IF n = 0
            THEN Finished(t)
            ELSE /\ pc' = [pc EXCEPT ![t] = "loop"]
                 /\ batch' = [batch EXCEPT ![t] = [i \in 1..n |-> SnapshotOf(s[i])]]
                 /\ UNCHANGED running
    BY <2>1
  <2>3. [i \in 1..n |-> SnapshotOf(s[i])] \in Seq(Snapshot)
    BY FetchedBatch
  <2>4. WorkerTypes'
    BY <2>2, <2>3, EmptyBatch DEF Finished, WorkerTypes
  <2>. QED
    BY <1>8, <2>4 DEF QueryDue
<1>9. ASSUME NEW t \in Ticks, BeginDeliver(t) \/ PostAccepted(t) \/ PostFailed(t) PROVE TypeOK'
  <2>1. batch[t] # <<>>
    BY <1>9 DEF BeginDeliver, PostAccepted, PostFailed, BatchShape
  <2>2. Head(batch[t]).id \in Deliveries
    BY <2>1, BatchHead
  <2>3. WorkerTypes'
    BY <1>9 DEF BeginDeliver, PostAccepted, PostFailed, WorkerTypes
  <2>4. HistoryTypes'
    BY <1>9, <2>2 DEF BeginDeliver, PostAccepted, PostFailed, HistoryTypes
  <2>. QED
    BY <1>9, <2>3, <2>4 DEF BeginDeliver, PostAccepted, PostFailed
<1>10. ASSUME NEW t \in Ticks, RecordSuccess(t) \/ RecordFailure(t) \/ RecordRetired(t)
       PROVE  TypeOK'
  <2>1. batch[t] # <<>>
    BY <1>10 DEF RecordSuccess, RecordFailure, RecordRetired, BatchShape
  <2>2. Head(batch[t]).attempts \in Nat /\ attempts[Head(batch[t]).id] \in Nat
    BY <2>1, BatchHead DEF RowTypes
  <2>. QED
    BY <1>10, <2>1, <2>2, RecordTypes DEF RecordSuccess, RecordFailure, RecordRetired
<1>11. ASSUME NEW t \in Ticks, RecordSuccessThrows(t) PROVE TypeOK'
  <2>1. WorkerTypes'
    BY <1>11 DEF RecordSuccessThrows, WorkerTypes
  <2>. QED
    BY <1>11, <2>1 DEF RecordSuccessThrows
<1>12. ASSUME NEW t \in Ticks, TickThrows(t) PROVE TypeOK'
  <2>1. WorkerTypes'
    BY <1>12, EmptyBatch DEF TickThrows, Finished, WorkerTypes
  <2>. QED
    BY <1>12, <2>1 DEF TickThrows, BatchThrows
<1>13. CASE CrashRestart
  <2>1. WorkerTypes'
    BY <1>13, EmptyBatch DEF CrashRestart, WorkerTypes
  <2>2. EventTypes'
    BY <1>13 DEF CrashRestart, EventTypes
  <2>3. BudgetTypes'
    BY <1>13, BoundTypes DEF CrashRestart, BudgetTypes
  <2>. QED
    BY <1>13, <2>1, <2>2, <2>3 DEF CrashRestart
<1>14. CASE UNCHANGED vars
  BY <1>14 DEF vars
<1>. QED
  BY <1>1, <1>2, <1>3, <1>4, <1>5, <1>6, <1>7, <1>8, <1>9, <1>10, <1>11, <1>12, <1>13, <1>14
     DEF Next, ApiStep, DispatchStep, WorkerStep

-----------------------------------------------------------------------------
(* The re-entrancy guard.  Only the worker and a crash move the loop. *)

LEMMA WorkerActions ==
  ASSUME [Next]_vars
  PROVE  \/ UNCHANGED workerVars
         \/ CrashRestart
         \/ \E t \in Ticks : Tick(t) \/ WorkerStep(t)
BY DEF Next, vars, ApiStep, CreateWebhook, SetActive, SetSubscription, RegenerateSecret,
       RemoveWebhooks, Resend, Requeue, Publish, DispatchStep, Match, InsertRows, CreateMany,
       InsertRefused, DispatchFault, BackoffElapses, Elapse

\* A step of the invocation past its guard keeps it past the guard, or ends it
\* and lowers the flag; other invocations do not move.
LEMMA WorkerMoves ==
  ASSUME TypeOK, BatchShape, NEW t \in Ticks, WorkerStep(t)
  PROVE  /\ pc[t] # "idle"
         /\ \/ Finished(t)
            \/ /\ pc' = [pc EXCEPT ![t] = pc'[t]]
               /\ pc'[t] \in {"loop", "post", "settle", "fail", "retire"}
               /\ batch' = [batch EXCEPT ![t] = batch'[t]]
               /\ batch'[t] # <<>>
               /\ UNCHANGED running
<1>. USE DEF TypeOK, WorkerTypes
<1>1. CASE QueryDue(t)
  <2>1. PICK n \in 0..BATCH : \E s \in [1..n -> due] :
          IF n = 0
            THEN Finished(t)
            ELSE /\ pc' = [pc EXCEPT ![t] = "loop"]
                 /\ batch' = [batch EXCEPT ![t] = [i \in 1..n |-> SnapshotOf(s[i])]]
                 /\ UNCHANGED running
    BY <1>1 DEF QueryDue
  <2>2. PICK s \in [1..n -> due] :
          IF n = 0
            THEN Finished(t)
            ELSE /\ pc' = [pc EXCEPT ![t] = "loop"]
                 /\ batch' = [batch EXCEPT ![t] = [i \in 1..n |-> SnapshotOf(s[i])]]
                 /\ UNCHANGED running
    BY <2>1
  <2>3. n # 0 => [i \in 1..n |-> SnapshotOf(s[i])] # <<>>
    <3>1. Len([i \in 1..n |-> SnapshotOf(s[i])]) = n
      BY FetchedBatch
    <3>. QED
      BY <3>1, EmptyBatch
  <2>. QED
    BY <1>1, <2>2, <2>3 DEF QueryDue
<1>2. CASE BeginDeliver(t) \/ PostAccepted(t) \/ PostFailed(t) \/ RecordSuccessThrows(t)
  <2>1. batch[t] # <<>>
    BY <1>2 DEF BeginDeliver, PostAccepted, PostFailed, RecordSuccessThrows, BatchShape
  <2>. QED
    BY <1>2, <2>1 DEF BeginDeliver, PostAccepted, PostFailed, RecordSuccessThrows
<1>3. CASE RecordSuccess(t) \/ RecordFailure(t) \/ RecordRetired(t)
  <2>1. batch[t] # <<>>
    BY <1>3 DEF RecordSuccess, RecordFailure, RecordRetired, BatchShape
  <2>2. Len(batch[t]) # 1 => Tail(batch[t]) # <<>>
    <3>1. Tail(batch[t]) = <<>> => Len(Tail(batch[t])) = 0
      BY EmptyBatch, Zenon
    <3>. QED
      BY <2>1, <3>1, BatchHead
  <2>3. NextRow(t) /\ pc[t] # "idle"
    BY <1>3 DEF RecordSuccess, RecordFailure, RecordRetired, Record
  <2>. QED
    BY <2>2, <2>3 DEF NextRow
<1>4. CASE TickThrows(t)
  BY <1>4 DEF TickThrows, BatchThrows
<1>. QED
  BY <1>1, <1>2, <1>3, <1>4 DEF WorkerStep

LEMMA LoopNext ==
  ASSUME TypeOK, OneLoop, BatchShape, [Next]_vars
  PROVE  OneLoop' /\ BatchShape'
<1>. USE DEF TypeOK, WorkerTypes
<1>1. CASE UNCHANGED workerVars
  BY <1>1 DEF OneLoop, BatchShape, workerVars
<1>2. CASE CrashRestart
  BY <1>2 DEF CrashRestart, OneLoop, BatchShape
<1>3. ASSUME NEW t \in Ticks, Tick(t) PROVE OneLoop' /\ BatchShape'
  BY <1>3 DEF Tick, OneLoop, BatchShape
<1>4. ASSUME NEW t \in Ticks, WorkerStep(t) PROVE OneLoop' /\ BatchShape'
  <2>1. CASE Finished(t)
    BY <1>4, <2>1, WorkerMoves DEF Finished, OneLoop, BatchShape
  <2>2. CASE /\ pc' = [pc EXCEPT ![t] = pc'[t]]
             /\ pc'[t] \in {"loop", "post", "settle", "fail", "retire"}
             /\ batch' = [batch EXCEPT ![t] = batch'[t]]
             /\ batch'[t] # <<>>
             /\ UNCHANGED running
    BY <1>4, <2>2, WorkerMoves DEF OneLoop, BatchShape
  <2>. QED
    BY <1>4, <2>1, <2>2, WorkerMoves
<1>. QED
  BY <1>1, <1>2, <1>3, <1>4, WorkerActions

\* The state and the copies stay well typed.  For every constant: TLC checks it
\* in the run outbox_races.
THEOREM TypeCorrect == Spec => []TypeOK
<1>. DEFINE Inv == TypeOK /\ OneLoop /\ BatchShape
<1>1. Init => Inv
  BY TypeInit DEF Init, OneLoop, BatchShape
<1>2. Inv /\ [Next]_vars => Inv'
  BY TypeNext, LoopNext
<1>. QED
  BY <1>1, <1>2, PTL DEF Spec

\* However often setInterval calls tick(), and whatever crashes or throws, one
\* loop at most is past the guard, and the flag is up exactly while it is.
THEOREM NeverReentrant == Spec => []OneLoop
<1>. DEFINE Inv == TypeOK /\ OneLoop /\ BatchShape
<1>1. Init => Inv
  BY TypeInit DEF Init, OneLoop, BatchShape
<1>2. Inv /\ [Next]_vars => Inv'
  BY TypeNext, LoopNext
<1>. QED
  BY <1>1, <1>2, PTL DEF Spec

-----------------------------------------------------------------------------
(* Rows and the copies of rows. *)

LEMMA RowIsPair ==
  ASSUME NEW d \in Deliveries
  PROVE  d[1] \in Events /\ d[2] \in Webhooks /\ d = <<d[1], d[2]>>
BY DEF Deliveries

\* The three final updates, as one.
LEMMA FinalUpdate ==
  ASSUME TypeOK, BatchShape, NEW t \in Ticks,
         RecordSuccess(t) \/ RecordFailure(t) \/ RecordRetired(t)
  PROVE  /\ batch[t] # <<>>
         /\ \E st \in {"failed", "success", "dead"}, made \in Nat,
               error \in {"null", "error", "inactive"} : Record(t, st, made, error)
<1>1. batch[t] # <<>>
  BY DEF RecordSuccess, RecordFailure, RecordRetired, BatchShape
<1>2. Head(batch[t]).attempts \in Nat /\ attempts[Head(batch[t]).id] \in Nat
  BY <1>1, BatchHead DEF TypeOK, RowTypes
<1>. QED
  BY <1>1, <1>2 DEF RecordSuccess, RecordFailure, RecordRetired

\* An event stays queued for all its matches or for none.
LEMMA QueueNext ==
  ASSUME TypeOK, BatchShape, MatchesKnown, QueuedForAllOrNone, [Next]_vars
  PROVE  MatchesKnown' /\ QueuedForAllOrNone'
<1>. USE DEF TypeOK, HookTypes, EventTypes, RowTypes, MatchesKnown, QueuedForAllOrNone, Live, Exists
<1>1. ASSUME NEW w \in Webhooks,
             \/ CreateWebhook(w)
             \/ \E state \in {"active", "inactive"} : SetActive(w, state)
             \/ \E linked \in BOOLEAN : SetSubscription(w, linked)
             \/ RegenerateSecret(w)
      PROVE  MatchesKnown' /\ QueuedForAllOrNone'
  BY <1>1 DEF CreateWebhook, SetActive, SetSubscription, RegenerateSecret, eventVars, rowVars
<1>2. ASSUME NEW S \in SUBSET Webhooks, RemoveWebhooks(S)
      PROVE  MatchesKnown' /\ QueuedForAllOrNone'
  BY <1>2 DEF RemoveWebhooks, eventVars, Deliveries
<1>3. ASSUME NEW d \in Deliveries, Resend(d) PROVE MatchesKnown' /\ QueuedForAllOrNone'
  BY <1>3, RowIsPair DEF Resend, Requeue, hookVars, eventVars
<1>4. ASSUME NEW e \in Events, Publish(e) \/ Match(e) \/ InsertRefused(e) \/ DispatchFault(e)
      PROVE  MatchesKnown' /\ QueuedForAllOrNone'
  BY <1>4 DEF Publish, Match, InsertRefused, DispatchFault, hookVars, rowVars
<1>5. ASSUME NEW e \in Events, InsertRows(e) PROVE MatchesKnown' /\ QueuedForAllOrNone'
  BY <1>5 DEF InsertRows, CreateMany, hookVars, Deliveries
<1>6. ASSUME NEW d \in Deliveries, BackoffElapses(d) PROVE MatchesKnown' /\ QueuedForAllOrNone'
  BY <1>6 DEF BackoffElapses, Elapse, hookVars, eventVars
<1>7. ASSUME NEW t \in Ticks, RecordSuccess(t) \/ RecordFailure(t) \/ RecordRetired(t)
      PROVE  MatchesKnown' /\ QueuedForAllOrNone'
  <2>1. /\ Head(batch[t]).id \in Deliveries
        /\ Exists(Head(batch[t]).id)
        /\ \E st \in {"failed", "success", "dead"} :
             status' = [status EXCEPT ![Head(batch[t]).id] = st]
        /\ UNCHANGED <<hookVars, eventVars>>
    BY <1>7, FinalUpdate, BatchHead DEF Record
  <2>. QED
    BY <2>1, RowIsPair DEF hookVars, eventVars
<1>8. ASSUME NEW t \in Ticks,
             \/ Tick(t) \/ QueryDue(t) \/ BeginDeliver(t) \/ PostAccepted(t) \/ PostFailed(t)
             \/ RecordSuccessThrows(t) \/ TickThrows(t)
      PROVE  MatchesKnown' /\ QueuedForAllOrNone'
  BY <1>8 DEF Tick, QueryDue, BeginDeliver, PostAccepted, PostFailed, RecordSuccessThrows,
              TickThrows, BatchThrows, hookVars, eventVars, rowVars
<1>9. CASE CrashRestart
  BY <1>9 DEF CrashRestart, hookVars, rowVars
<1>10. CASE UNCHANGED vars
  BY <1>10 DEF vars, hookVars, eventVars, rowVars
<1>. QED
  BY <1>1, <1>2, <1>3, <1>4, <1>5, <1>6, <1>7, <1>8, <1>9, <1>10
     DEF Next, ApiStep, DispatchStep, WorkerStep

LEMMA DueNext ==
  ASSUME TypeOK, BatchShape, QueuedForAllOrNone, DueRowsOpen, [Next]_vars
  PROVE  DueRowsOpen'
<1>. USE DEF TypeOK, RowTypes, DueRowsOpen, Open
<1>1. ASSUME NEW S \in SUBSET Webhooks, RemoveWebhooks(S) PROVE DueRowsOpen'
  BY <1>1 DEF RemoveWebhooks, NotDue
<1>2. ASSUME NEW d \in Deliveries, Resend(d) PROVE DueRowsOpen'
  BY <1>2 DEF Resend, Requeue, DueNow
<1>3. ASSUME NEW e \in Events, InsertRows(e) PROVE DueRowsOpen'
  <2>1. {e} \X matches[e] \in SUBSET Deliveries
    BY DEF Deliveries, EventTypes
  <2>. QED
    BY <1>3, <2>1 DEF InsertRows, CreateMany, DueNow
<1>4. ASSUME NEW d \in Deliveries, BackoffElapses(d) PROVE DueRowsOpen'
  BY <1>4 DEF BackoffElapses, Elapse, DueNow
<1>5. ASSUME NEW t \in Ticks, RecordSuccess(t) \/ RecordFailure(t) \/ RecordRetired(t)
      PROVE  DueRowsOpen'
  <2>1. /\ Head(batch[t]).id \in Deliveries
        /\ NotDue({Head(batch[t]).id})
        /\ \E st \in {"failed", "success", "dead"} :
             status' = [status EXCEPT ![Head(batch[t]).id] = st]
    BY <1>5, FinalUpdate, BatchHead DEF Record
  <2>. QED
    BY <2>1 DEF NotDue
<1>6. CASE UNCHANGED rowVars
  BY <1>6 DEF rowVars
<1>. QED
  BY <1>1, <1>2, <1>3, <1>4, <1>5, <1>6
     DEF Next, ApiStep, DispatchStep, WorkerStep, CreateWebhook, SetActive, SetSubscription,
         RegenerateSecret, Publish, Match, InsertRefused, DispatchFault, Tick, QueryDue,
         BeginDeliver, PostAccepted, PostFailed, RecordSuccessThrows, TickThrows, BatchThrows,
         CrashRestart, vars

\* The one invocation past the guard holds all the copies there are.
LEMMA OneBatch ==
  ASSUME OneLoop, BatchShape, NEW t \in Ticks, pc[t] # "idle", NEW u \in Ticks, u # t
  PROVE  batch[u] = <<>>
BY DEF OneLoop, BatchShape

CopiesInv == BatchRows /\ CopiesCurrent

LEMMA CopiesNext ==
  ASSUME TypeOK, OneLoop, BatchShape, QueuedForAllOrNone, DueRowsOpen, CopiesInv, [Next]_vars
  PROVE  CopiesInv'
<1>. USE DEF TypeOK, EventTypes, RowTypes, WorkerTypes
<1>0. ASSUME NEW t \in Ticks, NEW i \in 1..Len(batch[t])
      PROVE  /\ batch[t][i] \in Snapshot
             /\ batch[t][i].id \in Deliveries
             /\ batch[t][i].id[1] \in Events
  <2>1. batch[t] \in Seq(Snapshot)
    OBVIOUS
  <2>2. batch[t][i] \in Snapshot
    BY <2>1
  <2>. QED
    BY <2>2, RowIsPair DEF Snapshot
<1>1. ASSUME NEW S \in SUBSET Webhooks, RemoveWebhooks(S) PROVE CopiesInv'
  BY <1>0, <1>1 DEF RemoveWebhooks, eventVars, workerVars, CopiesInv, BatchRows, Queued,
                    CopiesCurrent, Exists, Open
<1>2. ASSUME NEW d \in Deliveries, Resend(d) PROVE CopiesInv'
  BY <1>0, <1>2 DEF Resend, Requeue, eventVars, workerVars, CopiesInv, BatchRows, Queued,
                    CopiesCurrent, Exists, Open
<1>3. ASSUME NEW e \in Events, InsertRows(e) PROVE CopiesInv'
  <2>1. ASSUME NEW t \in Ticks, NEW i \in 1..Len(batch[t])
        PROVE  /\ dispatch'[batch[t][i].id[1]] = "stored"
               /\ batch[t][i].id[2] \in matches'[batch[t][i].id[1]]
               /\ status'[batch[t][i].id] = status[batch[t][i].id]
    <3>1. batch[t][i].id[1] # e
      BY <1>3 DEF InsertRows, CreateMany, CopiesInv, BatchRows, Queued
    <3>. QED
      BY <1>0, <1>3, <3>1 DEF InsertRows, CreateMany, CopiesInv, BatchRows, Queued
  <2>2. UNCHANGED <<batch, attempts>>
    BY <1>3 DEF InsertRows, CreateMany, workerVars
  <2>. QED
    BY <2>1, <2>2 DEF CopiesInv, BatchRows, Queued, CopiesCurrent, Exists, Open
<1>4. ASSUME NEW e \in Events, Publish(e) \/ Match(e) \/ InsertRefused(e) \/ DispatchFault(e)
      PROVE  CopiesInv'
  <2>1. ASSUME NEW t \in Ticks, NEW i \in 1..Len(batch[t])
        PROVE  /\ dispatch'[batch[t][i].id[1]] = "stored"
               /\ batch[t][i].id[2] \in matches'[batch[t][i].id[1]]
    <3>1. Queued(batch[t][i].id) /\ batch[t][i].id[1] # e
      BY <1>4 DEF Publish, Match, InsertRefused, DispatchFault, CopiesInv, BatchRows, Queued
    <3>. QED
      BY <1>0, <1>4, <3>1 DEF Publish, Match, InsertRefused, DispatchFault, Queued
  <2>2. UNCHANGED <<batch, rowVars>>
    BY <1>4 DEF Publish, Match, InsertRefused, DispatchFault, workerVars
  <2>3. BatchRows'
    BY <2>1, <2>2 DEF CopiesInv, BatchRows, Queued
  <2>4. CopiesCurrent'
    BY <2>2 DEF rowVars, CopiesInv, CopiesCurrent, Exists, Open
  <2>. QED
    BY <2>3, <2>4 DEF CopiesInv
<1>5. ASSUME NEW t \in Ticks, QueryDue(t) PROVE CopiesInv'
  <2>1. PICK n \in 0..BATCH : \E s \in [1..n -> due] :
          /\ OldestDue(s)
          /\ IF n = 0
               THEN Finished(t)
               ELSE /\ pc' = [pc EXCEPT ![t] = "loop"]
                    /\ batch' = [batch EXCEPT ![t] = [i \in 1..n |-> SnapshotOf(s[i])]]
                    /\ UNCHANGED running
    BY <1>5 DEF QueryDue
  <2>. n \in Nat
    OBVIOUS
  <2>2. PICK s \in [1..n -> due] :
          /\ OldestDue(s)
          /\ IF n = 0
               THEN Finished(t)
               ELSE /\ pc' = [pc EXCEPT ![t] = "loop"]
                    /\ batch' = [batch EXCEPT ![t] = [i \in 1..n |-> SnapshotOf(s[i])]]
                    /\ UNCHANGED running
    BY <2>1
  <2>. DEFINE fetched == [i \in 1..n |-> SnapshotOf(s[i])]
  <2>3. Len(fetched) = n /\ Len(s) = n
    BY FetchedBatch
  <2>4. ASSUME NEW i \in 1..n
        PROVE  /\ fetched[i].id = s[i]
               /\ fetched[i].attempts = attempts[s[i]]
               /\ s[i] \in due
    BY DEF SnapshotOf
  <2>5. ASSUME NEW i \in 1..n
        PROVE  Open(s[i]) /\ Queued(s[i])
    BY <2>4, RowIsPair DEF DueRowsOpen, QueuedForAllOrNone, Open, Exists, Queued
  <2>6. ASSUME NEW i \in 1..n, NEW j \in 1..n, s[i] = s[j] PROVE i = j
    BY <2>2, <2>3, <2>6 DEF OldestDue
  <2>7. UNCHANGED <<eventVars, rowVars>>
    BY <1>5 DEF QueryDue
  <2>8. \A u \in Ticks : u # t => batch'[u] = <<>>
    BY <1>5, <2>2, OneBatch DEF QueryDue, Finished
  <2>9. batch'[t] = <<>> \/ batch'[t] = fetched
    BY <2>2 DEF Finished
  <2>10. CASE batch'[t] = <<>>
    BY <2>8, <2>10 DEF CopiesInv, BatchRows, CopiesCurrent
  <2>11. CASE batch'[t] = fetched
    <3>. HIDE DEF fetched
    <3>1. BatchRows'
      <4>1. ASSUME NEW u \in Ticks, NEW i \in 1..Len(batch'[u])
            PROVE  /\ dispatch'[batch'[u][i].id[1]] = "stored"
                   /\ batch'[u][i].id[2] \in matches'[batch'[u][i].id[1]]
                   /\ \A j \in 1..Len(batch'[u]) : batch'[u][i].id = batch'[u][j].id => i = j
        <5>1. u = t
          BY <2>8, EmptyBatch
        <5>2. i \in 1..n /\ batch'[u][i].id = s[i]
          BY <2>3, <2>4, <2>11, <5>1
        <5>3. dispatch[s[i][1]] = "stored" /\ s[i][2] \in matches[s[i][1]]
          BY <2>5, <5>2 DEF Queued
        <5>4. dispatch' = dispatch /\ matches' = matches
          BY <2>7 DEF eventVars
        <5>5. ASSUME NEW j \in 1..Len(batch'[u]), batch'[u][i].id = batch'[u][j].id PROVE i = j
          <6>1. j \in 1..n /\ batch'[u][j].id = s[j]
            BY <2>3, <2>4, <2>11, <5>1
          <6>. QED
            BY <2>6, <5>2, <5>5, <6>1
        <5>. QED
          BY <5>2, <5>3, <5>4, <5>5
      <4>. QED
        BY <4>1 DEF BatchRows, Queued
    <3>2. CopiesCurrent'
      BY <2>3, <2>4, <2>5, <2>7, <2>8, <2>11 DEF CopiesCurrent, Open, Exists, rowVars
    <3>. QED
      BY <3>1, <3>2 DEF CopiesInv
  <2>. QED
    BY <2>9, <2>10, <2>11
<1>6. ASSUME NEW t \in Ticks, RecordSuccess(t) \/ RecordFailure(t) \/ RecordRetired(t)
      PROVE  CopiesInv'
  <2>. DEFINE d == Head(batch[t]).id
  <2>1. /\ batch[t] # <<>>
        /\ d \in Deliveries
        /\ d = batch[t][1].id
        /\ NextRow(t)
        /\ UNCHANGED eventVars
        /\ \E st \in {"failed", "success", "dead"} : status' = [status EXCEPT ![d] = st]
        /\ \E made \in Nat : attempts' = [attempts EXCEPT ![d] = made]
    BY <1>6, FinalUpdate, BatchHead DEF Record
  <2>2. pc[t] # "idle"
    BY <2>1 DEF BatchShape
  <2>3. \A u \in Ticks : u # t => batch'[u] = <<>>
    BY <2>1, <2>2, OneBatch DEF NextRow, Finished
  <2>4. CASE batch'[t] = <<>>
    BY <2>3, <2>4 DEF CopiesInv, BatchRows, CopiesCurrent
  <2>5. CASE batch'[t] = Tail(batch[t])
    <3>1. /\ Len(batch'[t]) = Len(batch[t]) - 1
          /\ \A i \in 1..Len(batch'[t]) : /\ batch'[t][i] = batch[t][i + 1]
                                          /\ i + 1 \in 1..Len(batch[t])
                                          /\ 1 \in 1..Len(batch[t])
      BY <2>1, <2>5, BatchHead
    <3>2. \A i \in 1..Len(batch'[t]) : batch'[t][i].id # d
      BY <2>1, <3>1 DEF CopiesInv, BatchRows
    <3>3. ASSUME NEW i \in 1..Len(batch'[t])
          PROVE  /\ dispatch[batch'[t][i].id[1]] = "stored"
                 /\ batch'[t][i].id[2] \in matches[batch'[t][i].id[1]]
                 /\ \A j \in 1..Len(batch'[t]) : batch'[t][i].id = batch'[t][j].id => i = j
      <4>1. batch'[t][i] = batch[t][i + 1] /\ i + 1 \in 1..Len(batch[t])
        BY <3>1
      <4>2. Queued(batch[t][i + 1].id)
        BY <4>1 DEF CopiesInv, BatchRows
      <4>3. ASSUME NEW j \in 1..Len(batch'[t]), batch'[t][i].id = batch'[t][j].id PROVE i = j
        <5>1. batch'[t][j] = batch[t][j + 1] /\ j + 1 \in 1..Len(batch[t])
          BY <3>1
        <5>2. i + 1 = j + 1
          BY <4>1, <4>3, <5>1 DEF CopiesInv, BatchRows
        <5>. QED
          BY <2>1, <3>1, <5>2
      <4>. QED
        BY <4>1, <4>2, <4>3 DEF Queued
    <3>4. ASSUME NEW i \in 1..Len(batch'[t])
          PROVE  LET row == batch'[t][i].id IN
                 /\ status'[row] = status[row] /\ attempts'[row] = attempts[row]
                 /\ Exists(row) => Open(row) /\ attempts[row] = batch'[t][i].attempts
      <4>1. batch'[t][i] = batch[t][i + 1] /\ i + 1 \in 1..Len(batch[t])
        BY <3>1
      <4>2. batch[t][i + 1].id \in Deliveries /\ batch[t][i + 1].id # d
        BY <1>0, <3>2, <4>1
      <4>3. /\ status'[batch[t][i + 1].id] = status[batch[t][i + 1].id]
            /\ attempts'[batch[t][i + 1].id] = attempts[batch[t][i + 1].id]
        BY <2>1, <4>2
      <4>. QED
        BY <4>1, <4>3 DEF CopiesInv, CopiesCurrent
    <3>5. BatchRows'
      <4>1. ASSUME NEW u \in Ticks, NEW i \in 1..Len(batch'[u])
            PROVE  /\ dispatch'[batch'[u][i].id[1]] = "stored"
                   /\ batch'[u][i].id[2] \in matches'[batch'[u][i].id[1]]
                   /\ \A j \in 1..Len(batch'[u]) : batch'[u][i].id = batch'[u][j].id => i = j
        <5>1. u = t
          BY <2>3, EmptyBatch
        <5>2. dispatch' = dispatch /\ matches' = matches
          BY <2>1 DEF eventVars
        <5>. QED
          BY <3>3, <5>1, <5>2
      <4>. QED
        BY <4>1 DEF BatchRows, Queued
    <3>6. ASSUME NEW u \in Ticks, NEW i \in 1..Len(batch'[u]) PROVE u = t
      <4>1. u # t => Len(batch'[u]) = 0
        BY <2>3, EmptyBatch
      <4>. QED
        BY <4>1
    <3>7. ASSUME NEW u \in Ticks, NEW i \in 1..Len(batch'[u])
          PROVE  status'[batch'[u][i].id] # "none" =>
                   /\ status'[batch'[u][i].id] \in {"pending", "failed"}
                   /\ attempts'[batch'[u][i].id] = batch'[u][i].attempts
      <4>1. u = t
        BY <3>6
      <4>2. i \in 1..Len(batch'[t])
        BY <4>1
      <4>. QED
        BY <3>4, <4>1, <4>2 DEF Open, Exists
    <3>8. CopiesCurrent'
      BY <3>7 DEF CopiesCurrent, Open, Exists
    <3>. QED
      BY <3>5, <3>8 DEF CopiesInv
  <2>. QED
    BY <2>1, <2>4, <2>5 DEF NextRow, Finished
<1>7. ASSUME NEW t \in Ticks, TickThrows(t) PROVE CopiesInv'
  <2>1. /\ UNCHANGED <<eventVars, rowVars>>
        /\ \A u \in Ticks : batch'[u] = batch[u] \/ batch'[u] = <<>>
    BY <1>7 DEF TickThrows, BatchThrows, Finished
  <2>2. ASSUME NEW u \in Ticks, NEW i \in 1..Len(batch'[u]) PROVE batch'[u] = batch[u]
    <3>1. batch'[u] # batch[u] => Len(batch'[u]) = 0
      BY <2>1, EmptyBatch
    <3>. QED
      BY <3>1
  <2>3. BatchRows'
    <3>1. ASSUME NEW u \in Ticks, NEW i \in 1..Len(batch'[u])
          PROVE  /\ dispatch'[batch'[u][i].id[1]] = "stored"
                 /\ batch'[u][i].id[2] \in matches'[batch'[u][i].id[1]]
                 /\ \A j \in 1..Len(batch'[u]) : batch'[u][i].id = batch'[u][j].id => i = j
      <4>1. dispatch' = dispatch /\ matches' = matches /\ batch'[u] = batch[u]
        BY <2>1, <2>2 DEF eventVars
      <4>2. \A v \in Ticks : \A k \in 1..Len(batch[v]) :
              /\ dispatch[batch[v][k].id[1]] = "stored"
              /\ batch[v][k].id[2] \in matches[batch[v][k].id[1]]
              /\ \A j \in 1..Len(batch[v]) : batch[v][k].id = batch[v][j].id => k = j
        BY DEF CopiesInv, BatchRows, Queued
      <4>. QED
        BY <4>1, <4>2
    <3>. QED
      BY <3>1 DEF BatchRows, Queued
  <2>4. ASSUME NEW u \in Ticks, NEW i \in 1..Len(batch'[u])
        PROVE  status'[batch'[u][i].id] # "none" =>
                 /\ status'[batch'[u][i].id] \in {"pending", "failed"}
                 /\ attempts'[batch'[u][i].id] = batch'[u][i].attempts
    <3>1. batch'[u] = batch[u] /\ i \in 1..Len(batch[u])
      BY <2>2
    <3>2. status' = status /\ attempts' = attempts
      BY <2>1 DEF rowVars
    <3>3. status[batch[u][i].id] # "none" =>
            /\ status[batch[u][i].id] \in {"pending", "failed"}
            /\ attempts[batch[u][i].id] = batch[u][i].attempts
      BY <3>1 DEF CopiesInv, CopiesCurrent, Exists, Open
    <3>. QED
      BY <3>1, <3>2, <3>3
  <2>5. CopiesCurrent'
    BY <2>4 DEF CopiesCurrent, Exists, Open
  <2>. QED
    BY <2>3, <2>5 DEF CopiesInv
<1>8. CASE CrashRestart
  BY <1>0, <1>8 DEF CrashRestart, rowVars, CopiesInv, BatchRows, CopiesCurrent, Exists, Open
<1>9. CASE UNCHANGED <<batch, eventVars, status, attempts>>
  <2>1. BatchRows'
    BY <1>9 DEF eventVars, CopiesInv, BatchRows, Queued
  <2>2. CopiesCurrent'
    BY <1>9 DEF CopiesInv, CopiesCurrent, Exists, Open
  <2>. QED
    BY <2>1, <2>2 DEF CopiesInv
<1>. QED
  BY <1>1, <1>2, <1>3, <1>4, <1>5, <1>6, <1>7, <1>8, <1>9
     DEF Next, ApiStep, DispatchStep, WorkerStep, CreateWebhook, SetActive, SetSubscription,
         RegenerateSecret, Tick, BeginDeliver, PostAccepted, PostFailed, RecordSuccessThrows,
         BackoffElapses, Elapse, rowVars, workerVars, vars

-----------------------------------------------------------------------------
(* Verdicts: what success, dead and failed stand for. *)

\* The head of the batch at a final update: still open, with the attempts of
\* its copy.
LEMMA HeadRow ==
  ASSUME TypeOK, CopiesInv, NEW t \in Ticks, batch[t] # <<>>, Exists(Head(batch[t]).id)
  PROVE  /\ Open(Head(batch[t]).id)
         /\ attempts[Head(batch[t]).id] = Head(batch[t]).attempts
<1>1. 1 \in 1..Len(batch[t]) /\ Head(batch[t]) = batch[t][1]
  BY BatchHead
<1>. QED
  BY <1>1 DEF CopiesInv, CopiesCurrent

VerdictInv == SettlesAccepted /\ SuccessWasAccepted /\ GivenUpOnlyWhenExhausted

LEMMA VerdictNext ==
  ASSUME TypeOK, TypeOK', BatchShape, CopiesInv, VerdictInv, [Next]_vars
  PROVE  VerdictInv'
<1>. USE DEF TypeOK, RowTypes, WorkerTypes, HistoryTypes, MAX_ATTEMPTS
<1>1. ASSUME NEW S \in SUBSET Webhooks, RemoveWebhooks(S) PROVE VerdictInv'
  BY <1>1 DEF RemoveWebhooks, workerVars, VerdictInv, SettlesAccepted, SuccessWasAccepted,
              GivenUpOnlyWhenExhausted
<1>2. ASSUME NEW d \in Deliveries, Resend(d) PROVE VerdictInv'
  BY <1>2 DEF Resend, Requeue, workerVars, VerdictInv, SettlesAccepted, SuccessWasAccepted,
              GivenUpOnlyWhenExhausted
<1>3. ASSUME NEW e \in Events, InsertRows(e) PROVE VerdictInv'
  BY <1>3 DEF InsertRows, CreateMany, workerVars, historyVars, VerdictInv, SettlesAccepted,
              SuccessWasAccepted, GivenUpOnlyWhenExhausted
<1>4. ASSUME NEW t \in Ticks,
             \/ Tick(t) \/ QueryDue(t) \/ BeginDeliver(t) \/ PostAccepted(t) \/ PostFailed(t)
             \/ RecordSuccessThrows(t) \/ TickThrows(t)
      PROVE  VerdictInv'
  <2>1. UNCHANGED rowVars /\ accepted \subseteq accepted'
    BY <1>4 DEF Tick, QueryDue, BeginDeliver, PostAccepted, PostFailed, RecordSuccessThrows,
                TickThrows, BatchThrows, historyVars
  <2>2. SuccessWasAccepted' /\ GivenUpOnlyWhenExhausted'
    BY <2>1 DEF rowVars, VerdictInv, SuccessWasAccepted, GivenUpOnlyWhenExhausted
  <2>3. \A u \in Ticks : pc'[u] = "settle" =>
          /\ batch'[u] = batch[u]
          /\ pc[u] = "settle" \/ (PostAccepted(u) /\ u = t)
    BY <1>4 DEF Tick, QueryDue, BeginDeliver, PostAccepted, PostFailed, RecordSuccessThrows,
                TickThrows, BatchThrows, Finished
  <2>4. ASSUME PostAccepted(t) PROVE batch[t][1].id \in accepted'
    BY <2>4, BatchHead DEF PostAccepted, BatchShape
  <2>5. SettlesAccepted'
    BY <2>1, <2>3, <2>4 DEF VerdictInv, SettlesAccepted
  <2>. QED
    BY <2>2, <2>5 DEF VerdictInv
<1>5. ASSUME NEW t \in Ticks, RecordSuccess(t) \/ RecordFailure(t) \/ RecordRetired(t)
      PROVE  VerdictInv'
  <2>. DEFINE d == Head(batch[t]).id
  <2>1. /\ batch[t] # <<>>
        /\ d \in Deliveries
        /\ d = batch[t][1].id
        /\ Exists(d)
        /\ UNCHANGED historyVars
        /\ NextRow(t)
    BY <1>5, FinalUpdate, BatchHead DEF Record
  <2>2. Head(batch[t]).attempts = attempts[d] /\ attempts[d] \in Nat
    BY <2>1, HeadRow
  <2>3. SettlesAccepted'
    BY <2>1 DEF NextRow, Finished, VerdictInv, SettlesAccepted, historyVars
  <2>4. CASE RecordSuccess(t)
    <3>1. d \in accepted
      BY <2>1, <2>4 DEF RecordSuccess, VerdictInv, SettlesAccepted
    <3>2. SuccessWasAccepted' /\ GivenUpOnlyWhenExhausted'
      BY <2>1, <2>4, <3>1 DEF RecordSuccess, Record, historyVars, VerdictInv,
                               SuccessWasAccepted, GivenUpOnlyWhenExhausted
    <3>. QED
      BY <2>3, <3>2 DEF VerdictInv
  <2>5. CASE RecordFailure(t)
    <3>1. SuccessWasAccepted' /\ GivenUpOnlyWhenExhausted'
      BY <2>1, <2>2, <2>5 DEF RecordFailure, Record, historyVars, VerdictInv,
                               SuccessWasAccepted, GivenUpOnlyWhenExhausted
    <3>. QED
      BY <2>3, <3>1 DEF VerdictInv
  <2>6. CASE RecordRetired(t)
    <3>1. SuccessWasAccepted' /\ GivenUpOnlyWhenExhausted'
      BY <2>1, <2>6 DEF RecordRetired, Record, historyVars, VerdictInv,
                         SuccessWasAccepted, GivenUpOnlyWhenExhausted
    <3>. QED
      BY <2>3, <3>1 DEF VerdictInv
  <2>. QED
    BY <1>5, <2>4, <2>5, <2>6
<1>6. CASE UNCHANGED <<status, attempts, lastError, accepted, pc, batch>>
  BY <1>6 DEF VerdictInv, SettlesAccepted, SuccessWasAccepted, GivenUpOnlyWhenExhausted
<1>7. CASE CrashRestart
  BY <1>7 DEF CrashRestart, rowVars, historyVars, VerdictInv, SettlesAccepted,
              SuccessWasAccepted, GivenUpOnlyWhenExhausted
<1>. QED
  BY <1>1, <1>2, <1>3, <1>4, <1>5, <1>6, <1>7
     DEF Next, ApiStep, DispatchStep, WorkerStep, CreateWebhook, SetActive, SetSubscription,
         RegenerateSecret, Publish, Match, InsertRefused, DispatchFault, BackoffElapses, Elapse,
         rowVars, workerVars, historyVars, vars

-----------------------------------------------------------------------------
(* How many copies of a delivery the target may see. *)

CountInv == BudgetLeft /\ PostsCounted

LEMMA CountNext ==
  ASSUME TypeOK, TypeOK', OneLoop, BatchShape, CopiesInv, QueuedForAllOrNone, VerdictInv',
         CountInv, [Next]_vars
  PROVE  CountInv'
<1>. USE DEF MAX_ATTEMPTS
<1>a. /\ attempts \in [Deliveries -> Nat] /\ posts \in [Deliveries -> Nat]
      /\ resent \in [Deliveries -> Nat] /\ DOMAIN status = Deliveries
      /\ status = [r \in Deliveries |-> status[r]]
      /\ crashes \in Nat /\ faults \in Nat
  BY DEF TypeOK, RowTypes, HistoryTypes, BudgetTypes
<1>b. DOMAIN pc = Ticks /\ pc = [u \in Ticks |-> pc[u]] /\ DOMAIN batch = Ticks
  BY DEF TypeOK, WorkerTypes
<1>c. \A t, u \in Ticks : pc[t] # "idle" /\ pc[u] # "idle" => t = u
  BY DEF OneLoop
<1>0. ASSUME UNCHANGED <<pc, batch>> PROVE \A d \in Deliveries : InFlight(d)' = InFlight(d)
  BY <1>0 DEF InFlight
<1>1. ASSUME NEW S \in SUBSET Webhooks, RemoveWebhooks(S) PROVE CountInv'
  BY <1>1, <1>a DEF RemoveWebhooks, workerVars, eventVars, budgetVars, CountInv, BudgetLeft, PostsCounted,
              InFlight, Exists, Open
<1>2. ASSUME NEW d \in Deliveries, Resend(d) PROVE CountInv'
  <2>1. BudgetLeft'
    BY <1>a, <1>2 DEF Resend, Requeue, CountInv, BudgetLeft, Exists, Open
  <2>2. UNCHANGED <<pc, batch, dispatch, posts, attempts, crashes, faults>>
    BY <1>2 DEF Resend, Requeue, workerVars, eventVars, budgetVars
  <2>3. \A r \in Deliveries : Exists(r)' => Exists(r)
    BY <1>a, <1>2 DEF Resend, Requeue, Exists
  <2>4. PostsCounted'
    BY <1>0, <1>a, <2>2, <2>3 DEF CountInv, PostsCounted
  <2>. QED
    BY <2>1, <2>4 DEF CountInv
<1>3. ASSUME NEW e \in Events, InsertRows(e) PROVE CountInv'
  <2>0. matches[e] \subseteq Webhooks /\ dispatch[e] # "stored"
    BY <1>3 DEF InsertRows, CreateMany, TypeOK, EventTypes
  <2>1. \A d \in {e} \X matches[e] : ~Exists(d) /\ posts[d] = 0 /\ attempts[d] = 0
    <3>1. ASSUME NEW w \in matches[e]
          PROVE  ~Exists(<<e, w>>) /\ posts[<<e, w>>] = 0 /\ attempts[<<e, w>>] = 0
      <4>1. <<e, w>> \in Deliveries /\ <<e, w>>[1] = e
        BY <2>0 DEF Deliveries
      <4>2. ~Exists(<<e, w>>)
        BY <2>0 DEF QueuedForAllOrNone
      <4>3. attempts[<<e, w>>] = 0
        BY <4>1, <4>2 DEF CountInv, BudgetLeft
      <4>4. posts[<<e, w>>] = 0
        BY <2>0, <4>1 DEF CountInv, PostsCounted
      <4>. QED
        BY <4>2, <4>3, <4>4
    <3>. QED
      BY <3>1
  <2>2. BudgetLeft'
    <3>1. ASSUME NEW d \in Deliveries
          PROVE  /\ attempts'[d] <= MAX_ATTEMPTS + resent'[d]
                 /\ status'[d] \in {"pending", "failed"} => attempts'[d] < MAX_ATTEMPTS + resent'[d]
                 /\ status'[d] = "none" => attempts'[d] = 0
      <4>1. /\ UNCHANGED <<attempts, resent>>
            /\ status'[d] = IF d \in {e} \X matches[e] THEN "pending" ELSE status[d]
        BY <1>3 DEF InsertRows, CreateMany, historyVars
      <4>2. attempts[d] \in Nat /\ resent[d] \in Nat /\ RetrySteps \in Nat
        BY <1>a, ConstantsAssumption
      <4>. QED
        BY <2>1, <4>1, <4>2 DEF CountInv, BudgetLeft, Exists, Open
    <3>. QED
      BY <3>1 DEF BudgetLeft, Exists, Open
  <2>3. PostsCounted'
    BY <1>0, <1>a, <1>3, <2>1, RowIsPair DEF InsertRows, CreateMany, workerVars, historyVars,
       budgetVars, CountInv, PostsCounted, Exists
  <2>. QED
    BY <2>2, <2>3 DEF CountInv
<1>4. ASSUME NEW e \in Events, Publish(e) \/ Match(e) \/ InsertRefused(e) \/ DispatchFault(e)
      PROVE  CountInv'
  <2>1. /\ UNCHANGED <<pc, batch, posts, resent, attempts, status>>
        /\ crashes' = crashes /\ faults' \in Nat /\ faults' >= faults
    BY <1>a, <1>4 DEF Publish, Match, InsertRefused, DispatchFault, DatabaseFault, rowVars, workerVars,
                historyVars, budgetVars
  <2>2. \A f \in Events : dispatch'[f] # "stored" => dispatch[f] # "stored"
    BY <1>4 DEF Publish, Match, InsertRefused, DispatchFault, TypeOK, EventTypes
  <2>3. BudgetLeft'
    BY <1>a, <2>1 DEF CountInv, BudgetLeft, Exists, Open
  <2>4. PostsCounted'
    BY <1>0, <1>a, <2>1, <2>2, RowIsPair DEF CountInv, PostsCounted, Exists
  <2>. QED
    BY <2>3, <2>4 DEF CountInv
<1>5. ASSUME NEW t \in Ticks, BeginDeliver(t) PROVE CountInv'
  <2>. DEFINE d == Head(batch[t]).id
  <2>0. batch[t] # <<>>
    BY <1>5 DEF BeginDeliver, BatchShape
  <2>1. /\ d \in Deliveries /\ d = batch[t][1].id /\ 1 \in 1..Len(batch[t])
        /\ pc[t] = "loop" /\ pc'[t] \in {"post", "retire"}
    BY <1>b, <1>5, <2>0, BatchHead DEF BeginDeliver
  <2>2. dispatch[d[1]] = "stored"
    BY <2>1 DEF CopiesInv, BatchRows, Queued
  <2>3. \A r \in Deliveries : ~InFlight(r)
    BY <1>c, <2>1 DEF InFlight
  <2>4. UNCHANGED <<status, attempts, resent, dispatch, batch, crashes, faults>>
    BY <1>5 DEF BeginDeliver, eventVars, rowVars, budgetVars
  <2>5. posts' = posts \/ (posts' = [posts EXCEPT ![d] = @ + 1] /\ pc'[t] = "post")
    BY <1>b, <1>5, <2>1 DEF BeginDeliver
  <2>6. BudgetLeft'
    BY <1>a, <2>4 DEF CountInv, BudgetLeft, Exists, Open
  <2>7. PostsCounted'
    <3>1. ASSUME NEW r \in Deliveries
          PROVE  /\ dispatch'[r[1]] # "stored" => posts'[r] = 0
                 /\ status'[r] # "none" => posts'[r] <= attempts'[r] + crashes' + faults'
                                             + (IF InFlight(r)' THEN 1 ELSE 0)
      <4>1. /\ posts[r] \in Nat /\ attempts[r] \in Nat
            /\ dispatch[r[1]] # "stored" => posts[r] = 0
            /\ status[r] # "none" => posts[r] <= attempts[r] + crashes + faults
        BY <1>a, <2>3 DEF CountInv, PostsCounted, Exists
      <4>2. \/ posts'[r] = posts[r]
            \/ r = d /\ posts'[r] = posts[r] + 1 /\ InFlight(r)'
        <5>1. ASSUME r = d, pc'[t] = "post" PROVE InFlight(r)'
          BY <2>1, <2>4, <5>1 DEF InFlight
        <5>2. \/ posts'[r] = posts[r]
              \/ posts'[r] = posts[r] + 1 /\ r = d /\ pc'[t] = "post"
          BY <1>a, <2>5
        <5>. QED
          BY <5>1, <5>2
      <4>. QED
        BY <1>a, <2>2, <2>4, <4>1, <4>2
    <3>. QED
      BY <3>1 DEF PostsCounted, Exists
  <2>. QED
    BY <2>6, <2>7 DEF CountInv
<1>6. ASSUME NEW t \in Ticks, PostAccepted(t) \/ PostFailed(t) \/ RecordSuccessThrows(t)
      PROVE  CountInv'
  <2>1. /\ UNCHANGED <<status, attempts, resent, dispatch, batch, posts, crashes>>
        /\ faults' \in Nat /\ faults' >= faults
    BY <1>a, <1>6 DEF PostAccepted, PostFailed, RecordSuccessThrows, DatabaseFault, NoFault, rowVars,
                eventVars, historyVars, budgetVars
  <2>2. \A r \in Deliveries : InFlight(r) => InFlight(r)'
    BY <1>b, <1>6, <2>1 DEF PostAccepted, PostFailed, RecordSuccessThrows, InFlight
  <2>3. BudgetLeft'
    BY <1>a, <2>1 DEF CountInv, BudgetLeft, Exists, Open
  <2>4. PostsCounted'
    BY <1>a, <2>1, <2>2 DEF CountInv, PostsCounted, Exists
  <2>. QED
    BY <2>3, <2>4 DEF CountInv
<1>7. ASSUME NEW t \in Ticks, TickThrows(t) PROVE CountInv'
  <2>1. /\ UNCHANGED <<status, attempts, resent, dispatch, posts, crashes>>
        /\ faults' \in Nat /\ faults' >= faults
    BY <1>a, <1>7 DEF TickThrows, BatchThrows, DatabaseFault, NoFault, rowVars, eventVars, historyVars,
                budgetVars
  <2>2. \A r \in Deliveries : InFlight(r) /\ Exists(r) => faults' = faults + 1
    <3>1. ASSUME NEW r \in Deliveries, InFlight(r), Exists(r) PROVE faults' = faults + 1
      <4>1. PICK u \in Ticks : pc[u] \in {"post", "settle", "fail"} /\ batch[u][1].id = r
        BY <3>1 DEF InFlight
      <4>2. u = t /\ pc[t] = "fail"
        BY <1>c, <1>7, <4>1 DEF TickThrows, BatchThrows
      <4>3. Head(batch[t]).id = r
        BY <4>1, <4>2, BatchHead DEF BatchShape
      <4>. QED
        BY <1>7, <3>1, <4>2, <4>3 DEF TickThrows, BatchThrows, DatabaseFault
    <3>. QED
      BY <3>1
  <2>3. BudgetLeft'
    BY <1>a, <2>1 DEF CountInv, BudgetLeft, Exists, Open
  <2>4. PostsCounted'
    BY <1>a, <2>1, <2>2 DEF CountInv, PostsCounted, Exists
  <2>. QED
    BY <2>3, <2>4 DEF CountInv
<1>8. ASSUME NEW t \in Ticks, RecordSuccess(t) \/ RecordFailure(t) \/ RecordRetired(t)
      PROVE  CountInv'
  <2>. DEFINE d == Head(batch[t]).id
  <2>1. /\ batch[t] # <<>> /\ d \in Deliveries /\ d = batch[t][1].id
        /\ Exists(d)
        /\ UNCHANGED <<dispatch, posts, resent, crashes, faults>>
    BY <1>8, FinalUpdate, BatchHead DEF Record, eventVars, historyVars, budgetVars
  <2>2. Head(batch[t]).attempts = attempts[d] /\ attempts[d] \in Nat /\ Open(d)
    BY <1>a, <2>1, HeadRow DEF TypeOK
  <2>3. \E st \in {"failed", "success", "dead"} : status' = [status EXCEPT ![d] = st]
    BY <1>8, FinalUpdate DEF Record
  <2>4. pc[t] # "idle" /\ \A r \in Deliveries : InFlight(r) => r = d
    BY <1>c, <1>8, <2>1 DEF RecordSuccess, RecordFailure, RecordRetired, InFlight
  <2>5. \/ attempts' = [attempts EXCEPT ![d] = attempts[d] + 1]
        \/ attempts' = attempts /\ ~InFlight(d) /\ status'[d] = "dead"
    <3>1. CASE RecordSuccess(t) \/ RecordFailure(t)
      BY <2>2, <3>1 DEF RecordSuccess, RecordFailure, Record
    <3>2. CASE RecordRetired(t)
      <4>1. ~InFlight(d)
        BY <1>c, <3>2 DEF RecordRetired, InFlight
      <4>. QED
        BY <1>a, <2>1, <3>2, <4>1 DEF RecordRetired, Record
    <3>. QED
      BY <1>8, <3>1, <3>2
  <2>6. BudgetLeft'
    <3>1. ASSUME NEW r \in Deliveries
          PROVE  /\ attempts'[r] <= MAX_ATTEMPTS + resent'[r]
                 /\ status'[r] \in {"pending", "failed"} => attempts'[r] < MAX_ATTEMPTS + resent'[r]
                 /\ status'[r] = "none" => attempts'[r] = 0
      <4>1. /\ attempts[r] \in Nat /\ resent[r] \in Nat /\ RetrySteps \in Nat
            /\ resent'[r] = resent[r]
            /\ attempts[r] <= MAX_ATTEMPTS + resent[r]
            /\ status[r] \in {"pending", "failed"} => attempts[r] < MAX_ATTEMPTS + resent[r]
            /\ status[r] = "none" => attempts[r] = 0
        BY <1>a, <2>1, ConstantsAssumption DEF CountInv, BudgetLeft, Exists, Open
      <4>2. CASE r # d
        <5>1. status'[r] = status[r] /\ attempts'[r] = attempts[r]
          BY <1>a, <2>3, <2>5, <4>2
        <5>. QED
          BY <4>1, <5>1
      <4>3. CASE r = d
        <5>1. /\ status'[r] \in {"failed", "success", "dead"}
              /\ attempts'[r] \in {attempts[r], attempts[r] + 1}
              /\ attempts[r] < MAX_ATTEMPTS + resent[r]
          BY <1>a, <2>2, <2>3, <2>5, <4>1, <4>3 DEF Open
        <5>2. status'[r] = "failed" => attempts'[r] \in 1..RetrySteps
          BY DEF VerdictInv, GivenUpOnlyWhenExhausted
        <5>. QED
          BY <4>1, <5>1, <5>2
      <4>. QED
        BY <4>2, <4>3
    <3>. QED
      BY <3>1 DEF BudgetLeft, Exists, Open
  <2>7. PostsCounted'
    <3>1. ASSUME NEW r \in Deliveries
          PROVE  /\ dispatch'[r[1]] # "stored" => posts'[r] = 0
                 /\ status'[r] # "none" => posts'[r] <= attempts'[r] + crashes' + faults'
                                             + (IF InFlight(r)' THEN 1 ELSE 0)
      <4>1. /\ posts[r] \in Nat /\ attempts[r] \in Nat
            /\ dispatch[r[1]] # "stored" => posts[r] = 0
            /\ status[r] # "none" => posts[r] <= attempts[r] + crashes + faults
                                                 + (IF InFlight(r) THEN 1 ELSE 0)
        BY <1>a DEF CountInv, PostsCounted, Exists
      <4>2. /\ r # d => status'[r] = status[r] /\ attempts'[r] = attempts[r] /\ ~InFlight(r)
            /\ r = d => status[r] # "none"
                         /\ \/ attempts'[r] = attempts[r] + 1
                            \/ attempts'[r] = attempts[r] /\ ~InFlight(r)
        BY <1>a, <2>1, <2>3, <2>4, <2>5 DEF Exists
      <4>3. posts'[r] = posts[r] /\ crashes' = crashes /\ faults' = faults
            /\ dispatch'[r[1]] = dispatch[r[1]]
        BY <2>1
      <4>4. status'[r] # "none" => posts[r] <= attempts'[r] + crashes + faults
        BY <1>a, <4>1, <4>2
      <4>. QED
        BY <1>a, <4>1, <4>2, <4>3, <4>4
    <3>. QED
      BY <3>1 DEF PostsCounted, Exists
  <2>. QED
    BY <2>6, <2>7 DEF CountInv
<1>9. CASE CrashRestart
  <2>1. /\ UNCHANGED <<status, attempts, resent, posts, faults>>
        /\ crashes' = crashes + 1
        /\ \A f \in Events : dispatch'[f] # "stored" => dispatch[f] # "stored"
    BY <1>9 DEF CrashRestart, rowVars, historyVars, TypeOK, EventTypes
  <2>2. BudgetLeft'
    BY <1>a, <2>1 DEF CountInv, BudgetLeft, Exists, Open
  <2>3. PostsCounted'
    BY <1>a, <2>1, <2>2, RowIsPair DEF CountInv, PostsCounted, Exists
  <2>. QED
    BY <2>2, <2>3 DEF CountInv
<1>10. ASSUME UNCHANGED <<status, attempts, resent, posts, dispatch, crashes, faults>>,
              \A d \in Deliveries : InFlight(d) => InFlight(d)'
       PROVE  CountInv'
  BY <1>a, <1>10 DEF CountInv, BudgetLeft, PostsCounted, Exists, Open
<1>11. ASSUME NEW t \in Ticks, Tick(t) \/ QueryDue(t) PROVE CountInv'
  <2>1. \A d \in Deliveries : InFlight(d) => InFlight(d)'
    <3>1. pc[t] \in {"idle", "query"}
      BY <1>11 DEF Tick, QueryDue
    <3>2. \A u \in Ticks \ {t} : pc'[u] = pc[u] /\ batch'[u] = batch[u]
      BY <1>b, <1>11 DEF Tick, QueryDue, Finished
    <3>3. ASSUME NEW d \in Deliveries, InFlight(d) PROVE InFlight(d)'
      <4>1. PICK u \in Ticks : pc[u] \in {"post", "settle", "fail"} /\ batch[u][1].id = d
        BY <3>3 DEF InFlight
      <4>. QED
        BY <3>1, <3>2, <4>1 DEF InFlight
    <3>. QED
      BY <3>3
  <2>. QED
    BY <1>10, <1>11, <2>1 DEF Tick, QueryDue, rowVars, eventVars, historyVars, budgetVars
<1>. QED
  BY <1>0, <1>1, <1>2, <1>3, <1>4, <1>5, <1>6, <1>7, <1>8, <1>9, <1>10, <1>11
     DEF Next, ApiStep, DispatchStep, WorkerStep, CreateWebhook, SetActive, SetSubscription,
         RegenerateSecret, BackoffElapses, Elapse, rowVars, eventVars, workerVars, historyVars,
         budgetVars, vars

-----------------------------------------------------------------------------
(* The inductive invariant and what follows from it. *)

LEMMA InvariantInit == Init => IInv
<1>. SUFFICES ASSUME Init PROVE IInv
  OBVIOUS
<1>1. TypeOK
  BY TypeInit
<1>2. OneLoop /\ BatchShape /\ SettlesAccepted
  BY DEF Init, OneLoop, BatchShape, SettlesAccepted
<1>3. BatchRows /\ CopiesCurrent
  BY EmptyBatch DEF Init, BatchRows, CopiesCurrent
<1>4. MatchesKnown /\ QueuedForAllOrNone /\ DueRowsOpen
  <2>1. \A e \in Events, w \in Webhooks : <<e, w>> \in Deliveries
    BY DEF Deliveries
  <2>. QED
    BY <2>1 DEF Init, MatchesKnown, QueuedForAllOrNone, DueRowsOpen, Exists
<1>5. SuccessWasAccepted /\ GivenUpOnlyWhenExhausted
  BY DEF Init, SuccessWasAccepted, GivenUpOnlyWhenExhausted
<1>6. BudgetLeft /\ PostsCounted
  BY DEF Init, BudgetLeft, PostsCounted, MAX_ATTEMPTS, Exists, Open
<1>. QED
  BY <1>1, <1>2, <1>3, <1>4, <1>5, <1>6 DEF IInv

LEMMA InvariantNext == IInv /\ [Next]_vars => IInv'
<1>. SUFFICES ASSUME IInv, [Next]_vars PROVE IInv'
  OBVIOUS
<1>1. TypeOK'
  BY TypeNext DEF IInv
<1>2. OneLoop' /\ BatchShape'
  BY LoopNext DEF IInv
<1>3. MatchesKnown' /\ QueuedForAllOrNone'
  BY QueueNext DEF IInv
<1>4. DueRowsOpen'
  BY DueNext DEF IInv
<1>5. CopiesInv /\ CopiesInv'
  BY CopiesNext DEF IInv, CopiesInv
<1>6. VerdictInv'
  BY <1>1, <1>5, VerdictNext DEF IInv, VerdictInv
<1>7. CountInv'
  BY <1>1, <1>5, <1>6, CountNext DEF IInv, CountInv
<1>. QED
  BY <1>1, <1>2, <1>3, <1>4, <1>5, <1>6, <1>7 DEF IInv, CopiesInv, VerdictInv, CountInv

\* The inductive invariant holds in every reachable state.
THEOREM Invariant == Spec => []IInv
<1>. QED
  BY InvariantInit, InvariantNext, PTL DEF Spec

\* The copies a tick works from never go stale (webhook-delivery.worker.ts,
\* the updates of deliver() and fail() computed from the findMany result).
THEOREM NoLostUpdate == Spec => []CopiesCurrent
<1>1. IInv => CopiesCurrent
  BY DEF IInv
<1>. QED
  BY <1>1, Invariant, PTL

\* createMany and the cascades keep the rows of an event whole
\* (webhook-dispatcher.service.ts, schema.prisma).
THEOREM AllOrNone == Spec => []QueuedForAllOrNone
<1>1. IInv => QueuedForAllOrNone
  BY DEF IInv
<1>. QED
  BY <1>1, Invariant, PTL

\* A row is marked success only after a 2xx answer to a POST of that very row.
THEOREM SuccessIsEarned == Spec => []SuccessWasAccepted
<1>1. IInv => SuccessWasAccepted
  BY DEF IInv
<1>. QED
  BY <1>1, Invariant, PTL

\* The worker gives a row up only at the end of its budget or for an inactive
\* webhook, whatever the length of the backoff table.
THEOREM RetriesAreUsed == Spec => []GivenUpOnlyWhenExhausted
<1>1. IInv => GivenUpOnlyWhenExhausted
  BY DEF IInv
<1>. QED
  BY <1>1, Invariant, PTL

\* At most MAX_ATTEMPTS copies of a delivery reach the target, plus one for
\* each resend, crash and failed statement.
THEOREM BoundedCopies == Spec => []CopiesBounded
<1>1. IInv => CopiesBounded
  <2>. SUFFICES ASSUME IInv, NEW d \in Deliveries, Exists(d)
                PROVE  posts[d] <= MAX_ATTEMPTS + resent[d] + crashes + faults
    BY DEF CopiesBounded
  <2>1. /\ posts[d] \in Nat /\ attempts[d] \in Nat /\ resent[d] \in Nat
        /\ crashes \in Nat /\ faults \in Nat /\ MAX_ATTEMPTS \in Nat
    BY DEF IInv, TypeOK, RowTypes, HistoryTypes, BudgetTypes, MAX_ATTEMPTS
  <2>2. /\ attempts[d] <= MAX_ATTEMPTS + resent[d]
        /\ Open(d) => attempts[d] < MAX_ATTEMPTS + resent[d]
    BY DEF IInv, BudgetLeft
  <2>3. posts[d] <= attempts[d] + crashes + faults + (IF InFlight(d) THEN 1 ELSE 0)
    BY DEF IInv, PostsCounted
  <2>4. ASSUME InFlight(d) PROVE Open(d)
    <3>1. PICK t \in Ticks : pc[t] \in {"post", "settle", "fail"} /\ batch[t][1].id = d
      BY <2>4 DEF InFlight
    <3>2. batch[t] # <<>>
      BY <3>1 DEF IInv, BatchShape
    <3>3. Head(batch[t]).id = d
      BY <3>1, <3>2, BatchHead DEF IInv
    <3>. QED
      BY <3>2, <3>3, HeadRow DEF IInv, CopiesInv
  <2>5. CASE InFlight(d)
    <3>1. attempts[d] < MAX_ATTEMPTS + resent[d]
      BY <2>2, <2>4, <2>5
    <3>2. posts[d] <= attempts[d] + crashes + faults + 1
      BY <2>3, <2>5
    <3>. QED
      BY <2>1, <3>1, <3>2
  <2>6. CASE ~InFlight(d)
    <3>1. posts[d] <= attempts[d] + crashes + faults
      BY <2>1, <2>3, <2>6
    <3>. QED
      BY <2>1, <2>2, <3>1
  <2>. QED
    BY <2>5, <2>6
<1>. QED
  BY <1>1, Invariant, PTL

\* No step of the worker, of the dispatcher or of a restart brings a finished
\* row back: only resendDelivery does.
THEOREM FinishedRowsStay == Spec => OnlyResendReopens
<1>. DEFINE Reopened(d) == /\ status[d] \in {"success", "dead"}
                           /\ status'[d] \notin {status[d], "none"}
            Resent(d)   == status'[d] = "pending" /\ resent'[d] = resent[d] + 1
<1>1. ASSUME IInv, [Next]_vars, NEW d \in Deliveries, Reopened(d) PROVE Resent(d)
  <2>1. /\ DOMAIN status = Deliveries /\ DOMAIN resent = Deliveries
        /\ TypeOK /\ BatchShape /\ QueuedForAllOrNone /\ CopiesInv
    BY <1>1 DEF IInv, TypeOK, RowTypes, HistoryTypes, CopiesInv
  <2>2. ASSUME NEW S \in SUBSET Webhooks, RemoveWebhooks(S) PROVE FALSE
    BY <1>1, <2>2 DEF RemoveWebhooks
  <2>3. ASSUME NEW r \in Deliveries, Resend(r) PROVE Resent(d)
    BY <1>1, <2>1, <2>3 DEF Resend, Requeue
  <2>4. ASSUME NEW e \in Events, InsertRows(e) PROVE FALSE
    <3>1. /\ dispatch[e] # "stored" /\ matches[e] \subseteq Webhooks
          /\ status'[d] = IF d \in {e} \X matches[e] THEN "pending" ELSE status[d]
      BY <2>1, <2>4 DEF InsertRows, CreateMany, TypeOK, EventTypes
    <3>2. PICK w \in matches[e] : d = <<e, w>>
      BY <1>1, <3>1
    <3>3. ~Exists(d)
      BY <2>1, <3>1, <3>2 DEF QueuedForAllOrNone
    <3>. QED
      BY <1>1, <3>3 DEF Exists
  <2>5. ASSUME NEW t \in Ticks, RecordSuccess(t) \/ RecordFailure(t) \/ RecordRetired(t)
        PROVE  FALSE
    <3>1. /\ batch[t] # <<>> /\ Exists(Head(batch[t]).id)
          /\ \E st \in {"failed", "success", "dead"} :
               status' = [status EXCEPT ![Head(batch[t]).id] = st]
      BY <2>1, <2>5, FinalUpdate DEF Record
    <3>2. Open(Head(batch[t]).id)
      BY <2>1, <3>1, HeadRow
    <3>. QED
      BY <1>1, <2>1, <3>1, <3>2 DEF Open
  <2>6. CASE UNCHANGED status
    BY <1>1, <2>6
  <2>. QED
    BY <1>1, <2>2, <2>3, <2>4, <2>5, <2>6
       DEF Next, ApiStep, DispatchStep, WorkerStep, CreateWebhook, SetActive, SetSubscription,
           RegenerateSecret, Publish, Match, InsertRefused, DispatchFault, BackoffElapses, Elapse,
           Tick, QueryDue, BeginDeliver, PostAccepted, PostFailed, RecordSuccessThrows,
           TickThrows, BatchThrows, CrashRestart, rowVars, vars
<1>2. IInv /\ [Next]_vars =>
        [\A d \in Deliveries :
           status[d] \in {"success", "dead"} /\ status'[d] \notin {status[d], "none"}
             => status'[d] = "pending" /\ resent'[d] = resent[d] + 1]_vars
  BY <1>1
<1>. QED
  BY <1>2, Invariant, PTL DEF Spec, OnlyResendReopens
=============================================================================
