---------------------------- MODULE WebhookOutbox ----------------------------
(***************************************************************************)
(* The durable webhook outbox: the dispatcher that turns bus events into   *)
(* WebhookDelivery rows (webhook-dispatcher.service.ts), the interval      *)
(* worker that drains the rows (webhook-delivery.worker.ts) and the API    *)
(* operations that change webhooks and rows under the worker's feet        *)
(* (webhooks.service.ts).                                                  *)
(*                                                                         *)
(* Every `await` of the code is a point where another actor may run, so a  *)
(* handler is one action per stretch between two awaits.  A database       *)
(* statement takes effect in one action (PostgreSQL runs it atomically).   *)
(*                                                                         *)
(* A row is written <<e, w>>: the delivery of event occurrence e to        *)
(* webhook w.  One call of onEvent inserts at most one row per webhook, so *)
(* the pair identifies the row as its uuid does.                           *)
(***************************************************************************)
EXTENDS Integers, Sequences, FiniteSets

CONSTANTS
  Events,        \* occurrences published on the TelegramEventBus
  Webhooks,      \* webhook ids (a deleted id is never used again)
  Ticks,         \* invocations of tick() that could overlap
  RetrySteps,    \* RETRY_BACKOFF_SECONDS.length
  BATCH,         \* rows fetched by one tick
  Bounds         \* bounds to choose from: of the rotations of one webhook's secret,
                 \* the manual resends of one row, the process crashes and the
                 \* database statements that fail on their own

ASSUME ConstantsAssumption ==
  /\ RetrySteps \in Nat
  /\ BATCH \in Nat \ {0}

ASSUME BoundsAssumption ==
  Bounds \subseteq [secrets : Nat, resends : Nat, crashes : Nat, faults : Nat]

\* webhook.types.ts: one attempt more than there are backoff entries.
MAX_ATTEMPTS == RetrySteps + 1

Deliveries == Events \X Webhooks

VARIABLES
  hook,        \* hook[w]: the webhook row, "absent" before create, "deleted" after
  secret,      \* secret[w]: which of its signing secrets w stores now
  subscribed,  \* subscribed[w]: w is linked to the instance and the event type
  dispatch,    \* dispatch[e]: how far onEvent(e) has got
  matches,     \* matches[e]: the webhooks its first query returned
  status,      \* status[d]: WebhookDelivery.status, "none" when there is no row
  attempts,    \* attempts[d]: WebhookDelivery.attempts
  lastError,   \* lastError[d]: why the last attempt did not succeed
  due,         \* rows with nextAttemptAt <= now
  older,       \* <<a, b>> when a and b are due and a has the smaller nextAttemptAt
  running,     \* the worker's re-entrancy flag
  pc,          \* pc[t]: where invocation t of tick() is
  batch,       \* batch[t]: its rows not yet handled, head first, as findMany read them
  posts,       \* history: times deliver() set out to POST row d
  accepted,    \* history: rows the target has answered 2xx for at least once
  resent,      \* history: times row d was resent by hand
  unserved,    \* history: rows resent with no attempt begun since
  bound,       \* the bounds of this behaviour
  crashes, faults   \* how much of two of them is spent

hookVars    == <<hook, secret, subscribed>>
eventVars   == <<dispatch, matches>>
rowVars     == <<status, attempts, lastError, due, older>>
workerVars  == <<running, pc, batch>>
historyVars == <<posts, accepted, resent, unserved>>
budgetVars  == <<bound, crashes, faults>>
vars == <<hookVars, eventVars, rowVars, workerVars, historyVars, budgetVars>>

Live(w)      == hook[w] \in {"active", "inactive"}
Open(d)      == status[d] \in {"pending", "failed"}
Exists(d)    == status[d] # "none"

Snapshot == [id : Deliveries, attempts : Nat, secret : Nat, active : BOOLEAN]

-----------------------------------------------------------------------------
(* Type invariant and initial state *)

HookTypes ==
  /\ hook \in [Webhooks -> {"absent", "active", "inactive", "deleted"}]
  /\ secret \in [Webhooks -> 0..bound.secrets]
  /\ subscribed \in [Webhooks -> BOOLEAN]

EventTypes ==
  /\ dispatch \in [Events -> {"new", "matching", "inserting", "stored", "dropped"}]
  /\ matches \in [Events -> SUBSET Webhooks]

RowTypes ==
  /\ status \in [Deliveries -> {"none", "pending", "failed", "success", "dead"}]
  /\ attempts \in [Deliveries -> Nat]
  /\ lastError \in [Deliveries -> {"null", "error", "inactive"}]
  /\ due \in SUBSET Deliveries
  /\ older \in SUBSET (Deliveries \X Deliveries)

WorkerTypes ==
  /\ running \in BOOLEAN
  /\ pc \in [Ticks -> {"idle", "query", "loop", "post", "settle", "fail", "retire"}]
  /\ batch \in [Ticks -> Seq(Snapshot)]

HistoryTypes ==
  /\ posts \in [Deliveries -> Nat]
  /\ accepted \in SUBSET Deliveries
  /\ resent \in [Deliveries -> 0..bound.resends]
  /\ unserved \in SUBSET Deliveries

BudgetTypes ==
  /\ bound \in Bounds
  /\ crashes \in 0..bound.crashes
  /\ faults \in 0..bound.faults

\* Every variable stays within the values the schema and the code allow.
TypeOK ==
  HookTypes /\ EventTypes /\ RowTypes /\ WorkerTypes /\ HistoryTypes /\ BudgetTypes

Init ==
  /\ hook = [w \in Webhooks |-> "absent"]
  /\ secret = [w \in Webhooks |-> 0]
  /\ subscribed = [w \in Webhooks |-> FALSE]
  /\ dispatch = [e \in Events |-> "new"]
  /\ matches = [e \in Events |-> {}]
  /\ status = [d \in Deliveries |-> "none"]
  /\ attempts = [d \in Deliveries |-> 0]
  /\ lastError = [d \in Deliveries |-> "null"]
  /\ due = {}
  /\ older = {}
  /\ running = FALSE
  /\ pc = [t \in Ticks |-> "idle"]
  /\ batch = [t \in Ticks |-> <<>>]
  /\ posts = [d \in Deliveries |-> 0]
  /\ accepted = {}
  /\ resent = [d \in Deliveries |-> 0]
  /\ unserved = {}
  /\ bound \in Bounds
  /\ crashes = 0
  /\ faults = 0

-----------------------------------------------------------------------------
(* nextAttemptAt.  The rows of S get nextAttemptAt = now: they become the   *)
(* youngest due rows, in no order among themselves.  Rows that are not open *)
(* are outside the worker's query and are kept out of `due`.                *)

DueNow(S) ==
  /\ due' = due \cup S
  /\ older' = {p \in older : p[1] \notin S /\ p[2] \notin S}
                \cup ((due \ S) \X S)

NotDue(S) ==
  /\ due' = due \ S
  /\ older' = {p \in older : p[1] \notin S /\ p[2] \notin S}

\* A statement fails for a reason of its own: connection lost, pool exhausted.
DatabaseFault ==
  /\ faults < bound.faults
  /\ faults' = faults + 1
  /\ UNCHANGED <<bound, crashes>>

NoFault == UNCHANGED budgetVars

-----------------------------------------------------------------------------
(* WebhooksService: the API operations.  `owned` and the validations before *)
(* the write only refuse the call; the write is one statement on the row.   *)

\* create: a new webhook is active (schema default), linked or not.
CreateWebhook(w) ==
  /\ hook[w] = "absent"
  /\ hook' = [hook EXCEPT ![w] = "active"]
  /\ \E linked \in BOOLEAN : subscribed' = [subscribed EXCEPT ![w] = linked]
  /\ UNCHANGED <<secret, eventVars, rowVars, workerVars, historyVars, budgetVars>>

\* update with patch.active.
SetActive(w, state) ==
  /\ Live(w)
  /\ hook' = [hook EXCEPT ![w] = state]
  /\ UNCHANGED <<secret, subscribed, eventVars, rowVars, workerVars, historyVars, budgetVars>>

\* update with patch.events, linkInstance, unlinkInstance.
SetSubscription(w, linked) ==
  /\ Live(w)
  /\ subscribed' = [subscribed EXCEPT ![w] = linked]
  /\ UNCHANGED <<hook, secret, eventVars, rowVars, workerVars, historyVars, budgetVars>>

\* regenerateSecret: the new secret replaces the stored one.
RegenerateSecret(w) ==
  /\ Live(w)
  /\ secret[w] < bound.secrets
  /\ secret' = [secret EXCEPT ![w] = @ + 1]
  /\ UNCHANGED <<hook, subscribed, eventVars, rowVars, workerVars, historyVars, budgetVars>>

\* remove (S has one webhook), or the removal of a user (all of its webhooks):
\* the foreign keys cascade to the links and to the delivery rows.
RemoveWebhooks(S) ==
  LET gone == {d \in Deliveries : d[2] \in S} IN
  /\ S # {}
  /\ \A w \in S : Live(w)
  /\ hook' = [w \in Webhooks |-> IF w \in S THEN "deleted" ELSE hook[w]]
  /\ subscribed' = [w \in Webhooks |-> w \notin S /\ subscribed[w]]
  /\ status' = [d \in Deliveries |-> IF d \in gone THEN "none" ELSE status[d]]
  /\ attempts' = [d \in Deliveries |-> IF d \in gone THEN 0 ELSE attempts[d]]
  /\ lastError' = [d \in Deliveries |-> IF d \in gone THEN "null" ELSE lastError[d]]
  /\ NotDue(gone)
  /\ unserved' = unserved \ gone
  /\ UNCHANGED <<secret, eventVars, workerVars, posts, accepted, resent, budgetVars>>

\* resendDelivery: any row, in any status, becomes pending and due now.
Requeue(d) ==
  /\ Exists(d)
  /\ resent[d] < bound.resends
  /\ status' = [status EXCEPT ![d] = "pending"]
  /\ lastError' = [lastError EXCEPT ![d] = "null"]
  /\ DueNow({d})
  /\ resent' = [resent EXCEPT ![d] = @ + 1]
  /\ unserved' = unserved \cup {d}
  /\ UNCHANGED <<hookVars, eventVars, workerVars, posts, accepted, budgetVars>>

\* Mutant: a resend starts the row over with a fresh attempt budget.
Resend_ResetsAttempts(d) == Requeue(d) /\ attempts' = [attempts EXCEPT ![d] = 0]

\* attempts (and deliveredAt) keep their values.
Resend(d) == Requeue(d) /\ UNCHANGED attempts

-----------------------------------------------------------------------------
(* WebhookDispatcherService.onEvent *)

\* The bus calls onEvent, which sends the matchingWebhooks query.
Publish(e) ==
  /\ dispatch[e] = "new"
  /\ dispatch' = [dispatch EXCEPT ![e] = "matching"]
  /\ UNCHANGED <<matches, hookVars, rowVars, workerVars, historyVars, budgetVars>>

\* matchingWebhooks answers; without a match onEvent returns.
Match(e) ==
  LET found == {w \in Webhooks : hook[w] = "active" /\ subscribed[w]} IN
  /\ dispatch[e] = "matching"
  /\ matches' = [matches EXCEPT ![e] = found]
  /\ dispatch' = [dispatch EXCEPT ![e] = IF found = {} THEN "dropped" ELSE "inserting"]
  /\ UNCHANGED <<hookVars, rowVars, workerVars, historyVars, budgetVars>>

\* createMany: one INSERT, effective for all its rows or for none.
CreateMany(e, found) ==
  /\ dispatch[e] = "inserting"
  /\ dispatch' = [dispatch EXCEPT ![e] = "stored"]
  /\ status' = [d \in Deliveries |-> IF d \in {e} \X found THEN "pending" ELSE status[d]]
  /\ DueNow({e} \X found)
  /\ UNCHANGED <<attempts, lastError, matches, hookVars, workerVars, historyVars, budgetVars>>

\* Mutant: rows are inserted without the foreign key to the webhook.
InsertRows_NoForeignKey(e) == CreateMany(e, matches[e])

\* Mutant: matches that were deactivated meanwhile are left out.
InsertRows_SkipsInactive(e) ==
  /\ \A w \in matches[e] : Live(w)
  /\ CreateMany(e, {w \in matches[e] : hook[w] = "active"})

\* The query's answer may be stale: a match may be inactive or unlinked by
\* now, but it must still be there.
InsertRows(e) ==
  /\ \A w \in matches[e] : Live(w)
  /\ CreateMany(e, matches[e])

\* A match was deleted since the query: the foreign key refuses the whole
\* INSERT, the catch logs, and the event is over for every match.
InsertRefused(e) ==
  /\ dispatch[e] = "inserting"
  /\ \E w \in matches[e] : ~Live(w)
  /\ dispatch' = [dispatch EXCEPT ![e] = "dropped"]
  /\ UNCHANGED <<matches, hookVars, rowVars, workerVars, historyVars, budgetVars>>

\* Either statement fails on its own: the same catch.
DispatchFault(e) ==
  /\ dispatch[e] \in {"matching", "inserting"}
  /\ DatabaseFault
  /\ dispatch' = [dispatch EXCEPT ![e] = "dropped"]
  /\ UNCHANGED <<matches, hookVars, rowVars, workerVars, historyVars>>

-----------------------------------------------------------------------------
(* WebhookDeliveryWorker *)

Elapse(d) ==
  /\ d \notin due
  /\ DueNow({d})
  /\ UNCHANGED <<status, attempts, lastError, hookVars, eventVars, workerVars,
                 historyVars, budgetVars>>

\* Mutants: the worker's query selects pending rows only, or rows of any status.
BackoffElapses_PendingOnly(d) == status[d] = "pending" /\ Elapse(d)
BackoffElapses_AnyStatus(d)   == Exists(d) /\ Elapse(d)

\* The clock passes the nextAttemptAt of a row waiting for its retry.
BackoffElapses(d) == Open(d) /\ Elapse(d)

\* Mutant: the flag is not lowered.
Finished_KeepsFlag(t) ==
  /\ pc' = [pc EXCEPT ![t] = "idle"]
  /\ batch' = [batch EXCEPT ![t] = <<>>]
  /\ UNCHANGED running

\* The `finally` of tick().
Finished(t) ==
  /\ pc' = [pc EXCEPT ![t] = "idle"]
  /\ batch' = [batch EXCEPT ![t] = <<>>]
  /\ running' = FALSE

\* deliver() returned: on to the next row of the batch.
NextRow(t) ==
  IF Len(batch[t]) = 1
    THEN Finished(t)
    ELSE /\ pc' = [pc EXCEPT ![t] = "loop"]
         /\ batch' = [batch EXCEPT ![t] = Tail(@)]
         /\ UNCHANGED running

\* Mutant: tick() does not look at the flag.
Tick_NoGuard(t) ==
  /\ pc[t] = "idle"
  /\ running' = TRUE
  /\ pc' = [pc EXCEPT ![t] = "query"]
  /\ UNCHANGED <<batch, hookVars, eventVars, rowVars, historyVars, budgetVars>>

\* setInterval calls tick(), which returns at once while another one runs.
Tick(t) ==
  /\ pc[t] = "idle"
  /\ ~running
  /\ running' = TRUE
  /\ pc' = [pc EXCEPT ![t] = "query"]
  /\ UNCHANGED <<batch, hookVars, eventVars, rowVars, historyVars, budgetVars>>

\* Mutant: the query leaves out rows that have used up MAX_ATTEMPTS.
OldestDue_WithBudget(s) ==
  LET left == {d \in due : attempts[d] < MAX_ATTEMPTS} IN
  /\ \A i \in 1..Len(s) : s[i] \in left /\ \A j \in 1..Len(s) : s[i] = s[j] => i = j
  /\ Len(s) < BATCH => left \subseteq {s[i] : i \in 1..Len(s)}
  /\ \A i \in 1..Len(s), d \in left :
       <<d, s[i]>> \in older => \E j \in 1..(i-1) : s[j] = d

\* What findMany may return: at most BATCH due rows, oldest nextAttemptAt first.
OldestDue(s) ==
  /\ \A i, j \in 1..Len(s) : s[i] = s[j] => i = j
  /\ Len(s) < BATCH => due \subseteq {s[i] : i \in 1..Len(s)}
  /\ \A i \in 1..Len(s), d \in due :
       <<d, s[i]>> \in older => \E j \in 1..(i-1) : s[j] = d

SnapshotOf(d) ==
  [id |-> d, attempts |-> attempts[d], secret |-> secret[d[2]],
   active |-> hook[d[2]] = "active"]

\* findMany answers with the rows and a copy of each row's webhook.
QueryDue(t) ==
  /\ pc[t] = "query"
  /\ \E n \in 0..BATCH : \E s \in [1..n -> due] :
       /\ OldestDue(s)
       /\ IF n = 0
            THEN Finished(t)
            ELSE /\ pc' = [pc EXCEPT ![t] = "loop"]
                 /\ batch' = [batch EXCEPT ![t] = [i \in 1..n |-> SnapshotOf(s[i])]]
                 /\ UNCHANGED running
  /\ UNCHANGED <<hookVars, eventVars, rowVars, historyVars, budgetVars>>

\* deliver(), to its first await: the copy of `active` decides between the
\* POST (signed with the copy of the secret) and the update to dead.
BeginDeliver(t) ==
  LET delivery == Head(batch[t]) IN
  /\ pc[t] = "loop"
  /\ IF delivery.active
       THEN /\ pc' = [pc EXCEPT ![t] = "post"]
            /\ posts' = [posts EXCEPT ![delivery.id] = @ + 1]
            /\ unserved' = unserved \ {delivery.id}
       ELSE /\ pc' = [pc EXCEPT ![t] = "retire"]
            /\ UNCHANGED <<posts, unserved>>
  /\ UNCHANGED <<running, batch, accepted, resent, hookVars, eventVars, rowVars, budgetVars>>

\* The target takes the POST and its 2xx answer arrives.
PostAccepted(t) ==
  /\ pc[t] = "post"
  /\ pc' = [pc EXCEPT ![t] = "settle"]
  /\ accepted' = accepted \cup {Head(batch[t]).id}
  /\ UNCHANGED <<running, batch, posts, resent, unserved, hookVars, eventVars,
                 rowVars, budgetVars>>

\* Mutant: res.ok is not checked.
PostFailed_TakenAsSuccess(t) ==
  /\ pc[t] = "post"
  /\ pc' = [pc EXCEPT ![t] = "settle"]
  /\ UNCHANGED <<running, batch, hookVars, eventVars, rowVars, historyVars, budgetVars>>

\* The URL guard refuses, the answer is not 2xx, the connection breaks or the
\* 10 s timeout fires; the target may have taken the POST all the same.
PostFailed(t) ==
  /\ pc[t] = "post"
  /\ pc' = [pc EXCEPT ![t] = "fail"]
  /\ accepted' \in {accepted, accepted \cup {Head(batch[t]).id}}
  /\ UNCHANGED <<running, batch, posts, resent, unserved, hookVars, eventVars,
                 rowVars, budgetVars>>

\* The final update of the row being handled, then on to the next one.
Record(t, newStatus, newAttempts, error) ==
  LET d == Head(batch[t]).id IN
  /\ Exists(d)
  /\ status' = [status EXCEPT ![d] = newStatus]
  /\ attempts' = [attempts EXCEPT ![d] = newAttempts]
  /\ lastError' = [lastError EXCEPT ![d] = error]
  /\ NotDue({d})
  /\ NextRow(t)
  /\ UNCHANGED <<hookVars, eventVars, historyVars, budgetVars>>

\* Mutant: the attempt is taken off the count.
RecordSuccess_CountsDown(t) ==
  pc[t] = "settle" /\ Record(t, "success", Head(batch[t]).attempts - 1, "null")

\* The update to success, computed from the copy of `attempts`.
RecordSuccess(t) ==
  pc[t] = "settle" /\ Record(t, "success", Head(batch[t]).attempts + 1, "null")

\* The update to success throws (row deleted, or a fault): the same catch as
\* for a failed POST leads to fail().
RecordSuccessThrows(t) ==
  /\ pc[t] = "settle"
  /\ IF Exists(Head(batch[t]).id) THEN DatabaseFault ELSE NoFault
  /\ pc' = [pc EXCEPT ![t] = "fail"]
  /\ UNCHANGED <<running, batch, hookVars, eventVars, rowVars, historyVars>>

\* Mutants: the last attempt of the budget is not made; a failure is not counted.
RecordFailure_OneShort(t) ==
  LET made == Head(batch[t]).attempts + 1 IN
  /\ pc[t] = "fail"
  /\ Record(t, IF made >= MAX_ATTEMPTS - 1 THEN "dead" ELSE "failed", made, "error")
RecordFailure_NotCounted(t) ==
  pc[t] = "fail" /\ Record(t, "failed", Head(batch[t]).attempts, "error")

\* fail(): one attempt more; dead when the budget or the backoff table is
\* exhausted, otherwise failed with nextAttemptAt in the future.
RecordFailure(t) ==
  LET made == Head(batch[t]).attempts + 1
      dead == made >= MAX_ATTEMPTS \/ Head(batch[t]).attempts >= RetrySteps IN
  /\ pc[t] = "fail"
  /\ Record(t, IF dead THEN "dead" ELSE "failed", made, "error")

\* The copy said the webhook is inactive: dead, attempts untouched.
RecordRetired(t) ==
  pc[t] = "retire" /\ Record(t, "dead", attempts[Head(batch[t]).id], "inactive")

\* A statement outside deliver()'s try throws (findMany on a fault; the two
\* updates on a fault or a deleted row) and ends the loop.
BatchThrows(t) ==
  /\ \/ pc[t] = "query" /\ DatabaseFault
     \/ /\ pc[t] \in {"fail", "retire"}
        /\ IF Exists(Head(batch[t]).id) THEN DatabaseFault ELSE NoFault
  /\ UNCHANGED <<hookVars, eventVars, rowVars, historyVars>>

\* Mutant: the catch gives up the batch without lowering the flag.
TickThrows_KeepsFlag(t) == BatchThrows(t) /\ Finished_KeepsFlag(t)

\* tick()'s catch gives up the batch: its other rows stay open and due.
TickThrows(t) == BatchThrows(t) /\ Finished(t)

\* The process dies and starts again: the rows stay, everything in memory goes
\* (also the handling of events that had not reached createMany).
CrashRestart ==
  /\ crashes < bound.crashes
  /\ crashes' = crashes + 1
  /\ running' = FALSE
  /\ pc' = [t \in Ticks |-> "idle"]
  /\ batch' = [t \in Ticks |-> <<>>]
  /\ dispatch' = [e \in Events |->
       IF dispatch[e] \in {"matching", "inserting"} THEN "dropped" ELSE dispatch[e]]
  /\ UNCHANGED <<bound, faults, matches, hookVars, rowVars, historyVars>>

-----------------------------------------------------------------------------
(* Specification *)

ApiStep ==
  \/ \E w \in Webhooks : \/ CreateWebhook(w)
                         \/ \E state \in {"active", "inactive"} : SetActive(w, state)
                         \/ \E linked \in BOOLEAN : SetSubscription(w, linked)
                         \/ RegenerateSecret(w)
  \/ \E S \in SUBSET Webhooks : RemoveWebhooks(S)
  \/ \E d \in Deliveries : Resend(d)

DispatchStep(e) == Match(e) \/ InsertRows(e) \/ InsertRefused(e) \/ DispatchFault(e)

WorkerStep(t) ==
  \/ QueryDue(t) \/ BeginDeliver(t)
  \/ PostAccepted(t) \/ PostFailed(t)
  \/ RecordSuccess(t) \/ RecordSuccessThrows(t)
  \/ RecordFailure(t) \/ RecordRetired(t)
  \/ TickThrows(t)

Next ==
  \/ ApiStep
  \/ \E e \in Events : Publish(e) \/ DispatchStep(e)
  \/ \E t \in Ticks : Tick(t) \/ WorkerStep(t)
  \/ \E d \in Deliveries : BackoffElapses(d)
  \/ CrashRestart

\* The interval keeps firing, a statement or a POST that was started ends (the
\* POST by its timeout), and time passes.  Nobody has to use the API, no event
\* has to be published, and no webhook target has to accept anything.
Fairness ==
  /\ WF_vars(\E t \in Ticks : Tick(t))
  /\ \A t \in Ticks : WF_vars(WorkerStep(t))
  /\ \A e \in Events : WF_vars(DispatchStep(e))
  /\ \A d \in Deliveries : WF_vars(BackoffElapses(d))

Spec == Init /\ [][Next]_vars
FairSpec == Spec /\ Fairness

-----------------------------------------------------------------------------
(* Safety *)

\* tick() does not overlap itself: with the flag set before the first await,
\* at most one invocation is past its guard, and the flag is up exactly then.
OneLoop ==
  /\ \A t, u \in Ticks : pc[t] # "idle" /\ pc[u] # "idle" => t = u
  /\ running <=> \E t \in Ticks : pc[t] # "idle"

\* The copies a batch holds may be minutes old, and the updates are computed
\* from them: every row still to be handled has kept the attempts of its copy
\* and is still open, unless its webhook was deleted.  No update is lost.
CopiesCurrent ==
  \A t \in Ticks : \A i \in 1..Len(batch[t]) :
    LET d == batch[t][i].id IN
    Exists(d) => Open(d) /\ attempts[d] = batch[t][i].attempts

\* A row dies only when its attempts are used up or its webhook was inactive,
\* and a row waiting for a retry has attempts left.
GivenUpOnlyWhenExhausted ==
  \A d \in Deliveries :
    /\ status[d] = "dead" => attempts[d] >= MAX_ATTEMPTS \/ lastError[d] = "inactive"
    /\ status[d] = "failed" => attempts[d] \in 1..RetrySteps

\* A row marked success was answered 2xx by its target.
SuccessWasAccepted ==
  \A d \in Deliveries : status[d] = "success" => d \in accepted

\* The target sees a delivery at most MAX_ATTEMPTS times, plus once per manual
\* resend and once per crash or failed statement: a POST goes uncounted only
\* when one of these cuts it off from its update.
CopiesBounded ==
  \A d \in Deliveries :
    Exists(d) => posts[d] <= MAX_ATTEMPTS + resent[d] + crashes + faults

\* An event is queued for all its matches or for none; later only the deletion
\* of a webhook takes a row away.
QueuedForAllOrNone ==
  \A e \in Events, w \in Webhooks :
    IF dispatch[e] = "stored"
      THEN Exists(<<e, w>>) <=> w \in matches[e] /\ Live(w)
      ELSE ~Exists(<<e, w>>)

\* Once a row is success or dead, the worker never touches it again: only a
\* manual resend reopens it, only the deletion of its webhook removes it.
OnlyResendReopens ==
  [][\A d \in Deliveries :
       status[d] \in {"success", "dead"} /\ status'[d] \notin {status[d], "none"}
         => status'[d] = "pending" /\ resent'[d] = resent[d] + 1]_vars

-----------------------------------------------------------------------------
(* Liveness, under FairSpec *)

\* No row stays pending or failed for ever, whatever the targets answer and
\* however rows and webhooks change: the oldest-first batches starve nobody.
EveryRowSettles == \A d \in Deliveries : Open(d) ~> ~Open(d)

-----------------------------------------------------------------------------
(* What the documentation says and the code does not do *)

\* webhooks.controller.ts: "The previous secret stops working immediately."
\* When deliver() sets out to sign and POST, it uses the secret stored then.
PreviousSecretStops ==
  [][\A t \in Ticks : pc[t] = "loop" /\ pc'[t] = "post" =>
       LET delivery == Head(batch[t]) IN
       Exists(delivery.id) => delivery.secret = secret[delivery.id[2]]]_vars

\* webhooks.controller.ts: resend "resets a delivery to pending with an
\* immediate next-attempt so the worker resends it on the next tick".  A row
\* is not success again before an attempt made after the resend.
ResendIsServed ==
  \A d \in unserved : status[d] # "success"

\* webhook-dispatcher.service.ts: "turns each event into pending
\* `WebhookDelivery` rows (one per matching webhook)".  An event that matched
\* is not over with a matching webhook still there and without a row for it.
RowPerMatch ==
  \A e \in Events : dispatch[e] = "dropped" => \A w \in matches[e] : ~Live(w)

-----------------------------------------------------------------------------
(* The outbox implements its promise.  A row that is not there was either   *)
(* never queued or cancelled with its webhook.                              *)

\* The row was inserted, whether or not it is still there.
Queued(d) == dispatch[d[1]] = "stored" /\ d[2] \in matches[d[1]]

PromiseOf(d) ==
  CASE Open(d)               -> "owed"
    [] status[d] = "success" -> "delivered"
    [] status[d] = "dead"    -> "givenUp"
    [] status[d] = "none"    ->
         IF Queued(d) THEN "cancelled" ELSE "none"

PromiseState == [d \in Deliveries |-> PromiseOf(d)]

Promise == INSTANCE WebhookPromise WITH state <- PromiseState, accepted <- accepted

\* Every step of the outbox is a step of the promise or leaves it unchanged.
KeepsPromise == Promise!Spec

-----------------------------------------------------------------------------
(* The inductive invariant behind the theorems of WebhookOutbox_proofs.     *)

\* A tick holds rows exactly between its query and its end.
BatchShape ==
  \A t \in Ticks : pc[t] \in {"idle", "query"} <=> batch[t] = <<>>

\* The rows of a batch are distinct and were stored by their event, so that a
\* row deleted meanwhile cannot come back.
BatchRows ==
  \A t \in Ticks : \A i \in 1..Len(batch[t]) :
    /\ Queued(batch[t][i].id)
    /\ \A j \in 1..Len(batch[t]) : batch[t][i].id = batch[t][j].id => i = j

MatchesKnown == \A e \in Events : \A w \in matches[e] : hook[w] # "absent"

DueRowsOpen == \A d \in due : Open(d)

\* A success is about to be recorded only for a row the target has taken.
SettlesAccepted ==
  \A t \in Ticks : pc[t] = "settle" => batch[t][1].id \in accepted

\* A row that is open has an attempt left for each manual resend it got.
BudgetLeft ==
  \A d \in Deliveries :
    /\ attempts[d] <= MAX_ATTEMPTS + resent[d]
    /\ Open(d) => attempts[d] < MAX_ATTEMPTS + resent[d]
    /\ ~Exists(d) => attempts[d] = 0

InFlight(d) ==
  \E t \in Ticks : pc[t] \in {"post", "settle", "fail"} /\ batch[t][1].id = d

\* A POST is counted, in flight, or was cut off by a crash or a fault.
PostsCounted ==
  \A d \in Deliveries :
    /\ dispatch[d[1]] # "stored" => posts[d] = 0
    /\ Exists(d) => posts[d] <= attempts[d] + crashes + faults
                                  + (IF InFlight(d) THEN 1 ELSE 0)

IInv ==
  /\ TypeOK /\ OneLoop /\ BatchShape /\ BatchRows /\ CopiesCurrent
  /\ MatchesKnown /\ QueuedForAllOrNone /\ DueRowsOpen
  /\ SettlesAccepted /\ SuccessWasAccepted
  /\ GivenUpOnlyWhenExhausted /\ BudgetLeft /\ PostsCounted
=============================================================================
