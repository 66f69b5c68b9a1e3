# Flux API in TLA+

TLA+ models of Flux API, a NestJS gateway that runs Telegram accounts as
*instances*, stores what they receive and forwards it to *webhooks*. The models
follow the TypeScript sources; TLC checks them on small instances, and TLAPS
proves every safety property the passing runs check for every value of the
constants.

    tlc -workers 2 -config WebhookOutbox_safety.cfg MCWebhookOutbox.tla
    tlc -workers 2 -config InstanceLifecycle_races.cfg MCInstanceLifecycle.tla
    tlc -workers 2 -config PhoneLogin_calls.cfg MCPhoneLogin.tla
    tlc -workers 2 -config MessageSync_store.cfg MCMessageSync.tla
    tlc -workers 2 -config UserAdmin_accounts.cfg MCUserAdmin.tla
    tlc -workers 2 -config Dashboard_pages.cfg MCDashboard.tla
    tlapm WebhookOutbox_proofs.tla
    tlapm WebhookPromise_proofs.tla
    tlapm InstanceLifecycle_proofs.tla
    tlapm PhoneLogin_proofs.tla
    tlapm MessageSync_proofs.tla
    tlapm UserAdmin_proofs.tla
    tlapm Session_proofs.tla
    tlapm Dashboard_proofs.tla

`PROJECT.json` lists the runs, the lines every definition models, the hazards
and the theorems.

## The system

One Node process talks to PostgreSQL (through Prisma), Redis and Telegram
(through the GramJS library). All concurrency is cooperative: code runs to the
next `await`, and at every `await` any other request, timer or callback may run.
Nothing is shared between processes and there is no lock; what protects a piece
of state is a flag, a map entry or the order of two statements.

| Component | State | Operations | Hard part |
| --- | --- | --- | --- |
| Webhook outbox: `WebhookDispatcher`, `WebhookDeliveryWorker`, `WebhooksService` | rows of `Webhook` and `WebhookDelivery`; the worker's `running` flag and its batch | event to rows; `tick()` every 5 s: query due rows, POST, record; create, update, delete, rotate secret, link, resend | the worker computes updates from copies read up to 20 POSTs earlier; crash between POST and update; foreign key against a concurrent deletion |
| `TelegramManager`, lifecycle of an instance | maps of clients, timers, subscriptions; `sessionLostBusy`; the row's status; the session in Redis | stop, remove, start, restore at boot, QR login, health check, error report | everything is keyed by instance id and survives the client it was meant for; statements that throw in handlers nobody awaits |
| Phone login and 2FA prompts | maps of pending codes, passwords, steps, transient clients | start, submit code, submit password, cancel | an older attempt's `catch` and `finally` clear the entries of a newer one |
| Message synchronization | chat, contact and message rows, the incoming stream | backfill, realtime events, history pages, sends | the same row written from four sources in any order |
| Event bus | none (a synchronous Subject) | publish | events not yet stored are lost with the process |
| Users, authentication, seed | user rows and roles | register, set role, edit, delete, seed an administrator | two administrators at a time; crash between two statements of the seed |
| Authorization, API-key and JWT guards | none | decide on a copy of the user's row | the copy is stale when the handler acts |
| Runtime configuration | `secrets.json`, environment | resolve, generate, persist | crash while the file is written; sessions that no longer decrypt |
| Container boot chain | s6 services, data volume | start in dependency order, migrate, boot, seed | services start side by side and die at any step |
| Engines, session store, settings | Redis keys, settings rows | adapters to libraries | a library's answer taken for more than it says |
| Dashboard: session and router | cookie, `localStorage`, the store of `auth.ts`, the page | init, log in, unlock, log out, navigate | the guard decides on a store that changes while the page loads |
| Dashboard: login dialogue, chat page, webhooks page | refs that outlive a dialogue or a selection; an `EventSource` | click, call, stream | an answer meets another dialogue, chat or form than the one that asked |

How they interact: a Telegram update enters through the subscription of an
instance's client, is stored by the synchronization, published on the bus,
matched to webhooks by the dispatcher, and delivered by the worker. The lifecycle
decides which client, if any, has a subscription. Status changes of the lifecycle
are published on the same bus. The dashboard calls the same API: its login dialogue
drives the phone and QR logins, its chat page reads pages and the message stream of
the synchronization, its webhooks page edits what the dispatcher matches.

What makes each component correct:

- outbox: an event is queued for all its webhooks or none, a queued delivery
  settles, nothing is called delivered that was not, retries are neither lost nor
  unbounded;
- lifecycle: one client feeds events, a live client is watched, a lost session is
  noticed and cleaned up once, a good session is not thrown away;
- phone login: each prompt belongs to one attempt, a caller is always answered;
- synchronization: no older text over a newer one, no event before its row;
- users and seed: an administrator is left, the seed promotes what it creates;
- configuration and boot: secrets survive a crash, no API starts before its schema;
- dashboard: a page behind the layout belongs to a session, and what a page shows is
  about the thing it says it is about, in whatever order answers come.

## Modules

| Module | What it is |
| --- | --- |
| `WebhookOutbox` | dispatcher, worker and the operations of `WebhooksService` on one database |
| `WebhookPromise` | what the outbox promises to a webhook's owner, with no worker in it |
| `WebhookOutbox_proofs`, `WebhookPromise_proofs` | theorems about both |
| `InstanceLifecycle` | `TelegramManager` for one instance |
| `InstanceLifecycle_proofs` | theorems about it |
| `PhoneLogin`, `PhoneLogin_proofs` | the phone login of one instance, with a QR login beside it |
| `MessageSync`, `MessageSync_proofs` | the messages of one chat: backfill, events, history pages, sends |
| `BootChain` | the container and the API process from power-on to listening, with the seed |
| `UserAdmin` | extends `BootChain`: administrators at work on the users it seeds |
| `UserAdmin_proofs` | theorems about both |
| `Session`, `LoginDialog`, `ChatPage`, `WebhooksPage` | the session of a dashboard tab, and its three busiest pages |
| `Dashboard` | composes the four: one of them moves, the others stand still |
| `Session_proofs`, `Dashboard_proofs` | the invariant of the session, and the theorems about all four |
| `MCWebhookOutbox`, `MCInstanceLifecycle`, `MCPhoneLogin`, `MCMessageSync`, `MCUserAdmin`, `MCDashboard` | instances for TLC; the constants are in the `.cfg` files |

In every module a variable is a piece of the program's state, an action is the
code between two `await`s, and its guard is the code's condition. Names follow
the source. An operator called `Name_Variant` under a "Mutant" comment is a
broken version of `Name`, used to confirm that the properties can fail; no
specification uses it.

### WebhookOutbox

State: the webhooks (`hook`, `linked`, `secret`), the delivery rows (`status`,
`attempts`, `lastError`, which are due and in what order), the dispatcher's
progress per event, the worker's flag `running`, and for every invocation of
`tick()` where it is (`pc`) and the rows it still holds (`batch`). `posts`,
`accepted`, `resent` and `unserved` are history: they record what a target saw
and what the owner asked for.

- `Match`, `InsertRows`, `InsertRefused`, `DispatchFault` are `onEvent`: the
  query for matching webhooks and, after an `await`, one `createMany`, which the
  foreign key refuses as a whole if a matched webhook has gone.
- `Tick` to `TickThrows` are `tick()`, `deliver()` and `fail()`, statement by
  statement. A row's copy (`SnapshotOf`) is what `findMany` returned; every update
  is computed from the copy, as in the code.
- `CreateWebhook`, `SetActive`, `SetSubscription`, `RegenerateSecret`,
  `RemoveWebhooks`, `Resend` are the service. `RemoveWebhooks` takes a set because
  deleting a user cascades to all the webhooks of that user.
- Time is the set `due`: `BackoffElapses` makes a row due. The lengths of the
  delays play no part.
- `CrashRestart` empties the memory and keeps the rows. `DatabaseFault` is a
  statement that throws for a reason that passes.

Abstracted: payloads, signatures other than which secret was used, the text of
errors (only whether it is the "inactive" one), HTTP status codes (accepted or
not), the URL check (a refused URL is a failed attempt).

### WebhookPromise

A delivery is not queued, owed, delivered, given up or cancelled. It is called
delivered only after the target took it, and it is owed again only by a resend.
`WebhookOutbox` maps its rows to these states (`PromiseOf`) and has `Promise!Spec` as a
property (`KeepsPromise`), which is also proved.

### InstanceLifecycle

State: the row (`row`), the saved session (`saved`, a key or none), what Telegram
issued and still accepts (`issued`, `valid`), clients with a connection and the
key of each (`open`, `keyOf`), and the manager's memory: the entry of `clients`
(`live`), of `healthTimers` (`watched`), of `unsubscribers` (`listener`), the
subscriptions that deliver (`subs`), `sessionLostBusy` (`busy`). The maps are
keyed by instance id and no handler touches another id, so one instance is
modelled and each map is a variable.

`task[h]` is what handler `h` does: whose code (`op`), at which `await` (`pc`),
with which client and key in its local variables.

- `Detach` is `detach()` to its `await`, `DetachDone` the rest, which removes the
  entry whatever it is by then.
- `SessionLost`, `LostSession`, `LostRow` are `handleSessionLost`; `LostThrows` is
  its exception, which reaches a different place for every caller: an unhandled
  rejection (health check, error report), a failed request, or the `catch` of
  `restore()`.
- `Load` to `UndoRow` are `restore()`, called by `startInstance` or at boot.
- `Login` to `FailRow` are `runQrLogin` and `finishLogin`.
- `ProcessDies` is the end and restart of the process: Node ends on an unhandled
  rejection by default. `CrashRestart` is the same for any other reason.
- `DeleteOwner` is the cascade of deleting the owner, of which the manager hears
  nothing.

Merged: reads that nothing can change between (the configuration of a connect);
the disconnect of a client no map holds with the step that follows it.

Assumed of the library: a connection that works answers truthfully whether its
key is accepted. On a closed connection or a failing request `isAuthorized` may
answer anything or throw, and the model has both.

`onModuleDestroy` is left out: `main.ts` does not enable shutdown hooks, so a
signal does not run it, and a stop of the process is `CrashRestart`.

### PhoneLogin

State: for every attempt (a run of `runPhoneLogin` or `runQrLogin`) the `await` it is
at and whether its client is connected; the five maps that attempts and requests
share, each a variable with the one entry this instance has (`codeSent`,
`codePrompt`, `passwordPrompt`, `phoneClient`, `stepWaiter`); and who still waits for
an answer (`caller`, `waiting`).

- `StartPhone` is `startPhoneLogin` with the `cancelPhoneLogin` it begins with, which
  leaves `pendingPasswords` alone and can disconnect only a client that is in its map.
- `Connect` to `AuthorizedRow` are the attempt and the callbacks the library runs in
  it; `FailRow`, `FailEnd` its `catch`, `Finally` its `finally`, which clear the maps
  whoever's entries are in them.
- `LateRow` is the update nobody awaits (`awaiting_code`); its rejection ends the
  process (`ProcessDies`).
- `SubmitCode`, `SubmitPassword` are the requests.

`overlapped` records that an attempt began while another could still act. `OwnCaller`
and `CallersAnswered` say nothing from then on, because the code then does mix the
attempts up; `PromptsAreLive` and `FailedLeavesNothing` hold all the same. What `finishLogin` does to
the session and the live clients is in `InstanceLifecycle`.

### MessageSync

State: what Telegram has (`tg`), the rows (`chat`, `rows`, `text`, `lastAt`), and for
every job the statement it is at and the copies it still has to store. A job is the
backfill, an event or a send, or the reader that asks for pages. A message is its
place in the chat, which is also its date.

- `NewMessage`, `EditMessage`, `Send`, `Authorize` and `Pull` hand copies to a job;
  `UpsertChat`, `SenderOf`, `UpsertMessage`, `Touch` are the statements that store
  one, each of which may fail; a field that is `undefined` in an upsert leaves the
  column alone (`Merge`).
- `OpenChat`, `NextPage`, `Pull`, `Page` are `listMessages`, with its pull of recent
  history before the first page and of older history at the end of the store.
- `RemoveInstance` is the cascade.

The ghost `raced` marks a message two jobs held copies of at once. The last writer of
such a row wins, whichever copy was newer, and `QuietIsFresh` leaves those rows out.

### BootChain and UserAdmin

State: what s6 has started, whether PostgreSQL accepts connections and has the
schema, the secrets file, the environment, where the API process is between its first
line and listening, and the table of users. A secret is a number, so a regenerated one
differs from the one before.

- `Start`, `Accept` are s6 and its dependency files; `Load`, `Truncate`, `Write` the
  runtime bootstrap, whose write may be cut in two; `Count` to `Promote` the seed,
  one statement each.
- `Die` takes the API or the whole container at any step; `ChangeEnvironment` is the
  operator.
- `UserAdmin` adds requests. `Arrive` is the guards, which read the user's row;
  `RegisterFind` to `Remove` act later, on that copy (`stale` records that its user
  lost the role meanwhile, `staleActs` that such a request put out an admin).

### Dashboard

The pages share no state, so `Dashboard` follows one of four views of a tab at a
time. In each a call is a record that says what was asked, and, where the server
keeps state, what it answered; it outlives the dialogue, chat or form that made it.

- `Session`: `init`, `login`, `submitApiKey`, `logout` of the store, statement by
  statement; `Guard` is the router's `beforeEach`, `Push`, `Load`, `Arrived` the
  navigation with its asynchronous page. The server is `Verdicts`, with keys that rotate
  and cookies that expire.
- `LoginDialog`: the phases of the dialogue, its four forms and the `EventSource` of
  a QR login. The server may answer anything PhoneLogin could.
- `ChatPage`: the selected chat, pages answered in any order, the stream. The
  server's pages are those of `MessageSync` without its faults.
- `WebhooksPage`: the list and the form. A save is three awaits, the second one a
  `Promise.all`; `linkInstance`, `unlinkInstance` and `create` of the service store
  what the calls carry.

History variables mark the situations in which the pages are known to be wrong (see
below), and the properties are about everything else. Where the code starts afresh the
mark does too: `strayed` is lowered when a dialogue opens, and `earlier` says which
streams it does not answer for; `crossed`, the chats a late answer brought in, is
emptied when a chat is selected. `overlapped`, `stranded`, `blind`, `clean` and
`touched` belong to the session and to the form.

## Runs

Each run is small enough for a laptop (at most about three minutes with two
workers).

| Run | Question | Bounds, and why they are enough |
| --- | --- | --- |
| `outbox_safety` | Does the worker ever overlap itself, work from stale copies, miscount attempts or leave an event half queued, and is every step one of the promise? | one event, two webhooks, two ticks, a resend per row, a crash. Two rows are needed for a batch and a foreign key that refuses several rows; two ticks for an overlap |
| `outbox_live` | Does every row settle, also one that was sent again, and does none starve? | two rows competing for a batch of one, with deletions and a crash; beside it either a resend of each row, in any status, also with its attempts used up, or a failing statement and a rotation |
| `outbox_lost_match` | Documented behaviour the code does not have (see below) | the smallest instance that shows it |
| `lifecycle_races` | One listener, live clients watched, one cleanup at a time, at every interleaving? | two calls and one health check at once, two clients, two keys (a login over a login); a statement fails because the row is gone, passing faults are in `lifecycle_live` (and the proofs allow any number) |
| `lifecycle_quiet` | Is the memory consistent whenever nothing runs? | one call at a time, no failure, three clients, two crashes |
| `lifecycle_live` | Is a revoked session noticed, is the flag always lowered? | one call and one health check, one failure; with no symmetry |
| `lifecycle_restart` | Documented behaviour the code does not have | one call |
| `phone_calls` | Do prompts, clients and answers stay with their attempt, and is every caller answered? | two phone logins and a QR login, one request at a time, one fault, the removal of the instance: two attempts of one kind and one of the other is what it takes for an entry to belong to somebody else |
| `sync_store` | Do four sources that write the same rows keep keys, dates, texts and pages right? | two messages, one event or send beside the backfill and the reader, one edit or one fault: a row needs one writer more than a job to race, and a walk two pages |
| `sync_history` | Does "load more" reach all of the history? | three messages, pages of one: one stored before the absence, two during it |
| `accounts` | Does an administrator remain, do secrets stay, does the seed keep its hands off? | three lives of the container: two deaths and a change of the environment with no request; one death, one fault and requests one by one; two requests at a time and no mishap. Three ids allow two admins and a registration |
| `dashboard` | Does a page show what it says it shows? | two calls of each kind at once; two dialogues and streams; two chats with four messages, pages of one; two webhooks, two instances, two saves; two keys and two troubles |

The cfg of `dashboard` gives model values of one set to the constants of several
views (`Ids`, `TabCalls`, `ChatCalls`, `ListCalls`; `Chats`, `Hooks`), so that one
permutation serves all: no view reads the constants of another. One load of the tab is
enough because the initial states have every cookie and stored key a load may find.

Deadlock is checked in the outbox runs. It is off in the others, where the system may
stop: clients, keys, attempts, messages and dialogues are bounded pools, an instance
that was removed has nothing left to do, and a user need not click.

Named bounds: `MaxCrashes`, `MaxFaults`, `Clients`, `Keys`, `Calls`, `Timers`, `Ticks`;
`Requests`, `Phones`, `Qrs`; `N`, `MaxMishaps`, `PullLimit`, `PageSize`; `TabCalls`,
`MaxLoads`, `MaxTroubles`, `MaxDialogues`, `MaxStreams`, `MaxMessages`, `PageLen`,
`ChatCalls`, `ListCalls`, `MaxSaves`, `MaxToggles`; and `Bounds` of `WebhookOutbox` and
`BootChain`, which every behaviour chooses from, so that a long life and a busy one, or
resends and faults, are not multiplied. Crashes and faults do not change what a step
does, only how often it may go wrong, and the proofs hold for every value of them.

### Fairness

- Outbox: `setInterval` calls `tick()` for as long as the process lives, and every
  `await` of the worker and the dispatcher ends (each POST has a timeout of 10 s),
  so their steps are weakly fair; a backoff is a point in time that comes. The API
  and the targets owe nothing: a target may refuse for ever.
- Lifecycle: statements and requests end, and `setInterval` keeps firing while the
  timer is there. Users need not answer a login, Telegram need not revoke, a
  request may take for ever, and logging in is never forced.
- Phone login: every statement ends, a request to Telegram on a connected client is
  answered, a password prompt and a code prompt wait for ever. A QR code may never be
  scanned, so a QR login owes no step while it waits for Telegram.
- The other modules have safety properties only: what they would need to progress is a
  user who clicks or a server that answers.

## Where the code and its documentation differ

Each of these is a run TLC stops at with a trace.

1. `outbox_lost_match`: deleting one of several matching webhooks between the query
   and the insert loses the event for the others.
2. `lifecycle_restart`: "authorized accounts survive restarts", but any error while
   an instance is restored at boot deletes its session.
3. `sync_history`: "load more walks back through real history", but messages that
   arrived while the instance was offline leave a hole in the store, and the walk
   steps over it.

These formulas state what a text of the repository says and are in the modules, with
no run; TLC finds each violated when it is added to the run named.

| Formula | Run | Text | What happens |
| --- | --- | --- | --- |
| `PreviousSecretStops` | `outbox_safety` with a rotation | `webhooks.controller.ts:118` | a batch signs with the secret read at its start |
| `ResendIsServed` | `outbox_safety` | `webhooks.controller.ts:190` | a resend of a row whose POST is in flight is overwritten by that POST's success |
| `ClearsInvalidOnly` | `lifecycle_races` | `telegram.manager.ts:297` | `handleSessionLost` acts on an id: started because of an old client, it deletes the session a login saved meanwhile |
| `RemovedForGood` | `lifecycle_races` | `telegram.controller.ts:194` | a login accepted after the instance was deleted stores its session again |
| `ResolvesWhenDispatched` | `phone_calls` | `telegram.manager.ts:379` | an older attempt's `finally` deletes the entry that would answer the newer caller |
| `OwnRoleNeverChanges` | `accounts` | `users.controller.ts:67` | an edit of one's own account that names the role one has, landing after somebody else's demotion, restores the role |
| `UnlockedHasValidKey` | `dashboard` | `auth.ts:17` | a stored key is not validated when nobody is logged in at startup |
| `AnySaveMatchesForm` | `dashboard` | `Webhooks.vue:139` | after a save that failed half way the retry computes from the old copy |

The models also reach these states, which no text rules out and the properties leave
out by name:

- lifecycle: when the update to `authorized` fails after `attach()`, the client is
  disconnected but stays in the map and is counted as connected; when the row has
  gone, the `catch` of `runQrLogin` throws and the stream ends with no verdict; a crash
  between `deleteSession` and the status leaves a row that says authorized;
- phone login: an older attempt's end clears the maps of a newer one (`overlapped`);
  its late update to `awaiting_code` may land after the status that follows it;
- synchronization: a copy read before an edit writes the older text over the newer
  (`raced`); an edit that takes the text away is not stored; events may be published
  in another order than they happened;
- accounts: a seed without explicit credentials that dies between `register` and
  `setRole` leaves a user nobody promotes, and one whose statement fails may leave no
  admin (`seedCut`, until a seed goes through); a later write of the secrets file cut in
  two regenerates every secret the operator did not give (`excused`); two requests that
  act after their users lost the role can put out the last admin (`staleActs`);
- dashboard: an answer that meets another dialogue can show a form nothing was sent for,
  or send the login to the wrong instance, until a dialogue is opened again
  (`strayed`), and a stream opened after the page was left stays open; a
  page of a chat that was left replaces the messages of the chat in the header, until
  a chat is selected again (`crossed`); a failed logout empties the store and stays on the page (`stranded`);
  a key whose check is answered after the logout is stored again; a form changed or
  reopened while it is saved is stored half old, half new (`touched`), and one that
  is opened for a new webhook during the save of another fails it.

## Proofs

Every safety property of the passing runs is a theorem; `PROJECT.json` pairs them.
The proofs assume the named assumption of each module and nothing else:

- the bounds are naturals, a batch and a page have a row or more, a pull a message or
  more (`ConstantsAssumption`, `LifecycleAssumption`, `PhoneAssumption`,
  `SyncAssumption`, `ChatPageAssumption`, `DialogueAssumption`, `SessionAssumption`,
  `WebhooksAssumption`, `BootAssumption`, `BoundsAssumption`);
- sets of processes do not overlap, and a null value (`NoClient`, `Nobody`, `"none"`,
  id 0) is not a member of the set it is the null of;
- the name the seed uses is a name.

Nothing is assumed of the sets' sizes; none need be finite. `QuietStaysConsistent`
has three hypotheses of its own (below).

**Outbox.** The properties are not inductive alone. `IInv` adds:

- `BatchShape`: a tick holds rows exactly between its query and its end; with
  `OneLoop`, one tick at most holds any;
- `BatchRows`: the rows of a batch are distinct and were queued by their event, so
  handling one does not touch the copies of the others (this gives
  `CopiesCurrent`) and a deleted row cannot come back under a copy;
- `MatchesKnown`, `DueRowsOpen`, `SettlesAccepted`: what the rows of an event, of
  `due` and of an accepted POST have in common;
- `BudgetLeft`: an open row has an attempt left for every resend, which bounds
  `attempts`;
- `PostsCounted`: a POST is counted by an attempt, in flight, or was cut off by a
  crash or a fault.

`BudgetLeft` and `PostsCounted` together give `CopiesBounded`. Proved of `Spec`:
`TypeOK`, `OneLoop`, `CopiesCurrent`, `QueuedForAllOrNone`, `SuccessWasAccepted`,
`GivenUpOnlyWhenExhausted`, `CopiesBounded`, the action property
`OnlyResendReopens`, and `KeepsPromise`: `Init` maps to `Promise!Init`, and under
`IInv` every step maps to a step of the promise or to none.

**Lifecycle.** `IInv` adds `Roles`: which code can be at which `await`, and where
a handler has a client. Without it `handleSessionLost` could start from a `stop`,
and `save` could store the key of no client. The proof sorts the steps into ten
kinds by what they do to the manager's memory (`Effect`), shows that every action
is of one kind (`NextEffect`), and shows once per kind that the invariants hold
afterwards (`MemoryNext`). Proved: `TypeOK`, `LiveIsWatched`, `OneListener`,
`LostExclusive`.

`QuietIsConsistent` is false when handlers overlap or a statement fails (see above),
so `QuietStaysConsistent` proves it for one call at a time, no health check and no
passing fault, with any number of clients, keys, revocations and crashes; the run
`lifecycle_quiet` has the same hypotheses. Beside `IInv` it needs `QuietInv`: at most
one handler is at work, and `Story` says what it still owes. A detach has left no
client in the map, a restore begins without one and knows the saved key, and a login's
client is not the one in the map until it is attached. A row that has gone meanwhile
cannot interrupt a login or a restore here, because nothing else runs.

**Phone login.** `Alone` says that while logins follow one another one attempt can
act, the busy one or the one whose code prompt is in the map. With it, `CallerAhead`
(the caller in the map belongs to an attempt before its code) gives `OwnCaller`.
`Disconnected` (the `catch` disconnects before it clears the maps) gives
`FailedLeavesNothing`, and that needs no order of the logins: `FailEnd` clears the
maps whoever's entries are in them. `NobodyForgotten`, proved with `ClientLive` and
`WaitingIsWorkedFor`, is the safety that the liveness property `CallersAnswered`
rests on: whoever waits is in the map its answer is looked up in.

**Messages.** `IInv` adds `JobsSound` (which job holds which copies at which
statement), `ChatFirst` (a job works on messages of a chat that has its row, which
gives `NoForeignKeyRefused`), `RaceSeen` (two jobs with copies of one message are on
record), `TextKept` (where the newest text of a message nobody races for is: in its
row, or in the one copy on its way there) and `WalkAhead` (what the walk has not
shown of the store it began with is still there, below its cursor and in the page it
may end on). The paging lemmas (`Newest`, `Oldest`, `Newer`) are proved with the
theorems about cardinalities, not by induction.

**Boot and users.** `InOrder` follows the dependency files from service to service and
gives `ApiAfterSchema`. `SecretsKept` says where a generated secret is while the file
is rewritten. `SeedRow` and `SeedAlone` say what a seed past its count may rely on.
`Requested` says what is true of a request that passed the guards: they read its user
as an admin, its own removal or another role for itself was refused, and unless it is
`stale` the user is an admin still. This gives `OwnRoleKept`, which holds of late
requests too: a late one can only give back the role the guards read. `AdminKept` is
`AdminSurvives` for the time before the API listens, a seed that died at any statement
included: with explicit credentials the next one finds or makes its row, without them
it died before there was a row, or at `setRole`, which is the one death excused. The
action properties `SecretsStable`, `SeedLeavesManaged` and `OwnRoleKept` follow from
the same invariant.

**Dashboard.** The four views share no variable, so the invariant is the conjunction of
four, and each is kept by the steps of its view. `SessionInv` says what each handler of
the store waits for and what it was answered. `LoginInv` adds, whatever
strays, that one creation is under way at a time (`CreatesOnce`) and that later logins
have an instance (`Named`), so that a new dialogue starts from nothing of an earlier one;
and for a dialogue nothing strayed into, that its calls are answered in the phase they
were made in (`CallsSound`), which streams are its own (`StreamSound`) and what each
phase knows (`PhaseSound`). `ChatInv` adds that every answer holds messages of its chat,
each once (`AnswerSound`). `HooksInv` adds that a save that is let alone has linked what is
ticked but for the calls under way (`SaveSound`).

Every inductive invariant was first checked by TLC on the bounds of the runs.

Only model-checked: liveness (`EveryRowSettles`, `RevokedIsNoticed`,
`LosingEnds`, `CallersAnswered`), because the prover's backends treat neither fairness
nor `ENABLED`; and the violations, which are traces.

## Plan

1. `WebhookOutbox`, `WebhookPromise`: modelled, checked, proved.
2. `InstanceLifecycle`: modelled, checked, safety proved.
3. `PhoneLogin`, `MessageSync`, `BootChain` with `UserAdmin`, and the dashboard's
   session, dialogue, chat page and webhooks form: modelled, checked, safety proved.
4. To come: the safety each remaining liveness property rests on, as `NobodyForgotten`
   is for the phone login: an open row of the outbox is queued, due or waits for its
   backoff; a raised `sessionLostBusy` has a handler that can lower it.
5. Pure decisions not modelled yet: the permission table and the classification of
   webhook URLs.

## Not modelled

- Message and media normalization in the GramJS adapter, DTO validation and routing,
  OpenAPI, logging, translations and page layout, the CI and release files: data
  shaping and I/O with no state to check.
- AES-GCM, HMAC, JWT and password hashing are libraries. Redis and PostgreSQL are
  taken to execute each statement atomically.
- The URL guard and the permission table: functions of their arguments, better
  served by the tests beside them; the outbox has a refused URL as a failed attempt.
- Two concurrent patches of a webhook, each validated against the `allowInternal` the
  other is about to change (`webhooks.service.ts:131`), and the two statements of the
  Telegram credentials: the columns are not in the models.
- A PostgreSQL that dies on its own: in the model the API dies alone or everything dies,
  so `ApiAfterSchema` is about start-up, in every life of the container.
- Of the dashboard: the list of instances with its status stream and the info panel
  (`Instances.vue:204`, whose timer may be set after the panel was closed), the secret and
  the deliveries of a webhook, users (an edit sends the whole row, so the last of two
  administrators wins) and settings; other tabs, which share the cookie and the key.
