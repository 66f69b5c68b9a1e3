-------------------------- MODULE InstanceLifecycle --------------------------
(***************************************************************************)
(* TelegramManager (telegram.manager.ts): the life of one instance.  The   *)
(* manager's maps, the instance row, the saved session and the handlers    *)
(* that change them: stop, remove, start, QR login, the health check,      *)
(* errors reported by messaging, the restore at boot, crashes.             *)
(*                                                                         *)
(* The maps are keyed by instance id and a handler touches its own id      *)
(* only, so one instance is modelled and a map is a variable.  Handlers    *)
(* run concurrently: every `await` of the code is a point where another    *)
(* one may run, and a handler is one action per stretch between two.       *)
(***************************************************************************)
EXTENDS Naturals, FiniteSets

CONSTANTS
  Calls,        \* API calls that may be in progress at the same time
  Timers,       \* health checks that may be in progress at the same time
  Boot,         \* onApplicationBootstrap
  Clients,      \* bound: engine clients that can be open at the same time
  Keys,         \* bound: auth keys Telegram issues, one per completed login
  NoClient, NoKey,
  MaxFaults,    \* bound: statements or requests that fail for a passing reason
  MaxCrashes    \* bound: crashes not caused by the code itself

ASSUME LifecycleAssumption ==
  /\ Boot \notin Calls \cup Timers
  /\ Calls \cap Timers = {}
  /\ NoClient \notin Clients
  /\ NoKey \notin Keys
  /\ MaxFaults \in Nat
  /\ MaxCrashes \in Nat

Handlers == Calls \cup Timers \cup {Boot}

VARIABLES
  row,        \* Instance.status in PostgreSQL, "gone" when there is no row
  saved,      \* the auth key in Redis (TelegramSessionStore)
  issued,     \* auth keys Telegram has issued
  valid,      \* those it still accepts
  open,       \* engine clients with a connection
  keyOf,      \* keyOf[c]: the auth key client c speaks with
  live,       \* the entry of `clients`
  watched,    \* the entry of `healthTimers` is there
  listener,   \* the entry of TelegramSyncService.unsubscribers: whose events it stops
  subs,       \* clients with the event handler attached
  busy,       \* the instance is in sessionLostBusy
  task,       \* task[h]: what handler h is doing and where it is
  faults, crashes,
  removed     \* history: a removeInstance has completed

storeVars   == <<row, saved>>
tgVars      == <<issued, valid>>
wireVars    == <<open, keyOf>>
memoryVars  == <<live, watched, listener, subs, busy>>
budgetVars  == <<faults, crashes>>
vars == <<storeVars, tgVars, wireVars, memoryVars, task, budgetVars, removed>>

Statuses == {"new", "disconnected", "connecting", "awaiting_qr", "awaiting_code",
             "password_required", "authorized", "error"}

\* op: whose code runs; `start` becomes `restore` when it calls restore().
Ops == {"none", "stop", "remove", "start", "restore", "boot", "login", "health", "report"}

\* pc: the await the handler is at.
Places ==
  {"idle", "list", "detach", "stopRow", "removeRow", "removeSession", "look", "probe",
   "rpc", "lostSession", "lostRow", "load", "connect", "check", "me", "refuseSession",
   "refuseRow", "undoSession", "undoRow", "loginConnect", "loginRow", "scan", "prompt",
   "password", "save", "attach", "row", "sync", "failRow"}

Task == [op : Ops, pc : Places, client : Clients \cup {NoClient}, key : Keys \cup {NoKey}]

StoreTypes == row \in Statuses \cup {"gone"} /\ saved \in Keys \cup {NoKey}

TelegramTypes == issued \in SUBSET Keys /\ valid \in SUBSET issued

WireTypes == open \in SUBSET Clients /\ keyOf \in [Clients -> Keys \cup {NoKey}]

MemoryTypes ==
  /\ live \in Clients \cup {NoClient}
  /\ watched \in BOOLEAN
  /\ listener \in Clients \cup {NoClient}
  /\ subs \in SUBSET Clients
  /\ busy \in BOOLEAN

TaskTypes == task \in [Handlers -> Task]

BudgetTypes == faults \in 0..MaxFaults /\ crashes \in 0..MaxCrashes

HistoryTypes == removed \in BOOLEAN

\* Every variable stays within the values the schema and the code allow.
TypeOK ==
  StoreTypes /\ TelegramTypes /\ WireTypes /\ MemoryTypes /\ TaskTypes /\ BudgetTypes
  /\ HistoryTypes

Doing(o, l) == [op |-> o, pc |-> l, client |-> NoClient, key |-> NoKey]
Idle == Doing("none", "idle")

\* The instance has just been created (InstancesService.create).
Init ==
  /\ row = "new"
  /\ saved = NoKey
  /\ issued = {}
  /\ valid = {}
  /\ open = {}
  /\ keyOf = [c \in Clients |-> NoKey]
  /\ live = NoClient
  /\ watched = FALSE
  /\ listener = NoClient
  /\ subs = {}
  /\ busy = FALSE
  /\ task = [h \in Handlers |-> Idle]
  /\ faults = 0
  /\ crashes = 0
  /\ removed = FALSE

-----------------------------------------------------------------------------
(* Steps of a handler *)

At(h, l) == task[h].pc = l
Becomes(h, o, l, c, k) ==
  task' = [task EXCEPT ![h] = [op |-> o, pc |-> l, client |-> c, key |-> k]]
Goto(h, l) == task' = [task EXCEPT ![h].pc = l]
End(h)     == task' = [task EXCEPT ![h] = Idle]

\* A query, a Redis command or a Telegram request fails for a passing reason.
Fault   == faults < MaxFaults /\ faults' = faults + 1 /\ UNCHANGED crashes
NoFault == UNCHANGED budgetVars

\* prisma.instance.update throws when the row is gone, or on a fault.
RowThrows == IF row = "gone" THEN NoFault ELSE Fault

\* The process ends (a crash, or a promise rejection nobody handles) and is
\* started again: the stores stay, everything in memory goes.
ProcessDies ==
  /\ task' = [h \in Handlers |-> IF h = Boot THEN Doing("boot", "list") ELSE Idle]
  /\ open' = {}
  /\ keyOf' = [c \in Clients |-> NoKey]
  /\ live' = NoClient
  /\ watched' = FALSE
  /\ listener' = NoClient
  /\ subs' = {}
  /\ busy' = FALSE
  /\ UNCHANGED <<storeVars, tgVars, removed>>

\* Requests are served once every instance has been restored.
Up == task[Boot] = Idle

\* engine.connect: a client that is not in use gets a connection.
Unused(c) == c \notin open \cup {live, listener} /\ \A h \in Handlers : task[h].client # c
Connected(h, c, k, l) ==
  /\ Unused(c)
  /\ open' = open \cup {c}
  /\ keyOf' = [keyOf EXCEPT ![c] = k]
  /\ Becomes(h, task[h].op, l, c, task[h].key)

-----------------------------------------------------------------------------
(* detach, stopInstance, removeInstance *)

AfterDetach(o) ==
  CASE o = "stop" -> "stopRow" [] o = "remove" -> "removeRow" [] OTHER -> "lostSession"

\* detach() up to its await: health check and event subscription stop, the
\* client that is in the map now is told to disconnect.
Detach(h, o) ==
  /\ watched' = FALSE
  /\ listener' = NoClient
  /\ subs' = subs \ {listener}
  /\ open' = open \ {live}
  /\ Becomes(h, o, IF live = NoClient THEN AfterDetach(o) ELSE "detach",
             task[h].client, task[h].key)
  /\ UNCHANGED <<live, keyOf>>

\* Mutant: only the client that was disconnected is dropped, and the health
\* check is stopped last.
DetachDone_StopsTimerLast(h) ==
  /\ At(h, "detach")
  /\ live' = IF live \in open THEN live ELSE NoClient
  /\ watched' = FALSE
  /\ Goto(h, AfterDetach(task[h].op))
  /\ UNCHANGED <<listener, subs, busy, storeVars, tgVars, wireVars, budgetVars, removed>>

\* After the await: the entry of the map goes, whichever client it is by now.
DetachDone(h) ==
  /\ At(h, "detach")
  /\ live' = NoClient
  /\ Goto(h, AfterDetach(task[h].op))
  /\ UNCHANGED <<watched, listener, subs, busy, storeVars, tgVars, wireVars, budgetVars,
                 removed>>

Stop(h) ==
  /\ Up /\ At(h, "idle")
  /\ Detach(h, "stop")
  /\ UNCHANGED <<busy, storeVars, tgVars, budgetVars, removed>>

StopRow(h) ==
  /\ At(h, "stopRow")
  /\ \/ row # "gone" /\ row' = "disconnected" /\ NoFault
     \/ RowThrows /\ UNCHANGED row
  /\ End(h)
  /\ UNCHANGED <<saved, tgVars, wireVars, memoryVars, removed>>

Remove(h) ==
  /\ Up /\ At(h, "idle")
  /\ Detach(h, "remove")
  /\ UNCHANGED <<busy, storeVars, tgVars, budgetVars, removed>>

RemoveRow(h) ==
  /\ At(h, "removeRow")
  /\ \/ row # "gone" /\ row' = "gone" /\ Goto(h, "removeSession") /\ NoFault
     \/ RowThrows /\ End(h) /\ UNCHANGED row
  /\ UNCHANGED <<saved, tgVars, wireVars, memoryVars, removed>>

RemoveSession(h) ==
  /\ At(h, "removeSession")
  /\ \/ saved' = NoKey /\ removed' = TRUE /\ NoFault
     \/ Fault /\ UNCHANGED <<saved, removed>>
  /\ End(h)
  /\ UNCHANGED <<row, tgVars, wireVars, memoryVars>>

\* UsersService.remove: the foreign key cascades to the instance row; nothing
\* tells the manager.
DeleteOwner(h) ==
  /\ Up /\ At(h, "idle")
  /\ row # "gone"
  /\ row' = "gone"
  /\ UNCHANGED <<saved, tgVars, wireVars, memoryVars, task, budgetVars, removed>>

-----------------------------------------------------------------------------
(* handleSessionLost *)

\* Its rejection reaches the caller: nobody awaits the health check and the
\* report, startInstance answers the request, restore() catches it.
LostThrows(h) ==
  CASE task[h].op \in {"health", "report"} -> ProcessDies
    [] task[h].op = "start" ->
         End(h) /\ busy' = FALSE
         /\ UNCHANGED <<storeVars, wireVars, live, watched, listener, subs, removed>>
    [] task[h].op \in {"restore", "boot"} ->
         Goto(h, "undoSession") /\ busy' = FALSE
         /\ UNCHANGED <<storeVars, wireVars, live, watched, listener, subs, removed>>

\* startInstance goes on to restore(); for the others it is the end.
AfterLost(h) ==
  IF task[h].op = "start"
    THEN Becomes(h, "restore", "load", NoClient, NoKey)
    ELSE End(h)

\* Mutant: the check of sessionLostBusy is forgotten.
SessionLost_NoGuard(h) == busy' = TRUE /\ Detach(h, task[h].op)

\* The guard, the flag and the synchronous part of detach().
SessionLost(h) ==
  IF busy
    THEN AfterLost(h) /\ UNCHANGED <<memoryVars, wireVars>>
    ELSE busy' = TRUE /\ Detach(h, task[h].op)

LostSession(h) ==
  /\ At(h, "lostSession")
  /\ \/ /\ saved' = NoKey
        /\ Goto(h, "lostRow")
        /\ NoFault
        /\ UNCHANGED <<row, memoryVars, wireVars, removed>>
     \/ Fault /\ LostThrows(h)
  /\ UNCHANGED tgVars

\* Mutant: the flag is lowered on success only.
LostRow_NoFinally(h) ==
  /\ At(h, "lostRow")
  /\ \/ /\ row # "gone"
        /\ row' = "error"
        /\ busy' = FALSE
        /\ AfterLost(h)
        /\ NoFault
        /\ UNCHANGED <<saved, wireVars, live, watched, listener, subs, removed>>
     \/ RowThrows /\ End(h) /\ UNCHANGED <<storeVars, wireVars, memoryVars, removed>>
  /\ UNCHANGED tgVars

\* The update and, either way, the `finally` that lowers the flag.
LostRow(h) ==
  /\ At(h, "lostRow")
  /\ \/ /\ row # "gone"
        /\ row' = "error"
        /\ busy' = FALSE
        /\ AfterLost(h)
        /\ NoFault
        /\ UNCHANGED <<saved, wireVars, live, watched, listener, subs, removed>>
     \/ RowThrows /\ LostThrows(h)
  /\ UNCHANGED tgVars

-----------------------------------------------------------------------------
(* Finding out: startInstance, checkHealth, reportClientError *)

\* startInstance reads the row ...
Start(h) ==
  /\ Up /\ At(h, "idle")
  /\ row # "gone"
  /\ Becomes(h, "start", "look", NoClient, NoKey)
  /\ UNCHANGED <<storeVars, tgVars, wireVars, memoryVars, budgetVars, removed>>

\* ... and probes a live client; without one it goes on to restore().
Look(h) ==
  /\ At(h, "look")
  /\ IF live = NoClient
       THEN Becomes(h, "restore", "load", NoClient, NoKey)
       ELSE Becomes(h, "start", "probe", live, NoKey)
  /\ UNCHANGED <<storeVars, tgVars, wireVars, memoryVars, budgetVars, removed>>

\* The interval fires: probe the client, or stop the timer when there is none.
Health(h) ==
  /\ watched /\ At(h, "idle")
  /\ IF live = NoClient
       THEN watched' = FALSE /\ UNCHANGED task
       ELSE Becomes(h, "health", "probe", live, NoKey) /\ UNCHANGED watched
  /\ UNCHANGED <<live, listener, subs, busy, storeVars, tgVars, wireVars, budgetVars, removed>>

\* What the library answers for a connected client and no failing request is
\* the truth.  For a closed client, or when the request fails, it may say
\* "not authorized" or throw; an error that does not say "revoked" counts as
\* healthy.
ProbeHealthy(h) ==
  /\ At(h, "probe")
  /\ \/ keyOf[task[h].client] \in valid /\ task[h].client \in open /\ NoFault
     \/ task[h].client \notin open /\ NoFault
     \/ Fault
  /\ End(h)
  /\ UNCHANGED <<storeVars, tgVars, wireVars, memoryVars, removed>>

ProbeUnhealthy(h) ==
  /\ At(h, "probe")
  /\ \/ keyOf[task[h].client] \notin valid /\ NoFault
     \/ task[h].client \notin open /\ NoFault
     \/ Fault
  /\ SessionLost(h)
  /\ UNCHANGED <<storeVars, tgVars, removed>>

\* MessagingService: a request to Telegram through the live client ...
Request(h) ==
  /\ Up /\ At(h, "idle")
  /\ live # NoClient
  /\ Becomes(h, "report", "rpc", live, NoKey)
  /\ UNCHANGED <<storeVars, tgVars, wireVars, memoryVars, budgetVars, removed>>

\* ... which is answered, or fails without a word about the session ...
RequestEnds(h) ==
  /\ At(h, "rpc")
  /\ End(h)
  /\ UNCHANGED <<storeVars, tgVars, wireVars, memoryVars, budgetVars, removed>>

\* ... or is refused because the session was revoked: reportClientError.
RequestRevoked(h) ==
  /\ At(h, "rpc")
  /\ keyOf[task[h].client] \notin valid
  /\ SessionLost(h)
  /\ UNCHANGED <<storeVars, tgVars, budgetVars, removed>>

-----------------------------------------------------------------------------
(* restore: by startInstance, and at boot *)

\* onApplicationBootstrap lists the instances.
BootList ==
  /\ At(Boot, "list")
  /\ IF row = "gone" THEN End(Boot) ELSE Becomes(Boot, "boot", "load", NoClient, NoKey)
  /\ UNCHANGED <<storeVars, tgVars, wireVars, memoryVars, budgetVars, removed>>

\* What restore() throws fails the request or, at boot, the process.
RestoreThrows(h) ==
  IF h = Boot
    THEN ProcessDies
    ELSE End(h) /\ UNCHANGED <<storeVars, wireVars, memoryVars, removed>>

\* loadSession, outside the try.
Load(h) ==
  /\ At(h, "load")
  /\ \/ /\ IF saved = NoKey
             THEN End(h)
             ELSE Becomes(h, task[h].op, "connect", task[h].client, saved)
        /\ NoFault
        /\ UNCHANGED <<storeVars, wireVars, memoryVars, removed>>
     \/ Fault /\ RestoreThrows(h)
  /\ UNCHANGED tgVars

\* The catch of restore(), as far as its first await: disconnect.
RestoreFails(h) ==
  /\ Goto(h, "undoSession")
  /\ open' = open \ {task[h].client}
  /\ UNCHANGED keyOf

Connect(h) ==
  /\ At(h, "connect")
  /\ \/ \E c \in Clients : Connected(h, c, task[h].key, "check") /\ NoFault
     \/ Fault /\ RestoreFails(h)
  /\ UNCHANGED <<storeVars, tgVars, memoryVars, removed>>

\* isAuthorized.
Check(h) ==
  /\ At(h, "check")
  /\ \/ task[h].key \in valid /\ Goto(h, "me") /\ NoFault /\ UNCHANGED wireVars
     \/ /\ (task[h].key \notin valid /\ NoFault) \/ Fault
        /\ Goto(h, "refuseSession")
        /\ open' = open \ {task[h].client}
        /\ UNCHANGED keyOf
     \/ Fault /\ RestoreFails(h)
  /\ UNCHANGED <<storeVars, tgVars, memoryVars, removed>>

\* Mutant: the client enters the map without a health check.
Attach_Unwatched(c) == live' = c /\ UNCHANGED watched

\* attach(): the entry of the map is overwritten, the health check restarted.
Attach(c) == live' = c /\ watched' = TRUE

\* getMe answers: attach.
MeKnown(h) ==
  /\ At(h, "me")
  /\ task[h].key \in valid
  /\ Attach(task[h].client)
  /\ Goto(h, "row")
  /\ UNCHANGED <<listener, subs, busy, storeVars, tgVars, wireVars, budgetVars, removed>>

\* getMe asks isAuthorized again, and it says no: getMe answers null, and the
\* client is left as it is.
MeNull(h) ==
  /\ At(h, "me")
  /\ (task[h].key \notin valid /\ NoFault) \/ Fault
  /\ End(h)
  /\ UNCHANGED <<storeVars, tgVars, wireVars, memoryVars, removed>>

\* The same, but getMe fails with the revocation (the disconnect of the
\* client, which no map knows, and the start of handleSessionLost in one step).
MeRevoked(h) ==
  /\ At(h, "me")
  /\ task[h].key \notin valid
  /\ IF busy
       THEN /\ End(h)
            /\ open' = open \ {task[h].client}
            /\ UNCHANGED <<memoryVars, keyOf>>
       ELSE /\ busy' = TRUE
            /\ watched' = FALSE
            /\ listener' = NoClient
            /\ subs' = subs \ {listener}
            /\ open' = open \ {live, task[h].client}
            /\ Goto(h, IF live = NoClient THEN "lostSession" ELSE "detach")
            /\ UNCHANGED <<live, keyOf>>
  /\ UNCHANGED <<storeVars, tgVars, budgetVars, removed>>

MeFails(h) ==
  /\ At(h, "me")
  /\ Fault
  /\ RestoreFails(h)
  /\ UNCHANGED <<storeVars, tgVars, memoryVars, removed>>

\* The branch for a session that is no longer valid.
RefuseSession(h) ==
  /\ At(h, "refuseSession")
  /\ \/ saved' = NoKey /\ Goto(h, "refuseRow") /\ NoFault /\ UNCHANGED wireVars
     \/ Fault /\ RestoreFails(h) /\ UNCHANGED saved
  /\ UNCHANGED <<row, tgVars, memoryVars, removed>>

RefuseRow(h) ==
  /\ At(h, "refuseRow")
  /\ \/ row # "gone" /\ row' = "error" /\ End(h) /\ NoFault /\ UNCHANGED wireVars
     \/ RowThrows /\ RestoreFails(h) /\ UNCHANGED row
  /\ UNCHANGED <<saved, tgVars, memoryVars, removed>>

\* The catch, after the disconnect.
UndoSession(h) ==
  /\ At(h, "undoSession")
  /\ \/ /\ saved' = NoKey
        /\ Goto(h, "undoRow")
        /\ NoFault
        /\ UNCHANGED <<row, wireVars, memoryVars, removed>>
     \/ Fault /\ RestoreThrows(h)
  /\ UNCHANGED tgVars

UndoRow(h) ==
  /\ At(h, "undoRow")
  /\ \/ /\ row # "gone"
        /\ row' = "error"
        /\ End(h)
        /\ NoFault
        /\ UNCHANGED <<saved, wireVars, memoryVars, removed>>
     \/ RowThrows /\ RestoreThrows(h)
  /\ UNCHANGED tgVars

-----------------------------------------------------------------------------
(* runQrLogin and finishLogin *)

Login(h) ==
  /\ Up /\ At(h, "idle")
  /\ row # "gone"
  /\ Becomes(h, "login", "loginConnect", NoClient, NoKey)
  /\ UNCHANGED <<storeVars, tgVars, wireVars, memoryVars, budgetVars, removed>>

LoginConnect(h) ==
  /\ At(h, "loginConnect")
  /\ \/ \E c \in Clients : Connected(h, c, NoKey, "loginRow") /\ NoFault
     \/ Fault /\ Goto(h, "failRow") /\ UNCHANGED wireVars
  /\ UNCHANGED <<storeVars, tgVars, memoryVars, removed>>

\* A status update of the login; if it throws the catch takes over.
LoginUpdate(h, status, next) ==
  /\ \/ row # "gone" /\ row' = status /\ Goto(h, next) /\ NoFault
     \/ RowThrows /\ Goto(h, "failRow") /\ UNCHANGED row
  /\ UNCHANGED <<saved, tgVars, wireVars, memoryVars, removed>>

LoginRow(h) == At(h, "loginRow") /\ LoginUpdate(h, "awaiting_qr", "scan")

\* The account has a 2FA password: the callback stores the status and waits.
AskPassword(h) ==
  /\ At(h, "scan")
  /\ Goto(h, "prompt")
  /\ UNCHANGED <<storeVars, tgVars, wireVars, memoryVars, budgetVars, removed>>

Prompt(h) == At(h, "prompt") /\ LoginUpdate(h, "password_required", "password")

\* The login is accepted: Telegram issues a key for the client.
LoginAccepted(h) ==
  /\ task[h].pc \in {"scan", "password"}
  /\ \E k \in Keys \ issued :
       /\ issued' = issued \cup {k}
       /\ valid' = valid \cup {k}
       /\ keyOf' = [keyOf EXCEPT ![task[h].client] = k]
  /\ Goto(h, "save")
  /\ UNCHANGED <<open, storeVars, memoryVars, budgetVars, removed>>

\* Wrong password, expired, connection lost.
LoginRefused(h) ==
  /\ task[h].pc \in {"scan", "password"}
  /\ Goto(h, "failRow")
  /\ UNCHANGED <<storeVars, tgVars, wireVars, memoryVars, budgetVars, removed>>

SaveSession(h) ==
  /\ At(h, "save")
  /\ \/ saved' = keyOf[task[h].client] /\ Goto(h, "attach") /\ NoFault
     \/ Fault /\ Goto(h, "failRow") /\ UNCHANGED saved
  /\ UNCHANGED <<row, tgVars, wireVars, memoryVars, removed>>

\* Mutant: a client that is already in the map is kept.
AttachLogin_KeepsOld(h) ==
  /\ At(h, "attach")
  /\ IF live = NoClient THEN Attach(task[h].client) ELSE UNCHANGED <<live, watched>>
  /\ Goto(h, "row")
  /\ UNCHANGED <<listener, subs, busy, storeVars, tgVars, wireVars, budgetVars, removed>>

AttachLogin(h) ==
  /\ At(h, "attach")
  /\ Attach(task[h].client)
  /\ Goto(h, "row")
  /\ UNCHANGED <<listener, subs, busy, storeVars, tgVars, wireVars, budgetVars, removed>>

\* The update to authorized, in finishLogin and in restore().
AuthorizedRow(h) ==
  /\ At(h, "row")
  /\ \/ row # "gone" /\ row' = "authorized" /\ Goto(h, "sync") /\ NoFault /\ UNCHANGED wireVars
     \/ /\ RowThrows
        /\ IF task[h].op = "login" THEN Goto(h, "failRow") /\ UNCHANGED wireVars
                                   ELSE RestoreFails(h)
        /\ UNCHANGED row
  /\ UNCHANGED <<saved, tgVars, memoryVars, removed>>

\* Mutant: the previous subscription is not stopped.
Sync_KeepsOld(h) ==
  /\ At(h, "sync")
  /\ listener' = task[h].client
  /\ subs' = subs \cup {task[h].client}
  /\ End(h)
  /\ UNCHANGED <<live, watched, busy, storeVars, tgVars, wireVars, budgetVars, removed>>

\* Mutant: the client is looked up in the map once more.
Sync_OfTheMap(h) ==
  /\ At(h, "sync")
  /\ listener' = live
  /\ subs' = (subs \ {listener}) \cup {live}
  /\ End(h)
  /\ UNCHANGED <<live, watched, busy, storeVars, tgVars, wireVars, budgetVars, removed>>

\* registerRealtime, reached synchronously: the events of this client, and of
\* no other, are handled from now on.
Sync(h) ==
  /\ At(h, "sync")
  /\ listener' = task[h].client
  /\ subs' = (subs \ {listener}) \cup {task[h].client}
  /\ End(h)
  /\ UNCHANGED <<live, watched, busy, storeVars, tgVars, wireVars, budgetVars, removed>>

\* The catch of runQrLogin.  When the update throws the `finally` completes
\* the stream all the same, and the rejection is unhandled.
FailRow(h) ==
  /\ At(h, "failRow")
  /\ \/ /\ row # "gone"
        /\ row' = "error"
        /\ open' = open \ {task[h].client}
        /\ End(h)
        /\ NoFault
        /\ UNCHANGED <<saved, keyOf, memoryVars, removed>>
     \/ RowThrows /\ ProcessDies
  /\ UNCHANGED tgVars

-----------------------------------------------------------------------------
(* Specification *)

\* The session is ended from another device, or expires.
Revoke(k) ==
  /\ k \in valid
  /\ valid' = valid \ {k}
  /\ UNCHANGED <<issued, storeVars, wireVars, memoryVars, task, budgetVars, removed>>

CrashRestart ==
  /\ crashes < MaxCrashes
  /\ crashes' = crashes + 1
  /\ ProcessDies
  /\ UNCHANGED faults

NewCall(h) ==
  Stop(h) \/ Remove(h) \/ DeleteOwner(h) \/ Start(h) \/ Login(h) \/ Request(h)

\* What the user and Telegram decide during a login or a request.
Answer(h) == AskPassword(h) \/ LoginAccepted(h) \/ LoginRefused(h) \/ RequestEnds(h)

Restoring(h) ==
  \/ Load(h) \/ Connect(h) \/ Check(h)
  \/ MeKnown(h) \/ MeNull(h) \/ MeRevoked(h) \/ MeFails(h)
  \/ RefuseSession(h) \/ RefuseRow(h) \/ UndoSession(h) \/ UndoRow(h)

Work(h) ==
  \/ DetachDone(h) \/ StopRow(h) \/ RemoveRow(h) \/ RemoveSession(h)
  \/ LostSession(h) \/ LostRow(h)
  \/ Look(h) \/ ProbeHealthy(h) \/ ProbeUnhealthy(h) \/ RequestRevoked(h)
  \/ Restoring(h)
  \/ LoginConnect(h) \/ LoginRow(h) \/ Prompt(h) \/ SaveSession(h) \/ AttachLogin(h)
  \/ AuthorizedRow(h) \/ Sync(h) \/ FailRow(h)

Next ==
  \/ \E h \in Calls : NewCall(h)
  \/ \E t \in Timers : Health(t)
  \/ BootList
  \/ \E h \in Handlers : Work(h) \/ Answer(h)
  \/ \E k \in Keys : Revoke(k)
  \/ CrashRestart

\* Statements and requests end and the interval keeps firing; users and
\* Telegram owe nothing.
Fairness ==
  /\ \A h \in Handlers : WF_vars(Work(h))
  /\ \A t \in Timers : WF_vars(Health(t))
  /\ WF_vars(BootList)

Spec == Init /\ [][Next]_vars
FairSpec == Spec /\ Fairness

-----------------------------------------------------------------------------
(* Safety *)

\* A client in the map is watched by the health check, also when logins,
\* starts and detaches overlap, unless a detach is about to drop it.
LiveIsWatched ==
  live # NoClient => watched \/ \E h \in Handlers : At(h, "detach")

\* At most one client of the instance feeds events into the database and the
\* webhooks: nothing is ingested or delivered twice.
OneListener == subs \subseteq {listener}

Losing(h) ==
  \/ task[h].pc \in {"lostSession", "lostRow"}
  \/ At(h, "detach") /\ task[h].op \notin {"stop", "remove"}

\* One handler at a time runs handleSessionLost, and sessionLostBusy is up
\* exactly then, also when it throws: it never blocks the next one.
LostExclusive ==
  /\ \A g, h \in Handlers : Losing(g) /\ Losing(h) => g = h
  /\ busy <=> \E h \in Handlers : Losing(h)

\* The manager keeps what it promises about a live client when calls come one
\* at a time: it is connected, its events are handled, its key is saved.
Quiet == \A h \in Handlers : task[h] = Idle
QuietIsConsistent ==
  Quiet /\ live # NoClient => live \in open /\ listener = live /\ saved = keyOf[live]

-----------------------------------------------------------------------------
(* The inductive invariant of the proofs *)

Losers == {"health", "report", "start", "restore", "boot"}

\* Which code is at which await, and where a handler has a client.
RoleOK(t) ==
  /\ t.pc \in {"probe", "rpc", "check", "me", "loginRow", "scan", "prompt", "password",
               "save", "attach", "row", "sync"} => t.client \in Clients
  /\ t.pc = "look" => t.op = "start"
  /\ t.pc = "probe" => t.op \in {"start", "health"}
  /\ t.pc = "rpc" => t.op = "report"
  /\ t.pc \in {"load", "connect", "check", "me"} => t.op \in {"restore", "boot"}
  /\ t.pc \in {"lostSession", "lostRow"} => t.op \in Losers
  /\ t.pc = "detach" => t.op \in Losers \cup {"stop", "remove"}

Roles == \A h \in Handlers : RoleOK(task[h])

IInv == TypeOK /\ Roles /\ LiveIsWatched /\ OneListener /\ LostExclusive

-----------------------------------------------------------------------------
(* Liveness, under FairSpec *)

\* A connected client whose session was revoked does not stay in the map: the
\* health check finds it, even when the row is gone or a check has failed.
RevokedIsNoticed ==
  \A c \in Clients :
    live = c /\ c \in open /\ keyOf[c] \notin valid
      ~> live # c \/ c \notin open \/ keyOf[c] \in valid

\* handleSessionLost always gives the instance free again.
LosingEnds == busy ~> ~busy

-----------------------------------------------------------------------------
(* What the documentation says and the code does not do *)

\* telegram.manager.ts: "On boot it rehydrates every instance that has a saved
\* session and reconnects it, so authorized accounts survive restarts".
\* The restore at boot does not delete a session Telegram accepts.
SurvivesRestart ==
  [][task[Boot].op = "boot" /\ saved \in valid => saved' = saved]_vars

\* telegram.manager.ts: "Clears a revoked/invalid session".  What
\* handleSessionLost deletes is not a session Telegram accepts.
ClearsInvalidOnly ==
  [][\A h \in Handlers : At(h, "lostSession") /\ saved \in valid => saved' = saved]_vars

\* telegram.controller.ts: "Delete a Telegram instance (and its session)".
RemovedForGood == removed /\ Quiet => saved = NoKey
=============================================================================
