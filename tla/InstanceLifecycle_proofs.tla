---------------------- MODULE InstanceLifecycle_proofs -----------------------
(***************************************************************************)
(* Theorems about InstanceLifecycle for every value of its constants: any  *)
(* number of calls and health checks in progress, of clients, keys, faults *)
(* and crashes.                                                            *)
(*                                                                         *)
(* The proof sorts the steps into kinds by what they do to the memory of   *)
(* the manager (Effect), shows that every action is of one kind, and then  *)
(* that no kind breaks the invariant.                                      *)
(*                                                                         *)
(* The last theorem is about calls that come one at a time; its invariant  *)
(* says what the one handler at work still owes.                           *)
(***************************************************************************)
EXTENDS InstanceLifecycle, TLAPS

USE LifecycleAssumption DEF LifecycleAssumption

\* Places outside handleSessionLost and outside the await of detach().
Outside(t) == t.pc \notin {"detach", "lostSession", "lostRow"}

\* Handler h goes on to t, the others stay where they are.
Step(h, t) == task' = [task EXCEPT ![h] = t]

\* h moves between places the invariants say nothing about.
Plain(h) ==
  /\ Outside(task[h])
  /\ \E t \in Task : RoleOK(t) /\ Outside(t) /\ Step(h, t)

Calm(h) == Plain(h) /\ UNCHANGED memoryVars

\* attach(): the map gets a client and its health check.
Attaches(h) ==
  Plain(h) /\ live' \in Clients /\ watched' = TRUE /\ UNCHANGED <<listener, subs, busy>>

\* registerRealtime.
Subscribes(h) ==
  /\ Plain(h)
  /\ listener' = task[h].client
  /\ subs' = (subs \ {listener}) \cup {task[h].client}
  /\ listener' \in Clients
  /\ UNCHANGED <<live, watched, busy>>

\* The synchronous part of detach(), for a stop or a removal (lost = FALSE) or
\* for a lost session, whose flag is raised in the same step (lost = TRUE).
Detaches(h) ==
  /\ Outside(task[h])
  /\ watched' = FALSE
  /\ listener' = NoClient
  /\ subs' = subs \ {listener}
  /\ UNCHANGED live
  /\ \E t \in Task :
       /\ RoleOK(t) /\ Step(h, t)
       /\ t.pc = (IF live = NoClient THEN AfterDetach(t.op) ELSE "detach")
       /\ \/ t.op \in {"stop", "remove"} /\ UNCHANGED busy
          \/ t.op \in Losers /\ ~busy /\ busy' = TRUE

\* The entry of the map goes.
Drops(h) ==
  /\ At(h, "detach")
  /\ live' = NoClient
  /\ UNCHANGED <<watched, listener, subs, busy>>
  /\ \E t \in Task :
       RoleOK(t) /\ Step(h, t) /\ t.op = task[h].op /\ t.pc = AfterDetach(t.op)

\* handleSessionLost goes on, or ends and lowers the flag.
GoesOn(h) ==
  /\ At(h, "lostSession")
  /\ UNCHANGED memoryVars
  /\ \E t \in Task : RoleOK(t) /\ Step(h, t) /\ t.pc = "lostRow"

Lowers(h) ==
  /\ task[h].pc \in {"lostSession", "lostRow"}
  /\ busy' = FALSE
  /\ UNCHANGED <<live, watched, listener, subs>>
  /\ \E t \in Task : RoleOK(t) /\ Outside(t) /\ Step(h, t)

\* The timer finds no client.
TimerStops == live = NoClient /\ watched' = FALSE /\ UNCHANGED <<live, listener, subs, busy, task>>

\* Nothing of the manager changes.
Elsewhere == UNCHANGED <<memoryVars, task>>

\* The process is started again.
Restarts ==
  /\ task' = [h \in Handlers |-> IF h = Boot THEN Doing("boot", "list") ELSE Idle]
  /\ live' = NoClient /\ watched' = FALSE /\ listener' = NoClient /\ subs' = {}
  /\ busy' = FALSE

Effect(h) ==
  \/ Calm(h) \/ Attaches(h) \/ Subscribes(h) \/ Detaches(h) \/ Drops(h)
  \/ GoesOn(h) \/ Lowers(h) \/ TimerStops \/ Elsewhere \/ Restarts

-----------------------------------------------------------------------------
(* Tasks *)

LEMMA DoingTask ==
  ASSUME NEW o \in Ops, NEW l \in Places
  PROVE  /\ Doing(o, l) \in Task
         /\ Doing(o, l).op = o /\ Doing(o, l).pc = l
         /\ Doing(o, l).client = NoClient /\ Doing(o, l).key = NoKey
BY DEF Doing, Task

LEMMA IdleTask == Idle \in Task /\ Idle.op = "none" /\ Idle.pc = "idle" /\ RoleOK(Idle)
BY DEF Idle, Doing, Task, Ops, Places, RoleOK

\* The other handlers do not move.
LEMMA StepTasks ==
  ASSUME TaskTypes, NEW h \in Handlers, NEW t \in Task, Step(h, t)
  PROVE  /\ TaskTypes'
         /\ task'[h] = t
         /\ \A g \in Handlers \ {h} : task'[g] = task[g]
BY DEF TaskTypes, Step

LEMMA StepRoles ==
  ASSUME TaskTypes, Roles, NEW h \in Handlers, NEW t \in Task, Step(h, t), RoleOK(t)
  PROVE  Roles'
BY StepTasks DEF Roles, RoleOK

\* Goto keeps the operation, the client and the key.
LEMMA GotoStep ==
  ASSUME TaskTypes, NEW h \in Handlers, NEW l \in Places, Goto(h, l)
  PROVE  \E t \in Task :
           Step(h, t) /\ t.op = task[h].op /\ t.pc = l /\ t.client = task[h].client
           /\ t.key = task[h].key
<1>. DEFINE t == [op |-> task[h].op, pc |-> l, client |-> task[h].client, key |-> task[h].key]
<1>1. task[h] \in Task
  BY DEF TaskTypes
<1>2. t \in Task
  BY <1>1 DEF Task
<1>3. [task[h] EXCEPT !.pc = l] = t
  BY <1>1 DEF Task
<1>4. Step(h, t)
  BY <1>3 DEF Step, Goto
<1>. QED
  BY <1>2, <1>4

LEMMA EndStep ==
  ASSUME NEW h \in Handlers, End(h)
  PROVE  Step(h, Idle)
BY DEF End, Step

LEMMA RoleOf ==
  ASSUME Roles, NEW h \in Handlers
  PROVE  RoleOK(task[h])
BY DEF Roles

\* Goto between places that have nothing to do with a lost session.
LEMMA GotoPlain ==
  ASSUME TaskTypes, NEW h \in Handlers, Outside(task[h]),
         NEW l \in Places \ {"detach", "lostSession", "lostRow", "look", "probe", "rpc"},
         Goto(h, l),
         task[h].client \in Clients
           \/ l \notin {"check", "me", "loginRow", "scan", "prompt", "password", "save",
                        "attach", "row", "sync"},
         task[h].op \in {"restore", "boot"} \/ l \notin {"load", "connect", "check", "me"}
  PROVE  Plain(h)
<1>1. PICK t \in Task :
        Step(h, t) /\ t.op = task[h].op /\ t.pc = l /\ t.client = task[h].client
  BY GotoStep
<1>2. RoleOK(t)
  BY <1>1 DEF RoleOK
<1>. QED
  BY <1>1, <1>2 DEF Plain, Outside

LEMMA EndPlain ==
  ASSUME NEW h \in Handlers, Outside(task[h]), End(h)
  PROVE  Plain(h)
BY EndStep, IdleTask DEF Plain, Outside

\* The handler gets a new task.
LEMMA BecomesStep ==
  ASSUME NEW h \in Handlers, NEW o \in Ops, NEW l \in Places,
         NEW c \in Clients \cup {NoClient}, NEW k \in Keys \cup {NoKey}, Becomes(h, o, l, c, k)
  PROVE  \E t \in Task : Step(h, t) /\ t.op = o /\ t.pc = l /\ t.client = c /\ t.key = k
<1>. DEFINE t == [op |-> o, pc |-> l, client |-> c, key |-> k]
<1>1. t \in Task /\ Step(h, t)
  BY DEF Task, Becomes, Step
<1>. QED
  BY <1>1

LEMMA BecomesPlain ==
  ASSUME NEW h \in Handlers, Outside(task[h]), NEW o \in Ops,
         NEW l \in Places \ {"detach", "lostSession", "lostRow"},
         NEW c \in Clients \cup {NoClient}, NEW k \in Keys \cup {NoKey}, Becomes(h, o, l, c, k),
         RoleOK([op |-> o, pc |-> l, client |-> c, key |-> k])
  PROVE  Plain(h)
BY DEF Becomes, Plain, Outside, Step, Task

\* detach() up to its await.
LEMMA DetachStep ==
  ASSUME TaskTypes, NEW h \in Handlers, NEW o \in Losers \cup {"stop", "remove"},
         Becomes(h, o, IF live = NoClient THEN AfterDetach(o) ELSE "detach",
                 task[h].client, task[h].key)
  PROVE  \E t \in Task :
           /\ RoleOK(t) /\ Step(h, t) /\ t.op = o
           /\ t.pc = (IF live = NoClient THEN AfterDetach(t.op) ELSE "detach")
<1>. DEFINE l == IF live = NoClient THEN AfterDetach(o) ELSE "detach"
<1>1. l \in {"stopRow", "removeRow", "lostSession", "detach"}
      /\ (l = "lostSession" => o \in Losers)
  BY DEF AfterDetach, Losers
<1>2. task[h].client \in Clients \cup {NoClient} /\ task[h].key \in Keys \cup {NoKey}
  BY DEF TaskTypes, Task
<1>3. o \in Ops /\ l \in Places
  BY <1>1 DEF Ops, Losers, Places
<1>4. PICK t \in Task : Step(h, t) /\ t.op = o /\ t.pc = l
  <2>. HIDE DEF l
  <2>. QED
    BY <1>2, <1>3, BecomesStep DEF l
<1>5. RoleOK(t)
  BY <1>1, <1>4 DEF RoleOK
<1>. QED
  BY <1>4, <1>5

LEMMA DetachDetaches ==
  ASSUME TaskTypes, NEW h \in Handlers, Outside(task[h]),
         NEW o \in Losers \cup {"stop", "remove"}, Detach(h, o),
         \/ o \in {"stop", "remove"} /\ UNCHANGED busy
         \/ o \in Losers /\ ~busy /\ busy' = TRUE
  PROVE  Detaches(h)
<1>1. PICK t \in Task :
        /\ RoleOK(t) /\ Step(h, t) /\ t.op = o
        /\ t.pc = (IF live = NoClient THEN AfterDetach(t.op) ELSE "detach")
  BY DetachStep DEF Detach
<1>2. /\ watched' = FALSE /\ listener' = NoClient /\ subs' = subs \ {listener}
      /\ UNCHANGED live
  BY DEF Detach
<1>. QED
  BY <1>1, <1>2 DEF Detaches

LEMMA SessionLostEffect ==
  ASSUME TaskTypes, MemoryTypes, NEW h \in Handlers, Outside(task[h]),
         task[h].op \in Losers, SessionLost(h)
  PROVE  Calm(h) \/ Detaches(h)
<1>1. CASE busy
  <2>1. AfterLost(h) /\ UNCHANGED memoryVars
    BY <1>1 DEF SessionLost
  <2>2. Plain(h)
    BY <2>1, EndPlain, BecomesPlain DEF AfterLost, Ops, Places, RoleOK
  <2>. QED
    BY <2>1, <2>2 DEF Calm
<1>2. CASE ~busy
  BY <1>2, DetachDetaches DEF SessionLost
<1>. QED
  BY <1>1, <1>2

\* The process ends: everything in memory goes.
LEMMA DiesRestarts == ProcessDies => Restarts
BY DEF ProcessDies, Restarts

\* What a throw inside handleSessionLost leads to.
LEMMA LostThrowsEffect ==
  ASSUME TaskTypes, NEW h \in Handlers, task[h].pc \in {"lostSession", "lostRow"},
         task[h].op \in Losers, LostThrows(h)
  PROVE  Lowers(h) \/ Restarts
<1>1. CASE task[h].op \in {"health", "report"}
  BY <1>1, DiesRestarts DEF LostThrows
<1>2. CASE task[h].op = "start"
  BY <1>2, EndStep, IdleTask DEF LostThrows, Lowers, Outside
<1>3. CASE task[h].op \in {"restore", "boot"}
  <2>1. Goto(h, "undoSession") /\ busy' = FALSE /\ UNCHANGED <<live, watched, listener, subs>>
    BY <1>3 DEF LostThrows
  <2>2. PICK t \in Task : Step(h, t) /\ t.pc = "undoSession"
    BY <2>1, GotoStep DEF Places
  <2>. QED
    BY <2>1, <2>2 DEF Lowers, Outside, RoleOK
<1>. QED
  BY <1>1, <1>2, <1>3 DEF Losers

LEMMA RestoreThrowsEffect ==
  ASSUME NEW h \in Handlers, Outside(task[h]), RestoreThrows(h)
  PROVE  Calm(h) \/ Restarts
BY EndPlain, DiesRestarts DEF RestoreThrows, Calm

-----------------------------------------------------------------------------
(* Every action is of one kind *)

LEMMA CallEffect ==
  ASSUME IInv, NEW h \in Calls, NewCall(h)
  PROVE  Effect(h)
<1>. h \in Handlers /\ TaskTypes /\ MemoryTypes
  BY DEF Handlers, IInv, TypeOK
<1>1. CASE Stop(h)
  <2>1. Outside(task[h]) /\ Detach(h, "stop") /\ UNCHANGED busy
    BY <1>1 DEF Stop, Outside, At
  <2>. QED
    BY <2>1, DetachDetaches DEF Effect
<1>2. CASE Remove(h)
  <2>1. Outside(task[h]) /\ Detach(h, "remove") /\ UNCHANGED busy
    BY <1>2 DEF Remove, Outside, At
  <2>. QED
    BY <2>1, DetachDetaches DEF Effect
<1>3. CASE DeleteOwner(h)
  BY <1>3 DEF DeleteOwner, Effect, Elsewhere
<1>4. CASE Start(h)
  <2>1. Outside(task[h]) /\ Becomes(h, "start", "look", NoClient, NoKey) /\ UNCHANGED memoryVars
    BY <1>4 DEF Start, Outside, At
  <2>. QED
    BY <2>1, BecomesPlain DEF Effect, Calm, Ops, Places, RoleOK
<1>5. CASE Login(h)
  <2>1. /\ Outside(task[h]) /\ Becomes(h, "login", "loginConnect", NoClient, NoKey)
        /\ UNCHANGED memoryVars
    BY <1>5 DEF Login, Outside, At
  <2>. QED
    BY <2>1, BecomesPlain DEF Effect, Calm, Ops, Places, RoleOK
<1>6. CASE Request(h)
  <2>1. /\ Outside(task[h]) /\ live \in Clients /\ Becomes(h, "report", "rpc", live, NoKey)
        /\ UNCHANGED memoryVars
    BY <1>6 DEF Request, Outside, At, MemoryTypes
  <2>. QED
    BY <2>1, BecomesPlain DEF Effect, Calm, Ops, Places, RoleOK
<1>. QED
  BY <1>1, <1>2, <1>3, <1>4, <1>5, <1>6 DEF NewCall

LEMMA HealthEffect ==
  ASSUME IInv, NEW h \in Timers, Health(h)
  PROVE  Effect(h)
<1>. h \in Handlers /\ TaskTypes /\ MemoryTypes
  BY DEF Handlers, IInv, TypeOK
<1>1. CASE live = NoClient
  BY <1>1 DEF Health, Effect, TimerStops
<1>2. CASE live # NoClient
  <2>1. /\ Outside(task[h]) /\ live \in Clients /\ Becomes(h, "health", "probe", live, NoKey)
        /\ UNCHANGED memoryVars
    BY <1>2 DEF Health, Outside, At, MemoryTypes, memoryVars
  <2>. QED
    BY <2>1, BecomesPlain DEF Effect, Calm, Ops, Places, RoleOK
<1>. QED
  BY <1>1, <1>2

LEMMA BootEffect ==
  ASSUME IInv, BootList
  PROVE  Effect(Boot)
<1>. Boot \in Handlers /\ Outside(task[Boot])
  BY DEF Handlers, BootList, Outside, At
<1>1. End(Boot) \/ Becomes(Boot, "boot", "load", NoClient, NoKey)
  BY DEF BootList
<1>2. Plain(Boot)
  BY <1>1, EndPlain, BecomesPlain DEF Ops, Places, RoleOK
<1>. QED
  BY <1>2 DEF BootList, Effect, Calm

LEMMA AnswerEffect ==
  ASSUME IInv, NEW h \in Handlers, Answer(h)
  PROVE  Effect(h)
<1>. TaskTypes /\ RoleOK(task[h])
  BY DEF IInv, TypeOK, Roles
<1>1. UNCHANGED memoryVars
  BY DEF Answer, AskPassword, LoginAccepted, LoginRefused, RequestEnds
<1>2. Outside(task[h])
  BY DEF Answer, AskPassword, LoginAccepted, LoginRefused, RequestEnds, At, Outside
<1>3. Plain(h)
  <2>1. CASE AskPassword(h)
    BY <2>1, <1>2, GotoPlain DEF AskPassword, At, RoleOK, Places
  <2>2. CASE LoginAccepted(h)
    BY <2>2, <1>2, GotoPlain DEF LoginAccepted, RoleOK, Places
  <2>3. CASE LoginRefused(h)
    BY <2>3, <1>2, GotoPlain DEF LoginRefused, RoleOK, Places
  <2>4. CASE RequestEnds(h)
    BY <2>4, <1>2, EndPlain DEF RequestEnds
  <2>. QED
    BY <2>1, <2>2, <2>3, <2>4 DEF Answer
<1>. QED
  BY <1>1, <1>3 DEF Effect, Calm

\* detach() after its await, and the ends of stop and remove.
LEMMA DetachedEffect ==
  ASSUME IInv, NEW h \in Handlers,
         DetachDone(h) \/ StopRow(h) \/ RemoveRow(h) \/ RemoveSession(h)
  PROVE  Effect(h)
<1>. TaskTypes /\ RoleOK(task[h])
  BY DEF IInv, TypeOK, Roles
<1>1. CASE DetachDone(h)
  <2>1. task[h].op \in Losers \cup {"stop", "remove"}
    BY <1>1 DEF DetachDone, At, RoleOK
  <2>2. AfterDetach(task[h].op) \in Places
        /\ (AfterDetach(task[h].op) = "lostSession" => task[h].op \in Losers)
        /\ AfterDetach(task[h].op) \in {"stopRow", "removeRow", "lostSession"}
    BY <2>1 DEF AfterDetach, Losers, Places
  <2>3. PICK t \in Task : Step(h, t) /\ t.op = task[h].op /\ t.pc = AfterDetach(task[h].op)
    BY <1>1, <2>2, GotoStep DEF DetachDone
  <2>4. RoleOK(t)
    BY <2>2, <2>3 DEF RoleOK
  <2>. QED
    BY <1>1, <2>3, <2>4 DEF DetachDone, Effect, Drops
<1>2. CASE StopRow(h)
  <2>1. Outside(task[h]) /\ End(h) /\ UNCHANGED memoryVars
    BY <1>2 DEF StopRow, At, Outside
  <2>. QED
    BY <2>1, EndPlain DEF Effect, Calm
<1>3. CASE RemoveRow(h)
  <2>1. Outside(task[h]) /\ UNCHANGED memoryVars /\ (End(h) \/ Goto(h, "removeSession"))
    BY <1>3 DEF RemoveRow, At, Outside
  <2>. QED
    BY <2>1, EndPlain, GotoPlain DEF Effect, Calm, Places
<1>4. CASE RemoveSession(h)
  <2>1. Outside(task[h]) /\ End(h) /\ UNCHANGED memoryVars
    BY <1>4 DEF RemoveSession, At, Outside
  <2>. QED
    BY <2>1, EndPlain DEF Effect, Calm
<1>. QED
  BY <1>1, <1>2, <1>3, <1>4

\* The awaits of handleSessionLost.
LEMMA LosingEffect ==
  ASSUME IInv, NEW h \in Handlers, LostSession(h) \/ LostRow(h)
  PROVE  Effect(h)
<1>. TaskTypes /\ RoleOK(task[h])
  BY DEF IInv, TypeOK, Roles
<1>1. task[h].pc \in {"lostSession", "lostRow"} /\ task[h].op \in Losers
  BY DEF LostSession, LostRow, At, RoleOK
<1>2. CASE LostThrows(h)
  BY <1>1, <1>2, LostThrowsEffect DEF Effect
<1>3. CASE LostSession(h) /\ ~LostThrows(h)
  <2>1. At(h, "lostSession") /\ Goto(h, "lostRow") /\ UNCHANGED memoryVars
    BY <1>3 DEF LostSession
  <2>2. PICK t \in Task : Step(h, t) /\ t.op = task[h].op /\ t.pc = "lostRow"
    BY <2>1, GotoStep DEF Places
  <2>3. RoleOK(t)
    BY <1>1, <2>2 DEF RoleOK
  <2>. QED
    BY <2>1, <2>2, <2>3 DEF Effect, GoesOn
<1>4. CASE LostRow(h) /\ ~LostThrows(h)
  <2>1. /\ AfterLost(h) /\ busy' = FALSE
        /\ UNCHANGED <<live, watched, listener, subs>>
    BY <1>4 DEF LostRow
  <2>2. CASE task[h].op = "start"
    <3>1. Becomes(h, "restore", "load", NoClient, NoKey)
      BY <2>1, <2>2 DEF AfterLost
    <3>2. PICK t \in Task : Step(h, t) /\ t.op = "restore" /\ t.pc = "load"
      BY <3>1, BecomesStep DEF Ops, Places
    <3>. QED
      BY <1>1, <2>1, <3>2 DEF Effect, Lowers, Outside, RoleOK
  <2>3. CASE task[h].op # "start"
    BY <1>1, <2>1, <2>3, EndStep, IdleTask DEF AfterLost, Effect, Lowers, Outside
  <2>. QED
    BY <2>2, <2>3
<1>. QED
  BY <1>2, <1>3, <1>4

\* startInstance, the health check and reportClientError.
LEMMA ProbeEffect ==
  ASSUME IInv, NEW h \in Handlers,
         Look(h) \/ ProbeHealthy(h) \/ ProbeUnhealthy(h) \/ RequestRevoked(h)
  PROVE  Effect(h)
<1>. TaskTypes /\ MemoryTypes /\ RoleOK(task[h])
  BY DEF IInv, TypeOK, Roles
<1>1. Outside(task[h])
  BY DEF Look, ProbeHealthy, ProbeUnhealthy, RequestRevoked, At, Outside
<1>2. CASE Look(h)
  <2>1. CASE live = NoClient
    <3>1. Becomes(h, "restore", "load", NoClient, NoKey) /\ UNCHANGED memoryVars
      BY <1>2, <2>1 DEF Look
    <3>. QED
      BY <1>1, <3>1, BecomesPlain DEF Effect, Calm, Ops, Places, RoleOK
  <2>2. CASE live # NoClient
    <3>1. live \in Clients /\ Becomes(h, "start", "probe", live, NoKey) /\ UNCHANGED memoryVars
      BY <1>2, <2>2 DEF Look, MemoryTypes
    <3>. QED
      BY <1>1, <3>1, BecomesPlain DEF Effect, Calm, Ops, Places, RoleOK
  <2>. QED
    BY <2>1, <2>2
<1>3. CASE ProbeHealthy(h)
  BY <1>1, <1>3, EndPlain DEF ProbeHealthy, Effect, Calm
<1>4. CASE ProbeUnhealthy(h) \/ RequestRevoked(h)
  <2>1. SessionLost(h) /\ task[h].op \in Losers
    BY <1>4 DEF ProbeUnhealthy, RequestRevoked, At, RoleOK, Losers
  <2>. QED
    BY <1>1, <2>1, SessionLostEffect DEF Effect
<1>. QED
  BY <1>2, <1>3, <1>4

\* restore(): the steps that only move the handler.
LEMMA RestoreEffect ==
  ASSUME IInv, NEW h \in Handlers,
         \/ Load(h) \/ Connect(h) \/ Check(h) \/ MeNull(h) \/ MeFails(h)
         \/ RefuseSession(h) \/ RefuseRow(h) \/ UndoSession(h) \/ UndoRow(h)
  PROVE  Effect(h)
<1>. TaskTypes /\ StoreTypes /\ RoleOK(task[h])
  BY DEF IInv, TypeOK, Roles
<1>. task[h].client \in Clients \cup {NoClient} /\ task[h].key \in Keys \cup {NoKey}
     /\ task[h].op \in Ops
  BY DEF TaskTypes, Task
<1>1. Outside(task[h])
  BY DEF Load, Connect, Check, MeNull, MeFails, RefuseSession, RefuseRow, UndoSession,
         UndoRow, At, Outside
<1>2. RestoreThrows(h) => Effect(h)
  BY <1>1, RestoreThrowsEffect DEF Effect
<1>3. RestoreFails(h) => Plain(h)
  BY <1>1, GotoPlain DEF RestoreFails, Places
<1>4. End(h) => Plain(h)
  BY <1>1, EndPlain
<1>5. CASE Load(h) /\ ~RestoreThrows(h)
  <2>1. UNCHANGED memoryVars
    BY <1>5 DEF Load
  <2>2. CASE End(h)
    BY <1>4, <2>1, <2>2 DEF Effect, Calm
  <2>3. CASE Becomes(h, task[h].op, "connect", task[h].client, saved)
    <3>1. task[h].op \in {"restore", "boot"}
      BY <1>5 DEF Load, At, RoleOK
    <3>2. Plain(h)
      BY <1>1, <2>3, <3>1, BecomesPlain DEF StoreTypes, Places, RoleOK
    <3>. QED
      BY <2>1, <3>2 DEF Effect, Calm
  <2>. QED
    BY <1>5, <2>2, <2>3 DEF Load
<1>6. CASE Connect(h)
  <2>1. UNCHANGED memoryVars /\ task[h].op \in {"restore", "boot"}
    BY <1>6 DEF Connect, At, RoleOK
  <2>2. ASSUME NEW c \in Clients, Connected(h, c, task[h].key, "check")
        PROVE  Plain(h)
    BY <1>1, <2>1, <2>2, BecomesPlain DEF Connected, Places, RoleOK
  <2>. QED
    BY <1>3, <1>6, <2>1, <2>2 DEF Connect, Effect, Calm
<1>7. CASE Check(h)
  <2>1. UNCHANGED memoryVars /\ task[h].op \in {"restore", "boot"} /\ task[h].client \in Clients
    BY <1>7 DEF Check, At, RoleOK
  <2>2. Goto(h, "me") \/ Goto(h, "refuseSession") => Plain(h)
    BY <1>1, <2>1, GotoPlain DEF Places
  <2>. QED
    BY <1>3, <1>7, <2>1, <2>2 DEF Check, Effect, Calm
<1>8. CASE MeNull(h)
  BY <1>4, <1>8 DEF MeNull, Effect, Calm
<1>9. CASE MeFails(h)
  BY <1>3, <1>9 DEF MeFails, Effect, Calm
<1>10. CASE RefuseSession(h)
  <2>1. Goto(h, "refuseRow") => Plain(h)
    BY <1>1, GotoPlain DEF Places
  <2>. QED
    BY <1>3, <1>10, <2>1 DEF RefuseSession, Effect, Calm
<1>11. CASE RefuseRow(h)
  BY <1>3, <1>4, <1>11 DEF RefuseRow, Effect, Calm
<1>12. CASE UndoSession(h) /\ ~RestoreThrows(h)
  <2>1. Goto(h, "undoRow") /\ UNCHANGED memoryVars
    BY <1>12 DEF UndoSession
  <2>. QED
    BY <1>1, <2>1, GotoPlain DEF Places, Effect, Calm
<1>13. CASE UndoRow(h) /\ ~RestoreThrows(h)
  BY <1>4, <1>13 DEF UndoRow, Effect, Calm
<1>. QED
  BY <1>2, <1>5, <1>6, <1>7, <1>8, <1>9, <1>10, <1>11, <1>12, <1>13

\* restore(): getMe.
LEMMA MeEffect ==
  ASSUME IInv, NEW h \in Handlers, MeKnown(h) \/ MeRevoked(h)
  PROVE  Effect(h)
<1>. TaskTypes /\ RoleOK(task[h])
  BY DEF IInv, TypeOK, Roles
<1>1. Outside(task[h]) /\ task[h].client \in Clients /\ task[h].op \in {"restore", "boot"}
  BY DEF MeKnown, MeRevoked, At, Outside, RoleOK
<1>2. CASE MeKnown(h)
  <2>1. Goto(h, "row")
    BY <1>2 DEF MeKnown
  <2>2. Plain(h)
    BY <1>1, <2>1, GotoPlain DEF Places
  <2>. QED
    BY <1>1, <1>2, <2>2 DEF MeKnown, Attach, Effect, Attaches
<1>3. CASE MeRevoked(h) /\ busy
  BY <1>1, <1>3, EndPlain DEF MeRevoked, Effect, Calm
<1>4. CASE MeRevoked(h) /\ ~busy
  <2>. DEFINE l == IF live = NoClient THEN "lostSession" ELSE "detach"
  <2>1. PICK t \in Task : Step(h, t) /\ t.op = task[h].op /\ t.pc = l
    BY <1>4, GotoStep DEF MeRevoked, Places
  <2>2. RoleOK(t)
    BY <1>1, <2>1 DEF RoleOK, Losers
  <2>3. t.pc = (IF live = NoClient THEN AfterDetach(t.op) ELSE "detach") /\ t.op \in Losers
    BY <1>1, <2>1 DEF AfterDetach, Losers
  <2>4. /\ watched' = FALSE /\ listener' = NoClient /\ subs' = subs \ {listener}
        /\ UNCHANGED live /\ ~busy /\ busy' = TRUE
    BY <1>4 DEF MeRevoked
  <2>. QED
    BY <1>1, <2>1, <2>2, <2>3, <2>4 DEF Effect, Detaches
<1>. QED
  BY <1>2, <1>3, <1>4

\* runQrLogin and finishLogin.
LEMMA LoginEffect ==
  ASSUME IInv, NEW h \in Handlers,
         \/ LoginConnect(h) \/ LoginRow(h) \/ Prompt(h) \/ SaveSession(h) \/ AttachLogin(h)
         \/ AuthorizedRow(h) \/ Sync(h) \/ FailRow(h)
  PROVE  Effect(h)
<1>. TaskTypes /\ MemoryTypes /\ RoleOK(task[h])
  BY DEF IInv, TypeOK, Roles
<1>. task[h].client \in Clients \cup {NoClient} /\ task[h].key \in Keys \cup {NoKey}
     /\ task[h].op \in Ops
  BY DEF TaskTypes, Task
<1>1. Outside(task[h])
  BY DEF LoginConnect, LoginRow, Prompt, SaveSession, AttachLogin, AuthorizedRow, Sync,
         FailRow, At, Outside
<1>2. Goto(h, "failRow") => Plain(h)
  BY <1>1, GotoPlain DEF Places
<1>3. CASE LoginConnect(h)
  <2>1. ASSUME NEW c \in Clients, Connected(h, c, NoKey, "loginRow")
        PROVE  Plain(h)
    BY <1>1, <2>1, BecomesPlain DEF Connected, Places, RoleOK
  <2>. QED
    BY <1>2, <1>3, <2>1 DEF LoginConnect, Effect, Calm
<1>4. CASE LoginRow(h) \/ Prompt(h)
  <2>1. task[h].client \in Clients
    BY <1>4 DEF LoginRow, Prompt, At, RoleOK
  <2>2. Goto(h, "scan") \/ Goto(h, "password") => Plain(h)
    BY <1>1, <2>1, GotoPlain DEF Places
  <2>. QED
    BY <1>2, <1>4, <2>2 DEF LoginRow, Prompt, LoginUpdate, Effect, Calm
<1>5. CASE SaveSession(h)
  <2>1. task[h].client \in Clients
    BY <1>5 DEF SaveSession, At, RoleOK
  <2>2. Goto(h, "attach") => Plain(h)
    BY <1>1, <2>1, GotoPlain DEF Places
  <2>. QED
    BY <1>2, <1>5, <2>2 DEF SaveSession, Effect, Calm
<1>6. CASE AttachLogin(h)
  <2>1. task[h].client \in Clients
    BY <1>6 DEF AttachLogin, At, RoleOK
  <2>2. Goto(h, "row")
    BY <1>6 DEF AttachLogin
  <2>3. Plain(h)
    BY <1>1, <2>1, <2>2, GotoPlain DEF Places
  <2>. QED
    BY <1>6, <2>1, <2>3 DEF AttachLogin, Attach, Effect, Attaches
<1>7. CASE AuthorizedRow(h)
  <2>1. task[h].client \in Clients
    BY <1>7 DEF AuthorizedRow, At, RoleOK
  <2>2. Goto(h, "sync") \/ RestoreFails(h) => Plain(h)
    BY <1>1, <2>1, GotoPlain DEF RestoreFails, Places
  <2>. QED
    BY <1>2, <1>7, <2>2 DEF AuthorizedRow, Effect, Calm
<1>8. CASE Sync(h)
  <2>1. task[h].client \in Clients
    BY <1>8 DEF Sync, At, RoleOK
  <2>. QED
    BY <1>1, <1>8, <2>1, EndPlain DEF Sync, Effect, Subscribes
<1>9. CASE FailRow(h)
  BY <1>1, <1>9, EndPlain, DiesRestarts DEF FailRow, Effect, Calm
<1>. QED
  BY <1>3, <1>4, <1>5, <1>6, <1>7, <1>8, <1>9

LEMMA NextEffect ==
  ASSUME IInv, [Next]_vars
  PROVE  \E h \in Handlers : Effect(h)
<1>0. Boot \in Handlers /\ Calls \subseteq Handlers /\ Timers \subseteq Handlers
  BY DEF Handlers
<1>1. ASSUME NEW h \in Calls, NewCall(h) PROVE \E g \in Handlers : Effect(g)
  BY <1>0, <1>1, CallEffect
<1>2. ASSUME NEW h \in Timers, Health(h) PROVE \E g \in Handlers : Effect(g)
  BY <1>0, <1>2, HealthEffect
<1>3. CASE BootList
  BY <1>0, <1>3, BootEffect
<1>4. ASSUME NEW h \in Handlers, Work(h) PROVE Effect(h)
  BY <1>4, DetachedEffect, LosingEffect, ProbeEffect, RestoreEffect, MeEffect, LoginEffect
  DEF Work, Restoring
<1>5. ASSUME NEW h \in Handlers, Answer(h) PROVE Effect(h)
  BY <1>5, AnswerEffect
<1>6. CASE \E k \in Keys : Revoke(k)
  BY <1>0, <1>6 DEF Revoke, Effect, Elsewhere
<1>7. CASE CrashRestart
  BY <1>0, <1>7, DiesRestarts DEF CrashRestart, Effect
<1>8. CASE UNCHANGED vars
  BY <1>0, <1>8 DEF vars, Effect, Elsewhere
<1>. QED
  BY <1>1, <1>2, <1>3, <1>4, <1>5, <1>6, <1>7, <1>8 DEF Next

-----------------------------------------------------------------------------
(* No kind of step breaks the invariants *)

\* A step of h between places outside, with the flag as it was.
LEMMA PlainKeeps ==
  ASSUME TaskTypes, Roles, LostExclusive, NEW h \in Handlers, Plain(h), UNCHANGED busy
  PROVE  /\ TaskTypes' /\ Roles' /\ LostExclusive'
         /\ \A g \in Handlers : At(g, "detach") <=> At(g, "detach")'
<1>1. PICK t \in Task : RoleOK(t) /\ Outside(t) /\ Step(h, t)
  BY DEF Plain
<1>2. TaskTypes' /\ Roles'
  BY <1>1, StepTasks, StepRoles
<1>3. ~Losing(h) /\ ~Losing(h)' /\ \A g \in Handlers \ {h} : Losing(g) <=> Losing(g)'
  BY <1>1, StepTasks DEF Losing, At, Outside, Plain
<1>4. LostExclusive'
  BY <1>3 DEF LostExclusive
<1>5. \A g \in Handlers : At(g, "detach") <=> At(g, "detach")'
  BY <1>1, StepTasks DEF At, Outside, Plain
<1>. QED
  BY <1>2, <1>4, <1>5

\* After a restart nobody is anywhere near handleSessionLost.
LEMMA RestartsKeeps ==
  ASSUME Restarts
  PROVE  TaskTypes' /\ Roles' /\ LostExclusive'
<1>1. Doing("boot", "list") \in Task /\ Doing("boot", "list").pc = "list"
  BY DoingTask DEF Ops, Places
<1>2. RoleOK(Doing("boot", "list"))
  BY <1>1 DEF RoleOK
<1>3. \A h \in Handlers : task'[h] \in {Idle, Doing("boot", "list")}
  BY DEF Restarts
<1>4. TaskTypes'
  BY <1>1, IdleTask DEF Restarts, TaskTypes
<1>5. Roles'
  BY <1>2, <1>3, IdleTask DEF Roles, RoleOK
<1>6. \A h \in Handlers : ~Losing(h)'
  BY <1>1, <1>3, IdleTask DEF Losing, At
<1>7. LostExclusive'
  BY <1>6 DEF LostExclusive, Restarts
<1>. QED
  BY <1>4, <1>5, <1>7

\* detach() begins: for a lost session nobody else is losing one.
LEMMA DetachesKeeps ==
  ASSUME TaskTypes, Roles, LostExclusive, NEW h \in Handlers, Detaches(h)
  PROVE  /\ TaskTypes' /\ Roles' /\ LostExclusive'
         /\ live' # NoClient => At(h, "detach")'
<1>1. PICK t \in Task :
        /\ RoleOK(t) /\ Step(h, t)
        /\ t.pc = (IF live = NoClient THEN AfterDetach(t.op) ELSE "detach")
        /\ \/ t.op \in {"stop", "remove"} /\ UNCHANGED busy
           \/ t.op \in Losers /\ ~busy /\ busy' = TRUE
  BY DEF Detaches
<1>2. TaskTypes' /\ Roles' /\ task'[h] = t /\ \A g \in Handlers \ {h} : task'[g] = task[g]
  BY <1>1, StepTasks, StepRoles
<1>3. ~Losing(h) /\ \A g \in Handlers \ {h} : Losing(g) <=> Losing(g)'
  BY <1>2 DEF Losing, At, Outside, Detaches
<1>4. CASE t.op \in {"stop", "remove"} /\ UNCHANGED busy
  <2>1. ~Losing(h)'
    BY <1>1, <1>2, <1>4 DEF Losing, At, AfterDetach
  <2>. QED
    BY <1>1, <1>2, <1>3, <1>4, <2>1 DEF LostExclusive, Detaches, At
<1>5. CASE t.op \in Losers /\ ~busy /\ busy' = TRUE
  <2>1. Losing(h)'
    BY <1>1, <1>2, <1>5 DEF Losing, At, AfterDetach, Losers
  <2>2. \A g \in Handlers \ {h} : ~Losing(g)'
    BY <1>3, <1>5 DEF LostExclusive
  <2>. QED
    BY <1>1, <1>2, <1>5, <2>1, <2>2 DEF LostExclusive, Detaches, At
<1>. QED
  BY <1>1, <1>4, <1>5

\* A detach ends: who was losing a session goes on losing it.
LEMMA DropsKeeps ==
  ASSUME TaskTypes, Roles, LostExclusive, NEW h \in Handlers, Drops(h)
  PROVE  TaskTypes' /\ Roles' /\ LostExclusive'
<1>1. PICK t \in Task :
        RoleOK(t) /\ Step(h, t) /\ t.op = task[h].op /\ t.pc = AfterDetach(t.op)
  BY DEF Drops
<1>2. TaskTypes' /\ Roles' /\ task'[h] = t /\ \A g \in Handlers \ {h} : task'[g] = task[g]
  BY <1>1, StepTasks, StepRoles
<1>3. t.op \in Losers \cup {"stop", "remove"}
  BY <1>1, RoleOf DEF Drops, At, RoleOK
<1>4. \A g \in Handlers : Losing(g) <=> Losing(g)'
  BY <1>1, <1>2, <1>3 DEF Losing, At, Drops, AfterDetach, Losers
<1>5. LostExclusive'
  BY <1>4 DEF LostExclusive, Drops
<1>. QED
  BY <1>2, <1>5

\* handleSessionLost goes on to its last await, or ends and lowers the flag.
LEMMA LosingKeeps ==
  ASSUME TaskTypes, Roles, LostExclusive, NEW h \in Handlers, GoesOn(h) \/ Lowers(h)
  PROVE  /\ TaskTypes' /\ Roles' /\ LostExclusive'
         /\ \A g \in Handlers : At(g, "detach") => At(g, "detach")'
<1>1. PICK t \in Task :
        /\ RoleOK(t) /\ Step(h, t)
        /\ (GoesOn(h) /\ t.pc = "lostRow") \/ (Lowers(h) /\ Outside(t))
  <2>1. CASE GoesOn(h)
    BY <2>1 DEF GoesOn
  <2>2. CASE Lowers(h)
    BY <2>2 DEF Lowers
  <2>. QED
    BY <2>1, <2>2
<1>2. TaskTypes' /\ Roles' /\ task'[h] = t /\ \A g \in Handlers \ {h} : task'[g] = task[g]
  BY <1>1, StepTasks, StepRoles
<1>3. Losing(h) /\ task[h].pc # "detach"
  BY DEF GoesOn, Lowers, Losing, At
<1>4. \A g \in Handlers \ {h} : ~Losing(g) /\ ~Losing(g)'
  BY <1>2, <1>3 DEF LostExclusive, Losing, At
<1>5. CASE GoesOn(h) /\ t.pc = "lostRow"
  <2>1. Losing(h)' /\ busy' = busy /\ busy
    BY <1>2, <1>3, <1>5 DEF Losing, GoesOn, memoryVars, LostExclusive
  <2>. QED
    BY <1>2, <1>3, <1>4, <2>1 DEF LostExclusive, At
<1>6. CASE Lowers(h) /\ Outside(t)
  <2>1. ~Losing(h)' /\ busy' = FALSE
    BY <1>2, <1>6 DEF Losing, At, Outside, Lowers
  <2>. QED
    BY <1>2, <1>3, <1>4, <2>1 DEF LostExclusive, At
<1>. QED
  BY <1>1, <1>5, <1>6

\* The maps, the timer, the subscription and the flag.
LEMMA MemoryNext ==
  ASSUME IInv, NEW h \in Handlers, Effect(h)
  PROVE  /\ MemoryTypes' /\ TaskTypes' /\ Roles'
         /\ LiveIsWatched' /\ OneListener' /\ LostExclusive'
<1>. /\ MemoryTypes /\ TaskTypes /\ Roles
     /\ LiveIsWatched /\ OneListener /\ LostExclusive
  BY DEF IInv, TypeOK
<1>1. CASE Calm(h)
  <2>1. Plain(h) /\ UNCHANGED memoryVars
    BY <1>1 DEF Calm
  <2>. QED
    BY <2>1, PlainKeeps DEF memoryVars, MemoryTypes, LiveIsWatched, OneListener
<1>2. CASE Attaches(h)
  <2>1. /\ Plain(h) /\ live' \in Clients /\ watched' = TRUE
        /\ UNCHANGED listener /\ UNCHANGED subs /\ UNCHANGED busy
    BY <1>2 DEF Attaches
  <2>. QED
    BY <2>1, PlainKeeps DEF MemoryTypes, LiveIsWatched, OneListener
<1>3. CASE Subscribes(h)
  <2>1. /\ Plain(h) /\ listener' \in Clients
        /\ subs' = (subs \ {listener}) \cup {listener'}
        /\ UNCHANGED live /\ UNCHANGED watched /\ UNCHANGED busy
    BY <1>3 DEF Subscribes
  <2>2. subs' = {listener'}
    BY <2>1 DEF OneListener
  <2>. QED
    BY <2>1, <2>2, PlainKeeps DEF MemoryTypes, LiveIsWatched, OneListener
<1>4. CASE Detaches(h)
  <2>1. /\ watched' = FALSE /\ listener' = NoClient /\ subs' = {}
        /\ UNCHANGED live /\ busy' \in BOOLEAN
    BY <1>4 DEF Detaches, OneListener, MemoryTypes
  <2>. QED
    BY <1>4, <2>1, DetachesKeeps DEF MemoryTypes, LiveIsWatched, OneListener
<1>5. CASE Drops(h)
  BY <1>5, DropsKeeps DEF Drops, MemoryTypes, LiveIsWatched, OneListener
<1>6. CASE GoesOn(h) \/ Lowers(h)
  <2>1. /\ UNCHANGED live /\ UNCHANGED watched /\ UNCHANGED listener /\ UNCHANGED subs
        /\ busy' \in BOOLEAN
    BY <1>6 DEF GoesOn, Lowers, memoryVars, MemoryTypes
  <2>. QED
    BY <1>6, <2>1, LosingKeeps DEF MemoryTypes, LiveIsWatched, OneListener
<1>7. CASE TimerStops
  BY <1>7 DEF TimerStops, MemoryTypes, TaskTypes, Roles, LiveIsWatched, OneListener,
              LostExclusive, Losing, At
<1>8. CASE Elsewhere
  BY <1>8 DEF Elsewhere, memoryVars, MemoryTypes, TaskTypes, Roles, LiveIsWatched,
              OneListener, LostExclusive, Losing, At
<1>9. CASE Restarts
  BY <1>9, RestartsKeeps DEF Restarts, MemoryTypes, LiveIsWatched, OneListener
<1>. QED
  BY <1>1, <1>2, <1>3, <1>4, <1>5, <1>6, <1>7, <1>8, <1>9 DEF Effect

-----------------------------------------------------------------------------
(* The stores, Telegram, the connections and the bounds keep their types *)

LEMMA StoreFrame == StoreTypes /\ UNCHANGED storeVars => StoreTypes'
BY DEF StoreTypes, storeVars

LEMMA TelegramFrame == TelegramTypes /\ UNCHANGED tgVars => TelegramTypes'
BY DEF TelegramTypes, tgVars

LEMMA WireFrame == WireTypes /\ UNCHANGED wireVars => WireTypes'
BY DEF WireTypes, wireVars

LEMMA HistoryFrame == HistoryTypes /\ UNCHANGED removed => HistoryTypes'
BY DEF HistoryTypes

LEMMA BudgetFrame == BudgetTypes /\ (Fault \/ NoFault \/ UNCHANGED budgetVars) => BudgetTypes'
BY DEF BudgetTypes, Fault, NoFault, budgetVars

LEMMA RowThrowsFrame == RowThrows => Fault \/ NoFault
BY DEF RowThrows

LEMMA ProcessDiesTypes ==
  ASSUME StoreTypes, TelegramTypes, ProcessDies
  PROVE  StoreTypes' /\ TelegramTypes' /\ WireTypes' /\ removed' = removed
<1>1. WireTypes'
  BY DEF ProcessDies, WireTypes
<1>. QED
  BY <1>1, StoreFrame, TelegramFrame DEF ProcessDies

DataTypes == StoreTypes /\ TelegramTypes /\ WireTypes /\ BudgetTypes /\ HistoryTypes

LEMMA CallData ==
  ASSUME IInv, NEW h \in Handlers, NewCall(h) \/ Health(h)
  PROVE  DataTypes'
<1>. DataTypes
  BY DEF IInv, TypeOK, DataTypes
<1>. USE StoreFrame, TelegramFrame, WireFrame, HistoryFrame, BudgetFrame DEF DataTypes
<1>1. CASE Stop(h) \/ Remove(h)
  BY <1>1 DEF Stop, Remove, Detach, WireTypes
<1>2. CASE DeleteOwner(h)
  BY <1>2 DEF DeleteOwner, StoreTypes
<1>3. CASE Start(h) \/ Login(h) \/ Request(h) \/ Health(h)
  BY <1>3 DEF Start, Login, Request, Health
<1>. QED
  BY <1>1, <1>2, <1>3 DEF NewCall

LEMMA AnswerData ==
  ASSUME IInv, NEW h \in Handlers, Answer(h)
  PROVE  DataTypes'
<1>. DataTypes
  BY DEF IInv, TypeOK, DataTypes
<1>. USE StoreFrame, TelegramFrame, WireFrame, HistoryFrame, BudgetFrame DEF DataTypes
<1>1. CASE AskPassword(h) \/ LoginRefused(h) \/ RequestEnds(h)
  BY <1>1 DEF AskPassword, LoginRefused, RequestEnds
<1>2. CASE LoginAccepted(h)
  <2>1. PICK k \in Keys \ issued :
          /\ issued' = issued \cup {k}
          /\ valid' = valid \cup {k}
          /\ keyOf' = [keyOf EXCEPT ![task[h].client] = k]
    BY <1>2 DEF LoginAccepted
  <2>2. TelegramTypes'
    BY <2>1 DEF TelegramTypes
  <2>3. WireTypes'
    BY <1>2, <2>1 DEF LoginAccepted, WireTypes
  <2>. QED
    BY <1>2, <2>2, <2>3 DEF LoginAccepted
<1>. QED
  BY <1>1, <1>2 DEF Answer

LEMMA LostThrowsData ==
  ASSUME DataTypes, NEW h \in Handlers, task[h].op \in Losers, LostThrows(h)
  PROVE  /\ StoreTypes' /\ WireTypes' /\ removed' = removed
<1>1. CASE task[h].op \in {"health", "report"}
  BY <1>1, ProcessDiesTypes DEF LostThrows, DataTypes
<1>2. CASE task[h].op \in {"start", "restore", "boot"}
  BY <1>2, StoreFrame, WireFrame DEF LostThrows, DataTypes
<1>. QED
  BY <1>1, <1>2 DEF Losers

\* The steps of stop, remove, handleSessionLost and of those who find out.
LEMMA WorkData ==
  ASSUME IInv, NEW h \in Handlers,
         \/ DetachDone(h) \/ StopRow(h) \/ RemoveRow(h) \/ RemoveSession(h)
         \/ LostSession(h) \/ LostRow(h) \/ Look(h)
         \/ ProbeHealthy(h) \/ ProbeUnhealthy(h) \/ RequestRevoked(h)
  PROVE  DataTypes'
<1>. DataTypes /\ RoleOK(task[h])
  BY DEF IInv, TypeOK, DataTypes, Roles
<1>. USE StoreFrame, TelegramFrame, WireFrame, HistoryFrame, BudgetFrame, RowThrowsFrame
     DEF DataTypes
<1>1. CASE DetachDone(h) \/ Look(h) \/ ProbeHealthy(h)
  BY <1>1 DEF DetachDone, Look, ProbeHealthy
<1>2. CASE StopRow(h)
  BY <1>2 DEF StopRow, StoreTypes, Statuses
<1>3. CASE RemoveRow(h)
  BY <1>3 DEF RemoveRow, StoreTypes
<1>4. CASE RemoveSession(h)
  BY <1>4 DEF RemoveSession, StoreTypes, HistoryTypes
<1>5. SessionLost(h) => WireTypes'
  BY DEF SessionLost, Detach, WireTypes, wireVars
<1>6. CASE ProbeUnhealthy(h)
  BY <1>5, <1>6 DEF ProbeUnhealthy
<1>7. CASE RequestRevoked(h)
  BY <1>5, <1>7 DEF RequestRevoked
<1>8. CASE LostSession(h)
  <2>1. task[h].op \in Losers
    BY <1>8 DEF LostSession, At, RoleOK
  <2>2. CASE LostThrows(h) /\ Fault
    BY <1>8, <2>1, <2>2, LostThrowsData DEF LostSession, HistoryTypes
  <2>3. CASE saved' = NoKey /\ NoFault /\ UNCHANGED <<row, wireVars, removed>>
    BY <1>8, <2>3 DEF LostSession, StoreTypes
  <2>. QED
    BY <1>8, <2>2, <2>3 DEF LostSession
<1>9. CASE LostRow(h)
  <2>1. task[h].op \in Losers
    BY <1>9 DEF LostRow, At, RoleOK
  <2>2. CASE LostThrows(h) /\ RowThrows
    BY <1>9, <2>1, <2>2, LostThrowsData DEF LostRow, HistoryTypes
  <2>3. CASE row' = "error" /\ NoFault /\ UNCHANGED <<saved, wireVars, removed>>
    BY <1>9, <2>3 DEF LostRow, StoreTypes, Statuses
  <2>. QED
    BY <1>9, <2>2, <2>3 DEF LostRow
<1>. QED
  BY <1>1, <1>2, <1>3, <1>4, <1>6, <1>7, <1>8, <1>9

LEMMA RestoreData ==
  ASSUME IInv, NEW h \in Handlers, Restoring(h)
  PROVE  DataTypes'
<1>. DataTypes /\ RoleOK(task[h])
  BY DEF IInv, TypeOK, DataTypes, Roles
<1>. USE StoreFrame, TelegramFrame, WireFrame, HistoryFrame, BudgetFrame, RowThrowsFrame
     DEF DataTypes
<1>1. RestoreThrows(h) => StoreTypes' /\ WireTypes' /\ removed' = removed
  BY ProcessDiesTypes DEF RestoreThrows
<1>2. RestoreFails(h) => WireTypes'
  BY DEF RestoreFails, WireTypes
<1>3. CASE Load(h)
  <2>1. CASE RestoreThrows(h) /\ Fault
    BY <1>1, <1>3, <2>1 DEF Load, HistoryTypes
  <2>2. CASE NoFault /\ UNCHANGED <<storeVars, wireVars, removed>>
    BY <1>3, <2>2 DEF Load
  <2>. QED
    BY <1>3, <2>1, <2>2 DEF Load
<1>4. CASE Connect(h)
  <2>1. ASSUME NEW c \in Clients, Connected(h, c, task[h].key, "check")
        PROVE  WireTypes'
    <3>1. task[h].key \in Keys \cup {NoKey}
      BY DEF IInv, TypeOK, TaskTypes, Task
    <3>. QED
      BY <2>1, <3>1 DEF Connected, WireTypes
  <2>. QED
    BY <1>2, <1>4, <2>1 DEF Connect
<1>5. CASE Check(h)
  BY <1>2, <1>5 DEF Check, WireTypes, wireVars
<1>6. CASE MeKnown(h) \/ MeNull(h)
  BY <1>6 DEF MeKnown, MeNull
<1>7. CASE MeRevoked(h)
  BY <1>7 DEF MeRevoked, WireTypes
<1>8. CASE MeFails(h)
  BY <1>2, <1>8 DEF MeFails
<1>9. CASE RefuseSession(h)
  BY <1>2, <1>9 DEF RefuseSession, StoreTypes
<1>10. CASE RefuseRow(h)
  BY <1>2, <1>10 DEF RefuseRow, StoreTypes, Statuses
<1>11. CASE UndoSession(h)
  <2>1. CASE RestoreThrows(h) /\ Fault
    BY <1>1, <1>11, <2>1 DEF UndoSession, HistoryTypes
  <2>2. CASE saved' = NoKey /\ NoFault /\ UNCHANGED <<row, wireVars, removed>>
    BY <1>11, <2>2 DEF UndoSession, StoreTypes
  <2>. QED
    BY <1>11, <2>1, <2>2 DEF UndoSession
<1>12. CASE UndoRow(h)
  <2>1. CASE RestoreThrows(h) /\ RowThrows
    BY <1>1, <1>12, <2>1 DEF UndoRow, HistoryTypes
  <2>2. CASE row' = "error" /\ NoFault /\ UNCHANGED <<saved, wireVars, removed>>
    BY <1>12, <2>2 DEF UndoRow, StoreTypes, Statuses
  <2>. QED
    BY <1>12, <2>1, <2>2 DEF UndoRow
<1>. QED
  BY <1>3, <1>4, <1>5, <1>6, <1>7, <1>8, <1>9, <1>10, <1>11, <1>12 DEF Restoring

LEMMA LoginData ==
  ASSUME IInv, NEW h \in Handlers,
         \/ LoginConnect(h) \/ LoginRow(h) \/ Prompt(h) \/ SaveSession(h) \/ AttachLogin(h)
         \/ AuthorizedRow(h) \/ Sync(h) \/ FailRow(h)
  PROVE  DataTypes'
<1>. DataTypes /\ RoleOK(task[h])
  BY DEF IInv, TypeOK, DataTypes, Roles
<1>. USE StoreFrame, TelegramFrame, WireFrame, HistoryFrame, BudgetFrame, RowThrowsFrame
     DEF DataTypes
<1>1. CASE LoginConnect(h)
  <2>1. ASSUME NEW c \in Clients, Connected(h, c, NoKey, "loginRow")
        PROVE  WireTypes'
    BY <2>1 DEF Connected, WireTypes
  <2>. QED
    BY <1>1, <2>1 DEF LoginConnect
<1>2. CASE LoginRow(h)
  BY <1>2 DEF LoginRow, LoginUpdate, StoreTypes, Statuses
<1>3. CASE Prompt(h)
  BY <1>3 DEF Prompt, LoginUpdate, StoreTypes, Statuses
<1>4. CASE SaveSession(h)
  <2>1. keyOf[task[h].client] \in Keys \cup {NoKey}
    BY <1>4 DEF SaveSession, At, RoleOK, WireTypes
  <2>. QED
    BY <1>4, <2>1 DEF SaveSession, StoreTypes
<1>5. CASE AttachLogin(h) \/ Sync(h)
  BY <1>5 DEF AttachLogin, Sync
<1>6. CASE AuthorizedRow(h)
  BY <1>6 DEF AuthorizedRow, RestoreFails, StoreTypes, Statuses, WireTypes, wireVars
<1>7. CASE FailRow(h)
  <2>1. CASE ProcessDies /\ RowThrows
    BY <1>7, <2>1, ProcessDiesTypes DEF FailRow, HistoryTypes
  <2>2. CASE /\ row' = "error" /\ open' = open \ {task[h].client} /\ NoFault
             /\ UNCHANGED <<saved, keyOf, removed>>
    BY <1>7, <2>2 DEF FailRow, StoreTypes, Statuses, WireTypes
  <2>. QED
    BY <1>7, <2>1, <2>2 DEF FailRow
<1>. QED
  BY <1>1, <1>2, <1>3, <1>4, <1>5, <1>6, <1>7

LEMMA DataNext ==
  ASSUME IInv, [Next]_vars
  PROVE  DataTypes'
<1>. DataTypes
  BY DEF IInv, TypeOK, DataTypes
<1>0. Boot \in Handlers /\ Calls \subseteq Handlers /\ Timers \subseteq Handlers
  BY DEF Handlers
<1>. USE StoreFrame, TelegramFrame, WireFrame, HistoryFrame, BudgetFrame DEF DataTypes
<1>1. CASE \E h \in Calls : NewCall(h)
  BY <1>0, <1>1, CallData
<1>2. CASE \E h \in Timers : Health(h)
  BY <1>0, <1>2, CallData
<1>3. CASE BootList
  BY <1>3 DEF BootList
<1>4. CASE \E h \in Handlers : Work(h)
  BY <1>4, WorkData, RestoreData, LoginData DEF Work
<1>5. CASE \E h \in Handlers : Answer(h)
  BY <1>5, AnswerData
<1>6. CASE \E k \in Keys : Revoke(k)
  BY <1>6 DEF Revoke, TelegramTypes
<1>7. CASE CrashRestart
  BY <1>7, ProcessDiesTypes DEF CrashRestart, BudgetTypes, HistoryTypes
<1>8. CASE UNCHANGED vars
  BY <1>8 DEF vars
<1>. QED
  BY <1>1, <1>2, <1>3, <1>4, <1>5, <1>6, <1>7, <1>8 DEF Next

-----------------------------------------------------------------------------
(* The inductive invariant *)

LEMMA InvariantInit == Init => IInv
<1>. SUFFICES ASSUME Init PROVE IInv
  OBVIOUS
<1>1. \A h \in Handlers : task[h] = Idle
  BY DEF Init
<1>2. TaskTypes /\ Roles
  BY <1>1, IdleTask DEF Init, TaskTypes, Roles
<1>3. StoreTypes /\ TelegramTypes /\ WireTypes /\ MemoryTypes /\ BudgetTypes /\ HistoryTypes
  <2>1. StoreTypes
    BY DEF Init, StoreTypes, Statuses
  <2>2. TelegramTypes /\ MemoryTypes
    BY DEF Init, TelegramTypes, MemoryTypes
  <2>3. WireTypes
    BY DEF Init, WireTypes
  <2>4. BudgetTypes
    BY DEF Init, BudgetTypes
  <2>5. HistoryTypes
    BY DEF Init, HistoryTypes
  <2>. QED
    BY <2>1, <2>2, <2>3, <2>4, <2>5
<1>4. \A h \in Handlers : ~Losing(h)
  BY <1>1, IdleTask DEF Losing, At
<1>5. LiveIsWatched /\ OneListener /\ LostExclusive
  BY <1>4 DEF Init, LiveIsWatched, OneListener, LostExclusive
<1>. QED
  BY <1>2, <1>3, <1>5 DEF IInv, TypeOK

LEMMA InvariantNext == IInv /\ [Next]_vars => IInv'
<1>. SUFFICES ASSUME IInv, [Next]_vars PROVE IInv'
  OBVIOUS
<1>1. DataTypes'
  BY DataNext
<1>2. /\ MemoryTypes' /\ TaskTypes' /\ Roles'
      /\ LiveIsWatched' /\ OneListener' /\ LostExclusive'
  BY NextEffect, MemoryNext
<1>. QED
  BY <1>1, <1>2 DEF IInv, TypeOK, DataTypes

\* The inductive invariant holds in every reachable state.
THEOREM Invariant == Spec => []IInv
<1>. QED
  BY InvariantInit, InvariantNext, PTL DEF Spec

\* Rows, sessions, maps and handlers keep their types.  For every constant: TLC
\* checks it in the run lifecycle_races.
THEOREM TypeCorrect == Spec => []TypeOK
<1>1. IInv => TypeOK
  BY DEF IInv
<1>. QED
  BY <1>1, Invariant, PTL

\* A client in the map has its health check, or is about to be dropped
\* (telegram.manager.ts, attach and detach).
THEOREM WatchedWhileLive == Spec => []LiveIsWatched
<1>1. IInv => LiveIsWatched
  BY DEF IInv
<1>. QED
  BY <1>1, Invariant, PTL

\* One client at most feeds events, however many logins and starts overlap
\* (telegram-sync.service.ts, registerRealtime).
THEOREM NoDoubleDelivery == Spec => []OneListener
<1>1. IInv => OneListener
  BY DEF IInv
<1>. QED
  BY <1>1, Invariant, PTL

\* handleSessionLost excludes itself and never leaves its flag behind
\* (telegram.manager.ts, sessionLostBusy).
THEOREM OneLoserAtATime == Spec => []LostExclusive
<1>1. IInv => LostExclusive
  BY DEF IInv
<1>. QED
  BY <1>1, Invariant, PTL

-----------------------------------------------------------------------------
(* Calls one at a time *)

\* With one API call at a time, no health check in progress and nothing that
\* fails, at most one handler is at work.
Alone == \A g, h \in Handlers : task[g] # Idle /\ task[h] # Idle => g = h
Steady == live # NoClient => live \in open /\ listener = live /\ saved = keyOf[live]

\* What the handler at work has left to do before all is steady again: a detach
\* leaves no client, a restore begins without one, and a login has its client
\* apart from the one in the map until it attaches it.
Story(t) ==
  /\ t.pc = "idle" => t = Idle
  /\ t.op \in {"start", "restore", "boot", "login"} /\ t.pc # "list" => row # "gone"
  /\ t.pc \in {"removeRow", "removeSession"} => t.op = "remove"
  /\ t.pc \in {"list", "stopRow", "removeRow", "removeSession", "lostSession", "lostRow", "load",
               "connect", "check", "me", "refuseSession", "refuseRow", "undoSession", "undoRow"}
       => live = NoClient
  /\ t.pc \in {"connect", "check", "me"} => t.key = saved
  /\ t.pc \in {"check", "me"} => t.client \in open /\ keyOf[t.client] = t.key
  /\ t.pc \in {"look", "probe", "rpc", "loginConnect", "loginRow", "scan", "prompt", "password",
               "save", "failRow"} => Steady
  /\ t.pc \in {"loginRow", "scan", "prompt", "password", "save", "failRow"} => t.client # live
  /\ t.pc \in {"loginRow", "scan", "prompt", "password", "save", "attach", "row", "sync"}
       => t.client \in open
  /\ t.pc \in {"attach", "row", "sync"} => saved = keyOf[t.client]
  /\ t.pc \in {"row", "sync"} => live = t.client /\ t.op \in {"restore", "boot", "login"}
  /\ t.pc \in {"loginConnect", "loginRow", "scan", "prompt", "password", "save", "attach", "failRow"}
       => t.op = "login"

QuietInv == Alone /\ (Quiet => Steady) /\ \A h \in Handlers : Story(task[h])

\* The other handlers have nothing to do.
Others(h) == \A g \in Handlers \ {h} : task[g] = Idle

LEMMA IdleStory == Story(Idle) /\ Story(Idle)'
BY IdleTask DEF Story, Idle, Doing

\* h goes on to t while the others have nothing to do.
LEMMA Lands ==
  ASSUME TaskTypes, NEW h \in Handlers, Others(h), NEW t \in Task, Step(h, t), Story(t)',
         t = Idle => Steady'
  PROVE  QuietInv'
<1>1. task'[h] = t /\ \A g \in Handlers \ {h} : task'[g] = Idle
  BY StepTasks DEF Others
<1>2. Alone'
  BY <1>1 DEF Alone
<1>3. Quiet' => Steady'
  BY <1>1 DEF Quiet
<1>4. \A g \in Handlers : Story(task[g])'
  BY <1>1, IdleStory DEF Story, Steady
<1>. QED
  BY <1>2, <1>3, <1>4 DEF QuietInv

LEMMA Ends ==
  ASSUME TaskTypes, NEW h \in Handlers, Others(h), End(h), Steady'
  PROVE  QuietInv'
BY Lands, EndStep, IdleTask, IdleStory

\* Where the one at work stands, and what it can rely on.
LEMMA AtWork ==
  ASSUME IInv, QuietInv, NEW h \in Handlers, task[h].pc # "idle"
  PROVE  /\ Others(h) /\ Story(task[h]) /\ RoleOK(task[h]) /\ TaskTypes /\ task[h] \in Task
         /\ ~Losing(h) => ~busy
<1>1. Others(h)
  BY IdleTask DEF QuietInv, Alone, Others
<1>2. ~Losing(h) => ~busy
  <2>1. \A g \in Handlers \ {h} : ~Losing(g)
    BY <1>1, IdleTask DEF Others, Losing, At
  <2>. QED
    BY <2>1 DEF IInv, LostExclusive
<1>. QED
  BY <1>1, <1>2 DEF QuietInv, IInv, TypeOK, Roles, TaskTypes

LEMMA NothingFails ==
  ASSUME BudgetTypes, MaxFaults = 0
  PROVE  ~Fault /\ (RowThrows => row = "gone")
BY DEF BudgetTypes, Fault, RowThrows

LEMMA DiesQuiet == ASSUME ProcessDies PROVE QuietInv'
<1>1. /\ task' = [h \in Handlers |-> IF h = Boot THEN Doing("boot", "list") ELSE Idle]
      /\ live' = NoClient
  BY DEF ProcessDies
<1>2. Doing("boot", "list").op = "boot" /\ Doing("boot", "list").pc = "list"
  BY DEF Doing
<1>3. Alone'
  BY <1>1 DEF Alone
<1>4. Steady'
  BY <1>1 DEF Steady
<1>5. \A h \in Handlers : Story(task[h])'
  <2>1. Story(Doing("boot", "list"))'
    BY <1>1, <1>2 DEF Story
  <2>. QED
    BY <1>1, <2>1, IdleStory DEF Story, Steady
<1>. QED
  BY <1>3, <1>4, <1>5 DEF QuietInv

\* detach() up to its await, by a stop, a removal or a lost session.
LEMMA DetachQuiet ==
  ASSUME TaskTypes, NEW h \in Handlers, Others(h), NEW o \in Losers \cup {"stop", "remove"},
         Detach(h, o), row' = row, o \in {"start", "restore", "boot"} => row # "gone"
  PROVE  QuietInv'
<1>1. PICK t \in Task :
        Step(h, t) /\ t.op = o /\ t.pc = (IF live = NoClient THEN AfterDetach(o) ELSE "detach")
  BY DetachStep DEF Detach
<1>2. live' = live
  BY DEF Detach
<1>3. Story(t)' /\ t # Idle
  BY <1>1, <1>2, IdleTask DEF Story, AfterDetach, Losers
<1>. QED
  BY <1>1, <1>3, Lands

LEMMA CallQuiet ==
  ASSUME IInv, QuietInv, NEW h \in Calls, Calls = {h}, Timers = {}, NewCall(h)
  PROVE  QuietInv'
<1>1. h \in Handlers /\ Boot \in Handlers /\ \A g \in Handlers \ {h} : g = Boot
  BY DEF Handlers
<1>2. Up /\ At(h, "idle")
  BY DEF NewCall, Stop, Remove, DeleteOwner, Start, Login, Request
<1>3. Others(h) /\ task[h] = Idle /\ TaskTypes /\ Steady
  <2>1. task[h] = Idle
    BY <1>1, <1>2 DEF QuietInv, Story, At
  <2>2. Quiet
    BY <1>1, <1>2, <2>1 DEF Quiet, Up
  <2>. QED
    BY <1>1, <1>2, <2>1, <2>2 DEF Others, Up, QuietInv, IInv, TypeOK
<1>4. CASE Stop(h)
  BY <1>1, <1>3, <1>4, DetachQuiet DEF Stop, storeVars
<1>5. CASE Remove(h)
  BY <1>1, <1>3, <1>5, DetachQuiet DEF Remove, storeVars
<1>6. CASE DeleteOwner(h)
  <2>1. task' = task /\ UNCHANGED <<live, open, listener, saved, keyOf>>
    BY <1>6 DEF DeleteOwner, memoryVars, wireVars
  <2>2. Step(h, Idle)
    BY <1>1, <1>3, <2>1 DEF Step, TaskTypes
  <2>3. Steady'
    BY <1>3, <2>1 DEF Steady
  <2>. QED
    BY <1>1, <1>3, <2>2, <2>3, Lands, IdleTask, IdleStory
<1>7. CASE Start(h) \/ Login(h) \/ Request(h)
  <2>1. PICK o \in {"start", "login", "report"}, l \in {"look", "loginConnect", "rpc"}, c \in Clients \cup {NoClient} :
          /\ Becomes(h, o, l, c, NoKey) /\ (o # "report" => row # "gone") /\ (l = "loginConnect" => o = "login")
          /\ UNCHANGED <<row, saved, open, keyOf, live, listener>>
    BY <1>7 DEF Start, Login, Request, storeVars, wireVars, memoryVars, IInv, TypeOK, MemoryTypes
  <2>2. PICK t \in Task : Step(h, t) /\ t.op = o /\ t.pc = l
    BY <1>1, <2>1, BecomesStep DEF Ops, Places
  <2>3. Steady'
    BY <1>3, <2>1 DEF Steady
  <2>4. Story(t)'
    BY <2>1, <2>2, <2>3 DEF Story
  <2>. QED
    BY <1>1, <1>3, <2>2, <2>3, <2>4, Lands
<1>. QED
  BY <1>4, <1>5, <1>6, <1>7 DEF NewCall

LEMMA BootQuiet ==
  ASSUME IInv, QuietInv, BootList
  PROVE  QuietInv'
<1>1. Boot \in Handlers /\ task[Boot].pc = "list"
  BY DEF Handlers, BootList, At
<1>2. Others(Boot) /\ TaskTypes /\ live = NoClient
  BY <1>1, AtWork DEF Story
<1>3. UNCHANGED <<row, saved, open, keyOf, live, listener>>
  BY DEF BootList, storeVars, wireVars, memoryVars
<1>4. CASE End(Boot)
  BY <1>1, <1>2, <1>3, <1>4, Ends DEF Steady
<1>5. CASE row # "gone" /\ Becomes(Boot, "boot", "load", NoClient, NoKey)
  <2>1. PICK t \in Task : Step(Boot, t) /\ t.op = "boot" /\ t.pc = "load"
    BY <1>1, <1>5, BecomesStep DEF Ops, Places
  <2>2. Story(t)' /\ t # Idle
    BY <1>2, <1>3, <1>5, <2>1, IdleTask DEF Story
  <2>. QED
    BY <1>1, <1>2, <2>1, <2>2, Lands
<1>. QED
  BY <1>4, <1>5 DEF BootList

\* After a detach: the row, and the session of an instance that is removed.
LEMMA DetachedQuiet ==
  ASSUME IInv, QuietInv, MaxFaults = 0, NEW h \in Handlers,
         DetachDone(h) \/ StopRow(h) \/ RemoveRow(h) \/ RemoveSession(h)
  PROVE  QuietInv'
<1>1. task[h].pc \in {"detach", "stopRow", "removeRow", "removeSession"}
  BY DEF DetachDone, StopRow, RemoveRow, RemoveSession, At
<1>2. /\ Others(h) /\ Story(task[h]) /\ RoleOK(task[h]) /\ TaskTypes /\ task[h] \in Task
      /\ ~Fault /\ (RowThrows => row = "gone")
  BY <1>1, AtWork, NothingFails DEF IInv, TypeOK
<1>3. CASE DetachDone(h)
  <2>1. /\ task[h].pc = "detach" /\ live' = NoClient /\ Goto(h, AfterDetach(task[h].op))
        /\ UNCHANGED <<row, saved, open, keyOf>>
    BY <1>3 DEF DetachDone, At, storeVars, wireVars
  <2>2. /\ AfterDetach(task[h].op) \in {"stopRow", "removeRow", "lostSession"}
        /\ AfterDetach(task[h].op) = "removeRow" => task[h].op = "remove"
    BY DEF AfterDetach
  <2>3. PICK t \in Task : Step(h, t) /\ t.op = task[h].op /\ t.pc = AfterDetach(task[h].op)
    BY <1>2, <2>1, <2>2, GotoStep DEF Places
  <2>4. Story(t)' /\ t # Idle
    BY <1>2, <2>1, <2>2, <2>3, IdleTask DEF Story
  <2>. QED
    BY <1>2, <2>3, <2>4, Lands
<1>4. CASE End(h) /\ (StopRow(h) \/ RemoveRow(h) \/ RemoveSession(h))
  <2>1. live' = NoClient
    BY <1>2, <1>4 DEF StopRow, RemoveRow, RemoveSession, Story, memoryVars, At
  <2>. QED
    BY <1>2, <1>4, <2>1, Ends DEF Steady
<1>5. CASE Goto(h, "removeSession") /\ RemoveRow(h)
  <2>1. task[h].pc = "removeRow" /\ task[h].op = "remove" /\ live' = NoClient
    BY <1>2, <1>5 DEF RemoveRow, Story, memoryVars, At
  <2>2. PICK t \in Task : Step(h, t) /\ t.op = task[h].op /\ t.pc = "removeSession"
    BY <1>2, <1>5, GotoStep DEF Places
  <2>3. Story(t)' /\ t # Idle
    BY <2>1, <2>2, IdleTask DEF Story
  <2>. QED
    BY <1>2, <2>2, <2>3, Lands
<1>. QED
  BY <1>3, <1>4, <1>5 DEF StopRow, RemoveRow, RemoveSession

\* handleSessionLost, from its guard to the `finally`.
LEMMA LosingQuiet ==
  ASSUME IInv, QuietInv, MaxFaults = 0, NEW h \in Handlers,
         \/ ProbeUnhealthy(h) \/ RequestRevoked(h) \/ MeRevoked(h)
         \/ LostSession(h) \/ LostRow(h)
  PROVE  QuietInv'
<1>1. task[h].pc \in {"probe", "rpc", "me", "lostSession", "lostRow"}
  BY DEF ProbeUnhealthy, RequestRevoked, MeRevoked, LostSession, LostRow, At
<1>2. /\ Others(h) /\ Story(task[h]) /\ RoleOK(task[h]) /\ TaskTypes /\ task[h] \in Task
      /\ ~Fault /\ (RowThrows => row = "gone")
      /\ task[h].pc \in {"probe", "rpc", "me"} => ~busy
  BY <1>1, AtWork, NothingFails DEF IInv, TypeOK, Losing, At
<1>3. CASE ProbeUnhealthy(h) \/ RequestRevoked(h)
  <2>1. Detach(h, task[h].op) /\ row' = row /\ task[h].pc \in {"probe", "rpc"}
    BY <1>2, <1>3 DEF ProbeUnhealthy, RequestRevoked, SessionLost, storeVars, At
  <2>2. task[h].op \in Losers /\ (task[h].op \in {"start", "restore", "boot"} => row # "gone")
    BY <1>2, <2>1 DEF RoleOK, Losers, Story
  <2>. QED
    BY <1>2, <2>1, <2>2, DetachQuiet
<1>4. CASE MeRevoked(h)
  <2>1. /\ task[h].pc = "me" /\ live = NoClient /\ live' = live /\ row' = row
        /\ Goto(h, "lostSession")
    BY <1>2, <1>4 DEF MeRevoked, Story, storeVars, At
  <2>2. PICK t \in Task : Step(h, t) /\ t.op = task[h].op /\ t.pc = "lostSession"
    BY <1>2, <2>1, GotoStep DEF Places
  <2>3. Story(t)' /\ t # Idle
    BY <1>2, <2>1, <2>2, IdleTask DEF Story
  <2>. QED
    BY <1>2, <2>2, <2>3, Lands
<1>5. CASE LostSession(h)
  <2>1. /\ task[h].pc = "lostSession" /\ live' = NoClient /\ row' = row
        /\ Goto(h, "lostRow")
    BY <1>2, <1>5 DEF LostSession, Story, memoryVars, At
  <2>2. PICK t \in Task : Step(h, t) /\ t.op = task[h].op /\ t.pc = "lostRow"
    BY <1>2, <2>1, GotoStep DEF Places
  <2>3. Story(t)' /\ t # Idle
    BY <1>2, <2>1, <2>2, IdleTask DEF Story
  <2>. QED
    BY <1>2, <2>2, <2>3, Lands
<1>6. CASE LostRow(h)
  <2>1. task[h].pc = "lostRow" /\ live = NoClient /\ task[h].op \in Losers
    BY <1>2, <1>6 DEF LostRow, Story, RoleOK, At
  <2>2. CASE row' = "error" /\ live' = live /\ AfterLost(h)
    <3>1. CASE End(h)
      BY <1>2, <2>1, <2>2, <3>1, Ends DEF Steady
    <3>2. CASE Becomes(h, "restore", "load", NoClient, NoKey)
      <4>1. PICK t \in Task : Step(h, t) /\ t.op = "restore" /\ t.pc = "load"
        BY <3>2, BecomesStep DEF Ops, Places
      <4>2. Story(t)' /\ t # Idle
        BY <2>1, <2>2, <4>1, IdleTask DEF Story
      <4>. QED
        BY <1>2, <4>1, <4>2, Lands
    <3>. QED
      BY <2>2, <3>1, <3>2 DEF AfterLost
  <2>3. CASE row = "gone" /\ LostThrows(h)
    <3>1. task[h].op \in {"health", "report"}
      BY <1>2, <2>1, <2>3 DEF Story, Losers
    <3>2. ProcessDies
      BY <2>3, <3>1 DEF LostThrows
    <3>. QED
      BY <3>2, DiesQuiet
  <2>. QED
    BY <1>2, <1>6, <2>2, <2>3 DEF LostRow
<1>. QED
  BY <1>3, <1>4, <1>5, <1>6

\* Goto, without losing what the story needs.
LEMMA GotoLands ==
  ASSUME TaskTypes, NEW h \in Handlers, Others(h), NEW l \in Places \ {"idle"}, Goto(h, l),
         ASSUME NEW t \in Task, t.op = task[h].op, t.pc = l, t.client = task[h].client,
                t.key = task[h].key
         PROVE  Story(t)'
  PROVE  QuietInv'
<1>1. PICK t \in Task :
        Step(h, t) /\ t.op = task[h].op /\ t.pc = l /\ t.client = task[h].client
        /\ t.key = task[h].key
  BY GotoStep
<1>2. Story(t)' /\ t # Idle
  BY <1>1, IdleTask
<1>. QED
  BY <1>1, <1>2, Lands

\* restore(), and the probe that finds the session in order.
LEMMA RestoreQuiet ==
  ASSUME IInv, QuietInv, MaxFaults = 0, NEW h \in Handlers,
         Look(h) \/ ProbeHealthy(h) \/ (Restoring(h) /\ ~MeRevoked(h))
  PROVE  QuietInv'
<1>1. task[h].pc \in {"look", "probe", "load", "connect", "check", "me", "refuseSession",
                      "refuseRow", "undoSession", "undoRow"}
  BY DEF Look, ProbeHealthy, Restoring, Load, Connect, Check, MeKnown, MeNull, MeFails,
         RefuseSession, RefuseRow, UndoSession, UndoRow, At
<1>2. /\ Others(h) /\ Story(task[h]) /\ RoleOK(task[h]) /\ TaskTypes /\ task[h] \in Task
      /\ ~Fault /\ (RowThrows => row = "gone") /\ WireTypes /\ MemoryTypes /\ StoreTypes
  BY <1>1, AtWork, NothingFails DEF IInv, TypeOK
<1>3. CASE Look(h)
  <2>1. /\ task[h].pc = "look" /\ task[h].op = "start" /\ row # "gone" /\ Steady
        /\ UNCHANGED <<row, saved, open, keyOf, live, listener>>
    BY <1>2, <1>3 DEF Look, Story, RoleOK, At, storeVars, wireVars, memoryVars
  <2>2. CASE live = NoClient /\ Becomes(h, "restore", "load", NoClient, NoKey)
    <3>1. PICK t \in Task : Step(h, t) /\ t.op = "restore" /\ t.pc = "load"
      BY <2>2, BecomesStep DEF Ops, Places
    <3>2. Story(t)' /\ t # Idle
      BY <2>1, <2>2, <3>1, IdleTask DEF Story
    <3>. QED
      BY <1>2, <3>1, <3>2, Lands
  <2>3. CASE live # NoClient /\ Becomes(h, "start", "probe", live, NoKey)
    <3>1. PICK t \in Task : Step(h, t) /\ t.op = "start" /\ t.pc = "probe"
      BY <1>2, <2>3, BecomesStep DEF Ops, Places, MemoryTypes
    <3>2. Steady'
      BY <2>1 DEF Steady
    <3>3. Story(t)' /\ t # Idle
      BY <2>1, <3>1, <3>2, IdleTask DEF Story
    <3>. QED
      BY <1>2, <3>1, <3>3, Lands
  <2>. QED
    BY <1>3, <2>2, <2>3 DEF Look
<1>4. CASE ProbeHealthy(h)
  <2>1. Steady /\ End(h) /\ UNCHANGED <<saved, open, keyOf, live, listener>>
    BY <1>2, <1>4 DEF ProbeHealthy, Story, At, storeVars, wireVars, memoryVars
  <2>. QED
    BY <1>2, <2>1, Ends DEF Steady
<1>5. CASE Restoring(h) /\ End(h) /\ live' = live
  <2>1. live' = NoClient
    BY <1>2, <1>5 DEF Restoring, Load, Connect, Check, MeKnown, MeNull, MeRevoked, MeFails,
       RefuseSession, RefuseRow, UndoSession, UndoRow, Story, At
  <2>. QED
    BY <1>2, <1>5, <2>1, Ends DEF Steady
<1>6. CASE Load(h)
  <2>1. task[h].pc = "load" /\ live = NoClient /\ task[h].op \in {"restore", "boot"} /\ row # "gone"
    BY <1>2, <1>6 DEF Load, Story, RoleOK, At
  <2>2. /\ UNCHANGED <<row, saved, open, keyOf, live, listener>>
        /\ End(h) \/ Becomes(h, task[h].op, "connect", task[h].client, saved)
    BY <1>2, <1>6 DEF Load, storeVars, wireVars, memoryVars
  <2>3. CASE Becomes(h, task[h].op, "connect", task[h].client, saved)
    <3>1. PICK t \in Task : Step(h, t) /\ t.op = task[h].op /\ t.pc = "connect" /\ t.key = saved
      <4>1. task[h].op \in Ops /\ task[h].client \in Clients \cup {NoClient}
        BY <1>2 DEF Task
      <4>. QED
        BY <1>2, <2>3, <4>1, BecomesStep DEF Places, StoreTypes
    <3>2. Story(t)' /\ t # Idle
      BY <2>1, <2>2, <3>1, IdleTask DEF Story
    <3>. QED
      BY <1>2, <3>1, <3>2, Lands
  <2>. QED
    BY <1>5, <1>6, <2>2, <2>3 DEF Restoring
<1>7. CASE Connect(h)
  <2>1. /\ task[h].pc = "connect" /\ live = NoClient /\ task[h].op \in {"restore", "boot"}
        /\ row # "gone" /\ task[h].key = saved
    BY <1>2, <1>7 DEF Connect, Story, RoleOK, At
  <2>2. PICK c \in Clients : Connected(h, c, task[h].key, "check")
    BY <1>2, <1>7 DEF Connect
  <2>3. /\ c \in open' /\ keyOf'[c] = task[h].key
        /\ UNCHANGED <<row, saved, live, listener>>
    BY <1>2, <1>7, <2>2 DEF Connect, Connected, WireTypes, storeVars, memoryVars
  <2>4. PICK t \in Task : Step(h, t) /\ t.op = task[h].op /\ t.pc = "check" /\ t.client = c
                          /\ t.key = task[h].key
    <3>1. task[h].op \in Ops /\ task[h].key \in Keys \cup {NoKey}
      BY <1>2 DEF Task
    <3>. QED
      BY <2>2, <3>1, BecomesStep DEF Connected, Places
  <2>5. Story(t)' /\ t # Idle
    BY <2>1, <2>3, <2>4, IdleTask DEF Story
  <2>. QED
    BY <1>2, <2>4, <2>5, Lands
<1>8. CASE Check(h)
  <2>1. /\ task[h].pc = "check" /\ live = NoClient /\ task[h].op \in {"restore", "boot"}
        /\ row # "gone" /\ task[h].key = saved
        /\ task[h].client \in open /\ keyOf[task[h].client] = task[h].key
    BY <1>2, <1>8 DEF Check, Story, RoleOK, At
  <2>2. UNCHANGED <<row, saved, live, keyOf>>
    BY <1>8 DEF Check, RestoreFails, storeVars, memoryVars, wireVars
  <2>3. CASE Goto(h, "me") /\ UNCHANGED wireVars
    <3>1. ASSUME NEW t \in Task, t.op = task[h].op, t.pc = "me", t.client = task[h].client,
                 t.key = task[h].key
          PROVE  Story(t)'
      BY <2>1, <2>2, <2>3, <3>1 DEF Story, wireVars
    <3>. QED
      BY <1>2, <2>3, <3>1, GotoLands DEF Places
  <2>4. CASE Goto(h, "refuseSession")
    <3>1. ASSUME NEW t \in Task, t.op = task[h].op, t.pc = "refuseSession"
          PROVE  Story(t)'
      BY <2>1, <2>2, <3>1 DEF Story
    <3>. QED
      BY <1>2, <2>4, <3>1, GotoLands DEF Places
  <2>. QED
    BY <1>2, <1>8, <2>3, <2>4 DEF Check
<1>9. CASE MeKnown(h)
  <2>1. /\ task[h].pc = "me" /\ task[h].op \in {"restore", "boot"}
        /\ row # "gone" /\ task[h].key = saved
        /\ task[h].client \in open /\ keyOf[task[h].client] = task[h].key
    BY <1>2, <1>9 DEF MeKnown, Story, RoleOK, At
  <2>2. Goto(h, "row") /\ live' = task[h].client /\ UNCHANGED <<row, saved, open, keyOf>>
    BY <1>9 DEF MeKnown, Attach, storeVars, wireVars
  <2>3. ASSUME NEW t \in Task, t.op = task[h].op, t.pc = "row", t.client = task[h].client
        PROVE  Story(t)'
    BY <2>1, <2>2, <2>3 DEF Story
  <2>. QED
    BY <1>2, <2>2, <2>3, GotoLands DEF Places
<1>10. CASE MeNull(h)
  BY <1>5, <1>10 DEF MeNull, Restoring, memoryVars
<1>11. CASE RefuseSession(h) \/ UndoSession(h)
  <2>1. /\ live = NoClient /\ live' = live /\ row' = row
        /\ \E l \in {"refuseRow", "undoRow"} : Goto(h, l)
    BY <1>2, <1>11 DEF RefuseSession, UndoSession, Story, At, memoryVars
  <2>2. PICK l \in {"refuseRow", "undoRow"} : Goto(h, l)
    BY <2>1
  <2>3. ASSUME NEW t \in Task, t.op = task[h].op, t.pc = l
        PROVE  Story(t)'
    <3>1. task[h].op \in {"start", "restore", "boot", "login"} => row # "gone"
      BY <1>2, <1>11 DEF Story, RefuseSession, UndoSession, At
    <3>. QED
      BY <2>1, <2>3, <3>1 DEF Story
  <2>. QED
    BY <1>2, <2>2, <2>3, GotoLands DEF Places
<1>12. CASE RefuseRow(h)
  <2>1. task[h].pc = "refuseRow" /\ live = NoClient /\ live' = live
    BY <1>2, <1>12 DEF RefuseRow, Story, At, memoryVars
  <2>2. CASE Goto(h, "undoSession") /\ row' = row
    <3>1. task[h].op \in {"start", "restore", "boot", "login"} => row # "gone"
      BY <1>2, <2>1 DEF Story
    <3>2. ASSUME NEW t \in Task, t.op = task[h].op, t.pc = "undoSession"
          PROVE  Story(t)'
      BY <2>1, <2>2, <3>1, <3>2 DEF Story
    <3>. QED
      BY <1>2, <2>2, <3>2, GotoLands DEF Places
  <2>. QED
    BY <1>5, <1>12, <2>1, <2>2 DEF RefuseRow, RestoreFails, Restoring
<1>13. CASE UndoRow(h)
  <2>1. CASE ProcessDies
    BY <2>1, DiesQuiet
  <2>. QED
    BY <1>5, <1>13, <2>1 DEF UndoRow, RestoreThrows, Restoring, memoryVars
<1>14. ~MeFails(h)
  BY <1>2 DEF MeFails
<1>. QED
  BY <1>3, <1>4, <1>6, <1>7, <1>8, <1>9, <1>10, <1>11, <1>12, <1>13, <1>14 DEF Restoring

\* A login until it has its key: the client in the map, if any, is another one.
LEMMA LoginQuiet ==
  ASSUME IInv, QuietInv, MaxFaults = 0, NEW h \in Handlers,
         LoginConnect(h) \/ LoginRow(h) \/ Prompt(h) \/ Answer(h)
  PROVE  QuietInv'
<1>1. task[h].pc \in {"loginConnect", "loginRow", "scan", "prompt", "password", "rpc"}
  BY DEF LoginConnect, LoginRow, Prompt, Answer, AskPassword, LoginAccepted, LoginRefused,
         RequestEnds, At
<1>2. /\ Others(h) /\ Story(task[h]) /\ RoleOK(task[h]) /\ TaskTypes /\ task[h] \in Task
      /\ ~Fault /\ (RowThrows => row = "gone") /\ WireTypes /\ MemoryTypes
  BY <1>1, AtWork, NothingFails DEF IInv, TypeOK
<1>3. Steady /\ (live # NoClient => live \in Clients)
  BY <1>1, <1>2 DEF Story, MemoryTypes
<1>4. CASE RequestEnds(h)
  <2>1. End(h) /\ UNCHANGED <<saved, open, keyOf, live, listener>>
    BY <1>4 DEF RequestEnds, storeVars, wireVars, memoryVars
  <2>. QED
    BY <1>2, <1>3, <2>1, Ends DEF Steady
<1>5. CASE ~RequestEnds(h)
  <2>1. /\ task[h].pc \in {"loginConnect", "loginRow", "scan", "prompt", "password"}
        /\ task[h].op = "login" /\ row # "gone"
    <3>1. task[h].pc # "rpc"
      BY <1>5 DEF LoginConnect, LoginRow, Prompt, Answer, AskPassword, LoginAccepted,
                  LoginRefused, At
    <3>. QED
      BY <1>1, <1>2, <3>1 DEF Story
  <2>2. CASE LoginConnect(h)
    <3>1. PICK c \in Clients : Connected(h, c, NoKey, "loginRow")
      BY <1>2, <2>2 DEF LoginConnect
    <3>2. c \in open' /\ c # live /\ UNCHANGED <<row, saved, live, listener>>
      BY <2>2, <3>1 DEF LoginConnect, Connected, Unused, storeVars, memoryVars
    <3>3. open \subseteq open' /\ \A d \in Clients \ {c} : keyOf'[d] = keyOf[d]
      BY <1>2, <3>1 DEF Connected, WireTypes
    <3>4. Steady'
      BY <1>3, <3>2, <3>3 DEF Steady
    <3>5. PICK t \in Task : Step(h, t) /\ t.op = "login" /\ t.pc = "loginRow" /\ t.client = c
      <4>1. task[h].op \in Ops /\ task[h].key \in Keys \cup {NoKey}
        BY <1>2 DEF Task
      <4>. QED
        BY <2>1, <3>1, <4>1, BecomesStep DEF Connected, Places
    <3>6. Story(t)' /\ t # Idle
      BY <2>1, <3>2, <3>4, <3>5, IdleTask DEF Story
    <3>. QED
      BY <1>2, <3>5, <3>6, Lands
  <2>3. task[h].pc # "loginConnect" => task[h].client # live /\ (task[h].client \in open)
    BY <1>2, <2>1 DEF Story
  <2>4. CASE LoginRow(h) \/ Prompt(h)
    <3>1. PICK l \in {"scan", "password"} : Goto(h, l)
      BY <1>2, <2>1, <2>4 DEF LoginRow, Prompt, LoginUpdate
    <3>2. row' # "gone" /\ UNCHANGED <<saved, open, keyOf, live, listener>>
      BY <1>2, <2>1, <2>4 DEF LoginRow, Prompt, LoginUpdate, wireVars, memoryVars
    <3>3. Steady' /\ task[h].pc # "loginConnect"
      BY <1>3, <2>4, <3>2 DEF Steady, LoginRow, Prompt, At
    <3>4. ASSUME NEW t \in Task, t.op = task[h].op, t.pc = l, t.client = task[h].client
          PROVE  Story(t)'
      BY <2>1, <2>3, <3>2, <3>3, <3>4 DEF Story
    <3>. QED
      BY <1>2, <3>1, <3>4, GotoLands DEF Places
  <2>5. CASE AskPassword(h) \/ LoginRefused(h)
    <3>1. PICK l \in {"prompt", "failRow"} : Goto(h, l)
      BY <2>5 DEF AskPassword, LoginRefused
    <3>2. UNCHANGED <<row, saved, open, keyOf, live, listener>>
      BY <2>5 DEF AskPassword, LoginRefused, storeVars, wireVars, memoryVars
    <3>3. Steady' /\ task[h].pc # "loginConnect"
      BY <1>3, <2>5, <3>2 DEF Steady, AskPassword, LoginRefused, At
    <3>4. ASSUME NEW t \in Task, t.op = task[h].op, t.pc = l, t.client = task[h].client
          PROVE  Story(t)'
      BY <2>1, <2>3, <3>2, <3>3, <3>4 DEF Story
    <3>. QED
      BY <1>2, <3>1, <3>4, GotoLands DEF Places
  <2>6. CASE LoginAccepted(h)
    <3>1. PICK k \in Keys : keyOf' = [keyOf EXCEPT ![task[h].client] = k]
      BY <2>6 DEF LoginAccepted
    <3>2. Goto(h, "save") /\ UNCHANGED <<row, saved, open, live, listener>>
      BY <2>6 DEF LoginAccepted, storeVars, memoryVars
    <3>3. task[h].pc # "loginConnect" /\ task[h].client # live
      BY <2>3, <2>6 DEF LoginAccepted
    <3>4. Steady'
      BY <1>2, <1>3, <3>1, <3>2, <3>3 DEF Steady, WireTypes
    <3>5. ASSUME NEW t \in Task, t.op = task[h].op, t.pc = "save", t.client = task[h].client
          PROVE  Story(t)'
      BY <2>1, <2>3, <3>2, <3>3, <3>4, <3>5 DEF Story
    <3>. QED
      BY <1>2, <3>2, <3>5, GotoLands DEF Places
  <2>. QED
    BY <1>5, <2>2, <2>4, <2>5, <2>6 DEF Answer
<1>. QED
  BY <1>4, <1>5

\* finishLogin, and the catch of runQrLogin.
LEMMA FinishQuiet ==
  ASSUME IInv, QuietInv, MaxFaults = 0, NEW h \in Handlers,
         SaveSession(h) \/ AttachLogin(h) \/ AuthorizedRow(h) \/ Sync(h) \/ FailRow(h)
  PROVE  QuietInv'
<1>1. task[h].pc \in {"save", "attach", "row", "sync", "failRow"}
  BY DEF SaveSession, AttachLogin, AuthorizedRow, Sync, FailRow, At
<1>2. /\ Others(h) /\ Story(task[h]) /\ RoleOK(task[h]) /\ TaskTypes /\ task[h] \in Task
      /\ ~Fault /\ (RowThrows => row = "gone")
  BY <1>1, AtWork, NothingFails DEF IInv, TypeOK
<1>3. row # "gone" /\ task[h].op \in {"restore", "boot", "login"}
  BY <1>1, <1>2 DEF Story
<1>4. CASE SaveSession(h)
  <2>1. /\ task[h].pc = "save" /\ task[h].client \in open /\ task[h].op = "login"
        /\ saved' = keyOf[task[h].client] /\ Goto(h, "attach")
        /\ UNCHANGED <<row, open, keyOf, live, listener>>
    BY <1>2, <1>4 DEF SaveSession, Story, At, wireVars, memoryVars
  <2>2. ASSUME NEW t \in Task, t.op = task[h].op, t.pc = "attach", t.client = task[h].client
        PROVE  Story(t)'
    BY <1>3, <2>1, <2>2 DEF Story
  <2>. QED
    BY <1>2, <2>1, <2>2, GotoLands DEF Places
<1>5. CASE AttachLogin(h)
  <2>1. /\ task[h].pc = "attach" /\ task[h].client \in open /\ saved = keyOf[task[h].client]
        /\ live' = task[h].client /\ Goto(h, "row")
        /\ UNCHANGED <<row, saved, open, keyOf>>
    BY <1>2, <1>5 DEF AttachLogin, Attach, Story, At, wireVars, storeVars
  <2>2. ASSUME NEW t \in Task, t.op = task[h].op, t.pc = "row", t.client = task[h].client
        PROVE  Story(t)'
    BY <1>3, <2>1, <2>2 DEF Story
  <2>. QED
    BY <1>2, <2>1, <2>2, GotoLands DEF Places
<1>6. CASE AuthorizedRow(h)
  <2>1. /\ task[h].pc = "row" /\ task[h].client \in open /\ saved = keyOf[task[h].client]
        /\ live = task[h].client
    BY <1>2, <1>6 DEF AuthorizedRow, Story, At
  <2>2. row' = "authorized" /\ Goto(h, "sync") /\ UNCHANGED <<saved, open, keyOf, live>>
    BY <1>2, <1>3, <1>6 DEF AuthorizedRow, wireVars, memoryVars
  <2>3. ASSUME NEW t \in Task, t.op = task[h].op, t.pc = "sync", t.client = task[h].client
        PROVE  Story(t)'
    BY <1>3, <2>1, <2>2, <2>3 DEF Story
  <2>. QED
    BY <1>2, <2>2, <2>3, GotoLands DEF Places
<1>7. CASE Sync(h)
  <2>1. /\ task[h].client \in open /\ saved = keyOf[task[h].client] /\ live = task[h].client
        /\ listener' = task[h].client /\ End(h) /\ UNCHANGED <<saved, open, keyOf, live>>
    BY <1>2, <1>7 DEF Sync, Story, At, storeVars, wireVars
  <2>. QED
    BY <1>2, <2>1, Ends DEF Steady
<1>8. CASE FailRow(h)
  <2>1. /\ Steady /\ task[h].client # live /\ open' = open \ {task[h].client} /\ End(h)
        /\ UNCHANGED <<saved, keyOf, live, listener>>
    BY <1>2, <1>3, <1>8 DEF FailRow, Story, At, memoryVars
  <2>2. Steady'
    BY <2>1 DEF Steady
  <2>. QED
    BY <1>2, <2>1, <2>2, Ends
<1>. QED
  BY <1>4, <1>5, <1>6, <1>7, <1>8

LEMMA QuietFrame ==
  ASSUME QuietInv, UNCHANGED <<row, saved, open, keyOf, live, listener, task>>
  PROVE  QuietInv'
BY DEF QuietInv, Alone, Quiet, Steady, Story

LEMMA QuietInit == Init => QuietInv
BY IdleStory, IdleTask DEF Init, QuietInv, Alone, Steady, Quiet, Story

LEMMA QuietNext ==
  ASSUME IInv, QuietInv, NEW a, Calls = {a}, Timers = {}, MaxFaults = 0, [Next]_vars
  PROVE  QuietInv'
<1>1. CASE \E h \in Calls : NewCall(h)
  BY <1>1, CallQuiet
<1>2. CASE BootList
  BY <1>2, BootQuiet
<1>3. CASE \E h \in Handlers : Work(h) \/ Answer(h)
  <2>1. PICK h \in Handlers : Work(h) \/ Answer(h)
    BY <1>3
  <2>. QED
    BY <2>1, DetachedQuiet, LosingQuiet, RestoreQuiet, LoginQuiet, FinishQuiet
       DEF Work, Restoring
<1>4. CASE (\E k \in Keys : Revoke(k)) \/ UNCHANGED vars
  BY <1>4, QuietFrame DEF Revoke, vars, storeVars, wireVars, memoryVars
<1>5. CASE CrashRestart
  BY <1>5, DiesQuiet DEF CrashRestart
<1>. QED
  BY <1>1, <1>2, <1>3, <1>4, <1>5 DEF Next

\* Calls one at a time, no health check in progress and no statement that fails:
\* a live client is connected, its events are handled and its key is the saved
\* one, for any number of clients, keys, revocations and crashes
\* (telegram.manager.ts, finishLogin and restore).
THEOREM QuietStaysConsistent ==
  ASSUME NEW a, Calls = {a}, Timers = {}, MaxFaults = 0
  PROVE  Spec => []QuietIsConsistent
<1>1. IInv /\ QuietInv /\ [Next]_vars => QuietInv'
  BY QuietNext
<1>2. QuietInv => QuietIsConsistent
  BY DEF QuietInv, QuietIsConsistent, Steady
<1>. QED
  BY <1>1, <1>2, QuietInit, Invariant, PTL DEF Spec

=============================================================================
