--------------------------- MODULE PhoneLogin_proofs ---------------------------
(***************************************************************************)
(* Theorems about PhoneLogin for every value of the constants: any number  *)
(* of phone and QR logins, of requests that feed them and of statements    *)
(* that fail.                                                              *)
(***************************************************************************)
EXTENDS PhoneLogin, TLAPS

USE PhoneAssumption DEF PhoneAssumption

Busy(a) == pc[a] \notin Ended \cup {"code"}

\* While logins follow one another, one attempt at most can act: the busy one,
\* or the one whose code prompt is in the map.
Alone ==
  ~overlapped => \A a, b \in Attempts : a # b /\ Busy(a) => ~Busy(b) /\ codePrompt # b

\* The caller in the map belongs to an attempt whose code has not been sent.
BeforeCode == {"connect", "connectedRow", "telegram", "failRow", "failEnd"}
CallerAhead == ~overlapped /\ codeSent # Nobody => pc[codeSent] \in BeforeCode

\* The catch has disconnected the client before it clears the maps.
Disconnected == \A a \in Attempts : At(a, "failEnd") => a \notin connected

\* Nothing of what CallersAnswered excuses has happened.
Calm == ~overlapped /\ faults = 0 /\ row

\* The client in the map belongs to an attempt that is under way.
ClientLive ==
  Calm /\ phoneClient # Nobody =>
    \/ pc[phoneClient] \in {"connectedRow", "telegram", "signIn", "prompt", "password", "check",
                            "failRow", "failEnd"}
    \/ codePrompt = phoneClient

\* A call that waits has an attempt at work for it.
Answering == {"signIn", "prompt", "check", "save", "row", "failRow", "failEnd"}
WaitingIsWorkedFor ==
  Calm /\ waiting # {} => \E a \in Phones : pc[a] \in Answering

\* Whoever waits is in the map its answer is looked up in: the safety that
\* CallersAnswered rests on.
NobodyForgotten ==
  Calm =>
    /\ \A a \in Phones : caller[a] = "waiting" => codeSent = a
    /\ \A r \in waiting : stepWaiter = r

IInv == /\ TypeOK /\ PromptsAreLive /\ Alone /\ CallerAhead /\ OwnCaller
        /\ Disconnected /\ FailedLeavesNothing
        /\ ClientLive /\ WaitingIsWorkedFor /\ NobodyForgotten

-----------------------------------------------------------------------------
(* Types *)

LEMMA TypesInit == Init => TypeOK
<1>. SUFFICES ASSUME Init PROVE TypeOK
  OBVIOUS
<1>1. pc \in [Attempts -> Places]
  BY DEF Init, Places
<1>2. caller \in [Phones -> {"none", "waiting", "ok", "failed"}]
  BY DEF Init
<1>3. faults \in 0..MaxFaults
  BY DEF Init
<1>. QED
  BY <1>1, <1>2, <1>3 DEF Init, TypeOK

LEMMA StoresIs == TypeOK /\ Stores => row /\ faults' \in 0..MaxFaults /\ faults' = faults
BY DEF TypeOK, Stores, NoFault

LEMMA ThrowsIs == TypeOK /\ Throws => faults' \in 0..MaxFaults /\ ~(row /\ faults' = 0)
BY DEF TypeOK, Throws, Fault, NoFault

LEMMA DiesTypes ==
  ASSUME TypeOK, ProcessDies
  PROVE  /\ late' \subseteq Phones /\ connected' \subseteq Attempts
         /\ pc' \in [Attempts -> Places] /\ caller' \in [Phones -> {"none", "waiting", "ok", "failed"}]
         /\ waiting' \subseteq Requests
         /\ codeSent' = Nobody /\ codePrompt' = Nobody /\ passwordPrompt' = Nobody
         /\ phoneClient' = Nobody /\ stepWaiter' = Nobody
         /\ \A a \in Attempts : pc'[a] \in {"none", "failed"}
         /\ \A a \in Phones : caller'[a] # "waiting" /\ (caller'[a] = "ok" => caller[a] = "ok")
<1>1. pc' \in [Attempts -> Places] /\ \A a \in Attempts : pc'[a] \in {"none", "failed"}
  BY DEF TypeOK, ProcessDies, Places
<1>2. /\ caller' \in [Phones -> {"none", "waiting", "ok", "failed"}]
      /\ \A a \in Phones : caller'[a] # "waiting" /\ (caller'[a] = "ok" => caller[a] = "ok")
  BY DEF TypeOK, ProcessDies
<1>. QED
  BY <1>1, <1>2 DEF ProcessDies

LEMMA BeginTypes ==
  ASSUME TypeOK, NEW a \in Attempts, (a \in Phones /\ StartPhone(a)) \/ StartQr(a)
  PROVE  TypeOK'
<1>1. ASSUME a \in Phones, StartPhone(a) PROVE TypeOK'
  BY <1>1 DEF StartPhone, TypeOK, Goto, Places, AnswerStep, storeVars
<1>2. CASE StartQr(a)
  BY <1>2 DEF StartQr, TypeOK, Goto, Places, storeVars, maps
<1>. QED
  BY <1>1, <1>2

LEMMA LateTypes ==
  ASSUME TypeOK, NEW a \in Phones, LateRow(a)
  PROVE  TypeOK'
<1>1. CASE Stores /\ late' = late \ {a} /\ UNCHANGED <<connected, pc, caller, waiting, maps>>
  BY <1>1, StoresIs, ThrowsIs DEF LateRow, TypeOK, maps, histVars
<1>2. CASE Throws /\ ProcessDies
  BY <1>2, StoresIs, ThrowsIs, DiesTypes DEF LateRow, TypeOK, histVars
<1>. QED
  BY <1>1, <1>2 DEF LateRow

LEMMA SubmitTypes ==
  ASSUME TypeOK, NEW r \in Requests, SubmitCode(r) \/ SubmitPassword(r)
  PROVE  TypeOK'
<1>1. CASE SubmitCode(r)
  BY <1>1 DEF SubmitCode, TypeOK, Goto, Places, storeVars, histVars, Attempts
<1>2. CASE SubmitPassword(r)
  BY <1>2 DEF SubmitPassword, TypeOK, Goto, Places, storeVars, histVars
<1>. QED
  BY <1>1, <1>2

LEMMA WorkTypes ==
  ASSUME TypeOK, NEW a \in Attempts, Work(a) \/ CutOff(a)
  PROVE  TypeOK'
<1>. USE DEF TypeOK, Goto, At, Places
<1>1. CASE Connect(a)
  BY <1>1 DEF Connect, storeVars, histVars, Attempts
<1>2. CASE ConnectedRow(a)
  BY <1>2, StoresIs, ThrowsIs DEF ConnectedRow, maps, histVars
<1>3. CASE CodeSent(a)
  BY <1>3 DEF CodeSent
<1>4. CASE NeedsPassword(a)
  BY <1>4 DEF NeedsPassword, storeVars, maps, histVars
<1>5. CASE Prompt(a)
  BY <1>5, StoresIs, ThrowsIs DEF Prompt, AnswerStep, histVars
<1>6. CASE Accepted(a)
  BY <1>6 DEF Accepted, storeVars, histVars
<1>7. CASE Refused(a) \/ CutOff(a)
  BY <1>7 DEF Refused, CutOff, storeVars, maps, histVars
<1>8. CASE Save(a)
  BY <1>8 DEF Save, Fault, NoFault, maps, histVars
<1>9. CASE AuthorizedRow(a)
  BY <1>9, StoresIs, ThrowsIs DEF AuthorizedRow, AnswerStep, Finally, histVars
<1>10. CASE FailRow(a)
  <2>1. CASE Stores /\ connected' = connected \ {a} /\ Goto(a, "failEnd") /\ UNCHANGED <<late, caller, waiting, maps>>
    BY <1>10, <2>1, StoresIs, ThrowsIs DEF FailRow, maps, histVars
  <2>2. CASE Throws /\ ProcessDies
    BY <1>10, <2>2, StoresIs, ThrowsIs, DiesTypes DEF FailRow, histVars
  <2>3. CASE /\ Throws /\ Finally(a) /\ CallerFails(a) /\ Goto(a, "failed")
             /\ UNCHANGED <<late, connected, waiting, phoneClient, stepWaiter>>
    BY <1>10, <2>3, StoresIs, ThrowsIs DEF FailRow, Finally, CallerFails, histVars
  <2>. QED
    BY <1>10, <2>1, <2>2, <2>3 DEF FailRow
<1>11. CASE FailEnd(a)
  BY <1>11 DEF FailEnd, AnswerStep, CallerFails, Finally, storeVars, histVars
<1>. QED
  BY <1>1, <1>2, <1>3, <1>4, <1>5, <1>6, <1>7, <1>8, <1>9, <1>10, <1>11 DEF Work

LEMMA RemoveTypes == TypeOK /\ RemoveInstance => TypeOK'
BY DEF TypeOK, RemoveInstance, maps, histVars

-----------------------------------------------------------------------------
(* Who moves *)

\* An attempt at work is busy and moves alone, unless the process dies because
\* a statement failed.
LEMMA WorkMoves ==
  ASSUME TypeOK, NEW a \in Attempts, Work(a) \/ CutOff(a)
  PROVE  /\ Busy(a)
         /\ UNCHANGED <<row, overlapped>>
         /\ \/ Throws /\ ProcessDies
            \/ /\ pc'[a] # "none" /\ \A b \in Attempts \ {a} : pc'[b] = pc[b]
               /\ codePrompt' \in {codePrompt, Nobody} \/ (codePrompt' = a /\ pc'[a] = "code")
               /\ pc'[a] = "code" => codePrompt' = a
<1>. USE DEF TypeOK, Goto, At, Busy, Ended
<1>1. CASE Connect(a)
  BY <1>1 DEF Connect, storeVars, histVars
<1>2. CASE ConnectedRow(a)
  BY <1>2 DEF ConnectedRow, maps, histVars
<1>3. CASE CodeSent(a)
  BY <1>3 DEF CodeSent
<1>4. CASE NeedsPassword(a)
  BY <1>4 DEF NeedsPassword, storeVars, maps, histVars
<1>5. CASE Prompt(a)
  BY <1>5 DEF Prompt, histVars
<1>6. CASE Accepted(a)
  BY <1>6 DEF Accepted, storeVars, histVars
<1>7. CASE Refused(a) \/ CutOff(a)
  BY <1>7 DEF Refused, CutOff, storeVars, maps, histVars
<1>8. CASE Save(a)
  BY <1>8 DEF Save, maps, histVars
<1>9. CASE AuthorizedRow(a)
  BY <1>9 DEF AuthorizedRow, Finally, histVars
<1>10. CASE FailRow(a)
  BY <1>10 DEF FailRow, Finally, maps, histVars
<1>11. CASE FailEnd(a)
  BY <1>11 DEF FailEnd, Finally, storeVars, histVars
<1>. QED
  BY <1>1, <1>2, <1>3, <1>4, <1>5, <1>6, <1>7, <1>8, <1>9, <1>10, <1>11 DEF Work

LEMMA LateMoves ==
  ASSUME TypeOK, NEW a \in Phones, LateRow(a)
  PROVE  /\ UNCHANGED <<row, overlapped, dispatched>>
         /\ \/ Throws /\ ProcessDies
            \/ UNCHANGED <<faults, connected, pc, caller, waiting, maps>>
BY DEF LateRow, Stores, NoFault, histVars

-----------------------------------------------------------------------------
(* Prompts *)

LEMMA PromptsInit == Init => PromptsAreLive
BY DEF Init, PromptsAreLive

LEMMA PromptsWork ==
  ASSUME TypeOK, PromptsAreLive, NEW a \in Attempts, Work(a) \/ CutOff(a)
  PROVE  PromptsAreLive'
<1>. USE DEF TypeOK, Goto, At, PromptsAreLive, Attempts
<1>1. CASE Connect(a)
  BY <1>1 DEF Connect
<1>2. CASE ConnectedRow(a)
  BY <1>2 DEF ConnectedRow, maps
<1>3. CASE CodeSent(a)
  BY <1>3 DEF CodeSent
<1>4. CASE NeedsPassword(a)
  BY <1>4 DEF NeedsPassword, maps
<1>5. CASE Prompt(a)
  BY <1>5 DEF Prompt
<1>6. CASE Accepted(a)
  BY <1>6 DEF Accepted
<1>7. CASE Refused(a) \/ CutOff(a)
  BY <1>7 DEF Refused, CutOff, maps
<1>8. CASE Save(a)
  BY <1>8 DEF Save, maps
<1>9. CASE AuthorizedRow(a)
  BY <1>9 DEF AuthorizedRow, Finally
<1>10. CASE FailRow(a)
  BY <1>10 DEF FailRow, Finally, ProcessDies, maps
<1>11. CASE FailEnd(a)
  BY <1>11 DEF FailEnd, Finally
<1>. QED
  BY <1>1, <1>2, <1>3, <1>4, <1>5, <1>6, <1>7, <1>8, <1>9, <1>10, <1>11 DEF Work

LEMMA PromptsStep ==
  ASSUME TypeOK, PromptsAreLive, Next
  PROVE  PromptsAreLive'
<1>1. ASSUME NEW a \in Phones, StartPhone(a) PROVE PromptsAreLive'
  BY <1>1 DEF StartPhone, TypeOK, Goto, At, PromptsAreLive, Attempts
<1>2. ASSUME NEW a \in Phones, LateRow(a) PROVE PromptsAreLive'
  BY <1>2, LateMoves DEF ProcessDies, At, PromptsAreLive, maps
<1>3. ASSUME NEW a \in Qrs, StartQr(a) PROVE PromptsAreLive'
  BY <1>3 DEF StartQr, TypeOK, Goto, At, PromptsAreLive, Attempts, maps
<1>4. ASSUME NEW r \in Requests, SubmitCode(r) PROVE PromptsAreLive'
  BY <1>4 DEF SubmitCode, TypeOK, Goto, At, PromptsAreLive, Attempts
<1>5. ASSUME NEW r \in Requests, SubmitPassword(r) PROVE PromptsAreLive'
  BY <1>5 DEF SubmitPassword, TypeOK, Goto, At, PromptsAreLive, Attempts
<1>6. CASE RemoveInstance
  BY <1>6 DEF RemoveInstance, At, PromptsAreLive, maps
<1>. QED
  BY <1>1, <1>2, <1>3, <1>4, <1>5, <1>6, PromptsWork DEF Next

-----------------------------------------------------------------------------
(* One attempt at a time *)

LEMMA AloneInit == Init => Alone
BY DEF Init, Alone, Busy, Ended

LEMMA AloneStep ==
  ASSUME TypeOK, PromptsAreLive, Alone, Next
  PROVE  Alone'
<1>1. ASSUME NEW a \in Phones, StartPhone(a) PROVE Alone'
  BY <1>1 DEF StartPhone, Quiescent, TypeOK, Goto, Alone, Busy, Ended, Attempts
<1>2. ASSUME NEW a \in Phones, LateRow(a) PROVE Alone'
  BY <1>2, LateMoves, DiesTypes DEF Alone, Busy, Ended, maps
<1>3. ASSUME NEW a \in Qrs, StartQr(a) PROVE Alone'
  <2>. SUFFICES ASSUME ~overlapped' PROVE Alone'
    BY DEF Alone
  <2>1. /\ \A b \in Attempts \ {a} : pc[b] \in Ended /\ pc'[b] = pc[b]
        /\ codePrompt' = codePrompt
    BY <1>3 DEF StartQr, Quiescent, TypeOK, Goto, maps
  <2>2. codePrompt = Nobody
    <3>1. ASSUME codePrompt # Nobody PROVE FALSE
      <4>1. codePrompt \in Attempts \ {a} /\ At(codePrompt, "code")
        BY <3>1 DEF TypeOK, PromptsAreLive, Attempts
      <4>. QED
        BY <2>1, <4>1 DEF At, Ended
    <3>. QED
      BY <3>1
  <2>3. Nobody \notin Attempts
    OBVIOUS
  <2>. QED
    BY <2>1, <2>2, <2>3 DEF Alone, Busy
<1>4. ASSUME NEW r \in Requests, SubmitCode(r) PROVE Alone'
  BY <1>4 DEF SubmitCode, TypeOK, PromptsAreLive, At, Goto, Alone, Busy, Ended, Attempts, histVars
<1>5. ASSUME NEW r \in Requests, SubmitPassword(r) PROVE Alone'
  BY <1>5 DEF SubmitPassword, TypeOK, PromptsAreLive, At, Goto, Alone, Busy, Ended, Attempts, histVars
<1>6. CASE RemoveInstance
  BY <1>6 DEF RemoveInstance, Alone, Busy, maps, histVars
<1>7. ASSUME NEW a \in Attempts, Work(a) \/ CutOff(a) PROVE Alone'
  <2>1. CASE ProcessDies
    BY <1>7, <2>1, WorkMoves, DiesTypes DEF Alone, Busy, Ended
  <2>2. CASE ~ProcessDies
    BY <1>7, <2>2, WorkMoves DEF Alone, Busy, Ended
  <2>. QED
    BY <2>1, <2>2
<1>. QED
  BY <1>1, <1>2, <1>3, <1>4, <1>5, <1>6, <1>7 DEF Next

-----------------------------------------------------------------------------
(* Callers *)

LEMMA CallersInit == Init => CallerAhead /\ OwnCaller
BY DEF Init, CallerAhead, OwnCaller


LEMMA CallersWork ==
  ASSUME TypeOK, Alone, CallerAhead, OwnCaller, NEW a \in Attempts, Work(a) \/ CutOff(a)
  PROVE  CallerAhead' /\ OwnCaller'
<1>. USE DEF TypeOK, Goto, At, CallerAhead, OwnCaller, BeforeCode, Attempts
<1>1. CASE Connect(a)
  BY <1>1 DEF Connect, histVars
<1>2. CASE ConnectedRow(a)
  BY <1>2 DEF ConnectedRow, maps, histVars
<1>3. CASE CodeSent(a)
  <2>1. ~overlapped /\ codeSent # Nobody => codeSent = a
    BY <1>3 DEF CodeSent, Alone, Busy, Ended
  <2>. QED
    BY <1>3, <2>1 DEF CodeSent
<1>4. CASE NeedsPassword(a)
  BY <1>4 DEF NeedsPassword, maps, histVars
<1>5. CASE Prompt(a)
  BY <1>5 DEF Prompt, histVars
<1>6. CASE Accepted(a)
  BY <1>6 DEF Accepted, histVars
<1>7. CASE Refused(a) \/ CutOff(a)
  BY <1>7 DEF Refused, CutOff, maps, histVars
<1>8. CASE Save(a)
  BY <1>8 DEF Save, maps, histVars
<1>9. CASE AuthorizedRow(a)
  BY <1>9 DEF AuthorizedRow, Finally, histVars
<1>10. CASE FailRow(a)
  <2>1. CASE ProcessDies
    BY <1>10, <2>1, DiesTypes DEF FailRow, histVars
  <2>2. CASE ~ProcessDies
    BY <1>10, <2>2 DEF FailRow, Finally, CallerFails, maps, histVars
  <2>. QED
    BY <2>1, <2>2
<1>11. CASE FailEnd(a)
  BY <1>11 DEF FailEnd, Finally, CallerFails, histVars
<1>. QED
  BY <1>1, <1>2, <1>3, <1>4, <1>5, <1>6, <1>7, <1>8, <1>9, <1>10, <1>11 DEF Work

LEMMA CallersStep ==
  ASSUME TypeOK, PromptsAreLive, Alone, CallerAhead, OwnCaller, Next
  PROVE  CallerAhead' /\ OwnCaller'
<1>. USE DEF TypeOK, Goto, At, CallerAhead, OwnCaller, BeforeCode, Attempts
<1>1. ASSUME NEW a \in Phones, StartPhone(a) PROVE CallerAhead' /\ OwnCaller'
  BY <1>1 DEF StartPhone
<1>2. ASSUME NEW a \in Phones, LateRow(a) PROVE CallerAhead' /\ OwnCaller'
  BY <1>2, LateMoves, DiesTypes DEF maps
<1>3. ASSUME NEW a \in Qrs, StartQr(a) PROVE CallerAhead' /\ OwnCaller'
  BY <1>3 DEF StartQr, maps
<1>4. ASSUME NEW r \in Requests, SubmitCode(r) PROVE CallerAhead' /\ OwnCaller'
  BY <1>4 DEF SubmitCode, PromptsAreLive, histVars
<1>5. ASSUME NEW r \in Requests, SubmitPassword(r) PROVE CallerAhead' /\ OwnCaller'
  BY <1>5 DEF SubmitPassword, PromptsAreLive, histVars
<1>6. CASE RemoveInstance
  BY <1>6 DEF RemoveInstance, maps, histVars
<1>. QED
  BY <1>1, <1>2, <1>3, <1>4, <1>5, <1>6, CallersWork DEF Next

-----------------------------------------------------------------------------
(* What a failed login leaves *)

LEMMA LeftInit == Init => Disconnected /\ FailedLeavesNothing
BY DEF Init, Disconnected, FailedLeavesNothing, At

LEMMA LeftWork ==
  ASSUME TypeOK, Disconnected, FailedLeavesNothing, NEW a \in Attempts, Work(a) \/ CutOff(a)
  PROVE  Disconnected' /\ FailedLeavesNothing'
<1>. USE DEF TypeOK, Goto, At, Disconnected, FailedLeavesNothing, Attempts
<1>1. CASE Connect(a)
  BY <1>1 DEF Connect, storeVars
<1>2. CASE ConnectedRow(a)
  BY <1>2, StoresIs, ThrowsIs DEF ConnectedRow, maps
<1>3. CASE CodeSent(a)
  BY <1>3 DEF CodeSent
<1>4. CASE NeedsPassword(a)
  BY <1>4 DEF NeedsPassword, storeVars, maps
<1>5. CASE Prompt(a)
  BY <1>5, StoresIs, ThrowsIs DEF Prompt, AnswerStep
<1>6. CASE Accepted(a)
  BY <1>6 DEF Accepted, storeVars
<1>7. CASE Refused(a) \/ CutOff(a)
  BY <1>7 DEF Refused, CutOff, storeVars, maps
<1>8. CASE Save(a)
  BY <1>8 DEF Save, Fault, NoFault, maps
<1>9. CASE AuthorizedRow(a)
  BY <1>9, StoresIs, ThrowsIs DEF AuthorizedRow, Finally
<1>10. CASE FailRow(a)
  <2>1. CASE Throws
    <3>1. FailedLeavesNothing'
      BY <1>10, <2>1, ThrowsIs DEF FailRow
    <3>2. Disconnected'
      BY <1>10, DiesTypes DEF FailRow
    <3>. QED
      BY <3>1, <3>2
  <2>2. CASE Stores /\ connected' = connected \ {a} /\ Goto(a, "failEnd") /\ UNCHANGED <<late, caller, waiting, maps>>
    BY <1>10, <2>2, StoresIs DEF FailRow, maps
  <2>. QED
    BY <1>10, <2>1, <2>2 DEF FailRow
<1>11. CASE FailEnd(a)
  BY <1>11 DEF FailEnd, Finally, storeVars
<1>. QED
  BY <1>1, <1>2, <1>3, <1>4, <1>5, <1>6, <1>7, <1>8, <1>9, <1>10, <1>11 DEF Work

LEMMA LeftStep ==
  ASSUME TypeOK, PromptsAreLive, Disconnected, FailedLeavesNothing, Next
  PROVE  Disconnected' /\ FailedLeavesNothing'
<1>. USE DEF TypeOK, Goto, At, Disconnected, FailedLeavesNothing, Attempts
<1>1. ASSUME NEW a \in Phones, StartPhone(a) PROVE Disconnected' /\ FailedLeavesNothing'
  BY <1>1 DEF StartPhone, storeVars
<1>2. ASSUME NEW a \in Phones, LateRow(a) PROVE Disconnected' /\ FailedLeavesNothing'
  BY <1>2, LateMoves, ThrowsIs, DiesTypes DEF maps
<1>3. ASSUME NEW a \in Qrs, StartQr(a) PROVE Disconnected' /\ FailedLeavesNothing'
  BY <1>3 DEF StartQr, storeVars, maps
<1>4. ASSUME NEW r \in Requests, SubmitCode(r) PROVE Disconnected' /\ FailedLeavesNothing'
  BY <1>4 DEF SubmitCode, PromptsAreLive, storeVars
<1>5. ASSUME NEW r \in Requests, SubmitPassword(r) PROVE Disconnected' /\ FailedLeavesNothing'
  BY <1>5 DEF SubmitPassword, PromptsAreLive, storeVars
<1>6. CASE RemoveInstance
  BY <1>6 DEF RemoveInstance, maps
<1>. QED
  BY <1>1, <1>2, <1>3, <1>4, <1>5, <1>6, LeftWork DEF Next

-----------------------------------------------------------------------------
(* Who waits, while nothing disturbs *)

\* A step after which nothing has disturbed: no statement failed in it.
LEMMA CalmWork ==
  ASSUME TypeOK, NEW a \in Attempts, Work(a) \/ CutOff(a), Calm'
  PROVE  /\ Calm /\ ~Throws
         /\ pc'[a] # "none" /\ \A b \in Attempts \ {a} : pc'[b] = pc[b]
<1>1. ~Throws
  BY WorkMoves, ThrowsIs DEF Calm
<1>2. Calm
  <2>1. row /\ ~overlapped
    BY WorkMoves DEF Calm
  <2>2. CASE Connect(a) \/ CodeSent(a) \/ NeedsPassword(a) \/ Accepted(a) \/ Refused(a) \/ CutOff(a) \/ FailEnd(a)
    BY <2>1, <2>2 DEF Connect, CodeSent, NeedsPassword, Accepted, Refused, CutOff, FailEnd, storeVars, Calm
  <2>3. CASE ConnectedRow(a) \/ Prompt(a) \/ AuthorizedRow(a) \/ FailRow(a)
    BY <1>1, <2>1, <2>3, StoresIs DEF ConnectedRow, Prompt, AuthorizedRow, FailRow, Calm
  <2>4. CASE Save(a)
    BY <2>1, <2>4 DEF Save, Fault, NoFault, Calm, TypeOK
  <2>. QED
    BY <2>2, <2>3, <2>4 DEF Work
<1>. QED
  BY <1>1, <1>2, WorkMoves

LEMMA WaitInit == Init => ClientLive /\ WaitingIsWorkedFor /\ NobodyForgotten
BY DEF Init, ClientLive, WaitingIsWorkedFor, NobodyForgotten

\* An attempt at work finds the caller and the request it answers.
LEMMA WaitWork ==
  ASSUME TypeOK, PromptsAreLive, Alone, CallerAhead, ClientLive, WaitingIsWorkedFor, NobodyForgotten,
         NEW a \in Attempts, Work(a) \/ CutOff(a)
  PROVE  ClientLive' /\ WaitingIsWorkedFor' /\ NobodyForgotten'
<1>. DEFINE Waits == ClientLive' /\ WaitingIsWorkedFor' /\ NobodyForgotten'
<1>. SUFFICES ASSUME Calm' PROVE Waits
  BY DEF ClientLive, WaitingIsWorkedFor, NobodyForgotten
<1>0. /\ Calm /\ ~Throws /\ ~overlapped /\ Busy(a) /\ codePrompt = Nobody
      /\ \A b \in Attempts \ {a} : pc'[b] = pc[b] /\ ~Busy(b)
  <2>1. Calm /\ ~Throws /\ Busy(a) /\ \A b \in Attempts \ {a} : pc'[b] = pc[b]
    BY CalmWork, WorkMoves
  <2>2. codePrompt # a
    BY <2>1 DEF PromptsAreLive, At, Busy, TypeOK, Attempts
  <2>3. \A b \in Attempts \ {a} : ~Busy(b) /\ codePrompt # b
    BY <2>1 DEF Alone, Calm
  <2>. QED
    BY <2>1, <2>2, <2>3 DEF Calm, TypeOK, Attempts
<1>. USE <1>0 DEF TypeOK, Goto, At, Calm, Busy, Ended, Attempts, Answering, BeforeCode,
       CallerAhead, ClientLive, WaitingIsWorkedFor, NobodyForgotten
<1>1. CASE Connect(a)
  BY <1>1 DEF Connect
<1>2. CASE ConnectedRow(a)
  BY <1>2 DEF ConnectedRow, maps
<1>3. CASE CodeSent(a)
  <2>1. codeSent \in {a, Nobody} /\ \A b \in Phones : caller[b] = "waiting" => b = a
    BY <1>3 DEF CodeSent
  <2>2. waiting = {}
    BY <1>3 DEF CodeSent
  <2>3. ClientLive'
    BY <1>3 DEF CodeSent
  <2>4. WaitingIsWorkedFor' /\ \A r \in waiting' : stepWaiter' = r
    BY <1>3, <2>2 DEF CodeSent
  <2>5. \A b \in Phones : caller'[b] # "waiting"
    BY <1>3, <2>1 DEF CodeSent
  <2>. QED
    BY <2>3, <2>4, <2>5
<1>4. CASE NeedsPassword(a)
  BY <1>4 DEF NeedsPassword, maps
<1>5. CASE Prompt(a)
  BY <1>5 DEF Prompt, AnswerStep
<1>6. CASE Accepted(a)
  BY <1>6 DEF Accepted
<1>7. CASE Refused(a) \/ CutOff(a)
  BY <1>7 DEF Refused, CutOff, maps
<1>8. CASE Save(a)
  BY <1>8 DEF Save, maps
<1>9. CASE AuthorizedRow(a)
  <2>1. \A b \in Phones : caller[b] # "waiting"
    BY <1>9 DEF AuthorizedRow
  <2>2. waiting' = {}
    BY <1>9 DEF AuthorizedRow, AnswerStep
  <2>3. UNCHANGED <<caller, phoneClient>> /\ codePrompt' \in {codePrompt, Nobody} /\ At(a, "row")
    BY <1>9 DEF AuthorizedRow, Finally
  <2>4. ClientLive'
    BY <2>3
  <2>. QED
    BY <2>1, <2>2, <2>3, <2>4
<1>10. CASE FailRow(a)
  BY <1>10 DEF FailRow, maps
<1>11. CASE FailEnd(a)
  BY <1>11 DEF FailEnd, Finally, CallerFails, AnswerStep
<1>. QED
  BY <1>1, <1>2, <1>3, <1>4, <1>5, <1>6, <1>7, <1>8, <1>9, <1>10, <1>11 DEF Work

LEMMA WaitStep ==
  ASSUME TypeOK, PromptsAreLive, Alone, CallerAhead, ClientLive, WaitingIsWorkedFor, NobodyForgotten,
         Next
  PROVE  ClientLive' /\ WaitingIsWorkedFor' /\ NobodyForgotten'
<1>. DEFINE Waits == ClientLive' /\ WaitingIsWorkedFor' /\ NobodyForgotten'
<1>. SUFFICES ASSUME Calm' PROVE Waits
  BY DEF ClientLive, WaitingIsWorkedFor, NobodyForgotten
<1>. USE DEF TypeOK, Goto, At, Calm, Busy, Ended, Attempts, Answering, BeforeCode,
       CallerAhead, ClientLive, WaitingIsWorkedFor, NobodyForgotten
<1>1. ASSUME NEW a \in Phones, StartPhone(a) PROVE Waits
  <2>1. Calm /\ \A b \in Attempts \ {a} : pc[b] \in Ended \cup {"code"}
    BY <1>1 DEF StartPhone, storeVars, Quiescent
  <2>2. At(a, "none")
    BY <1>1 DEF StartPhone
  <2>3. \A b \in Phones : caller[b] # "waiting"
    BY <2>1, <2>2
  <2>4. waiting' = {}
    BY <1>1, <2>1 DEF StartPhone, AnswerStep
  <2>. QED
    BY <1>1, <2>3, <2>4 DEF StartPhone
<1>2. ASSUME NEW a \in Phones, LateRow(a) PROVE Waits
  BY <1>2, LateMoves, ThrowsIs DEF maps
<1>3. ASSUME NEW a \in Qrs, StartQr(a) PROVE Waits
  <2>1. Calm /\ \A b \in Attempts : pc[b] \in Ended
    BY <1>3 DEF StartQr, storeVars, Quiescent
  <2>2. phoneClient = Nobody /\ waiting = {}
    BY <2>1 DEF PromptsAreLive
  <2>. QED
    BY <1>3, <2>1, <2>2 DEF StartQr, maps
<1>4. ASSUME NEW r \in Requests, SubmitCode(r) PROVE Waits
  <2>. DEFINE c == codePrompt
  <2>1. Calm /\ c \in Phones /\ At(c, "code") /\ \A b \in Attempts : ~Busy(b)
    BY <1>4 DEF SubmitCode, storeVars, histVars, PromptsAreLive, Alone
  <2>2. waiting = {} /\ phoneClient \in {c, Nobody}
    BY <2>1
  <2>. QED
    BY <1>4, <2>1, <2>2 DEF SubmitCode
<1>5. ASSUME NEW r \in Requests, SubmitPassword(r) PROVE Waits
  <2>. DEFINE c == passwordPrompt
  <2>1. Calm /\ c \in Attempts /\ At(c, "password") /\ \A b \in Attempts \ {c} : ~Busy(b)
    BY <1>5 DEF SubmitPassword, storeVars, histVars, PromptsAreLive, Alone
  <2>2. codePrompt = Nobody
    BY <2>1 DEF PromptsAreLive, Alone
  <2>3. waiting = {} /\ phoneClient \in {c, Nobody}
    BY <2>1, <2>2
  <2>. QED
    BY <1>5, <2>1, <2>2, <2>3 DEF SubmitPassword
<1>6. CASE RemoveInstance
  BY <1>6 DEF RemoveInstance
<1>7. ASSUME NEW a \in Attempts, Work(a) \/ CutOff(a) PROVE Waits
  BY <1>7, WaitWork
<1>. QED
  BY <1>1, <1>2, <1>3, <1>4, <1>5, <1>6, <1>7 DEF Next

-----------------------------------------------------------------------------
(* Theorems *)

LEMMA TypesStep ==
  ASSUME TypeOK, Next
  PROVE  TypeOK'
BY BeginTypes, LateTypes, SubmitTypes, WorkTypes, RemoveTypes DEF Next, Attempts

LEMMA Invariant == Spec => []IInv
<1>1. Init => IInv
  BY TypesInit, PromptsInit, AloneInit, CallersInit, LeftInit, WaitInit DEF IInv
<1>2. IInv /\ [Next]_vars => IInv'
  <2>. SUFFICES ASSUME IInv, [Next]_vars PROVE IInv'
    OBVIOUS
  <2>1. CASE Next
    BY <2>1, TypesStep, PromptsStep, AloneStep, CallersStep, LeftStep, WaitStep DEF IInv
  <2>2. CASE UNCHANGED vars
    BY <2>2 DEF IInv, vars, storeVars, maps, histVars, TypeOK, PromptsAreLive, Alone, Busy, CallerAhead,
       OwnCaller, Disconnected, FailedLeavesNothing, ClientLive, WaitingIsWorkedFor, NobodyForgotten,
       Calm, At
  <2>. QED
    BY <2>1, <2>2
<1>. QED
  BY <1>1, <1>2, PTL DEF Spec

\* The five maps and the states of the attempts keep their types, however many
\* logins of both kinds run over each other.
THEOREM TypeCorrect == Spec => []TypeOK
BY Invariant, PTL DEF IInv

\* submitPhoneCode and submitPassword hand their value to a login that waits
\* for it: no entry of pendingPhoneCodes or pendingPasswords outlives its wait.
THEOREM PromptsAlwaysLive == Spec => []PromptsAreLive
BY Invariant, PTL DEF IInv

\* phoneCodeSent tells no caller of startPhoneLogin that a code was sent for
\* it when none was, while logins follow one another.
THEOREM CallerIsOwn == Spec => []OwnCaller
BY Invariant, PTL DEF IInv

\* The catch and the `finally` of runPhoneLogin and runQrLogin leave neither a
\* connection nor an entry of a login that failed, while the database works.
THEOREM FailedIsGone == Spec => []FailedLeavesNothing
BY Invariant, PTL DEF IInv

\* While logins follow one another and the database works, a call of
\* startPhoneLogin, submitPhoneCode or submitPassword that waits is in the
\* map its answer is looked up in, so that no answer passes it by.
THEOREM WaiterIsRemembered == Spec => []NobodyForgotten
BY Invariant, PTL DEF IInv

=============================================================================
