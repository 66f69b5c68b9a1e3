----------------------------- MODULE PhoneLogin -----------------------------
(***************************************************************************)
(* The phone login of one instance (telegram.manager.ts), with a QR login  *)
(* that may run beside it.  An attempt is a run of runPhoneLogin or        *)
(* runQrLogin.  Attempts and the requests that feed them meet in five maps *)
(* keyed by instance id, one entry each, whoever put it there.             *)
(*                                                                         *)
(* What finishLogin does to the session, the map of live clients and the   *)
(* subscription is in InstanceLifecycle; here a login ends.  Of an update  *)
(* of the row it matters whether it throws, of a request to the API        *)
(* whether it is answered.                                                 *)
(***************************************************************************)
EXTENDS Naturals, FiniteSets

CONSTANTS
  Phones,      \* attempts made by startPhoneLogin, each with its caller
  Qrs,         \* attempts made by startQrLogin
  Requests,    \* bound: calls of submitPhoneCode and submitPassword in progress
  Nobody,      \* an empty map entry
  MaxFaults    \* bound: statements that fail for a passing reason

Attempts == Phones \cup Qrs

ASSUME PhoneAssumption ==
  /\ Phones \cap Qrs = {}
  /\ Nobody \notin Attempts \cup Requests
  /\ MaxFaults \in Nat

VARIABLES
  row,            \* the row of the instance exists
  late,           \* attempts whose update to awaiting_code is still on its way
  connected,      \* attempts whose client has a connection
  pc,             \* pc[a]: the await the attempt is at
  caller,         \* caller[a]: the call of startPhoneLogin that made it
  waiting,        \* calls of submitPhoneCode and submitPassword with no answer yet
  codeSent,       \* the entry of phoneCodeSent: the attempt whose caller it answers
  codePrompt,     \* the entry of pendingPhoneCodes: the attempt that waits for a code
  passwordPrompt, \* the entry of pendingPasswords
  phoneClient,    \* the entry of phoneLoginClients: the attempt whose client it is
  stepWaiter,     \* the entry of phoneLoginSteps: the request it answers
  dispatched,     \* history: attempts for which Telegram sent a code
  overlapped,     \* history: an attempt began while another could still act
  faults

maps     == <<codeSent, codePrompt, passwordPrompt, phoneClient, stepWaiter>>
storeVars == <<row, late, faults>>
histVars == <<dispatched, overlapped>>
vars == <<storeVars, connected, pc, caller, waiting, maps, histVars>>

Places == {"none", "connect", "connectedRow", "telegram", "code", "signIn", "prompt",
           "password", "check", "save", "row", "failRow", "failEnd", "done", "failed"}

Ended == {"none", "done", "failed"}

\* Every variable stays within the values the code gives it.
TypeOK ==
  /\ row \in BOOLEAN
  /\ late \subseteq Phones
  /\ connected \subseteq Attempts
  /\ pc \in [Attempts -> Places]
  /\ caller \in [Phones -> {"none", "waiting", "ok", "failed"}]
  /\ waiting \subseteq Requests
  /\ codeSent \in Phones \cup {Nobody}
  /\ codePrompt \in Phones \cup {Nobody}
  /\ passwordPrompt \in Attempts \cup {Nobody}
  /\ phoneClient \in Phones \cup {Nobody}
  /\ stepWaiter \in Requests \cup {Nobody}
  /\ dispatched \subseteq Phones
  /\ overlapped \in BOOLEAN
  /\ faults \in 0..MaxFaults

Init ==
  /\ row = TRUE
  /\ late = {}
  /\ connected = {}
  /\ pc = [a \in Attempts |-> "none"]
  /\ caller = [a \in Phones |-> "none"]
  /\ waiting = {}
  /\ codeSent = Nobody
  /\ codePrompt = Nobody
  /\ passwordPrompt = Nobody
  /\ phoneClient = Nobody
  /\ stepWaiter = Nobody
  /\ dispatched = {}
  /\ overlapped = FALSE
  /\ faults = 0

-----------------------------------------------------------------------------
(* Steps *)

At(a, l)   == pc[a] = l
Goto(a, l) == pc' = [pc EXCEPT ![a] = l]

Fault   == faults < MaxFaults /\ faults' = faults + 1
NoFault == UNCHANGED faults

\* prisma.instance.update stores the status, or throws because the row is gone
\* or for a passing reason.
Stores == row /\ NoFault
Throws == IF row THEN Fault ELSE NoFault

\* resolvePhoneLoginStep and rejectPhoneLoginStep: whoever waits is answered.
AnswerStep == stepWaiter' = Nobody /\ waiting' = waiting \ {stepWaiter}

\* An unhandled rejection ends the process; it starts again with empty maps and
\* every call that waited is cut off.
ProcessDies ==
  /\ late' = {}
  /\ connected' = {}
  /\ pc' = [a \in Attempts |-> IF At(a, "none") THEN "none" ELSE "failed"]
  /\ caller' = [a \in Phones |-> IF caller[a] = "waiting" THEN "failed" ELSE caller[a]]
  /\ waiting' = {}
  /\ codeSent' = Nobody
  /\ codePrompt' = Nobody
  /\ passwordPrompt' = Nobody
  /\ phoneClient' = Nobody
  /\ stepWaiter' = Nobody

-----------------------------------------------------------------------------
(* Beginning *)

\* Attempts that can do nothing any more: ended, or waiting for a code that
\* cannot reach them once a new phone login has cancelled them.
Quiescent(others, ends) == \A b \in others : pc[b] \in ends

\* startPhoneLogin after reading the row: cancelPhoneLogin, which leaves
\* pendingPasswords alone and can disconnect only a client that is in its map;
\* then the promise of the caller and the start of runPhoneLogin.
StartPhone(a) ==
  /\ At(a, "none") /\ row
  /\ Goto(a, "connect")
  /\ caller' = [caller EXCEPT ![a] = "waiting"]
  /\ codeSent' = a
  /\ codePrompt' = Nobody
  /\ AnswerStep
  /\ connected' = connected \ {phoneClient}
  /\ phoneClient' = Nobody
  /\ overlapped' = (overlapped \/ ~Quiescent(Attempts \ {a}, Ended \cup {"code"}))
  /\ UNCHANGED <<storeVars, passwordPrompt, dispatched>>

StartQr(a) ==
  /\ At(a, "none") /\ row
  /\ Goto(a, "connect")
  /\ overlapped' = (overlapped \/ ~Quiescent(Attempts \ {a}, Ended))
  /\ UNCHANGED <<storeVars, connected, caller, waiting, maps, dispatched>>

\* Mutant: a QR login enters phoneLoginClients too.
Connect_AnyLogin(a) ==
  /\ At(a, "connect")
  /\ connected' = connected \cup {a}
  /\ phoneClient' = a
  /\ Goto(a, "connectedRow")
  /\ UNCHANGED <<storeVars, caller, waiting, codeSent, codePrompt, passwordPrompt, stepWaiter,
                 histVars>>

\* resolveConfig and engine.connect.
Connect(a) ==
  /\ At(a, "connect")
  /\ \/ /\ connected' = connected \cup {a}
        /\ phoneClient' = IF a \in Phones THEN a ELSE phoneClient
        /\ Goto(a, "connectedRow")
     \/ Goto(a, "failRow") /\ UNCHANGED <<connected, phoneClient>>
  /\ UNCHANGED <<storeVars, caller, waiting, codeSent, codePrompt, passwordPrompt, stepWaiter,
                 histVars>>

ConnectedRow(a) ==
  /\ At(a, "connectedRow")
  /\ \/ Stores /\ Goto(a, "telegram")
     \/ Throws /\ Goto(a, "failRow")
  /\ UNCHANGED <<row, late, connected, caller, waiting, maps, histVars>>

-----------------------------------------------------------------------------
(* The code *)

\* onCodeSent, then onCodeRequired: an update nobody awaits, the caller in the
\* map is answered, the prompt takes the place of the one before.
CodeSent(a) ==
  /\ a \in Phones /\ At(a, "telegram") /\ a \in connected
  /\ dispatched' = dispatched \cup {a}
  /\ late' = late \cup {a}
  /\ caller' = IF codeSent = Nobody THEN caller ELSE [caller EXCEPT ![codeSent] = "ok"]
  /\ codeSent' = Nobody
  /\ codePrompt' = a
  /\ Goto(a, "code")
  /\ UNCHANGED <<row, faults, connected, waiting, passwordPrompt, phoneClient, stepWaiter,
                 overlapped>>

\* The update to awaiting_code lands, or fails with nobody to handle it.
LateRow(a) ==
  /\ a \in late
  /\ \/ /\ Stores
        /\ late' = late \ {a}
        /\ UNCHANGED <<connected, pc, caller, waiting, maps>>
     \/ Throws /\ ProcessDies
  /\ UNCHANGED <<row, histVars>>

\* submitPhoneCode.  A request that was waiting loses its entry.
SubmitCode(r) ==
  /\ r \notin waiting
  /\ codePrompt # Nobody
  /\ codePrompt' = Nobody
  /\ stepWaiter' = r
  /\ waiting' = waiting \cup {r}
  /\ Goto(codePrompt, "signIn")
  /\ UNCHANGED <<storeVars, connected, caller, codeSent, passwordPrompt, phoneClient, histVars>>

-----------------------------------------------------------------------------
(* The password *)

\* The account has a password: the QR code was scanned, or the code was right.
NeedsPassword(a) ==
  /\ At(a, "signIn") \/ (a \in Qrs /\ At(a, "telegram"))
  /\ a \in connected
  /\ Goto(a, "prompt")
  /\ UNCHANGED <<storeVars, connected, caller, waiting, maps, histVars>>

\* onPasswordRequired: the status, the answer to a phone login's request, the
\* prompt.  What it throws comes back out of the library.
Prompt(a) ==
  /\ At(a, "prompt")
  /\ \/ /\ Stores
        /\ IF a \in Phones THEN AnswerStep ELSE UNCHANGED <<waiting, stepWaiter>>
        /\ passwordPrompt' = a
        /\ Goto(a, "password")
     \/ Throws /\ Goto(a, "failRow") /\ UNCHANGED <<waiting, stepWaiter, passwordPrompt>>
  /\ UNCHANGED <<row, late, connected, caller, codeSent, codePrompt, phoneClient, histVars>>

\* Mutant: the prompt stays in the map.
SubmitPassword_KeepsPrompt(r) ==
  /\ r \notin waiting
  /\ passwordPrompt # Nobody
  /\ IF phoneClient = Nobody
       THEN UNCHANGED <<waiting, stepWaiter>>
       ELSE waiting' = waiting \cup {r} /\ stepWaiter' = r
  /\ Goto(passwordPrompt, "check")
  /\ UNCHANGED <<storeVars, connected, caller, codeSent, codePrompt, passwordPrompt,
                 phoneClient, histVars>>

\* The controller's submitPassword: the prompt in the map gets the password,
\* and the request waits for the next step when a phone login has a client.
SubmitPassword(r) ==
  /\ r \notin waiting
  /\ passwordPrompt # Nobody
  /\ passwordPrompt' = Nobody
  /\ IF phoneClient = Nobody
       THEN UNCHANGED <<waiting, stepWaiter>>
       ELSE waiting' = waiting \cup {r} /\ stepWaiter' = r
  /\ Goto(passwordPrompt, "check")
  /\ UNCHANGED <<storeVars, connected, caller, codeSent, codePrompt, phoneClient, histVars>>

-----------------------------------------------------------------------------
(* The end *)

\* The library returns the account: finishLogin as far as saveSession.
Accepted(a) ==
  /\ pc[a] \in {"signIn", "check"} \/ (a \in Qrs /\ At(a, "telegram"))
  /\ a \in connected
  /\ phoneClient' = Nobody
  /\ Goto(a, "save")
  /\ UNCHANGED <<storeVars, connected, caller, waiting, codeSent, codePrompt, passwordPrompt,
                 stepWaiter, histVars>>

\* The library throws: a refused number, code or password, a flood wait.
Refused(a) ==
  /\ pc[a] \in {"telegram", "signIn", "check"}
  /\ a \in connected
  /\ Goto(a, "failRow")
  /\ UNCHANGED <<storeVars, connected, caller, waiting, maps, histVars>>

\* The same for a client that cancelPhoneLogin has disconnected, if the library
\* answers at all.
CutOff(a) ==
  /\ pc[a] \in {"telegram", "signIn", "check"}
  /\ a \notin connected
  /\ Goto(a, "failRow")
  /\ UNCHANGED <<storeVars, connected, caller, waiting, maps, histVars>>

Save(a) ==
  /\ At(a, "save")
  /\ \/ Goto(a, "row") /\ NoFault
     \/ Goto(a, "failRow") /\ Fault
  /\ UNCHANGED <<row, late, connected, caller, waiting, maps, histVars>>

\* The `finally` of both logins.
Finally(a) ==
  /\ passwordPrompt' = Nobody
  /\ IF a \in Phones THEN codePrompt' = Nobody /\ codeSent' = Nobody
                     ELSE UNCHANGED <<codePrompt, codeSent>>

AuthorizedRow(a) ==
  /\ At(a, "row")
  /\ \/ /\ Stores
        /\ IF a \in Phones THEN AnswerStep ELSE UNCHANGED <<waiting, stepWaiter>>
        /\ Finally(a)
        /\ Goto(a, "done")
     \/ /\ Throws
        /\ Goto(a, "failRow")
        /\ UNCHANGED <<waiting, stepWaiter, passwordPrompt, codePrompt, codeSent>>
  /\ UNCHANGED <<row, late, connected, caller, phoneClient, histVars>>

\* The caller of startPhoneLogin gets the error, unless it has its answer.
CallerFails(a) ==
  caller' = IF a \in Phones /\ caller[a] = "waiting"
              THEN [caller EXCEPT ![a] = "failed"] ELSE caller

\* The catch: the status first.  If that throws, the rest is skipped; of a QR
\* login nobody handles the rejection.
FailRow(a) ==
  /\ At(a, "failRow")
  /\ \/ /\ Stores
        /\ connected' = connected \ {a}
        /\ Goto(a, "failEnd")
        /\ UNCHANGED <<late, caller, waiting, maps>>
     \/ /\ Throws
        /\ IF a \in Qrs
             THEN ProcessDies
             ELSE /\ Finally(a)
                  /\ CallerFails(a)
                  /\ Goto(a, "failed")
                  /\ UNCHANGED <<late, connected, waiting, phoneClient, stepWaiter>>
  /\ UNCHANGED <<row, histVars>>

\* Mutant: the step of the request is not rejected.
FailEnd_NoReject(a) ==
  /\ At(a, "failEnd")
  /\ phoneClient' = IF a \in Phones THEN Nobody ELSE phoneClient
  /\ CallerFails(a)
  /\ Finally(a)
  /\ Goto(a, "failed")
  /\ UNCHANGED <<storeVars, connected, waiting, stepWaiter, histVars>>

\* Mutant: the client stays in phoneLoginClients.
FailEnd_KeepsClient(a) ==
  /\ At(a, "failEnd")
  /\ IF a \in Phones THEN AnswerStep ELSE UNCHANGED <<stepWaiter, waiting>>
  /\ CallerFails(a)
  /\ Finally(a)
  /\ Goto(a, "failed")
  /\ UNCHANGED <<storeVars, connected, phoneClient, histVars>>

\* Mutant: the caller is told that the code was sent.
FailEnd_ResolvesCodeSent(a) ==
  /\ At(a, "failEnd")
  /\ IF a \in Phones
       THEN phoneClient' = Nobody /\ AnswerStep
       ELSE UNCHANGED <<phoneClient, stepWaiter, waiting>>
  /\ caller' = IF codeSent = Nobody THEN caller ELSE [caller EXCEPT ![codeSent] = "ok"]
  /\ Finally(a)
  /\ Goto(a, "failed")
  /\ UNCHANGED <<storeVars, connected, histVars>>

\* The rest of the catch, after the disconnect, and the `finally`.
FailEnd(a) ==
  /\ At(a, "failEnd")
  /\ IF a \in Phones
       THEN phoneClient' = Nobody /\ AnswerStep
       ELSE UNCHANGED <<phoneClient, stepWaiter, waiting>>
  /\ CallerFails(a)
  /\ Finally(a)
  /\ Goto(a, "failed")
  /\ UNCHANGED <<storeVars, connected, histVars>>

-----------------------------------------------------------------------------
(* Specification *)

\* DELETE /instances/:id: the row goes, the maps of this module stay.
RemoveInstance ==
  /\ row
  /\ row' = FALSE
  /\ UNCHANGED <<late, faults, connected, pc, caller, waiting, maps, histVars>>

\* What the process and a reachable Telegram do without being asked again.
Work(a) ==
  \/ Connect(a) \/ ConnectedRow(a) \/ CodeSent(a) \/ NeedsPassword(a) \/ Prompt(a)
  \/ Accepted(a) \/ Refused(a) \/ Save(a) \/ AuthorizedRow(a) \/ FailRow(a) \/ FailEnd(a)

Next ==
  \/ \E a \in Phones : StartPhone(a) \/ LateRow(a)
  \/ \E a \in Qrs : StartQr(a)
  \/ \E a \in Attempts : Work(a) \/ CutOff(a)
  \/ \E r \in Requests : SubmitCode(r) \/ SubmitPassword(r)
  \/ RemoveInstance

\* Statements end and Telegram answers a client that is connected, except that
\* a QR code may never be scanned.
Fairness ==
  /\ \A a \in Phones : WF_vars(Work(a))
  /\ \A a \in Qrs : WF_vars(~At(a, "telegram") /\ Work(a))

Spec == Init /\ [][Next]_vars
FairSpec == Spec /\ Fairness

-----------------------------------------------------------------------------
(* Safety *)

\* A code or a password is handed to an attempt that is waiting for it, in
\* whatever order attempts begin, are cancelled and end.
PromptsAreLive ==
  /\ codePrompt # Nobody => At(codePrompt, "code")
  /\ passwordPrompt # Nobody => At(passwordPrompt, "password")

\* While logins follow one another, "the code has been sent" is said to the
\* caller of the attempt whose code was sent, and to no other.
OwnCaller ==
  ~overlapped => \A a \in Phones : caller[a] = "ok" => a \in dispatched

\* While the database works, a login that failed leaves no connection, and no
\* entry that a later call would find, however logins overlap.
FailedLeavesNothing ==
  faults = 0 /\ row =>
    \A a \in Attempts : At(a, "failed") =>
      /\ a \notin connected
      /\ a \notin {codeSent, codePrompt, passwordPrompt, phoneClient}

-----------------------------------------------------------------------------
(* Liveness, under FairSpec *)

Disturbed == overlapped \/ faults > 0 \/ ~row

\* While logins follow one another and the database works, every call of
\* startPhoneLogin, submitPhoneCode and submitPassword is answered.
CallersAnswered ==
  /\ \A a \in Phones : caller[a] = "waiting" ~> caller[a] # "waiting" \/ Disturbed
  /\ \A r \in Requests : r \in waiting ~> r \notin waiting \/ Disturbed

-----------------------------------------------------------------------------
(* What the documentation says and the code does not do *)

\* telegram.manager.ts, startPhoneLogin: "Resolves once the code has been
\* dispatched".
ResolvesWhenDispatched ==
  \A a \in Phones : a \in dispatched => caller[a] # "waiting"
=============================================================================
