------------------------------- MODULE Dashboard -------------------------------
(***************************************************************************)
(* A tab of the dashboard.  One of four views of it is followed: its       *)
(* session, from page to page, or one of its three busiest pages, the      *)
(* instances, the chats of one of them, and the webhooks.  The pages share *)
(* no state, and the calls of a page outlive it.                           *)
(***************************************************************************)
EXTENDS Session, LoginDialog, ChatPage, WebhooksPage

vars == <<sessionVars, loginVars, chatVars, hookVars>>

\* Every variable of the tab stays within the values the code gives it.
TypeOK == SessionTypeOK /\ LoginTypeOK /\ ChatTypeOK /\ HooksTypeOK

\* A page is mounted, or the tab is about to be loaded; the other views stand
\* still.
Init ==
  /\ SessionInit /\ LoginInit /\ ChatInit /\ HooksInit
  /\ ~(shown /\ open) /\ ~(shown /\ visited) /\ ~(open /\ visited)
  /\ shown   \/ made = {}
  /\ open    \/ count = [c \in Chats |-> 0]
  /\ visited \/ linked = Nothing
  /\ IF shown \/ open \/ visited
       THEN loads = MaxLoads /\ stored = "none" /\ ~cookie /\ gatewayKey = CHOOSE key \in Keys : TRUE
       ELSE loads = 0

Next ==
  \/ SessionNext /\ UNCHANGED <<loginVars, chatVars, hookVars>>
  \/ (LoginNext \/ LeavePage) /\ UNCHANGED <<sessionVars, chatVars, hookVars>>
  \/ (ChatNext \/ Unmount) /\ UNCHANGED <<sessionVars, loginVars, hookVars>>
  \/ HooksNext /\ UNCHANGED <<sessionVars, loginVars, chatVars>>

Spec == Init /\ [][Next]_vars
=============================================================================
