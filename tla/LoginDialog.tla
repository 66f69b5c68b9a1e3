------------------------------ MODULE LoginDialog ------------------------------
(***************************************************************************)
(* The login dialogue of Instances.vue: its phases, the calls it awaits    *)
(* and the EventSource of a QR login.  The refs of the page outlive a      *)
(* dialogue that is closed, and so do its calls.                           *)
(*                                                                         *)
(* The server is what the page sees of PhoneLogin: any answer, any event.  *)
(***************************************************************************)
EXTENDS Naturals, FiniteSets

CONSTANTS
  Ids,          \* ids of instances
  MaxDialogues, \* bound: dialogues the user opens
  MaxStreams    \* bound: EventSources the page opens

ASSUME DialogueAssumption == MaxDialogues \in Nat /\ MaxStreams \in Nat

VARIABLES
  made,         \* instances that exist
  shown,        \* the page is mounted
  show,         \* showModal
  mode,         \* modalMode
  phase, method, loginMode,
  currentId, authorizedName,    \* an instance, or "none"
  passwordRequired,
  busy,         \* creating, sendingPhone, submittingCode, submittingPwd
  calls,        \* calls under way, each with the dialogue it was made in
  stream,       \* the EventSource the page remembers, 0 for none
  streams,      \* the EventSources that are open: their numbers and instances
  opened,       \* EventSources opened so far
  done,
  dialogue,     \* the number of the last dialogue
  sent, asked, loggedIn,    \* history: instances a code was sent for, a password was
                            \* asked for, that were authorized
  earlier,      \* history: EventSources opened before the last dialogue was
  strayed       \* history: an answer or an event that was not for the last dialogue met it

modal  == <<show, mode, phase, method, loginMode, currentId, authorizedName, passwordRequired>>
source == <<stream, streams, opened, done>>
server == <<sent, asked, loggedIn>>
loginVars == <<made, shown, modal, busy, calls, source, dialogue, earlier, server, strayed>>

Flags == {"create", "phone", "code", "password"}
Phases == {"form", "qr", "phone", "code", "password"}
Call(op, i) == [op |-> op, id |-> i, from |-> dialogue]

LoginTypeOK ==
  /\ made \subseteq Ids /\ shown \in BOOLEAN /\ show \in BOOLEAN
  /\ mode \in {"create", "connect"} /\ phase \in Phases
  /\ method \in {"qr", "phone"} /\ loginMode \in {"qr", "phone"}
  /\ currentId \in Ids \cup {"none"} /\ authorizedName \in Ids \cup {"none"}
  /\ passwordRequired \in BOOLEAN /\ done \in BOOLEAN
  /\ busy \subseteq Flags
  /\ calls \subseteq [op : Flags \cup {"list"}, id : Ids \cup {"none"}, from : 1..MaxDialogues]
  /\ stream \in 0..MaxStreams /\ opened \in 0..MaxStreams
  /\ streams \subseteq (1..MaxStreams) \X Ids
  /\ dialogue \in 0..MaxDialogues /\ earlier \in 0..MaxStreams
  /\ sent \subseteq Ids /\ asked \subseteq Ids /\ loggedIn \subseteq Ids
  /\ strayed \in BOOLEAN

LoginInit ==
  /\ made \in SUBSET Ids
  /\ shown \in BOOLEAN /\ show = FALSE
  /\ mode = "create" /\ phase = "form" /\ method = "qr" /\ loginMode = "qr"
  /\ currentId = "none" /\ authorizedName = "none"
  /\ passwordRequired = FALSE /\ done = FALSE
  /\ busy = {} /\ calls = {}
  /\ stream = 0 /\ streams = {} /\ opened = 0
  /\ dialogue = 0 /\ earlier = 0
  /\ sent = {} /\ asked = {} /\ loggedIn = {}
  /\ strayed = FALSE

-----------------------------------------------------------------------------
(* Opening and closing *)

\* Mutant: the name of the last account stays.
resetLoginState_KeepsName ==
  /\ method' = "qr"
  /\ passwordRequired' = FALSE /\ UNCHANGED authorizedName

resetLoginState ==
  /\ method' = "qr"
  /\ passwordRequired' = FALSE /\ authorizedName' = "none"

\* openAdd and openConnect, of an instance that needs a login.  An open
\* dialogue covers their buttons.
OpenDialogue(m, i) ==
  /\ shown /\ ~show /\ dialogue < MaxDialogues
  /\ mode' = m /\ phase' = "form" /\ show' = TRUE
  /\ currentId' = IF m = "connect" THEN i ELSE currentId
  /\ resetLoginState
  /\ dialogue' = dialogue + 1
  /\ earlier' = opened /\ strayed' = FALSE
  /\ UNCHANGED <<made, shown, loginMode, busy, calls, source, server>>

\* Mutant: only the reference is dropped.
closeStream_Forgets == stream' = 0 /\ UNCHANGED streams

closeStream == stream' = 0 /\ streams' = {s \in streams : s[1] # stream}

CloseDialogue ==
  /\ show /\ show' = FALSE
  /\ closeStream
  /\ UNCHANGED <<made, shown, mode, phase, method, loginMode, currentId, authorizedName,
                 passwordRequired, busy, calls, opened, done, dialogue, earlier, server, strayed>>

\* onUnmounted: the calls under way are answered all the same.
LeavePage ==
  /\ shown /\ shown' = FALSE
  /\ show' = FALSE
  /\ closeStream
  /\ UNCHANGED <<made, mode, phase, method, loginMode, currentId, authorizedName,
                 passwordRequired, busy, calls, opened, done, dialogue, earlier, server, strayed>>

-----------------------------------------------------------------------------
(* The form *)

ChooseMethod ==
  /\ show /\ phase = "form" /\ method' \in {"qr", "phone"} \ {method}
  /\ UNCHANGED <<made, shown, show, mode, phase, loginMode, currentId, authorizedName,
                 passwordRequired, busy, calls, source, dialogue, earlier, server, strayed>>

\* startQr: a new EventSource takes the place of the one before, which is not
\* closed here.
startQr(i) ==
  /\ opened < MaxStreams /\ opened' = opened + 1
  /\ stream' = opened' /\ streams' = streams \cup {<<opened', i>>}
  /\ done' = FALSE /\ passwordRequired' = FALSE /\ authorizedName' = "none"

proceedLogin ==
  /\ loginMode' = method
  /\ phase' = method
  /\ IF method = "qr"
       THEN startQr(currentId) /\ busy' = busy \ {"create", "password"}
       ELSE busy' = busy \ {"create"} /\ UNCHANGED <<source, passwordRequired, authorizedName>>

Proceed ==
  /\ show /\ phase = "form" /\ mode = "connect" /\ "create" \notin busy
  /\ proceedLogin
  /\ UNCHANGED <<made, shown, show, mode, method, currentId, calls, dialogue, earlier, server, strayed>>

\* A form is submitted in its phase, once at a time.
Screen ==
  CASE ~show -> "none"
    [] show /\ phase \in {"form", "phone", "code"} -> phase
    [] show /\ phase \in {"qr", "password"} ->
         IF authorizedName # "none" THEN "welcome"
         ELSE IF passwordRequired \/ phase = "password" THEN "password" ELSE "qr"

\* submitCreate, sendPhoneLogin, submitPhoneCode, submitPassword: the call.
Submit(op) ==
  /\ Screen = IF op = "create" THEN "form" ELSE op
  /\ op = "create" => mode = "create"
  /\ op \notin busy
  /\ busy' = busy \cup {op}
  /\ calls' = calls \cup {Call(op, currentId)}
  /\ UNCHANGED <<made, shown, modal, source, dialogue, earlier, server, strayed>>

-----------------------------------------------------------------------------
(* Answers *)

\* The dialogue the call was made in is still the one on the screen.
Stray(c) == strayed' = (strayed \/ c.from # dialogue \/ ~show)

\* createInstance answers: its id is current, the list is loaded next.
Created(c) ==
  /\ c.op = "create"
  /\ \E i \in Ids \ made : /\ made' = made \cup {i}
                           /\ currentId' = i
                           /\ calls' = (calls \ {c}) \cup {[c EXCEPT !.op = "list"]}
  /\ Stray(c)
  /\ UNCHANGED <<shown, show, mode, phase, method, loginMode, authorizedName, passwordRequired,
                 busy, source, dialogue, earlier, server>>

\* The list is loaded, or not: the login goes on with what is current then.
Listed(c) ==
  /\ c.op = "list"
  /\ proceedLogin
  /\ calls' = calls \ {c}
  /\ Stray(c)
  /\ UNCHANGED <<made, shown, show, mode, method, currentId, dialogue, earlier, server>>

Phoned(c) ==
  /\ c.op = "phone"
  /\ phase' = "code" /\ sent' = sent \cup {c.id}
  /\ calls' = calls \ {c} /\ busy' = busy \ {"phone"}
  /\ Stray(c)
  /\ UNCHANGED <<made, shown, show, mode, method, loginMode, currentId, authorizedName,
                 passwordRequired, source, dialogue, earlier, asked, loggedIn>>

\* onAuthorized, which leaves the phase alone.
Welcome(i) == authorizedName' = i /\ loggedIn' = loggedIn \cup {i}

Coded(c) ==
  /\ c.op = "code"
  /\ \/ Welcome(c.id) /\ UNCHANGED <<phase, passwordRequired, asked>>
     \/ /\ phase' = "password" /\ passwordRequired' = TRUE
        /\ asked' = asked \cup {c.id}
        /\ UNCHANGED <<authorizedName, loggedIn>>
  /\ calls' = calls \ {c} /\ busy' = busy \ {"code"}
  /\ Stray(c)
  /\ UNCHANGED <<made, shown, show, mode, method, loginMode, currentId, source, dialogue, earlier, sent>>

\* The answer tells who it is when the login was by phone.
Passworded(c) ==
  /\ c.op = "password"
  /\ passwordRequired' = FALSE
  /\ \/ loginMode = "phone" /\ Welcome(c.id)
     \/ UNCHANGED <<authorizedName, loggedIn>>
  /\ calls' = calls \ {c} /\ busy' = busy \ {"password"}
  /\ Stray(c)
  /\ UNCHANGED <<made, shown, show, mode, phase, method, loginMode, currentId, source, dialogue, earlier,
                 sent, asked>>

\* The catch and the `finally`.
Refused(c) ==
  /\ c.op # "list"
  /\ calls' = calls \ {c} /\ busy' = busy \ {c.op}
  /\ UNCHANGED <<made, shown, modal, source, dialogue, earlier, server, strayed>>

-----------------------------------------------------------------------------
(* Events of an EventSource, remembered or not *)

Event(s) == /\ strayed' = (strayed \/ s[1] # stream \/ s[1] <= earlier)
            /\ UNCHANGED <<made, shown, show, mode, method, loginMode, currentId, busy, calls,
                           opened, dialogue, earlier, sent>>

PasswordEvent(s) ==
  /\ passwordRequired' = TRUE /\ phase' = "password"
  /\ asked' = asked \cup {s[2]}
  /\ UNCHANGED <<authorizedName, stream, streams, done, loggedIn>>
  /\ Event(s)

AuthorizedEvent(s) ==
  /\ done' = TRUE /\ closeStream /\ Welcome(s[2])
  /\ UNCHANGED <<phase, passwordRequired, asked>>
  /\ Event(s)

\* An error the server names, or the connection's unless the login is done.
ErrorEvent(s, named) ==
  /\ named \/ ~done
  /\ done' = TRUE /\ closeStream
  /\ UNCHANGED <<phase, passwordRequired, authorizedName, asked, loggedIn>>
  /\ Event(s)

LoginNext ==
  \/ OpenDialogue("create", "none") \/ \E i \in made : OpenDialogue("connect", i)
  \/ CloseDialogue \/ ChooseMethod \/ Proceed
  \/ \E op \in Flags : Submit(op)
  \/ \E c \in calls : \/ Created(c) \/ Listed(c) \/ Phoned(c) \/ Coded(c) \/ Passworded(c)
                      \/ Refused(c)
  \/ \E s \in streams : \/ PasswordEvent(s) \/ AuthorizedEvent(s)
                        \/ \E named \in BOOLEAN : ErrorEvent(s, named)

-----------------------------------------------------------------------------
(* Properties *)

\* EventSources of the last dialogue.
Own == {s \in streams : s[1] > earlier}

\* Whatever earlier dialogues left behind (refs, calls under way, EventSources
\* that are open), what a dialogue shows is true of the instance it logs in: a
\* code is wanted when one was sent for it, a password when it was asked for, a
\* welcome when it was authorized; and it has at most one EventSource open, the
\* one the page remembers and will close, for that instance.  That is so until
\* something that is not the dialogue's own meets it: the answer of a call made
\* in another dialogue, or answered after this one was closed, or an event of
\* another EventSource.  The next dialogue starts afresh.
ScreenMatchesLogin ==
  strayed \/
    /\ Screen = "code"     => currentId \in sent
    /\ Screen = "password" => currentId \in asked
    /\ Screen = "welcome"  => authorizedName = currentId /\ currentId \in loggedIn
    /\ Own \subseteq {<<stream, currentId>>}
    /\ Own # {} => show
=============================================================================
