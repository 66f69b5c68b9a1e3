--------------------------- MODULE Dashboard_proofs ---------------------------
(***************************************************************************)
(* Theorems about Dashboard for every value of its constants: any number   *)
(* of keys, instances, chats, webhooks and calls under way, any bounds.    *)
(* The views share no variable, so the invariant is that of each of them;  *)
(* the session's is in Session_proofs.                                     *)
(***************************************************************************)
EXTENDS Dashboard, Session_proofs, FiniteSetTheorems, SequenceTheorems, TLAPS

USE DialogueAssumption DEF DialogueAssumption
USE ChatPageAssumption DEF ChatPageAssumption
USE WebhooksAssumption DEF WebhooksAssumption

-----------------------------------------------------------------------------
(* The login dialogue *)

\* Where a login goes on, an instance is current, and one is created at a time,
\* whatever was closed meanwhile.
Named ==
  /\ show => dialogue \in 1..MaxDialogues
  /\ earlier <= opened /\ \A s \in streams : s[1] <= opened
  /\ \A c \in calls : c.from <= dialogue /\ (c.op \in {"phone", "code", "password"} => c.id \in Ids)
  /\ phase # "form" \/ mode = "connect" \/ streams # {} \/ (\E c \in calls : c.op # "create")
       => currentId \in Ids

\* A call of the dialogue that is shown is answered in the phase it was made
\* in, for the instance it was made for.
Current(c) == show /\ c.from = dialogue
CallsSound ==
  \A c \in calls : Current(c) =>
    /\ c.op \in {"create", "list"} => phase = "form" /\ mode = "create"
    /\ c.op \in {"phone", "code", "password"} => phase = c.op /\ c.id = currentId

Creating == {c \in calls : c.op \in {"create", "list"}}
CreatesOnce == (\A c, d \in Creating : c = d) /\ (Creating # {} => "create" \in busy)

StreamSound ==
  /\ Own \subseteq {<<stream, currentId>>}
  /\ Own # {} => show /\ phase \in {"qr", "password"}

PhaseSound ==
  /\ phase = "form"     => authorizedName = "none"
  /\ phase = "code"     => currentId \in sent
  /\ phase = "password" => currentId \in asked
  /\ passwordRequired   => phase = "password"
  /\ authorizedName # "none" => authorizedName = currentId /\ currentId \in loggedIn

LoginSound == CallsSound /\ StreamSound /\ PhaseSound
LoginInv == LoginTypeOK /\ Named /\ CreatesOnce /\ (strayed \/ LoginSound)

-----------------------------------------------------------------------------
(* The conversation *)

Distinct(s)  == \A i, j \in 1..Len(s) : s[i] = s[j] => i = j
Among(s, C)  == \A i \in 1..Len(s) : s[i][1] \in C

\* What is asked is about a chat, and what the server answered is messages of it,
\* each once.
AnswerSound(a) ==
  /\ a.for # "nothing" => a.chat \in Chats
  /\ a.served => Distinct(a.items) /\ Among(a.items, {a.chat}) /\ (a.for = "send" => Len(a.items) = 1)
ChatInv == ChatTypeOK /\ (\A k \in ChatCalls : AnswerSound(ask[k])) /\ ConversationSound

-----------------------------------------------------------------------------
(* The form of a webhook *)

\* What calls would link to a webhook, or unlink.
Of(w, op) == {c.to : c \in {d \in links : d.hook = w /\ d.op = op}}

\* A save that began from what the server had and is let alone: what the
\* server has is what is ticked, but for the calls that are under way.
SaveSound ==
  clean /\ ~touched =>
    /\ save.at \in {"update", "links"} => editing = save.hook /\ editing \in DOMAIN linked
    /\ save.at = "update" => linked[editing] = copy /\ \A c \in links : c.hook # editing
    /\ save.at = "links"  => /\ linked[editing] = (ticks \ Of(editing, "link")) \cup Of(editing, "unlink")
                             /\ \A c \in links : c.hook = editing =>
                                  c.save = saves /\ (c.op = "link" <=> c.to \in ticks)

Counted ==
  /\ save.at # "idle" => saves \in 1..MaxSaves
  /\ toggling <= toggles
HooksInv == HooksTypeOK /\ Counted /\ SaveSound

-----------------------------------------------------------------------------

IInv == SessionInv /\ LoginInv /\ ChatInv /\ HooksInv

-----------------------------------------------------------------------------
(* The login dialogue *)

CallSet == [op : Flags \cup {"list"}, id : Ids \cup {"none"}, from : 1..MaxDialogues]
FlagsTyped ==
  /\ shown \in BOOLEAN /\ show \in BOOLEAN
  /\ passwordRequired \in BOOLEAN /\ done \in BOOLEAN
  /\ strayed \in BOOLEAN
RefsTyped ==
  /\ mode \in {"create", "connect"} /\ phase \in Phases
  /\ method \in {"qr", "phone"} /\ loginMode \in {"qr", "phone"}
  /\ currentId \in Ids \cup {"none"} /\ authorizedName \in Ids \cup {"none"}
  /\ busy \subseteq Flags
CountersTyped == stream \in 0..MaxStreams /\ opened \in 0..MaxStreams /\ dialogue \in 0..MaxDialogues /\ earlier \in 0..MaxStreams
HistoryTyped  == made \subseteq Ids /\ sent \subseteq Ids /\ asked \subseteq Ids /\ loggedIn \subseteq Ids
Scalars == FlagsTyped /\ RefsTyped /\ CountersTyped /\ HistoryTyped
CallsTyped   == calls \subseteq CallSet
StreamsTyped == streams \subseteq (1..MaxStreams) \X Ids

\* The parts of the type, which the steps below establish one by one.
LEMMA LoginParts ==
  /\ LoginTypeOK <=> Scalars /\ CallsTyped /\ StreamsTyped
  /\ LoginTypeOK' <=> Scalars' /\ CallsTyped' /\ StreamsTyped'
<1>1. LoginTypeOK <=> Scalars /\ CallsTyped /\ StreamsTyped
  BY Zenon DEF LoginTypeOK, Scalars, FlagsTyped, RefsTyped, CountersTyped, HistoryTyped, CallsTyped, StreamsTyped, CallSet
<1>2. LoginTypeOK' <=> Scalars' /\ CallsTyped' /\ StreamsTyped'
  BY Zenon DEF LoginTypeOK, Scalars, FlagsTyped, RefsTyped, CountersTyped, HistoryTyped, CallsTyped, StreamsTyped, CallSet
<1>. QED
  BY <1>1, <1>2

LEMMA LoginTypes ==
  ASSUME LoginTypeOK
  PROVE  /\ made \subseteq Ids /\ show \in BOOLEAN /\ shown \in BOOLEAN /\ strayed \in BOOLEAN
         /\ passwordRequired \in BOOLEAN /\ phase \in Phases /\ dialogue \in 0..MaxDialogues
         /\ calls \subseteq CallSet /\ \A c \in calls : c.op \in Flags \cup {"list"} /\ c.from \in 1..MaxDialogues
         /\ streams \subseteq (1..MaxStreams) \X Ids /\ \A s \in streams : s[2] \in Ids
BY DEF LoginTypeOK, CallSet

LEMMA LoginStart == LoginInit => LoginInv
<1>. SUFFICES ASSUME LoginInit PROVE LoginInv
  OBVIOUS
<1>1. LoginTypeOK
  <2>1. Scalars
    <3>1. FlagsTyped
      BY DEF LoginInit, FlagsTyped
    <3>2. RefsTyped
      BY DEF LoginInit, RefsTyped, Phases
    <3>3. CountersTyped /\ HistoryTyped
      BY DEF LoginInit, CountersTyped, HistoryTyped
    <3>. QED
      BY <3>1, <3>2, <3>3 DEF Scalars
  <2>2. CallsTyped /\ StreamsTyped
    BY DEF LoginInit, CallsTyped, StreamsTyped
  <2>. QED
    BY <2>1, <2>2, LoginParts
<1>2. Named /\ CreatesOnce /\ LoginSound
  BY DEF LoginInit, Named, LoginSound, CallsSound, CreatesOnce, Creating, StreamSound, Own, PhaseSound
<1>. QED
  BY <1>1, <1>2 DEF LoginInv

LEMMA OpenKeeps ==
  ASSUME LoginInv,
         \/ OpenDialogue("create", "none")
         \/ \E i \in made : OpenDialogue("connect", i)
  PROVE  LoginInv'
<1>1. PICK m \in {"create", "connect"}, i \in Ids \cup {"none"} :
        OpenDialogue(m, i) /\ (m = "connect" => i \in Ids)
  BY LoginTypes DEF LoginInv
<1>2. /\ ~show /\ dialogue < MaxDialogues /\ mode' = m /\ phase' = "form" /\ show' = TRUE
      /\ currentId' = (IF m = "connect" THEN i ELSE currentId)
      /\ method' = "qr" /\ passwordRequired' = FALSE /\ authorizedName' = "none"
      /\ dialogue' = dialogue + 1 /\ earlier' = opened /\ strayed' = FALSE
      /\ UNCHANGED <<made, shown, loginMode, busy, calls, stream, streams, opened, done, sent, asked, loggedIn>>
  BY <1>1 DEF OpenDialogue, resetLoginState, source, server
<1>3. LoginTypeOK'
  <2>1. Scalars /\ CallsTyped /\ StreamsTyped
    BY LoginParts DEF LoginInv
  <2>2. Scalars'
    <3>1. FlagsTyped'
      BY <1>1, <1>2, <2>1 DEF Scalars, FlagsTyped
    <3>2. RefsTyped'
      BY <1>1, <1>2, <2>1 DEF Scalars, RefsTyped, Phases
    <3>3. CountersTyped' /\ HistoryTyped'
      BY <1>1, <1>2, <2>1 DEF Scalars, CountersTyped, HistoryTyped
    <3>. QED
      BY <3>1, <3>2, <3>3 DEF Scalars
  <2>3. CallsTyped' /\ StreamsTyped'
    BY <1>2, <2>1 DEF CallsTyped, StreamsTyped, CallSet
  <2>. QED
    BY <2>2, <2>3, LoginParts
<1>4. Named' /\ CreatesOnce'
  BY <1>1, <1>2 DEF LoginInv, Named, LoginTypeOK, CreatesOnce, Creating
<1>5. LoginSound'
  <2>1. CallsSound'
    BY <1>2 DEF LoginInv, Named, LoginTypeOK, CallsSound, Current
  <2>2. Own' = {}
    <3>1. \A s \in streams : ~(s[1] > opened)
      BY DEF LoginInv, Named, LoginTypeOK
    <3>. QED
      BY <1>2, <3>1 DEF Own
  <2>3. StreamSound' /\ PhaseSound'
    BY <1>2, <2>2 DEF StreamSound, PhaseSound
  <2>. QED
    BY <2>1, <2>3 DEF LoginSound
<1>. QED
  BY <1>3, <1>4, <1>5 DEF LoginInv

LEMMA CloseKeeps ==
  ASSUME LoginInv, CloseDialogue \/ LeavePage
  PROVE  LoginInv'
<1>1. /\ show' = FALSE /\ stream' = 0 /\ streams' = {s \in streams : s[1] # stream} /\ shown' \in BOOLEAN
      /\ UNCHANGED <<made, mode, phase, method, loginMode, currentId, authorizedName, passwordRequired, busy,
                     calls, opened, done, dialogue, earlier, sent, asked, loggedIn, strayed>>
  BY LoginTypes DEF CloseDialogue, LeavePage, closeStream, server, LoginInv
<1>2. LoginTypeOK'
  <2>1. Scalars /\ CallsTyped /\ StreamsTyped
    BY LoginParts DEF LoginInv
  <2>2. Scalars'
    <3>1. FlagsTyped'
      BY <1>1, <2>1 DEF Scalars, FlagsTyped
    <3>2. RefsTyped'
      BY <1>1, <2>1 DEF Scalars, RefsTyped, Phases
    <3>3. CountersTyped' /\ HistoryTyped'
      BY <1>1, <2>1 DEF Scalars, CountersTyped, HistoryTyped
    <3>. QED
      BY <3>1, <3>2, <3>3 DEF Scalars
  <2>3. CallsTyped' /\ StreamsTyped'
    BY <1>1, <2>1 DEF CallsTyped, StreamsTyped, CallSet
  <2>. QED
    BY <2>2, <2>3, LoginParts
<1>3. Named' /\ CreatesOnce'
  BY <1>1 DEF LoginInv, Named, CreatesOnce, Creating
<1>4. strayed' \/ LoginSound'
  <2>. SUFFICES ASSUME ~strayed' PROVE LoginSound'
    OBVIOUS
  <2>1. LoginSound
    BY <1>1 DEF LoginInv
  <2>2. CallsSound' /\ PhaseSound'
    BY <1>1, <2>1 DEF LoginSound, CallsSound, Current, PhaseSound
  <2>3. Own' = {}
    BY <1>1, <2>1 DEF LoginSound, StreamSound, Own
  <2>. QED
    BY <2>2, <2>3 DEF LoginSound, StreamSound
<1>. QED
  BY <1>2, <1>3, <1>4 DEF LoginInv

LEMMA ScreenFacts ==
  ASSUME LoginTypeOK
  PROVE  /\ Screen # "none" => show
         /\ \A p \in {"form", "phone", "code"} : Screen = p <=> show /\ phase = p
         /\ Screen = "password" => phase \in {"qr", "password"} /\ (passwordRequired \/ phase = "password")
         /\ Screen = "welcome" => phase \in {"qr", "password"} /\ authorizedName # "none"
<1>1. show \in BOOLEAN /\ phase \in Phases
  BY LoginTypes
<1>2. CASE ~show
  <2>1. Screen = "none"
    BY <1>2 DEF Screen
  <2>. QED
    BY <1>2, <2>1
<1>3. CASE show /\ phase \in {"form", "phone", "code"}
  <2>1. Screen = phase
    BY <1>3 DEF Screen
  <2>. QED
    BY <1>3, <2>1
<1>4. CASE show /\ phase \in {"qr", "password"}
  <2>1. Screen = IF authorizedName # "none" THEN "welcome"
                 ELSE IF passwordRequired \/ phase = "password" THEN "password" ELSE "qr"
    BY <1>4 DEF Screen
  <2>. QED
    BY <1>4, <2>1
<1>. QED
  BY <1>1, <1>2, <1>3, <1>4 DEF Phases

\* A call of the dialogue on the screen that is not for the form is the only
\* one of that dialogue.
LEMMA OneCall ==
  ASSUME LoginTypeOK, CallsSound, NEW c \in calls, Current(c), c.op \in {"phone", "code", "password"}
  PROVE  \A d \in calls \ {c} : ~Current(d)
<1>. SUFFICES ASSUME NEW d \in calls, Current(d) PROVE d = c
  OBVIOUS
<1>1. phase = c.op /\ c.id = currentId /\ d.from = c.from
  BY DEF CallsSound, Current
<1>2. d.op \in Flags \cup {"list"} /\ c \in CallSet /\ d \in CallSet
  BY LoginTypes
<1>3. d.op = c.op /\ d.id = c.id
  BY <1>1, <1>2 DEF CallsSound, Flags
<1>. QED
  BY <1>1, <1>2, <1>3 DEF CallSet

LEMMA ChooseKeeps ==
  ASSUME LoginInv, ChooseMethod \/ UNCHANGED loginVars
  PROVE  LoginInv'
<1>1. /\ method' = method \/ method' \in {"qr", "phone"}
      /\ UNCHANGED <<made, shown, show, mode, phase, loginMode, currentId, authorizedName,
                     passwordRequired, busy, calls, stream, streams, opened, done, dialogue, earlier, sent, asked, loggedIn,
                     strayed>>
  BY DEF ChooseMethod, loginVars, modal, source, server
<1>2. LoginTypeOK'
  <2>1. Scalars /\ CallsTyped /\ StreamsTyped
    BY LoginParts DEF LoginInv
  <2>2. Scalars'
    <3>1. FlagsTyped'
      BY <1>1, <2>1 DEF Scalars, FlagsTyped
    <3>2. RefsTyped'
      BY <1>1, <2>1 DEF Scalars, RefsTyped
    <3>3. CountersTyped' /\ HistoryTyped'
      BY <1>1, <2>1 DEF Scalars, CountersTyped, HistoryTyped
    <3>. QED
      BY <3>1, <3>2, <3>3 DEF Scalars
  <2>3. CallsTyped' /\ StreamsTyped'
    BY <1>1, <2>1 DEF CallsTyped, StreamsTyped, CallSet
  <2>. QED
    BY <2>2, <2>3, LoginParts
<1>3. Named' /\ CreatesOnce'
  BY <1>1 DEF LoginInv, Named, CreatesOnce, Creating
<1>4. strayed' \/ LoginSound'
  BY <1>1 DEF LoginInv, LoginSound, CallsSound, Current, StreamSound, Own, PhaseSound
<1>. QED
  BY <1>2, <1>3, <1>4 DEF LoginInv

LEMMA ProceedKeeps ==
  ASSUME LoginInv, Proceed \/ \E c \in calls : Listed(c)
  PROVE  LoginInv'
<1>1. /\ proceedLogin /\ calls' \subseteq calls /\ strayed' \in BOOLEAN /\ (strayed => strayed')
      /\ UNCHANGED <<made, shown, show, mode, method, currentId, dialogue, earlier, sent, asked, loggedIn>>
  <2>1. CASE Proceed
    BY <2>1, LoginTypes DEF Proceed, server, LoginInv
  <2>2. ASSUME NEW c \in calls, Listed(c)
        PROVE  /\ proceedLogin /\ calls' \subseteq calls /\ strayed' = (strayed \/ c.from # dialogue \/ ~show)
               /\ UNCHANGED <<made, shown, show, mode, method, currentId, dialogue, earlier, sent, asked, loggedIn>>
    BY <2>2 DEF Listed, Stray, server
  <2>. QED
    BY <2>1, <2>2
<1>2. currentId \in Ids
  BY DEF Proceed, Listed, LoginInv, Named
<1>3. /\ phase' = method /\ loginMode' = method
      /\ busy' \subseteq busy
      /\ method = "qr" =>
           /\ opened < MaxStreams /\ opened' = opened + 1 /\ stream' = opened'
           /\ streams' = streams \cup {<<opened', currentId>>}
           /\ done' = FALSE /\ passwordRequired' = FALSE /\ authorizedName' = "none"
      /\ method # "qr" =>
           UNCHANGED <<stream, streams, opened, done, passwordRequired, authorizedName>>
  BY <1>1 DEF proceedLogin, startQr, source
<1>4. LoginTypeOK'
  <2>1. Scalars /\ CallsTyped /\ StreamsTyped
    BY LoginParts DEF LoginInv
  <2>2. Scalars'
    <3>1. FlagsTyped'
      BY <1>1, <1>3, <2>1 DEF Scalars, FlagsTyped
    <3>2. RefsTyped'
      BY <1>1, <1>3, <2>1 DEF Scalars, RefsTyped, Phases
    <3>3. CountersTyped'
      BY <1>1, <1>3, <2>1 DEF Scalars, CountersTyped
    <3>4. HistoryTyped'
      BY <1>1, <2>1 DEF Scalars, HistoryTyped
    <3>. QED
      BY <3>1, <3>2, <3>3, <3>4 DEF Scalars
  <2>3. CallsTyped'
    BY <1>1, <2>1 DEF CallsTyped, CallSet
  <2>4. StreamsTyped'
    BY <1>2, <1>3, <2>1 DEF Scalars, CountersTyped, StreamsTyped
  <2>. QED
    BY <2>2, <2>3, <2>4, LoginParts
<1>5. Creating' = {} /\ CreatesOnce'
  <2>1. CASE Proceed
    BY <2>1 DEF Proceed, LoginInv, CreatesOnce, Creating
  <2>2. ASSUME NEW c \in calls, Listed(c) PROVE Creating' = {}
    BY <2>2 DEF Listed, LoginInv, CreatesOnce, Creating
  <2>3. Creating' = {}
    BY <2>1, <2>2
  <2>. QED
    BY <2>3 DEF CreatesOnce
<1>6. Named'
  <2>1. opened' >= opened /\ opened \in Nat /\ opened' \in Nat /\ \A s \in streams' : s[1] <= opened'
    <3>1. opened \in Nat /\ \A s \in streams : s[1] \in Nat /\ s[1] <= opened
      BY DEF LoginInv, LoginTypeOK, Named
    <3>2. CASE method = "qr"
      <4>1. opened' = opened + 1 /\ \A s \in streams' : s \in streams \/ s = <<opened', currentId>>
        BY <1>3, <3>2
      <4>. QED
        BY <3>1, <4>1
    <3>3. CASE method # "qr"
      <4>1. opened' = opened /\ streams' = streams
        BY <1>3, <3>3
      <4>. QED
        BY <3>1, <4>1
    <3>. QED
      BY <3>2, <3>3
  <2>2. earlier' <= opened'
    BY <1>1, <2>1 DEF LoginInv, LoginTypeOK, Named
  <2>. QED
    BY <1>1, <1>2, <2>1, <2>2 DEF LoginInv, Named
<1>7. strayed' \/ LoginSound'
  <2>. SUFFICES ASSUME ~strayed' PROVE LoginSound'
    OBVIOUS
  <2>1. LoginSound
    BY <1>1 DEF LoginInv
  <2>2. phase = "form" /\ show /\ (\A d \in calls' : ~Current(d))
    <3>1. CASE Proceed
      <4>1. phase = "form" /\ show /\ mode = "connect" /\ calls' = calls
        BY <3>1 DEF Proceed
      <4>2. \A d \in calls : ~Current(d)
        BY <2>1, <4>1, LoginTypes DEF LoginInv, LoginSound, CallsSound, Flags
      <4>. QED
        BY <4>1, <4>2
    <3>2. ASSUME NEW c \in calls, Listed(c) PROVE phase = "form" /\ show /\ (\A d \in calls' : ~Current(d))
      <4>1. c.op = "list" /\ calls' = calls \ {c} /\ Current(c)
        BY <3>2 DEF Listed, Stray, Current
      <4>2. phase = "form" /\ show
        BY <2>1, <4>1 DEF LoginSound, CallsSound, Current
      <4>3. \A d \in calls' : ~Current(d)
        BY <1>5, <2>1, <4>1, <4>2, LoginTypes DEF LoginInv, LoginSound, CallsSound, Flags, Creating
      <4>. QED
        BY <4>2, <4>3
    <3>. QED
      BY <3>1, <3>2
  <2>3. CallsSound'
    BY <1>1, <2>2 DEF CallsSound, Current
  <2>4. Own = {} /\ authorizedName = "none" /\ ~passwordRequired
    BY <2>1, <2>2 DEF LoginSound, StreamSound, PhaseSound
  <2>5. method \in {"qr", "phone"}
    BY LoginParts DEF LoginInv, Scalars, RefsTyped
  <2>6. StreamSound'
    <3>1. Own' \subseteq {<<stream', currentId'>>}
      BY <1>1, <1>3, <2>4, <2>5 DEF Own
    <3>2. method # "qr" => Own' = {}
      BY <1>1, <1>3, <2>4, <2>5 DEF Own
    <3>. QED
      BY <1>1, <1>3, <2>2, <2>5, <3>1, <3>2 DEF StreamSound
  <2>7. PhaseSound'
    BY <1>3, <2>4, <2>5 DEF PhaseSound
  <2>. QED
    BY <2>3, <2>6, <2>7 DEF LoginSound
<1>. QED
  BY <1>4, <1>5, <1>6, <1>7 DEF LoginInv

LEMMA SubmitKeeps ==
  ASSUME LoginInv, NEW op \in Flags, Submit(op)
  PROVE  LoginInv'
<1>1. /\ Screen = (IF op = "create" THEN "form" ELSE op)
      /\ op = "create" => mode = "create"
      /\ op \notin busy /\ busy' = busy \cup {op}
      /\ calls' = calls \cup {[op |-> op, id |-> currentId, from |-> dialogue]}
      /\ UNCHANGED <<made, shown, show, mode, phase, method, loginMode, currentId, authorizedName,
                     passwordRequired, stream, streams, opened, done, dialogue, earlier, sent, asked, loggedIn, strayed>>
  BY DEF Submit, Call, modal, source, server
<1>2. /\ show
      /\ op = "create" => phase = "form"
      /\ op \in {"phone", "code"} => phase = op
      /\ op = "password" => phase \in {"qr", "password"} /\ (passwordRequired \/ phase = "password")
  BY <1>1, ScreenFacts DEF LoginInv, Flags
<1>3. /\ dialogue \in 1..MaxDialogues
      /\ op # "create" => currentId \in Ids
  BY <1>2 DEF LoginInv, Named, Flags
<1>4. LoginTypeOK'
  <2>1. Scalars /\ CallsTyped /\ StreamsTyped
    BY LoginParts DEF LoginInv
  <2>2. Scalars'
    <3>1. FlagsTyped'
      BY <1>1, <2>1 DEF Scalars, FlagsTyped
    <3>2. RefsTyped'
      BY <1>1, <2>1 DEF Scalars, RefsTyped
    <3>3. CountersTyped' /\ HistoryTyped'
      BY <1>1, <2>1 DEF Scalars, CountersTyped, HistoryTyped
    <3>. QED
      BY <3>1, <3>2, <3>3 DEF Scalars
  <2>3. CallsTyped' /\ StreamsTyped'
    BY <1>1, <1>3, <2>1 DEF CallsTyped, StreamsTyped, CallSet, Scalars, RefsTyped
  <2>. QED
    BY <2>2, <2>3, LoginParts
<1>5. Named' /\ CreatesOnce'
  BY <1>1, <1>2, <1>3 DEF LoginInv, Named, CreatesOnce, Creating, Flags
<1>6. strayed' \/ LoginSound'
  <2>. SUFFICES ASSUME ~strayed' PROVE LoginSound'
    OBVIOUS
  <2>1. LoginSound
    BY <1>1 DEF LoginInv
  <2>2. op = "password" => phase = "password"
    BY <1>2, <2>1 DEF LoginSound, PhaseSound
  <2>3. CallsSound'
    BY <1>1, <1>2, <2>1, <2>2 DEF LoginSound, CallsSound, Current, Flags
  <2>4. StreamSound' /\ PhaseSound'
    BY <1>1, <2>1 DEF LoginSound, StreamSound, Own, PhaseSound
  <2>. QED
    BY <2>3, <2>4 DEF LoginSound
<1>. QED
  BY <1>4, <1>5, <1>6 DEF LoginInv

LEMMA CreatedKeeps ==
  ASSUME LoginInv, NEW c \in calls, Created(c)
  PROVE  LoginInv'
<1>1. PICK i \in Ids \ made :
        /\ c.op = "create"
        /\ made' = made \cup {i} /\ currentId' = i
        /\ calls' = (calls \ {c}) \cup {[c EXCEPT !.op = "list"]}
        /\ strayed' = (strayed \/ c.from # dialogue \/ ~show)
        /\ UNCHANGED <<shown, show, mode, phase, method, loginMode, authorizedName, passwordRequired,
                       busy, stream, streams, opened, done, dialogue, earlier, sent, asked, loggedIn>>
  BY DEF Created, Stray, source, server
<1>. DEFINE d == [c EXCEPT !.op = "list"]
<1>2. c \in CallSet /\ d \in CallSet /\ d.op = "list" /\ d.from = c.from /\ c.from <= dialogue
  BY LoginTypes DEF LoginInv, CallSet, Named
<1>. HIDE DEF d
<1>3. LoginTypeOK'
  <2>1. Scalars /\ CallsTyped /\ StreamsTyped
    BY LoginParts DEF LoginInv
  <2>2. Scalars'
    <3>1. FlagsTyped'
      BY <1>1, <2>1 DEF Scalars, FlagsTyped
    <3>2. RefsTyped'
      BY <1>1, <2>1 DEF Scalars, RefsTyped
    <3>3. CountersTyped' /\ HistoryTyped'
      BY <1>1, <2>1 DEF Scalars, CountersTyped, HistoryTyped
    <3>. QED
      BY <3>1, <3>2, <3>3 DEF Scalars
  <2>3. CallsTyped' /\ StreamsTyped'
    BY <1>1, <1>2, <2>1 DEF CallsTyped, StreamsTyped, d
  <2>. QED
    BY <2>2, <2>3, LoginParts
<1>4. Named' /\ CreatesOnce'
  BY <1>1, <1>2 DEF LoginInv, Named, CreatesOnce, Creating, d
<1>5. strayed' \/ LoginSound'
  <2>. SUFFICES ASSUME ~strayed' PROVE LoginSound'
    OBVIOUS
  <2>1. LoginSound /\ Current(c)
    BY <1>1 DEF LoginInv, Current
  <2>2. phase = "form" /\ mode = "create" /\ Own = {}
    BY <1>1, <2>1 DEF LoginSound, CallsSound, StreamSound
  <2>3. CallsSound'
    BY <1>1, <1>2, <2>1, <2>2 DEF LoginSound, CallsSound, Current, d
  <2>4. StreamSound' /\ PhaseSound'
    BY <1>1, <2>1, <2>2 DEF LoginSound, StreamSound, Own, PhaseSound
  <2>. QED
    BY <2>3, <2>4 DEF LoginSound
<1>. QED
  BY <1>3, <1>4, <1>5 DEF LoginInv

\* The answers to the calls of the phone's, the code's and the password's form.
LEMMA FormAnswerKeeps ==
  ASSUME LoginInv, NEW c \in calls, Phoned(c) \/ Coded(c) \/ Passworded(c)
  PROVE  LoginInv'
<1>1. /\ c.op \in {"phone", "code", "password"}
      /\ calls' = calls \ {c} /\ busy' = busy \ {c.op}
      /\ strayed' = (strayed \/ c.from # dialogue \/ ~show)
      /\ UNCHANGED <<made, shown, show, mode, method, loginMode, currentId, stream, streams, opened, done, dialogue, earlier>>
  BY DEF Phoned, Coded, Passworded, Stray, source
<1>2. c.id \in Ids
  BY <1>1 DEF LoginInv, Named
<1>3. \/ /\ c.op = "phone" /\ phase' = "code" /\ sent' = sent \cup {c.id}
         /\ UNCHANGED <<authorizedName, passwordRequired, asked, loggedIn>>
      \/ /\ c.op = "code" /\ authorizedName' = c.id /\ loggedIn' = loggedIn \cup {c.id}
         /\ UNCHANGED <<phase, passwordRequired, asked, sent>>
      \/ /\ c.op = "code" /\ phase' = "password" /\ passwordRequired' = TRUE /\ asked' = asked \cup {c.id}
         /\ UNCHANGED <<authorizedName, loggedIn, sent>>
      \/ /\ c.op = "password" /\ passwordRequired' = FALSE
         /\ authorizedName' = c.id /\ loggedIn' = loggedIn \cup {c.id}
         /\ UNCHANGED <<phase, sent, asked>>
      \/ /\ c.op = "password" /\ passwordRequired' = FALSE
         /\ UNCHANGED <<phase, authorizedName, loggedIn, sent, asked>>
  BY DEF Phoned, Coded, Passworded, Welcome
<1>4. LoginTypeOK'
  <2>1. Scalars /\ CallsTyped /\ StreamsTyped
    BY LoginParts DEF LoginInv
  <2>2. Scalars'
    <3>1. FlagsTyped'
      BY <1>1, <1>3, <2>1 DEF Scalars, FlagsTyped
    <3>2. RefsTyped'
      BY <1>1, <1>2, <1>3, <2>1 DEF Scalars, RefsTyped, Phases
    <3>3. CountersTyped'
      BY <1>1, <2>1 DEF Scalars, CountersTyped
    <3>4. HistoryTyped'
      BY <1>1, <1>2, <1>3, <2>1 DEF Scalars, HistoryTyped
    <3>. QED
      BY <3>1, <3>2, <3>3, <3>4 DEF Scalars
  <2>3. CallsTyped' /\ StreamsTyped'
    BY <1>1, <2>1 DEF CallsTyped, StreamsTyped, CallSet
  <2>. QED
    BY <2>2, <2>3, LoginParts
<1>5. Named' /\ CreatesOnce'
  BY <1>1 DEF LoginInv, Named, CreatesOnce, Creating
<1>6. strayed' \/ LoginSound'
  <2>. SUFFICES ASSUME ~strayed' PROVE LoginSound'
    OBVIOUS
  <2>1. LoginSound /\ Current(c) /\ LoginTypeOK
    BY <1>1 DEF LoginInv, Current
  <2>2. phase = c.op /\ c.id = currentId /\ show
    BY <1>1, <2>1 DEF LoginSound, CallsSound, Current
  <2>3. CallsSound'
    <3>1. \A d \in calls' : ~Current(d)
      BY <1>1, <2>1, OneCall DEF LoginSound
    <3>. QED
      BY <1>1, <3>1 DEF CallsSound, Current
  <2>4. StreamSound'
    BY <1>1, <1>3, <2>1, <2>2 DEF LoginSound, StreamSound, Own
  <2>5. PhaseSound'
    BY <1>1, <1>3, <2>1, <2>2 DEF LoginSound, PhaseSound
  <2>. QED
    BY <2>3, <2>4, <2>5 DEF LoginSound
<1>. QED
  BY <1>4, <1>5, <1>6 DEF LoginInv

LEMMA FormRefusedKeeps ==
  ASSUME LoginInv, NEW c \in calls, Refused(c)
  PROVE  LoginInv'
<1>1. /\ c.op # "list" /\ calls' = calls \ {c} /\ busy' = busy \ {c.op}
      /\ UNCHANGED <<made, shown, show, mode, phase, method, loginMode, currentId, authorizedName,
                     passwordRequired, stream, streams, opened, done, dialogue, earlier, sent, asked, loggedIn, strayed>>
  BY DEF Refused, modal, source, server
<1>2. LoginTypeOK'
  <2>1. Scalars /\ CallsTyped /\ StreamsTyped
    BY LoginParts DEF LoginInv
  <2>2. Scalars'
    <3>1. FlagsTyped'
      BY <1>1, <2>1 DEF Scalars, FlagsTyped
    <3>2. RefsTyped'
      BY <1>1, <2>1 DEF Scalars, RefsTyped
    <3>3. CountersTyped' /\ HistoryTyped'
      BY <1>1, <2>1 DEF Scalars, CountersTyped, HistoryTyped
    <3>. QED
      BY <3>1, <3>2, <3>3 DEF Scalars
  <2>3. CallsTyped' /\ StreamsTyped'
    BY <1>1, <2>1 DEF CallsTyped, StreamsTyped, CallSet
  <2>. QED
    BY <2>2, <2>3, LoginParts
<1>3. Named' /\ CreatesOnce'
  BY <1>1 DEF LoginInv, Named, CreatesOnce, Creating
<1>4. strayed' \/ LoginSound'
  <2>. SUFFICES ASSUME ~strayed' PROVE LoginSound'
    OBVIOUS
  <2>1. LoginSound
    BY <1>1 DEF LoginInv
  <2>2. CallsSound' /\ StreamSound' /\ PhaseSound'
    BY <1>1, <2>1 DEF LoginSound, CallsSound, Current, StreamSound, Own, PhaseSound
  <2>. QED
    BY <2>2 DEF LoginSound
<1>. QED
  BY <1>2, <1>3, <1>4 DEF LoginInv

LEMMA EventKeeps ==
  ASSUME LoginInv, NEW s \in streams,
         PasswordEvent(s) \/ AuthorizedEvent(s) \/ \E named \in BOOLEAN : ErrorEvent(s, named)
  PROVE  LoginInv'
<1>1. /\ strayed' = (strayed \/ s[1] # stream \/ s[1] <= earlier)
      /\ UNCHANGED <<made, shown, show, mode, method, loginMode, currentId, busy, calls, opened, dialogue, earlier, sent>>
  BY DEF PasswordEvent, AuthorizedEvent, ErrorEvent, Event
<1>2. \/ /\ passwordRequired' = TRUE /\ phase' = "password" /\ asked' = asked \cup {s[2]}
         /\ UNCHANGED <<authorizedName, stream, streams, done, loggedIn>>
      \/ /\ done' = TRUE /\ stream' = 0 /\ streams' = {t \in streams : t[1] # stream}
         /\ authorizedName' = s[2] /\ loggedIn' = loggedIn \cup {s[2]}
         /\ UNCHANGED <<phase, passwordRequired, asked>>
      \/ /\ done' = TRUE /\ stream' = 0 /\ streams' = {t \in streams : t[1] # stream}
         /\ UNCHANGED <<phase, passwordRequired, authorizedName, asked, loggedIn>>
  BY DEF PasswordEvent, AuthorizedEvent, ErrorEvent, closeStream, Welcome
<1>3. s[2] \in Ids /\ currentId \in Ids
  BY LoginTypes DEF LoginInv, Named
<1>4. LoginTypeOK'
  <2>1. Scalars /\ CallsTyped /\ StreamsTyped
    BY LoginParts DEF LoginInv
  <2>2. Scalars'
    <3>1. FlagsTyped'
      BY <1>1, <1>2, <2>1 DEF Scalars, FlagsTyped
    <3>2. RefsTyped'
      BY <1>1, <1>2, <1>3, <2>1 DEF Scalars, RefsTyped, Phases
    <3>3. CountersTyped'
      BY <1>1, <1>2, <2>1 DEF Scalars, CountersTyped
    <3>4. HistoryTyped'
      BY <1>1, <1>2, <1>3, <2>1 DEF Scalars, HistoryTyped
    <3>. QED
      BY <3>1, <3>2, <3>3, <3>4 DEF Scalars
  <2>3. CallsTyped' /\ StreamsTyped'
    BY <1>1, <1>2, <2>1 DEF CallsTyped, StreamsTyped, CallSet
  <2>. QED
    BY <2>2, <2>3, LoginParts
<1>5. Named' /\ CreatesOnce'
  <2>1. streams' \subseteq streams
    BY <1>2
  <2>. QED
    BY <1>1, <1>3, <2>1 DEF LoginInv, Named, CreatesOnce, Creating
<1>6. strayed' \/ LoginSound'
  <2>. SUFFICES ASSUME ~strayed' PROVE LoginSound'
    OBVIOUS
  <2>1. LoginSound /\ s[1] = stream /\ s \in Own
    <3>1. s[1] \in Nat /\ earlier \in Nat
      BY DEF LoginInv, LoginTypeOK
    <3>2. ~strayed /\ s[1] = stream /\ ~(s[1] <= earlier)
      BY <1>1, Zenon
    <3>3. s \in Own
      BY <3>1, <3>2 DEF Own
    <3>. QED
      BY <3>2, <3>3, Zenon DEF LoginInv
  <2>2. s[2] = currentId /\ show /\ phase \in {"qr", "password"}
    BY <2>1 DEF LoginSound, StreamSound
  <2>3. CallsSound'
    <3>1. \A c \in calls : Current(c) => c.op = "password" /\ phase = "password" /\ c.id = currentId
      BY <2>1, <2>2, LoginTypes DEF LoginInv, LoginSound, CallsSound, Flags
    <3>. QED
      BY <1>1, <1>2, <3>1 DEF CallsSound, Current
  <2>4. StreamSound'
    BY <1>1, <1>2, <2>1, <2>2 DEF LoginSound, StreamSound, Own
  <2>5. PhaseSound'
    BY <1>1, <1>2, <2>1, <2>2 DEF LoginSound, PhaseSound
  <2>. QED
    BY <2>3, <2>4, <2>5 DEF LoginSound
<1>. QED
  BY <1>4, <1>5, <1>6 DEF LoginInv

LEMMA LoginStep == LoginInv /\ (LoginNext \/ LeavePage \/ UNCHANGED loginVars) => LoginInv'
<1>. SUFFICES ASSUME LoginInv, LoginNext \/ LeavePage \/ UNCHANGED loginVars PROVE LoginInv'
  OBVIOUS
<1>1. CASE OpenDialogue("create", "none") \/ \E i \in made : OpenDialogue("connect", i)
  BY <1>1, OpenKeeps
<1>2. CASE CloseDialogue \/ LeavePage
  BY <1>2, CloseKeeps
<1>3. CASE ChooseMethod \/ UNCHANGED loginVars
  BY <1>3, ChooseKeeps
<1>4. CASE Proceed \/ \E c \in calls : Listed(c)
  BY <1>4, ProceedKeeps
<1>5. CASE \E op \in Flags : Submit(op)
  BY <1>5, SubmitKeeps
<1>6. CASE \E c \in calls : Created(c) \/ Phoned(c) \/ Coded(c) \/ Passworded(c) \/ Refused(c)
  <2>. PICK c \in calls : Created(c) \/ Phoned(c) \/ Coded(c) \/ Passworded(c) \/ Refused(c)
    BY <1>6
  <2>1. CASE Created(c)
    BY <2>1, CreatedKeeps
  <2>2. CASE Phoned(c) \/ Coded(c) \/ Passworded(c)
    BY <2>2, FormAnswerKeeps
  <2>3. CASE Refused(c)
    BY <2>3, FormRefusedKeeps
  <2>. QED
    BY <2>1, <2>2, <2>3
<1>7. CASE \E s \in streams : PasswordEvent(s) \/ AuthorizedEvent(s) \/ \E named \in BOOLEAN : ErrorEvent(s, named)
  BY <1>7, EventKeeps
<1>. QED
  BY Zenon, <1>1, <1>2, <1>3, <1>4, <1>5, <1>6, <1>7 DEF LoginNext

\* What the invariant says of the screen.
LEMMA ScreenIsSound == LoginInv => ScreenMatchesLogin
<1>. SUFFICES ASSUME LoginInv, ~strayed PROVE ScreenMatchesLogin
  BY DEF ScreenMatchesLogin
<1>1. LoginSound /\ LoginTypeOK
  BY DEF LoginInv
<1>2. StreamSound /\ PhaseSound
  BY <1>1 DEF LoginSound
<1>. QED
  BY <1>1, <1>2, ScreenFacts DEF ScreenMatchesLogin, StreamSound, PhaseSound

-----------------------------------------------------------------------------
(* The conversation *)

AskSet == [for : {"nothing", "select", "older", "send"}, chat : Chats \cup {"none"},
           at : Nat, served : BOOLEAN, items : Seq(Message), next : Nat]
CountTyped == count \in [Chats -> Nat]
FlowTyped  == open \in BOOLEAN /\ loadingMore \in BOOLEAN /\ sending \in BOOLEAN /\ crossed \subseteq Chats
FeedTyped  == feed \in [state : {"awaited", "open", "closed"}, queue : Seq(Message)]
PageTyped  == selected \in Chats \cup {"none"} /\ messages \in Seq(Message) /\ cursor \in Nat
AskTyped   == ask \in [ChatCalls -> AskSet]

\* The parts of the type, which the steps below establish one by one.
LEMMA ChatParts ==
  /\ ChatTypeOK <=> CountTyped /\ FlowTyped /\ FeedTyped /\ PageTyped /\ AskTyped
  /\ ChatTypeOK' <=> CountTyped' /\ FlowTyped' /\ FeedTyped' /\ PageTyped' /\ AskTyped'
<1>1. ChatTypeOK <=> CountTyped /\ FlowTyped /\ FeedTyped /\ PageTyped /\ AskTyped
  BY Zenon DEF ChatTypeOK, CountTyped, FlowTyped, FeedTyped, PageTyped, AskTyped, AskSet
<1>2. ChatTypeOK' <=> CountTyped' /\ FlowTyped' /\ FeedTyped' /\ PageTyped' /\ AskTyped'
  BY Zenon DEF ChatTypeOK, CountTyped, FlowTyped, FeedTyped, PageTyped, AskTyped, AskSet
<1>. QED
  BY <1>1, <1>2

\* Sequences without repetitions, of one chat.
LEMMA JoinIs ==
  ASSUME NEW s \in Seq(Message), NEW t \in Seq(Message), Distinct(s), Distinct(t),
         \A i \in 1..Len(s), j \in 1..Len(t) : s[i] # t[j]
  PROVE  /\ s \o t \in Seq(Message) /\ Distinct(s \o t)
         /\ \A C : Among(s, C) /\ Among(t, C) => Among(s \o t, C)
<1>1. /\ s \o t \in Seq(Message) /\ Len(s) \in Nat /\ Len(t) \in Nat
      /\ Len(s \o t) = Len(s) + Len(t)
      /\ \A i \in 1..Len(s \o t) : (s \o t)[i] = IF i <= Len(s) THEN s[i] ELSE t[i - Len(s)]
  BY ConcatProperties
<1>. DEFINE u == s \o t
<1>2. \A i \in 1..Len(u) : \/ i \in 1..Len(s) /\ u[i] = s[i]
                           \/ i - Len(s) \in 1..Len(t) /\ u[i] = t[i - Len(s)]
  BY <1>1
<1>. HIDE DEF u
<1>3. Distinct(u)
  BY <1>1, <1>2 DEF Distinct, u
<1>4. ASSUME NEW C, Among(s, C), Among(t, C) PROVE Among(u, C)
  BY <1>2, <1>4 DEF Among
<1>. QED
  BY <1>1, <1>3, <1>4 DEF u

LEMMA OneIs ==
  ASSUME NEW m \in Message
  PROVE  <<m>> \in Seq(Message) /\ Len(<<m>>) = 1 /\ <<m>>[1] = m /\ Distinct(<<m>>) /\ Among(<<m>>, {m[1]})
BY DEF Distinct, Among

\* The positions of a set before one of them, which count it off.
Below(S, i) == {k \in S : k < i}

LEMMA PlacesAre ==
  ASSUME NEW n \in Nat, NEW S \in SUBSET (1..n)
  PROVE  IsFiniteSet(S) /\ Cardinality(S) \in Nat /\ \A i \in S : i \in Nat
<1>1. IsFiniteSet(1..n)
  BY FS_Interval
<1>2. IsFiniteSet(S)
  BY <1>1, FS_Subset
<1>. QED
  BY <1>2, FS_CardinalityType

LEMMA BelowIs ==
  ASSUME NEW n \in Nat, NEW S \in SUBSET (1..n), NEW i \in S
  PROVE  /\ IsFiniteSet(S) /\ Cardinality(S) \in Nat
         /\ Cardinality(Below(S, i)) \in 0..Cardinality(S) - 1
         /\ \A k \in S : k < i => Cardinality(Below(S, k)) < Cardinality(Below(S, i))
<1>1. IsFiniteSet(S) /\ Cardinality(S) \in Nat /\ \A p \in S : p \in Nat
  BY PlacesAre
<1>2. \A k \in S : Below(S, k) \in SUBSET S /\ IsFiniteSet(Below(S, k)) /\ Cardinality(Below(S, k)) \in Nat
  BY <1>1, FS_Subset, FS_CardinalityType DEF Below
<1>3. Cardinality(Below(S, i)) <= Cardinality(S) /\ Cardinality(Below(S, i)) # Cardinality(S)
  <2>1. i \notin Below(S, i)
    BY DEF Below
  <2>. QED
    BY <1>1, <1>2, <2>1, FS_Subset
<1>4. ASSUME NEW k \in S, k < i PROVE Cardinality(Below(S, k)) < Cardinality(Below(S, i))
  <2>1. Below(S, k) \in SUBSET Below(S, i)
    <3>1. i \in Nat /\ k \in Nat
      BY <1>1
    <3>2. ASSUME NEW q \in S, q < k PROVE q < i
      <4>1. q \in Nat
        BY <1>1
      <4>. QED
        BY <1>4, <3>1, <3>2, <4>1
    <3>. QED
      BY <3>2 DEF Below
  <2>2. k \in Below(S, i) /\ k \notin Below(S, k)
    BY <1>4 DEF Below
  <2>. QED
    BY <1>2, <2>1, <2>2, FS_Subset
<1>. QED
  BY <1>1, <1>2, <1>3, <1>4

LEMMA Collide ==
  ASSUME NEW S, NEW T, IsFiniteSet(S), IsFiniteSet(T), Cardinality(T) < Cardinality(S), NEW f \in [S -> T]
  PROVE  \E x, y \in S : x # y /\ f[x] = f[y]
BY FS_PigeonHole

\* The positions of a set are counted off from the first.
LEMMA PlaceOf ==
  ASSUME NEW n \in Nat, NEW S \in SUBSET (1..n), NEW k \in 0..Cardinality(S) - 1
  PROVE  \E i \in S : Cardinality(Below(S, i)) = k
<1>. SUFFICES ASSUME \A i \in S : Cardinality(Below(S, i)) # k PROVE FALSE
  OBVIOUS
<1>. DEFINE T == (0..Cardinality(S) - 1) \ {k}
            f == [i \in S |-> Cardinality(Below(S, i))]
<1>1. IsFiniteSet(S) /\ Cardinality(S) \in Nat /\ \A p \in S : p \in Nat
  BY PlacesAre
<1>2. f \in [S -> T]
  BY BelowIs
<1>3. IsFiniteSet(T) /\ Cardinality(T) = Cardinality(S) - 1
  <2>. DEFINE m == Cardinality(S)
              All == 0..(m - 1)
  <2>1. m \in Nat /\ 0 \in Int /\ m - 1 \in Int /\ k \in All
    BY <1>1
  <2>2. IsFiniteSet(All) /\ Cardinality(All) = m
    BY <2>1, FS_Interval
  <2>3. T = All \ {k}
    OBVIOUS
  <2>. HIDE DEF All, T
  <2>. QED
    BY <2>1, <2>2, <2>3, FS_RemoveElement
<1>4. PICK x, y \in S : x # y /\ f[x] = f[y]
  <2>. HIDE DEF T, f
  <2>. QED
    <3>1. Cardinality(T) < Cardinality(S)
      BY <1>1, <1>3
    <3>2. IsFiniteSet(S) /\ IsFiniteSet(T)
      BY <1>1, <1>3
    <3>3. \A g \in [S -> T] : \E x, y \in S : x # y /\ g[x] = g[y]
      BY <3>1, <3>2, Collide
    <3>. QED
      BY <1>2, <3>3
<1>5. (x > y \/ y > x) /\ Cardinality(Below(S, x)) = Cardinality(Below(S, y))
  BY <1>1, <1>4
<1>6. CASE x > y
  <2>1. Cardinality(Below(S, y)) < Cardinality(Below(S, x)) /\ Cardinality(Below(S, x)) \in 0..Cardinality(S) - 1
    BY <1>6, BelowIs
  <2>. QED
    BY <1>1, <1>5, <2>1
<1>7. CASE y > x
  <2>1. Cardinality(Below(S, x)) < Cardinality(Below(S, y)) /\ Cardinality(Below(S, x)) \in 0..Cardinality(S) - 1
    BY <1>7, BelowIs
  <2>. QED
    BY <1>1, <1>5, <2>1
<1>. QED
  BY <1>5, <1>6, <1>7

\* What is not shown yet of a sequence without repetitions has none, is none of
\* what is shown, and is of the chats the sequence is of.
LEMMA UnseenIs ==
  ASSUME NEW s \in Seq(Message), Distinct(s), messages \in Seq(Message)
  PROVE  /\ Unseen(s) \in Seq(Message) /\ Distinct(Unseen(s))
         /\ \A i \in 1..Len(Unseen(s)), j \in 1..Len(messages) : Unseen(s)[i] # messages[j]
         /\ \A D : Among(s, D) => Among(Unseen(s), D)
<1>. DEFINE new == {i \in 1..Len(s) : ~Contains(messages, s[i])}
            n == Cardinality(new)
            C(i) == CHOOSE p \in new : Cardinality(Below(new, p)) = i - 1
<1>1. Unseen(s) = [i \in 1..n |-> s[C(i)]]
  BY DEF Unseen, Below
<1>2. Len(s) \in Nat /\ new \in SUBSET (1..Len(s)) /\ IsFiniteSet(new) /\ n \in Nat
  <2>1. Len(s) \in Nat /\ new \in SUBSET (1..Len(s))
    OBVIOUS
  <2>. HIDE DEF new
  <2>. QED
    BY <2>1, PlacesAre
<1>3. \A p \in new : s[p] \in Message /\ \A j \in 1..Len(messages) : s[p] # messages[j]
  BY DEF Contains
<1>. HIDE DEF new
<1>4. ASSUME NEW i \in 1..n PROVE C(i) \in new /\ Cardinality(Below(new, C(i))) = i - 1
  <2>1. i - 1 \in 0..Cardinality(new) - 1
    BY <1>2
  <2>. QED
    BY <1>2, <2>1, PlaceOf
<1>5. ASSUME NEW i \in 1..n, NEW k \in 1..n, s[C(i)] = s[C(k)] PROVE i = k
  <2>1. C(i) = C(k)
    BY <1>2, <1>4, <1>5 DEF Distinct
  <2>. QED
    BY <1>2, <1>4, <2>1
<1>. HIDE DEF C, n
<1>6. Unseen(s) \in Seq(Message) /\ Len(Unseen(s)) = n /\ \A i \in 1..n : Unseen(s)[i] = s[C(i)]
  <2>1. \A i \in 1..n : s[C(i)] \in Message
    BY <1>3, <1>4
  <2>. QED
    BY <1>1, <1>2, <2>1
<1>7. Distinct(Unseen(s))
  BY <1>5, <1>6 DEF Distinct
<1>8. \A i \in 1..Len(Unseen(s)), j \in 1..Len(messages) : Unseen(s)[i] # messages[j]
  BY <1>3, <1>4, <1>6
<1>9. ASSUME NEW D, Among(s, D) PROVE Among(Unseen(s), D)
  BY <1>2, <1>4, <1>6, <1>9 DEF Among
<1>. QED
  BY <1>6, <1>7, <1>8, <1>9

\* A page of a chat: messages of it, each once.
LEMMA PageIsSound ==
  ASSUME count \in [Chats -> Nat], NEW c \in Chats, NEW at \in Nat
  PROVE  /\ Page(c, at).items \in Seq(Message) /\ Page(c, at).next \in Nat
         /\ Distinct(Page(c, at).items) /\ Among(Page(c, at).items, {c})
<1>. DEFINE last  == IF at = 0 THEN count[c] ELSE at - 1
            first == IF last < PageLen THEN 1 ELSE last - PageLen + 1
            size  == last + 1 - first
<1>1. last \in Nat
  OBVIOUS
<1>. HIDE DEF last
<1>2. first \in Nat \ {0} /\ size \in Nat
  BY <1>1
<1>3. Page(c, at) = [items |-> [i \in 1..size |-> <<c, first + i - 1>>],
                     next  |-> IF first > 1 THEN first ELSE 0]
  BY DEF Page, last
<1>. HIDE DEF first, size
<1>. DEFINE it == [i \in 1..size |-> <<c, first + i - 1>>]
<1>4. Page(c, at).items = it /\ Page(c, at).next \in Nat
  BY <1>2, <1>3
<1>5. it \in Seq(Message) /\ Len(it) = size
  <2>1. \A i \in 1..size : <<c, first + i - 1>> \in Message
    BY <1>2 DEF Message
  <2>. QED
    BY <1>2, <2>1
<1>6. Distinct(it) /\ Among(it, {c})
  BY <1>2, <1>5 DEF Distinct, Among
<1>. QED
  BY <1>4, <1>5, <1>6

\* A conversation is sound: what the property says, in the terms of the lemmas.
LEMMA ShownIs ==
  /\ messages \in Seq(Message) =>
       (ConversationSound <=> Distinct(messages) /\ Among(messages, {selected} \cup crossed))
  /\ messages' \in Seq(Message) =>
       (ConversationSound' <=> Distinct(messages') /\ Among(messages', {selected'} \cup crossed'))
<1>1. ASSUME NEW s \in Seq(Message) PROVE IsInjective(s) <=> Distinct(s)
  BY DEF IsInjective, Distinct
<1>2. messages \in Seq(Message) =>
        (ConversationSound <=> Distinct(messages) /\ Among(messages, {selected} \cup crossed))
  BY <1>1 DEF ConversationSound, Among
<1>3. messages' \in Seq(Message) =>
        (ConversationSound' <=> Distinct(messages') /\ Among(messages', {selected'} \cup crossed'))
  BY <1>1 DEF ConversationSound, Among
<1>. QED
  BY <1>2, <1>3

LEMMA ChatTypes ==
  ASSUME ChatTypeOK
  PROVE  /\ count \in [Chats -> Nat] /\ messages \in Seq(Message) /\ cursor \in Nat
         /\ selected \in Chats \cup {"none"} /\ ask \in [ChatCalls -> AskSet]
         /\ \A k \in ChatCalls : ask[k] \in AskSet
         /\ feed.queue \in Seq(Message) /\ feed.state \in {"awaited", "open", "closed"}
BY DEF ChatTypeOK, AskSet

LEMMA QuietIs == Quiet \in AskSet /\ AnswerSound(Quiet) /\ Quiet.served = FALSE
<1>1. Quiet \in AskSet
  BY DEF Quiet, AskSet
<1>. QED
  BY <1>1 DEF Quiet, AnswerSound

\* One call changes, to one of the type whose answer is sound.
LEMMA AskChanges ==
  ASSUME ChatTypeOK, \A k \in ChatCalls : AnswerSound(ask[k]),
         NEW k \in ChatCalls, NEW a \in AskSet, AnswerSound(a), ask' = [ask EXCEPT ![k] = a]
  PROVE  AskTyped' /\ \A j \in ChatCalls : AnswerSound(ask[j])'
<1>1. ask \in [ChatCalls -> AskSet]
  BY ChatTypes
<1>2. AskTyped'
  BY <1>1 DEF AskTyped
<1>3. ASSUME NEW j \in ChatCalls PROVE AnswerSound(ask'[j])
  <2>1. ask'[j] = IF j = k THEN a ELSE ask[j]
    BY <1>1
  <2>. QED
    BY <2>1
<1>4. \A j \in ChatCalls : AnswerSound(ask[j])'
  BY <1>3 DEF AnswerSound
<1>. QED
  BY <1>2, <1>4

LEMMA FeedIs ==
  \A q \in {"awaited", "open", "closed"} :
    Feed(q) \in [state : {"awaited", "open", "closed"}, queue : Seq(Message)]
<1>1. <<>> \in Seq(Message)
  OBVIOUS
<1>. QED
  BY <1>1 DEF Feed

LEMMA ChatStart == ChatInit => ChatInv
<1>. SUFFICES ASSUME ChatInit PROVE ChatInv
  OBVIOUS
<1>1. CountTyped
  <2>1. count \in [Chats -> 0..MaxMessages]
    BY DEF ChatInit, AtMost
  <2>. QED
    BY <2>1 DEF CountTyped
<1>2. FlowTyped /\ FeedTyped /\ PageTyped
  <2>1. FlowTyped
    BY DEF ChatInit, FlowTyped
  <2>2. FeedTyped
    <3>1. feed = Feed("awaited") \/ feed = Feed("closed")
      BY DEF ChatInit
    <3>. QED
      BY <3>1, FeedIs DEF FeedTyped
  <2>3. PageTyped
    BY DEF ChatInit, PageTyped
  <2>. QED
    BY <2>1, <2>2, <2>3
<1>3. AskTyped /\ \A k \in ChatCalls : AnswerSound(ask[k])
  BY QuietIs DEF ChatInit, AskTyped
<1>4. ConversationSound
  BY DEF ChatInit, ConversationSound, IsInjective
<1>. QED
  BY <1>1, <1>2, <1>3, <1>4, ChatParts DEF ChatInv

\* A message is stored, and streamed when the stream is open.
LEMMA StoredIs ==
  ASSUME ChatTypeOK, NEW c \in Chats, Stored(c), Streamed(<<c, count[c] + 1>>)
  PROVE  CountTyped' /\ FeedTyped' /\ <<c, count[c] + 1>> \in Message
<1>1. <<c, count[c] + 1>> \in Message
  BY ChatTypes DEF Message
<1>2. CountTyped'
  BY ChatTypes DEF Stored, CountTyped
<1>3. FeedTyped'
  <2>1. Append(feed.queue, <<c, count[c] + 1>>) \in Seq(Message)
    BY <1>1, ChatTypes
  <2>2. feed \in [state : {"awaited", "open", "closed"}, queue : Seq(Message)]
    BY DEF ChatTypeOK
  <2>. QED
    BY <2>1, <2>2 DEF Streamed, FeedTyped
<1>. QED
  BY <1>1, <1>2, <1>3

\* The steps of the server.
LEMMA ServerOfChatKeeps ==
  ASSUME ChatInv, \/ \E c \in Chats : Arrive(c)
                  \/ \E k \in ChatCalls : Serve(k) \/ ServeSend(k)
  PROVE  ChatInv'
<1>. DEFINE Answers == \A k \in ChatCalls : AnswerSound(ask[k])
<1>0. ChatTypeOK /\ Answers /\ ConversationSound
  BY DEF ChatInv
<1>1. UNCHANGED <<open, selected, messages, cursor, loadingMore, sending, crossed>>
  BY DEF Arrive, Serve, ServeSend
<1>2. FlowTyped' /\ PageTyped' /\ ConversationSound'
  BY <1>0, <1>1, ChatParts DEF FlowTyped, PageTyped, ConversationSound
<1>3. CountTyped' /\ FeedTyped' /\ AskTyped' /\ Answers'
  <2>1. ASSUME NEW c \in Chats, Arrive(c) PROVE CountTyped' /\ FeedTyped' /\ AskTyped' /\ Answers'
    <3>1. Stored(c) /\ Streamed(<<c, count[c] + 1>>) /\ ask' = ask
      BY <2>1 DEF Arrive
    <3>2. CountTyped' /\ FeedTyped'
      BY <1>0, <3>1, StoredIs
    <3>3. AskTyped' /\ Answers'
      BY <1>0, <3>1, ChatParts DEF AskTyped, AnswerSound
    <3>. QED
      BY <3>2, <3>3
  <2>2. ASSUME NEW k \in ChatCalls, Serve(k) PROVE CountTyped' /\ FeedTyped' /\ AskTyped' /\ Answers'
    <3>. DEFINE p == Page(ask[k].chat, ask[k].at)
                a == [ask[k] EXCEPT !.served = TRUE, !.items = p.items, !.next = p.next]
    <3>1. ask' = [ask EXCEPT ![k] = a] /\ ask[k].for \in {"select", "older"} /\ count' = count /\ feed' = feed
      BY <2>2 DEF Serve
    <3>2. ask[k] \in AskSet /\ count \in [Chats -> Nat] /\ ask[k].at \in Nat /\ ask[k].chat \in Chats
      BY <1>0, <3>1, ChatTypes DEF AnswerSound, AskSet
    <3>3. p.items \in Seq(Message) /\ p.next \in Nat /\ Distinct(p.items) /\ Among(p.items, {ask[k].chat})
      BY <3>2, PageIsSound
    <3>. HIDE DEF p
    <3>4. /\ a \in AskSet /\ a.for = ask[k].for /\ a.chat = ask[k].chat /\ a.items = p.items
      BY <3>2, <3>3 DEF AskSet
    <3>5. AnswerSound(a)
      BY <3>1, <3>2, <3>3, <3>4 DEF AnswerSound
    <3>. HIDE DEF a
    <3>6. AskTyped' /\ Answers'
      BY <1>0, <3>1, <3>4, <3>5, AskChanges
    <3>. QED
      BY <1>0, <3>1, <3>6, ChatParts DEF CountTyped, FeedTyped
  <2>3. ASSUME NEW k \in ChatCalls, ServeSend(k) PROVE CountTyped' /\ FeedTyped' /\ AskTyped' /\ Answers'
    <3>. DEFINE c == ask[k].chat
                m == <<c, count[c] + 1>>
                a == [ask[k] EXCEPT !.served = TRUE, !.items = <<m>>]
    <3>1. ask' = [ask EXCEPT ![k] = a] /\ ask[k].for = "send" /\ Stored(c) /\ Streamed(m)
      BY <2>3 DEF ServeSend
    <3>2. ask[k] \in AskSet /\ c \in Chats
      BY <1>0, <3>1, ChatTypes DEF AnswerSound
    <3>. HIDE DEF c
    <3>3. CountTyped' /\ FeedTyped' /\ m \in Message
      BY <1>0, <3>1, <3>2, StoredIs
    <3>4. <<m>> \in Seq(Message) /\ Len(<<m>>) = 1 /\ Distinct(<<m>>) /\ Among(<<m>>, {c})
      BY <3>3, OneIs
    <3>. HIDE DEF m
    <3>5. a \in AskSet /\ a.for = ask[k].for /\ a.chat = c /\ a.items = <<m>>
      BY <3>2, <3>4 DEF AskSet, c
    <3>6. AnswerSound(a)
      BY <3>1, <3>2, <3>4, <3>5 DEF AnswerSound
    <3>. HIDE DEF a
    <3>7. AskTyped' /\ Answers'
      BY <1>0, <3>1, <3>5, <3>6, AskChanges
    <3>. QED
      BY <3>3, <3>7
  <2>. QED
    BY <2>1, <2>2, <2>3
<1>. QED
  BY <1>0, <1>2, <1>3, ChatParts DEF ChatInv

\* The steps that ask the server for something.
LEMMA AskKeeps ==
  ASSUME ChatInv, loadOlder \/ onSend \/ \E c \in Chats : selectChat(c)
  PROVE  ChatInv'
<1>. DEFINE Answers == \A k \in ChatCalls : AnswerSound(ask[k])
<1>0. ChatTypeOK /\ Answers /\ ConversationSound
  BY DEF ChatInv
<1>1. PICK k \in ChatCalls, why \in {"select", "older", "send"}, c \in Chats, at \in Nat :
        ask' = [ask EXCEPT ![k] = [Quiet EXCEPT !.for = why, !.chat = c, !.at = at]]
  <2>1. CASE loadOlder \/ onSend
    <3>1. selected \in Chats /\ cursor \in Nat
      BY <1>0, <2>1, ChatTypes DEF loadOlder, onSend
    <3>. QED
      BY <2>1, <3>1 DEF loadOlder, onSend, AskFor
  <2>2. CASE \E c \in Chats : selectChat(c)
    BY <2>2 DEF selectChat, AskFor
  <2>. QED
    BY <2>1, <2>2
<1>. DEFINE a == [Quiet EXCEPT !.for = why, !.chat = c, !.at = at]
<1>2. a \in AskSet /\ a.for = why /\ a.chat = c /\ a.served = FALSE
  BY QuietIs DEF Quiet, AskSet
<1>3. AnswerSound(a)
  BY <1>2 DEF AnswerSound
<1>. HIDE DEF a
<1>4. AskTyped' /\ Answers'
  BY <1>0, <1>1, <1>2, <1>3, AskChanges DEF a
<1>5. CountTyped' /\ FeedTyped' /\ FlowTyped'
  <2>1. CountTyped /\ FeedTyped /\ FlowTyped
    BY <1>0, ChatParts
  <2>2. UNCHANGED <<count, open, feed>> /\ crossed' \subseteq crossed
    BY DEF loadOlder, onSend, selectChat
  <2>3. loadingMore' \in BOOLEAN /\ sending' \in BOOLEAN
    BY <2>1 DEF loadOlder, onSend, selectChat, FlowTyped
  <2>. QED
    BY <2>1, <2>2, <2>3 DEF CountTyped, FeedTyped, FlowTyped
<1>6. PageTyped' /\ ConversationSound'
  <2>1. CASE loadOlder \/ onSend
    <3>1. UNCHANGED <<selected, messages, cursor, crossed>>
      BY <2>1 DEF loadOlder, onSend
    <3>. QED
      BY <1>0, <3>1, ChatParts DEF PageTyped, ConversationSound
  <2>2. ASSUME NEW d \in Chats, selectChat(d) PROVE PageTyped' /\ ConversationSound'
    <3>1. selected' = d /\ messages' = <<>> /\ cursor' = 0
      BY <2>2 DEF selectChat
    <3>. QED
      BY <3>1 DEF PageTyped, ConversationSound, IsInjective
  <2>. QED
    BY <2>1, <2>2
<1>. QED
  BY <1>4, <1>5, <1>6, ChatParts DEF ChatInv

\* The page appends a message: it is shown once, and stays among its own.
LEMMA AppendKeeps ==
  ASSUME ChatTypeOK, Distinct(messages), NEW m \in Message, appendMessage(m)
  PROVE  /\ messages' \in Seq(Message) /\ Distinct(messages')
         /\ \A C : Among(messages, C) /\ m[1] \in C => Among(messages', C)
<1>1. messages \in Seq(Message)
  BY ChatTypes
<1>. DEFINE s == <<m>>
<1>2. s \in Seq(Message) /\ Distinct(s) /\ Among(s, {m[1]})
  BY OneIs
<1>. HIDE DEF s
<1>. DEFINE u == Unseen(s)
<1>3. /\ u \in Seq(Message) /\ Distinct(u) /\ Among(u, {m[1]})
      /\ \A i \in 1..Len(u), j \in 1..Len(messages) : u[i] # messages[j]
  BY <1>1, <1>2, UnseenIs
<1>4. messages' = messages \o u
  BY DEF appendMessage, s
<1>. HIDE DEF u
<1>5. \A i \in 1..Len(messages), j \in 1..Len(u) : messages[i] # u[j]
  BY <1>3
<1>6. ASSUME NEW C, Among(messages, C), m[1] \in C PROVE Among(messages', C)
  <2>1. Among(u, C)
    BY <1>3, <1>6 DEF Among
  <2>. QED
    BY <1>1, <1>3, <1>4, <1>5, <1>6, <2>1, JoinIs
<1>. QED
  BY <1>1, <1>3, <1>4, <1>5, <1>6, JoinIs

LEMMA DeliverKeeps ==
  ASSUME ChatInv, Deliver \/ Listen \/ Unmount \/ UNCHANGED chatVars \/ \E k \in ChatCalls : Failed(k)
  PROVE  ChatInv'
<1>. DEFINE Answers == \A k \in ChatCalls : AnswerSound(ask[k])
<1>0. ChatTypeOK /\ Answers /\ ConversationSound /\ messages \in Seq(Message)
  BY ChatTypes DEF ChatInv
<1>1. UNCHANGED <<count, selected, cursor, crossed>>
  BY DEF Deliver, Listen, Unmount, Failed, chatVars
<1>2. FlowTyped'
  <2>1. FlowTyped
    BY <1>0, ChatParts
  <2>2. open' \in BOOLEAN
    BY <2>1 DEF FlowTyped, Deliver, Listen, Unmount, Failed, chatVars
  <2>3. loadingMore' \in BOOLEAN /\ sending' \in BOOLEAN
    BY <2>1 DEF FlowTyped, Deliver, Listen, Unmount, Failed, chatVars
  <2>. QED
    BY <1>1, <2>1, <2>2, <2>3 DEF FlowTyped
<1>3. FeedTyped'
  <2>1. FeedTyped
    BY <1>0, ChatParts
  <2>2. CASE Deliver
    <3>1. Tail(feed.queue) \in Seq(Message)
      BY <1>0, <2>2, ChatTypes, HeadTailProperties DEF Deliver
    <3>. QED
      BY <2>1, <2>2, <3>1 DEF Deliver, FeedTyped
  <2>3. CASE feed' = feed \/ feed' = Feed("open") \/ feed' = Feed("closed")
    BY <2>1, <2>3, FeedIs DEF FeedTyped
  <2>. QED
    BY <2>2, <2>3 DEF Listen, Unmount, Failed, chatVars
<1>4. AskTyped' /\ Answers'
  <2>1. CASE ask' = ask
    BY <1>0, <2>1, ChatParts DEF AskTyped, AnswerSound
  <2>2. ASSUME NEW k \in ChatCalls, Failed(k) PROVE AskTyped' /\ Answers'
    <3>1. ask' = [ask EXCEPT ![k] = Quiet]
      BY <2>2 DEF Failed
    <3>. QED
      BY <1>0, <3>1, QuietIs, AskChanges
  <2>. QED
    BY <2>1, <2>2 DEF Deliver, Listen, Unmount, chatVars
<1>5. messages' \in Seq(Message) /\ ConversationSound'
  <2>1. CASE messages' = messages
    BY <1>0, <1>1, <2>1 DEF ConversationSound
  <2>2. ASSUME Deliver, messages' # messages PROVE messages' \in Seq(Message) /\ ConversationSound'
    <3>. DEFINE m == Head(feed.queue)
    <3>1. m \in Message /\ m[1] = selected /\ appendMessage(m)
      BY <1>0, <2>2, ChatTypes, HeadTailProperties DEF Deliver, Concerns
    <3>. HIDE DEF m
    <3>2. Distinct(messages) /\ Among(messages, {selected} \cup crossed)
      BY <1>0, ShownIs
    <3>3. /\ messages' \in Seq(Message) /\ Distinct(messages')
          /\ Among(messages', {selected} \cup crossed)
      BY <1>0, <3>1, <3>2, AppendKeeps
    <3>. QED
      BY <1>1, <3>2, <3>3, ShownIs
  <2>. QED
    BY <2>1, <2>2 DEF Listen, Unmount, Failed, chatVars
<1>. QED
  BY <1>0, <1>1, <1>2, <1>3, <1>4, <1>5, ChatParts DEF ChatInv, CountTyped, PageTyped

\* What is shown of an answer.
LEMMA AnsweredKeeps ==
  ASSUME ChatInv, NEW k \in ChatCalls, Answered(k)
  PROVE  ChatInv'
<1>. DEFINE Answers == \A j \in ChatCalls : AnswerSound(ask[j])
            a == ask[k]
<1>0. ChatTypeOK /\ Answers /\ ConversationSound /\ messages \in Seq(Message)
  BY ChatTypes DEF ChatInv
<1>1. /\ a.served /\ ask' = [ask EXCEPT ![k] = Quiet] /\ Show(a)
      /\ crossed' = (IF a.for = "select" THEN {} ELSE crossed) \cup ({a.chat} \ {selected})
      /\ UNCHANGED <<count, open, feed, selected>>
  BY DEF Answered
<1>2. /\ a \in AskSet /\ a.items \in Seq(Message) /\ a.next \in Nat /\ (a.for # "nothing" => a.chat \in Chats)
      /\ Distinct(a.items) /\ Among(a.items, {a.chat}) /\ (a.for = "send" => Len(a.items) = 1)
  BY <1>0, <1>1, ChatTypes DEF AnswerSound, AskSet
<1>3. AskTyped' /\ Answers'
  BY <1>0, <1>1, QuietIs, AskChanges
<1>. HIDE DEF a
<1>4. CountTyped' /\ FeedTyped' /\ FlowTyped' /\ cursor' \in Nat
  <2>1. CountTyped /\ FeedTyped /\ FlowTyped /\ PageTyped
    BY <1>0, ChatParts
  <2>2. loadingMore' \in BOOLEAN /\ sending' \in BOOLEAN
    BY <1>1, <2>1 DEF Show, FlowTyped
  <2>3. cursor' \in Nat
    BY <1>1, <1>2, <2>1 DEF Show, PageTyped
  <2>4. crossed' \subseteq Chats
    BY <1>1, <1>2, <2>1 DEF Show, FlowTyped
  <2>. QED
    BY <1>1, <2>1, <2>2, <2>3, <2>4 DEF CountTyped, FeedTyped, FlowTyped
<1>5. Distinct(messages) /\ Among(messages, {selected} \cup crossed)
  BY <1>0, ShownIs
<1>. DEFINE Shown == {selected} \cup crossed'
<1>6. messages' \in Seq(Message) /\ Distinct(messages') /\ Among(messages', Shown)
  <2>0. a.chat \in Shown /\ (a.for # "select" => {selected} \cup crossed \subseteq Shown)
    BY <1>1
  <2>. HIDE DEF Shown
  <2>1. CASE a.for = "select" /\ messages' = a.items
    BY <1>2, <2>0, <2>1 DEF Among
  <2>2. CASE a.for = "older" /\ messages' = Unseen(a.items) \o messages
    <3>. DEFINE u == Unseen(a.items)
    <3>1. /\ u \in Seq(Message) /\ Distinct(u) /\ Among(u, {a.chat})
          /\ \A i \in 1..Len(u), j \in 1..Len(messages) : u[i] # messages[j]
      BY <1>0, <1>2, UnseenIs
    <3>. HIDE DEF u
    <3>2. Among(u, Shown) /\ Among(messages, Shown)
      BY <1>5, <2>0, <2>2, <3>1 DEF Among
    <3>3. /\ u \o messages \in Seq(Message) /\ Distinct(u \o messages)
          /\ Among(u \o messages, Shown)
      BY <1>0, <1>5, <3>1, <3>2, JoinIs
    <3>. QED
      BY <2>2, <3>3 DEF u
  <2>3. CASE a.for = "send" /\ appendMessage(a.items[1])
    <3>. DEFINE m == a.items[1]
    <3>1. m \in Message /\ m[1] = a.chat
      BY <1>2, <2>3 DEF Among
    <3>. HIDE DEF m
    <3>2. Among(messages, Shown) /\ m[1] \in Shown
      BY <1>5, <2>0, <2>3, <3>1 DEF Among
    <3>. QED
      BY <1>0, <1>5, <2>3, <3>1, <3>2, AppendKeeps DEF m
  <2>. QED
    BY <1>1, <2>1, <2>2, <2>3 DEF Show
<1>7. PageTyped' /\ ConversationSound'
  BY <1>0, <1>1, <1>4, <1>6, ShownIs, ChatParts DEF PageTyped
<1>. QED
  BY <1>3, <1>4, <1>7, ChatParts DEF ChatInv

LEMMA ChatStep == ChatInv /\ (ChatNext \/ Unmount \/ UNCHANGED chatVars) => ChatInv'
<1>. SUFFICES ASSUME ChatInv, ChatNext \/ Unmount \/ UNCHANGED chatVars PROVE ChatInv'
  OBVIOUS
<1>1. CASE (\E c \in Chats : Arrive(c)) \/ \E k \in ChatCalls : Serve(k) \/ ServeSend(k)
  BY <1>1, ServerOfChatKeeps
<1>2. CASE loadOlder \/ onSend \/ \E c \in Chats : selectChat(c)
  BY <1>2, AskKeeps
<1>3. CASE Deliver \/ Listen \/ Unmount \/ UNCHANGED chatVars \/ \E k \in ChatCalls : Failed(k)
  BY <1>3, DeliverKeeps
<1>4. CASE \E k \in ChatCalls : Answered(k)
  BY <1>4, AnsweredKeeps
<1>. QED
  BY Zenon, <1>1, <1>2, <1>3, <1>4 DEF ChatNext

-----------------------------------------------------------------------------
(* The form of a webhook *)

SaveSet == [at : {"idle", "update", "create", "links", "reload"}, hook : Hooks \cup {"none"},
            with : SUBSET Targets, load : ListCalls \cup {"none"}]
LinkSet == [op : {"link", "unlink"}, hook : Hooks, to : Targets, save : 1..MaxSaves]
LoadSet == [at : {"idle", "asked", "answered"}, rows : Tables]

SwitchesTyped == visited \in BOOLEAN /\ showForm \in BOOLEAN /\ clean \in BOOLEAN /\ touched \in BOOLEAN
ServerTyped   == linked \in Tables
TableTyped    == webhooks \in Tables /\ list \in {"loading", "error", "rows"} /\ lists \in [ListCalls -> LoadSet]
FormTyped     == editing \in Hooks \cup {"none"} /\ copy \subseteq Targets /\ ticks \subseteq Targets
SaveTyped     == save \in SaveSet
LinksTyped    == links \subseteq LinkSet
NumbersTyped  == saves \in 0..MaxSaves /\ toggles \in 0..MaxToggles /\ toggling \in 0..MaxToggles

\* The parts of the type, which the steps below establish one by one.
LEMMA HooksParts ==
  /\ HooksTypeOK <=> /\ SwitchesTyped /\ ServerTyped /\ TableTyped /\ FormTyped
                     /\ SaveTyped /\ LinksTyped /\ NumbersTyped
  /\ HooksTypeOK' <=> /\ SwitchesTyped' /\ ServerTyped' /\ TableTyped' /\ FormTyped'
                      /\ SaveTyped' /\ LinksTyped' /\ NumbersTyped'
<1>1. HooksTypeOK <=> /\ SwitchesTyped /\ ServerTyped /\ TableTyped /\ FormTyped
                      /\ SaveTyped /\ LinksTyped /\ NumbersTyped
  BY Zenon DEF HooksTypeOK, SwitchesTyped, ServerTyped, TableTyped, FormTyped, SaveTyped, SaveSet,
               LinksTyped, LinkSet, LoadSet, NumbersTyped
<1>2. HooksTypeOK' <=> /\ SwitchesTyped' /\ ServerTyped' /\ TableTyped' /\ FormTyped'
                       /\ SaveTyped' /\ LinksTyped' /\ NumbersTyped'
  BY Zenon DEF HooksTypeOK, SwitchesTyped, ServerTyped, TableTyped, FormTyped, SaveTyped, SaveSet,
               LinksTyped, LinkSet, LoadSet, NumbersTyped
<1>. QED
  BY <1>1, <1>2

LEMMA TablesAre ==
  /\ Nothing \in Tables
  /\ \A f \in Tables : DOMAIN f \in SUBSET Hooks /\ f \in [DOMAIN f -> SUBSET Targets]
  /\ \A D \in SUBSET Hooks : \A f \in [D -> SUBSET Targets] : f \in Tables
<1>1. \A D \in SUBSET Hooks : \A f \in [D -> SUBSET Targets] : f \in Tables
  BY DEF Tables
<1>2. \A f \in Tables : \E D \in SUBSET Hooks : f \in [D -> SUBSET Targets]
  BY DEF Tables
<1>3. Nothing \in [{} -> SUBSET Targets]
  BY DEF Nothing, Restrict
<1>. QED
  BY <1>1, <1>2, <1>3

LEMMA RecordsAre ==
  /\ NoLoad \in LoadSet /\ NoLoad.at = "idle"
  /\ NoSave \in SaveSet /\ NoSave.at = "idle"
<1>1. NoLoad \in LoadSet /\ NoLoad.at = "idle"
  BY TablesAre DEF NoLoad, LoadSet
<1>2. NoSave \in SaveSet /\ NoSave.at = "idle"
  BY DEF NoSave, SaveSet
<1>. QED
  BY <1>1, <1>2

LEMMA HooksStart == HooksInit => HooksInv
<1>. SUFFICES ASSUME HooksInit PROVE HooksInv
  OBVIOUS
<1>1. SwitchesTyped
  BY DEF HooksInit, SwitchesTyped
<1>2. ServerTyped
  BY TablesAre DEF HooksInit, ServerTyped
<1>3. TableTyped
  <2>1. [NoLoad EXCEPT !.at = "asked"] \in LoadSet
    BY RecordsAre DEF LoadSet
  <2>2. lists \in [ListCalls -> LoadSet]
    BY <2>1, RecordsAre DEF HooksInit
  <2>. QED
    BY <2>2, TablesAre DEF HooksInit, TableTyped
<1>4. FormTyped /\ SaveTyped /\ LinksTyped
  BY RecordsAre DEF HooksInit, FormTyped, SaveTyped, LinksTyped
<1>5. NumbersTyped
  BY DEF HooksInit, NumbersTyped
<1>6. Counted /\ SaveSound
  BY RecordsAre DEF HooksInit, Counted, SaveSound
<1>. QED
  BY <1>1, <1>2, <1>3, <1>4, <1>5, <1>6, HooksParts DEF HooksInv

LEMMA LoadIs ==
  ASSUME TableTyped, NEW l \in ListCalls, load(l)
  PROVE  TableTyped'
<1>1. /\ lists' = [lists EXCEPT ![l].at = "asked"] /\ list' = "loading" /\ webhooks' = webhooks
      /\ lists \in [ListCalls -> LoadSet] /\ webhooks \in Tables
  BY DEF load, TableTyped
<1>2. [lists[l] EXCEPT !.at = "asked"] \in LoadSet
  BY <1>1 DEF LoadSet
<1>3. lists' \in [ListCalls -> LoadSet]
  BY <1>1, <1>2
<1>. QED
  BY <1>1, <1>3 DEF TableTyped

\* How a save ends.
LEMMA EndsAre ==
  ASSUME HooksTypeOK, Saved \/ SaveFailed
  PROVE  /\ TableTyped' /\ SaveTyped' /\ showForm' \in BOOLEAN
         /\ UNCHANGED <<editing, copy, ticks>>
         /\ save'.at \in {"reload", "idle"}
         /\ SaveFailed => save'.at = "idle"
<1>1. TableTyped /\ SaveTyped /\ SwitchesTyped
  BY HooksParts
<1>2. CASE SaveFailed
  BY <1>1, <1>2, RecordsAre DEF SaveFailed, table, form, TableTyped, SaveTyped, SwitchesTyped
<1>3. CASE Saved /\ ~SaveFailed
  <2>1. PICK l \in ListCalls : load(l) /\ save' = [save EXCEPT !.at = "reload", !.load = l]
    BY <1>3 DEF Saved
  <2>2. TableTyped'
    BY <1>1, <2>1, LoadIs
  <2>3. SaveTyped' /\ save'.at = "reload"
    BY <1>1, <2>1 DEF SaveTyped, SaveSet
  <2>. QED
    BY <1>3, <2>2, <2>3 DEF Saved
<1>. QED
  BY <1>2, <1>3

\* The list and the switches: a save is over, or goes on as it was.
LEMMA ListKeeps ==
  ASSUME HooksInv, \/ \E l \in ListCalls : listWebhooks(l) \/ ListAnswered(l) \/ ListFails(l)
                   \/ toggleActive \/ Toggled \/ UNCHANGED hookVars
  PROVE  HooksInv'
<1>0. /\ HooksTypeOK /\ Counted /\ SaveSound
      /\ SwitchesTyped /\ ServerTyped /\ TableTyped /\ FormTyped /\ SaveTyped /\ LinksTyped /\ NumbersTyped
  BY HooksParts DEF HooksInv
<1>1. /\ UNCHANGED <<visited, linked, showForm, editing, copy, ticks, links, saves, clean, touched>>
      /\ save' = save \/ save' = NoSave
  BY DEF listWebhooks, ListAnswered, ListFails, Loaded, toggleActive, Toggled, hookVars, form, table, excuse
<1>2. SwitchesTyped' /\ ServerTyped' /\ FormTyped' /\ LinksTyped'
  BY <1>0, <1>1 DEF SwitchesTyped, ServerTyped, FormTyped, LinksTyped
<1>3. SaveTyped'
  BY <1>0, <1>1, RecordsAre DEF SaveTyped
<1>4. TableTyped'
  <2>1. CASE UNCHANGED table
    BY <1>0, <2>1 DEF table, TableTyped
  <2>2. CASE \E l \in ListCalls : load(l)
    BY <1>0, <2>2, LoadIs
  <2>3. ASSUME NEW l \in ListCalls, listWebhooks(l) PROVE TableTyped'
    <3>1. /\ lists' = [lists EXCEPT ![l] = [at |-> "answered", rows |-> linked]]
          /\ webhooks' = webhooks /\ list' = list
      BY <2>3 DEF listWebhooks
    <3>2. [at |-> "answered", rows |-> linked] \in LoadSet
      BY <1>0 DEF ServerTyped, LoadSet
    <3>. QED
      BY <1>0, <3>1, <3>2 DEF TableTyped
  <2>4. ASSUME NEW l \in ListCalls, ListAnswered(l) \/ ListFails(l) PROVE TableTyped'
    <3>1. /\ lists' = [lists EXCEPT ![l] = NoLoad]
          /\ webhooks' = webhooks \/ webhooks' = lists[l].rows
          /\ list' \in {"loading", "error", "rows"}
      BY <2>4 DEF ListAnswered, ListFails, Loaded
    <3>2. lists[l].rows \in Tables
      BY <1>0 DEF TableTyped, LoadSet
    <3>. QED
      BY <1>0, <3>1, <3>2, RecordsAre DEF TableTyped
  <2>. QED
    BY <2>1, <2>2, <2>3, <2>4 DEF toggleActive, Toggled, hookVars
<1>5. NumbersTyped' /\ toggling' <= toggles'
  <2>1. \/ UNCHANGED <<toggling, toggles>>
        \/ toggles < MaxToggles /\ toggles' = toggles + 1 /\ toggling' = toggling + 1
        \/ toggling > 0 /\ toggling' = toggling - 1 /\ toggles' = toggles
    BY DEF listWebhooks, ListAnswered, ListFails, Loaded, toggleActive, Toggled, hookVars
  <2>. QED
    BY <1>0, <1>1, <2>1 DEF NumbersTyped, Counted
<1>6. Counted' /\ SaveSound'
  BY <1>0, <1>1, <1>5, RecordsAre DEF Counted, SaveSound, Of
<1>. QED
  BY <1>2, <1>3, <1>4, <1>5, <1>6, HooksParts DEF HooksInv

LEMMA TouchKeeps ==
  ASSUME HooksInv, openCreate \/ openEdit \/ CloseForm \/ \E i \in Targets : toggleArray(i)
  PROVE  HooksInv'
<1>0. /\ HooksTypeOK /\ Counted
      /\ SwitchesTyped /\ ServerTyped /\ TableTyped /\ FormTyped /\ SaveTyped /\ LinksTyped /\ NumbersTyped
  BY HooksParts DEF HooksInv
<1>1. /\ UNCHANGED <<visited, linked, webhooks, list, lists, save, links, saves, toggling, toggles, clean>>
      /\ touched' = TRUE /\ showForm' \in BOOLEAN
  BY DEF openCreate, openEdit, OpenForm, CloseForm, toggleArray, table
<1>2. SwitchesTyped' /\ ServerTyped' /\ TableTyped' /\ SaveTyped' /\ LinksTyped' /\ NumbersTyped'
  BY <1>0, <1>1 DEF SwitchesTyped, ServerTyped, TableTyped, SaveTyped, LinksTyped, NumbersTyped
<1>3. FormTyped'
  <2>1. CASE openCreate
    BY <2>1 DEF openCreate, OpenForm, FormTyped
  <2>2. CASE openEdit
    <3>1. PICK w \in DOMAIN webhooks : OpenForm(w, webhooks[w])
      BY <2>2 DEF openEdit
    <3>2. w \in Hooks /\ webhooks[w] \in SUBSET Targets
      BY <1>0, TablesAre DEF TableTyped
    <3>. QED
      BY <3>1, <3>2 DEF OpenForm, FormTyped
  <2>3. CASE CloseForm \/ \E i \in Targets : toggleArray(i)
    BY <1>0, <2>3 DEF CloseForm, toggleArray, FormTyped
  <2>. QED
    BY <2>1, <2>2, <2>3
<1>4. Counted' /\ SaveSound'
  BY <1>0, <1>1 DEF Counted, SaveSound
<1>. QED
  BY <1>2, <1>3, <1>4, HooksParts DEF HooksInv

LEMMA SubmitFormKeeps ==
  ASSUME HooksInv, submitForm
  PROVE  HooksInv'
<1>0. /\ HooksTypeOK /\ Counted
      /\ SwitchesTyped /\ ServerTyped /\ TableTyped /\ FormTyped /\ SaveTyped /\ LinksTyped /\ NumbersTyped
  BY HooksParts DEF HooksInv
<1>1. /\ saves < MaxSaves /\ saves' = saves + 1
      /\ save' = [NoSave EXCEPT !.at = IF editing = "none" THEN "create" ELSE "update",
                                !.hook = editing, !.with = IF editing = "none" THEN ticks ELSE {}]
      /\ clean' = (editing \in DOMAIN linked /\ linked[editing] = copy /\ \A c \in links : c.hook # editing)
      /\ touched' = FALSE
      /\ UNCHANGED <<visited, linked, webhooks, list, lists, showForm, editing, copy, ticks, links, toggling, toggles>>
  BY DEF submitForm, table, form
<1>2. SaveTyped' /\ save'.at \in {"create", "update"} /\ save'.hook = editing
  BY <1>0, <1>1, RecordsAre DEF SaveTyped, SaveSet, FormTyped
<1>3. SwitchesTyped'
  BY <1>0, <1>1 DEF SwitchesTyped
<1>4. ServerTyped' /\ TableTyped' /\ FormTyped' /\ LinksTyped'
  BY <1>0, <1>1 DEF ServerTyped, TableTyped, FormTyped, LinksTyped
<1>5. NumbersTyped' /\ Counted'
  BY <1>0, <1>1 DEF NumbersTyped, Counted
<1>6. SaveSound'
  BY <1>1, <1>2 DEF SaveSound
<1>. QED
  BY <1>2, <1>3, <1>4, <1>5, <1>6, HooksParts DEF HooksInv

\* The calls of a save: what a step may use of them.
LEMMA ReconcileIs ==
  ASSUME HooksTypeOK, editing \in Hooks, saves \in 1..MaxSaves
  PROVE  /\ reconcileInstances \subseteq LinkSet
         /\ \A c \in reconcileInstances :
              c.hook = editing /\ c.save = saves /\ c.to \in Targets /\ (c.op = "link" <=> c.to \in ticks)
         /\ {c.to : c \in {d \in reconcileInstances : d.op = "link"}} = ticks \ copy
         /\ {c.to : c \in {d \in reconcileInstances : d.op = "unlink"}} = copy \ ticks
<1>1. copy \subseteq Targets /\ ticks \subseteq Targets
  BY DEF HooksTypeOK
<1>2. reconcileInstances \subseteq LinkSet
  BY <1>1 DEF reconcileInstances, LinkSet
<1>3. \A c \in reconcileInstances :
        c.hook = editing /\ c.save = saves /\ c.to \in Targets /\ (c.op = "link" <=> c.to \in ticks)
  BY <1>1 DEF reconcileInstances
<1>4. {c.to : c \in {d \in reconcileInstances : d.op = "link"}} = ticks \ copy
  <2>. DEFINE r(i) == [op |-> "link", hook |-> editing, to |-> i, save |-> saves]
  <2>1. {d \in reconcileInstances : d.op = "link"} = {r(i) : i \in ticks \ copy}
    BY DEF reconcileInstances
  <2>2. \A i \in ticks \ copy : r(i).to = i
    OBVIOUS
  <2>. HIDE DEF r
  <2>3. \A t : t \in {c.to : c \in {r(i) : i \in ticks \ copy}} <=> t \in ticks \ copy
    BY <2>2
  <2>. QED
    BY <2>1, <2>3
<1>5. {c.to : c \in {d \in reconcileInstances : d.op = "unlink"}} = copy \ ticks
  <2>. DEFINE r(i) == [op |-> "unlink", hook |-> editing, to |-> i, save |-> saves]
  <2>1. {d \in reconcileInstances : d.op = "unlink"} = {r(i) : i \in copy \ ticks}
    BY DEF reconcileInstances
  <2>2. \A i \in copy \ ticks : r(i).to = i
    OBVIOUS
  <2>. HIDE DEF r
  <2>3. \A t : t \in {c.to : c \in {r(i) : i \in copy \ ticks}} <=> t \in copy \ ticks
    BY <2>2
  <2>. QED
    BY <2>1, <2>3
<1>. QED
  BY <1>2, <1>3, <1>4, <1>5

LEMMA CreateWebhookKeeps ==
  ASSUME HooksInv, createWebhook \/ SaveRefused
  PROVE  HooksInv'
<1>0. /\ HooksTypeOK /\ Counted
      /\ SwitchesTyped /\ ServerTyped /\ TableTyped /\ FormTyped /\ SaveTyped /\ LinksTyped /\ NumbersTyped
  BY HooksParts DEF HooksInv
<1>1. /\ Saved \/ SaveFailed
      /\ UNCHANGED <<visited, links, saves, toggling, toggles, clean, touched>>
  BY DEF createWebhook, SaveRefused, excuse
<1>2. /\ TableTyped' /\ SaveTyped' /\ showForm' \in BOOLEAN /\ UNCHANGED <<editing, copy, ticks>>
      /\ save'.at \in {"reload", "idle"}
  BY <1>0, <1>1, EndsAre
<1>3. SwitchesTyped' /\ FormTyped' /\ LinksTyped' /\ NumbersTyped'
  BY <1>0, <1>1, <1>2 DEF SwitchesTyped, FormTyped, LinksTyped, NumbersTyped
<1>4. ServerTyped'
  <2>1. CASE SaveRefused
    BY <1>0, <2>1 DEF SaveRefused, ServerTyped
  <2>2. CASE createWebhook
    <3>1. PICK w \in Hooks \ DOMAIN linked :
            linked' = [v \in DOMAIN linked \cup {w} |-> IF v = w THEN save.with ELSE linked[v]]
      BY <2>2 DEF createWebhook
    <3>2. DOMAIN linked \in SUBSET Hooks /\ linked \in [DOMAIN linked -> SUBSET Targets]
      BY <1>0, TablesAre DEF ServerTyped
    <3>3. save.with \in SUBSET Targets
      BY <1>0 DEF SaveTyped, SaveSet
    <3>4. linked' \in [DOMAIN linked \cup {w} -> SUBSET Targets]
      BY <3>1, <3>2, <3>3
    <3>. QED
      BY <3>2, <3>4, TablesAre DEF ServerTyped
  <2>. QED
    BY <2>1, <2>2
<1>5. Counted'
  <2>1. save.at # "idle"
    BY DEF createWebhook, SaveRefused
  <2>. QED
    BY <1>0, <1>1, <2>1 DEF Counted
<1>6. SaveSound'
  BY <1>2 DEF SaveSound
<1>. QED
  BY <1>2, <1>3, <1>4, <1>5, <1>6, HooksParts DEF HooksInv

LEMMA UpdatedKeeps ==
  ASSUME HooksInv, Updated
  PROVE  HooksInv'
<1>0. /\ HooksTypeOK /\ Counted /\ SaveSound
      /\ SwitchesTyped /\ ServerTyped /\ TableTyped /\ FormTyped /\ SaveTyped /\ LinksTyped /\ NumbersTyped
  BY HooksParts DEF HooksInv
<1>1. /\ save.at = "update" /\ saves \in 1..MaxSaves
      /\ UNCHANGED <<visited, linked, saves, toggling, toggles, clean, touched>>
  BY <1>0 DEF Updated, excuse, Counted
<1>2. CASE Saved \/ SaveFailed
  <2>1. /\ TableTyped' /\ SaveTyped' /\ showForm' \in BOOLEAN /\ UNCHANGED <<editing, copy, ticks>>
        /\ save'.at \in {"reload", "idle"}
    BY <1>0, <1>2, EndsAre
  <2>2. LinksTyped'
    <3>1. CASE editing = "none"
      BY <1>0, <3>1 DEF Updated, LinksTyped
    <3>2. CASE editing # "none"
      <4>1. editing \in Hooks /\ links' = links \cup reconcileInstances
        BY <1>0, <3>2 DEF Updated, FormTyped
      <4>. QED
        BY <1>0, <1>1, <4>1, ReconcileIs DEF LinksTyped
    <3>. QED
      BY <3>1, <3>2
  <2>3. SwitchesTyped' /\ ServerTyped' /\ FormTyped' /\ NumbersTyped'
    BY <1>0, <1>1, <2>1 DEF SwitchesTyped, ServerTyped, FormTyped, NumbersTyped
  <2>4. Counted' /\ SaveSound'
    BY <1>0, <1>1, <2>1 DEF Counted, SaveSound
  <2>. QED
    BY <2>1, <2>2, <2>3, <2>4, HooksParts DEF HooksInv
<1>3. CASE ~(Saved \/ SaveFailed)
  <2>1. /\ editing \in Hooks /\ links' = links \cup reconcileInstances
        /\ save' = [save EXCEPT !.at = "links"]
        /\ UNCHANGED <<webhooks, list, lists, showForm, editing, copy, ticks>>
    BY <1>0, <1>3 DEF Updated, FormTyped, table, form
  <2>2. SaveTyped' /\ save'.at = "links" /\ save'.hook = save.hook
    BY <1>0, <2>1 DEF SaveTyped, SaveSet
  <2>3. LinksTyped'
    BY <1>0, <1>1, <2>1, ReconcileIs DEF LinksTyped
  <2>4. SwitchesTyped' /\ ServerTyped' /\ FormTyped' /\ NumbersTyped' /\ TableTyped'
    BY <1>0, <1>1, <2>1 DEF SwitchesTyped, ServerTyped, FormTyped, NumbersTyped, TableTyped
  <2>5. Counted'
    BY <1>0, <1>1 DEF Counted
  <2>6. SaveSound'
    <3>. SUFFICES ASSUME clean', ~touched' PROVE SaveSound'
      BY DEF SaveSound
    <3>1. /\ editing = save.hook /\ editing \in DOMAIN linked /\ linked[editing] = copy
          /\ \A c \in links : c.hook # editing
      BY <1>0, <1>1 DEF SaveSound
    <3>2. /\ \A c \in reconcileInstances : c.hook = editing /\ c.save = saves /\ (c.op = "link" <=> c.to \in ticks)
          /\ {c.to : c \in {d \in reconcileInstances : d.op = "link"}} = ticks \ copy
          /\ {c.to : c \in {d \in reconcileInstances : d.op = "unlink"}} = copy \ ticks
      BY <1>0, <1>1, <2>1, ReconcileIs
    <3>3. \A op \in {"link", "unlink"} :
            {d \in links' : d.hook = editing /\ d.op = op} = {d \in reconcileInstances : d.op = op}
      BY <2>1, <3>1, <3>2
    <3>4. Of(editing, "link")' = ticks \ copy /\ Of(editing, "unlink")' = copy \ ticks
      BY <2>1, <3>2, <3>3 DEF Of
    <3>5. linked[editing] = (ticks \ (ticks \ copy)) \cup (copy \ ticks)
      BY <3>1
    <3>6. \A c \in links' : c.hook = editing => c.save = saves /\ (c.op = "link" <=> c.to \in ticks)
      BY <2>1, <3>1, <3>2
    <3>. QED
      BY <1>1, <2>1, <2>2, <3>1, <3>4, <3>5, <3>6 DEF SaveSound
  <2>. QED
    BY <2>2, <2>3, <2>4, <2>5, <2>6, HooksParts DEF HooksInv
<1>. QED
  BY <1>2, <1>3

\* A call that is over is one less to wait for, and no other.
LEMMA OneLess ==
  ASSUME LinksTyped, NEW c \in links, links' = links \ {c}, NEW w, NEW op \in {"link", "unlink"},
         \A d \in links : d.hook = w => d.save = saves
  PROVE  Of(w, op)' = IF c.hook = w /\ c.op = op THEN Of(w, op) \ {c.to} ELSE Of(w, op)
<1>1. \A d \in links : d \in LinkSet
  BY DEF LinksTyped
<1>2. ASSUME NEW d \in links, c.hook = w, d.hook = w, d.op = c.op, d.to = c.to PROVE d = c
  <2>1. d.save = c.save
    BY <1>2
  <2>. QED
    BY <1>1, <1>2, <2>1 DEF LinkSet
<1>3. CASE c.hook = w /\ c.op = op
  <2>1. \A t : t \in Of(w, op)' <=> \E d \in links : d # c /\ d.hook = w /\ d.op = op /\ d.to = t
    BY DEF Of
  <2>2. \A t : t \in Of(w, op) \ {c.to} <=> \E d \in links : d.to # c.to /\ d.hook = w /\ d.op = op /\ d.to = t
    BY DEF Of
  <2>3. \A t : t \in Of(w, op)' <=> t \in Of(w, op) \ {c.to}
    BY <1>2, <1>3, <2>1, <2>2
  <2>. QED
    BY <1>3, <2>3
<1>4. CASE ~(c.hook = w /\ c.op = op)
  <2>1. {d \in links' : d.hook = w /\ d.op = op} = {d \in links : d.hook = w /\ d.op = op}
    BY <1>4
  <2>. QED
    BY <1>4, <2>1 DEF Of
<1>. QED
  BY <1>3, <1>4

\* The server stores a link: what it has is still what is ticked, but for the
\* calls that are left.
LEMMA LinkingKeeps ==
  ASSUME HooksTypeOK, SaveSound, clean, ~touched, save.at \in {"update", "links"},
         NEW c \in links, links' = links \ {c},
         Linking(c) \/ (linked' = linked /\ ~Awaited(c)),
         UNCHANGED <<editing, copy, ticks, saves>>
  PROVE  /\ editing \in DOMAIN linked'
         /\ save.at = "update" => linked'[editing] = copy /\ \A d \in links' : d.hook # editing
         /\ save.at = "links"  => /\ linked'[editing] = (ticks \ Of(editing, "link")') \cup Of(editing, "unlink")'
                                  /\ \A d \in links' : d.hook = editing =>
                                       d.save = saves /\ (d.op = "link" <=> d.to \in ticks)
<1>1. /\ ServerTyped /\ LinksTyped /\ FormTyped
      /\ c \in LinkSet /\ c.hook \in Hooks /\ c.op \in {"link", "unlink"}
  BY HooksParts DEF LinksTyped, LinkSet
<1>2. DOMAIN linked \in SUBSET Hooks /\ linked \in [DOMAIN linked -> SUBSET Targets]
  BY <1>1, TablesAre DEF ServerTyped
<1>3. DOMAIN linked' = DOMAIN linked
  BY <1>2 DEF Linking
<1>4. editing \in DOMAIN linked
  BY DEF SaveSound
<1>5. c.hook # editing => linked'[editing] = linked[editing]
  BY <1>2, <1>4 DEF Linking
<1>6. CASE save.at = "update"
  BY <1>3, <1>4, <1>5, <1>6 DEF SaveSound
<1>7. CASE save.at = "links"
  <2>1. /\ linked[editing] = (ticks \ Of(editing, "link")) \cup Of(editing, "unlink")
        /\ \A d \in links : d.hook = editing => d.save = saves /\ (d.op = "link" <=> d.to \in ticks)
    BY <1>7 DEF SaveSound
  <2>2. PICK w : w = editing
    OBVIOUS
  <2>3. \A d \in links : d.hook = w => d.save = saves
    BY <2>1, <2>2
  <2>4. /\ Of(w, "link")'   = IF c.hook = w /\ c.op = "link" THEN Of(w, "link") \ {c.to} ELSE Of(w, "link")
        /\ Of(w, "unlink")' = IF c.hook = w /\ c.op = "unlink" THEN Of(w, "unlink") \ {c.to} ELSE Of(w, "unlink")
    BY <1>1, <2>3, OneLess
  <2>5. Of(editing, "link")' = Of(w, "link")' /\ Of(editing, "unlink")' = Of(w, "unlink")'
    BY <2>2 DEF Of
  <2>6. linked'[editing] = (ticks \ Of(w, "link")') \cup Of(w, "unlink")'
    <3>1. CASE c.hook # editing
      BY <1>5, <2>1, <2>2, <2>4, <3>1
    <3>2. CASE c.hook = editing
      <4>1. Linking(c) /\ (c.op = "link" <=> c.to \in ticks)
        BY <1>7, <2>1, <3>2 DEF Awaited
      <4>2. linked'[editing] = IF c.op = "link" THEN linked[editing] \cup {c.to} ELSE linked[editing] \ {c.to}
        BY <1>2, <1>4, <3>2, <4>1 DEF Linking
      <4>3. CASE c.op = "link"
        BY <2>1, <2>2, <2>4, <3>2, <4>1, <4>2, <4>3
      <4>4. CASE c.op = "unlink"
        BY <2>1, <2>2, <2>4, <3>2, <4>1, <4>2, <4>4
      <4>. QED
        BY <1>1, <4>3, <4>4
    <3>. QED
      BY <3>1, <3>2
  <2>. QED
    BY <1>3, <1>4, <1>7, <2>1, <2>5, <2>6
<1>. QED
  BY <1>6, <1>7

LEMMA LinkKeeps ==
  ASSUME HooksInv, NEW c \in links, LinkAnswered(c) \/ LinkFails(c)
  PROVE  HooksInv'
<1>0. /\ HooksTypeOK /\ Counted /\ SaveSound
      /\ SwitchesTyped /\ ServerTyped /\ TableTyped /\ FormTyped /\ SaveTyped /\ LinksTyped /\ NumbersTyped
  BY HooksParts DEF HooksInv
<1>1. /\ links' = links \ {c} /\ (Linking(c) \/ linked' = linked)
      /\ Saved \/ SaveFailed \/ ((Linking(c) \/ ~Awaited(c)) /\ UNCHANGED <<save, webhooks, list, lists, showForm, editing, copy, ticks>>)
      /\ UNCHANGED <<visited, saves, toggling, toggles, clean, touched>>
  BY DEF LinkAnswered, LinkFails, table, form, excuse
<1>2. LinksTyped' /\ NumbersTyped'
  BY <1>0, <1>1 DEF LinksTyped, NumbersTyped
<1>3. ServerTyped'
  <2>1. CASE linked' = linked
    BY <1>0, <2>1 DEF ServerTyped
  <2>2. CASE Linking(c)
    <3>1. DOMAIN linked \in SUBSET Hooks /\ linked \in [DOMAIN linked -> SUBSET Targets] /\ c.to \in Targets
      BY <1>0, TablesAre DEF ServerTyped, LinksTyped, LinkSet
    <3>2. linked' \in [DOMAIN linked -> SUBSET Targets]
      BY <2>2, <3>1 DEF Linking
    <3>. QED
      BY <3>1, <3>2, TablesAre DEF ServerTyped
  <2>. QED
    BY <1>1, <2>1, <2>2
<1>4. CASE Saved \/ SaveFailed
  <2>1. /\ TableTyped' /\ SaveTyped' /\ showForm' \in BOOLEAN /\ UNCHANGED <<editing, copy, ticks>>
        /\ save'.at \in {"reload", "idle"}
    BY <1>0, <1>4, EndsAre
  <2>2. SwitchesTyped' /\ FormTyped'
    BY <1>0, <1>1, <2>1 DEF SwitchesTyped, FormTyped
  <2>3. save.at # "idle" => saves \in 1..MaxSaves
    BY <1>0 DEF Counted
  <2>4. save'.at # "idle" => save.at # "idle"
    BY <1>0, <2>1, EndsAre DEF LinkAnswered, LinkFails, Awaited
  <2>5. Counted' /\ SaveSound'
    BY <1>0, <1>1, <2>1, <2>3, <2>4 DEF Counted, SaveSound
  <2>. QED
    BY <1>2, <1>3, <2>1, <2>2, <2>5, HooksParts DEF HooksInv
<1>5. CASE (Linking(c) \/ ~Awaited(c)) /\ UNCHANGED <<save, webhooks, list, lists, showForm, editing, copy, ticks>>
  <2>1. SwitchesTyped' /\ TableTyped' /\ FormTyped' /\ SaveTyped'
    BY <1>0, <1>1, <1>5 DEF SwitchesTyped, TableTyped, FormTyped, SaveTyped
  <2>2. Counted'
    BY <1>0, <1>1, <1>5 DEF Counted
  <2>3. SaveSound'
    <3>. SUFFICES ASSUME clean', ~touched', save.at \in {"update", "links"} PROVE SaveSound'
      BY <1>5 DEF SaveSound
    <3>1. /\ editing \in DOMAIN linked'
          /\ save.at = "update" => linked'[editing] = copy /\ \A d \in links' : d.hook # editing
          /\ save.at = "links"  => /\ linked'[editing] = (ticks \ Of(editing, "link")') \cup Of(editing, "unlink")'
                                   /\ \A d \in links' : d.hook = editing =>
                                        d.save = saves /\ (d.op = "link" <=> d.to \in ticks)
      <4>1. clean /\ ~touched /\ UNCHANGED <<editing, copy, ticks, saves>>
        BY <1>1, <1>5
      <4>2. Linking(c) \/ (linked' = linked /\ ~Awaited(c))
        BY <1>1, <1>5
      <4>. QED
        BY <1>0, <1>1, <4>1, <4>2, LinkingKeeps
    <3>2. editing = save.hook
      BY <1>0, <1>1 DEF SaveSound
    <3>. QED
      BY <1>1, <1>5, <3>1, <3>2 DEF SaveSound
  <2>. QED
    BY <1>2, <1>3, <2>1, <2>2, <2>3, HooksParts DEF HooksInv
<1>. QED
  BY <1>1, <1>4, <1>5

LEMMA HooksStep == HooksInv /\ (HooksNext \/ UNCHANGED hookVars) => HooksInv'
<1>. SUFFICES ASSUME HooksInv, HooksNext \/ UNCHANGED hookVars PROVE HooksInv'
  OBVIOUS
<1>1. CASE \/ \E l \in ListCalls : listWebhooks(l) \/ ListAnswered(l) \/ ListFails(l)
           \/ toggleActive \/ Toggled \/ UNCHANGED hookVars
  BY <1>1, ListKeeps
<1>2. CASE openCreate \/ openEdit \/ CloseForm \/ \E i \in Targets : toggleArray(i)
  BY <1>2, TouchKeeps
<1>3. CASE submitForm
  BY <1>3, SubmitFormKeeps
<1>4. CASE createWebhook \/ SaveRefused
  BY <1>4, CreateWebhookKeeps
<1>5. CASE Updated
  BY <1>5, UpdatedKeeps
<1>6. CASE \E c \in links : LinkAnswered(c) \/ LinkFails(c)
  BY <1>6, LinkKeeps
<1>. QED
  BY Zenon, <1>1, <1>2, <1>3, <1>4, <1>5, <1>6 DEF HooksNext

\* The step that ends a save well leaves the server with what is ticked.
LEMMA SaveEnds ==
  ASSUME HooksInv, HooksNext, save.at \in {"update", "links"}, save'.at = "reload", clean, ~touched
  PROVE  linked'[save.hook] = ticks
<1>0. HooksTypeOK /\ SaveSound /\ SaveTyped /\ TableTyped /\ FormTyped /\ Counted
  BY HooksParts DEF HooksInv
<1>1. editing = save.hook /\ editing \in DOMAIN linked
  BY <1>0 DEF SaveSound
<1>2. CASE Updated
  <2>1. save.at = "update" /\ linked' = linked /\ linked[editing] = copy
    BY <1>0, <1>2 DEF Updated, SaveSound
  <2>2. ~SaveFailed /\ save' # [save EXCEPT !.at = "links"]
    <3>1. ~SaveFailed
      BY <1>0, EndsAre
    <3>2. [save EXCEPT !.at = "links"].at = "links"
      BY <1>0 DEF SaveTyped, SaveSet
    <3>. QED
      BY <3>1, <3>2
  <2>3. reconcileInstances = {}
    BY <1>2, <2>2 DEF Updated
  <2>4. ticks \ copy = {} /\ copy \ ticks = {}
    BY <2>3 DEF reconcileInstances
  <2>. QED
    BY <1>1, <2>1, <2>4
<1>3. ASSUME NEW c \in links, LinkAnswered(c) \/ LinkFails(c) PROVE linked'[save.hook] = ticks
  <2>1. save' # save /\ ~SaveFailed
    BY <1>0, EndsAre
  <2>2. LinkAnswered(c) /\ Awaited(c) /\ AllAnswered(c) /\ Saved
    BY <1>3, <2>1 DEF LinkAnswered, LinkFails
  <2>3. /\ links' = links \ {c} /\ Linking(c) /\ saves' = saves /\ UNCHANGED <<editing, copy, ticks>>
        /\ save.at = "links"
    BY <2>2 DEF LinkAnswered, Saved, Awaited
  <2>4. /\ linked'[editing] = (ticks \ Of(editing, "link")') \cup Of(editing, "unlink")'
        /\ \A d \in links' : d.hook = editing => d.save = saves
    BY <1>0, <2>3, LinkingKeeps
  <2>5. \A d \in links' : d.hook # editing
    BY <2>2, <2>3, <2>4 DEF AllAnswered
  <2>6. Of(editing, "link")' = {} /\ Of(editing, "unlink")' = {}
    BY <2>3, <2>5 DEF Of
  <2>. QED
    BY <1>1, <2>4, <2>6
<1>4. CASE \/ \E l \in ListCalls : listWebhooks(l) \/ ListAnswered(l) \/ ListFails(l)
           \/ toggleActive \/ Toggled
  <2>1. save' = save \/ save' = NoSave
    BY <1>4 DEF listWebhooks, ListAnswered, ListFails, Loaded, toggleActive, Toggled
  <2>. QED
    BY <2>1, RecordsAre
<1>5. CASE openCreate \/ openEdit \/ CloseForm \/ \E i \in Targets : toggleArray(i)
  <2>1. save' = save
    BY <1>5 DEF openCreate, openEdit, OpenForm, CloseForm, toggleArray
  <2>. QED
    BY <2>1
<1>6. CASE submitForm \/ createWebhook
  BY <1>6 DEF submitForm, createWebhook
<1>7. CASE SaveRefused
  <2>1. save'.at = "idle"
    BY <1>7, RecordsAre DEF SaveRefused, SaveFailed
  <2>. QED
    BY <2>1
<1>. QED
  BY Zenon, <1>2, <1>3, <1>4, <1>5, <1>6, <1>7 DEF HooksNext

-----------------------------------------------------------------------------
(* The tab: one view steps, the others stand still *)

LEMMA Start == Init => IInv
BY SessionStart, LoginStart, ChatStart, HooksStart DEF Init, IInv

LEMMA Step == IInv /\ [Next]_vars => IInv'
<1>. SUFFICES ASSUME IInv, [Next]_vars PROVE IInv'
  OBVIOUS
<1>1. SessionNext \/ UNCHANGED sessionVars
  BY DEF Next, vars
<1>2. LoginNext \/ LeavePage \/ UNCHANGED loginVars
  BY DEF Next, vars
<1>3. ChatNext \/ Unmount \/ UNCHANGED chatVars
  BY DEF Next, vars
<1>4. HooksNext \/ UNCHANGED hookVars
  BY DEF Next, vars
<1>5. SessionInv' /\ LoginInv' /\ ChatInv' /\ HooksInv'
  BY <1>1, <1>2, <1>3, <1>4, SessionStep, LoginStep, ChatStep, HooksStep DEF IInv
<1>. QED
  BY <1>5 DEF IInv

LEMMA Inductive == Spec => []IInv
BY Start, Step, PTL DEF Spec

-----------------------------------------------------------------------------
(* Theorems *)

\* What the pages keep in their refs stays within the values the code gives
\* it, however many calls, dialogues and saves there are.
THEOREM TypeCorrect == Spec => []TypeOK
<1>1. IInv => TypeOK
  BY DEF IInv, TypeOK, SessionInv, LoginInv, ChatInv, HooksInv
<1>. QED
  BY <1>1, Inductive, PTL

\* The router guard: a page of the application is shown only when the session
\* and its key are there, in whatever order navigations, rotations and refusals
\* came, unless a reload failed or a load met another (`stranded`, `overlapped`).
THEOREM AppIsGuarded == Spec => []AppNeedsSession
<1>1. IInv => AppNeedsSession
  BY DEF IInv, SessionInv
<1>. QED
  BY <1>1, Inductive, PTL

\* stores/auth.ts: the key of an unlocked tab was accepted by the gateway since
\* the tab was loaded, unless nobody was logged in then (`blind`).
THEOREM KeyIsAccepted == Spec => []KeyWasAccepted
<1>1. IInv => KeyWasAccepted
  BY DEF IInv, SessionInv, KeyKnown, KeyWasAccepted, unlocked
<1>. QED
  BY <1>1, Inductive, PTL

\* Instances.vue: until an answer or an event meets a dialogue it is not for,
\* what the dialogue shows is true of the instance it logs in, and the only
\* EventSource that is open is the one it will close.
THEOREM ScreenIsTrue == Spec => []ScreenMatchesLogin
<1>1. IInv => ScreenMatchesLogin
  BY ScreenIsSound DEF IInv
<1>. QED
  BY <1>1, Inductive, PTL

\* InstanceChats.vue: no message is shown twice, whatever comes as an answer, on
\* the stream, or both; and until an answer comes for a chat that was left, all
\* of them belong to the chat in the header.
THEOREM ConversationIsTrue == Spec => []ConversationSound
<1>1. IInv => ConversationSound
  BY DEF IInv, ChatInv
<1>. QED
  BY <1>1, Inductive, PTL

\* Webhooks.vue: a save that began from what the server had and was let alone
\* leaves the webhook with the instances that are ticked, whatever other loads,
\* switches and calls of earlier saves are answered meanwhile.
THEOREM SaveIsTrue == Spec => LinksMatchForm
<1>1. ASSUME IInv, [Next]_vars
      PROVE  [save.at \in {"update", "links"} /\ save'.at = "reload" /\ clean /\ ~touched =>
                linked'[save.hook] = ticks]_hookVars
  <2>1. HooksNext \/ UNCHANGED hookVars
    BY <1>1 DEF Next, vars
  <2>2. HooksInv
    BY <1>1 DEF IInv
  <2>. QED
    BY <2>1, <2>2, SaveEnds
<1>. QED
  BY <1>1, Inductive, PTL DEF Spec, LinksMatchForm

===============================================================================
