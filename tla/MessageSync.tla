----------------------------- MODULE MessageSync -----------------------------
(***************************************************************************)
(* How the messages of one chat reach PostgreSQL, the event bus and a      *)
(* reader: TelegramSyncService (backfill, realtime events), the upserts of *)
(* ChatsService, ContactsService and MessagesService, and MessagingService *)
(* (send, listMessages).                                                   *)
(*                                                                         *)
(* Four sources write the same rows: realtime events, the backfill, pages  *)
(* of history and sent messages.  Each works on copies it was handed       *)
(* before its awaits.  A message is its place in the chat, which is also   *)
(* its date; a field of a row or a copy is there or not, and a field that  *)
(* is `undefined` in an upsert leaves the column alone.                    *)
(***************************************************************************)
EXTENDS Naturals, Sequences, FiniteSets

CONSTANTS
  N,            \* bound: messages of the chat, 1..N, oldest first
  Jobs,         \* bound: events and sends that may be handled at the same time
  Backfill,     \* the job of TelegramSyncService.backfill
  Reader,       \* the job of a client that pages through the chat
  PullLimit,    \* messages in a page of Telegram's history (50)
  PageSize,     \* messages in a page of listByChat (30)
  MaxMishaps    \* bound: edits of messages and statements that fail, together

ASSUME SyncAssumption ==
  /\ N \in Nat /\ MaxMishaps \in Nat
  /\ PullLimit \in Nat \ {0} /\ PageSize \in Nat \ {0}
  /\ Backfill \notin Jobs /\ Reader \notin Jobs /\ Backfill # Reader

Messages == 1..N
AllJobs  == Jobs \cup {Backfill, Reader}

VARIABLES
  tg,         \* tg[m]: the text Telegram has for m
  online,     \* the instance has a client whose events are handled
  instance,   \* the row of the instance exists
  chat,       \* the row of the chat: "absent", "bare" (no title) or "named"
  rows,       \* messages that have a row
  text,       \* text[m]: the column `text`, "none" when it is null
  lastAt,     \* Chat.lastMessageAt, 0 when it is null
  job,        \* job[j]: what job j is doing and the copies it still holds
  walk,       \* the reader: its cursor, the page being read, what it has been shown,
              \* and whether a pull was cut off by a missing client or an error
  edits, faults,
  latest,     \* history: the last text of m handed to any source
  raced,      \* history: messages two jobs held copies of at the same time
  refused     \* history: a statement was refused by a foreign key

store   == <<instance, chat, rows, text, lastAt>>
history == <<latest, raced>>
vars == <<tg, online, store, job, walk, edits, faults, history, refused>>

Texts == {"old", "new", "cleared"}
Copy == [id : Messages, text : Texts]
Ops == {"none", "new", "edited", "send", "backfill", "list"}
Places == {"idle", "dialogs", "dialogContact", "chat", "contact", "message", "touch",
           "pull", "page"}
Idle == [op |-> "none", pc |-> "idle", todo |-> <<>>]
NoWalk == [cursor |-> 0, page |-> {}, fetched |-> FALSE, cut |-> FALSE, shown |-> {},
           ended |-> FALSE, stock |-> {}]

\* Every variable stays within the values the schema and the code allow.
TypeOK ==
  /\ tg \in [Messages -> Texts \cup {"unsent"}]
  /\ online \in BOOLEAN /\ instance \in BOOLEAN
  /\ chat \in {"absent", "bare", "named"}
  /\ rows \subseteq Messages
  /\ text \in [Messages -> {"none", "old", "new"}]
  /\ lastAt \in 0..N
  /\ job \in [AllJobs -> [op : Ops, pc : Places, todo : Seq(Copy)]]
  /\ walk \in [cursor : 0..N, page : SUBSET Messages, fetched : BOOLEAN, cut : BOOLEAN,
              shown : SUBSET Messages, ended : BOOLEAN,
              stock : SUBSET Messages]
  /\ edits \in 0..MaxMishaps /\ faults \in 0..MaxMishaps
  /\ latest \in [Messages -> {"none", "old", "new"}]
  /\ raced \subseteq Messages
  /\ refused \in BOOLEAN

Init ==
  /\ tg = [m \in Messages |-> "unsent"]
  /\ online = FALSE
  /\ instance = TRUE
  /\ chat = "absent"
  /\ rows = {}
  /\ text = [m \in Messages |-> "none"]
  /\ lastAt = 0
  /\ job = [j \in AllJobs |-> Idle]
  /\ walk = NoWalk
  /\ edits = 0 /\ faults = 0
  /\ latest = [m \in Messages |-> "none"]
  /\ raced = {}
  /\ refused = FALSE

-----------------------------------------------------------------------------
(* Telegram and its copies *)

Sent == {m \in Messages : tg[m] # "unsent"}
Next1 == Cardinality(Sent) + 1     \* messages are sent in order

\* The newest n messages of a set, newest first.
Newest(S, n) ==
  LET top == {m \in S : Cardinality({x \in S : x > m}) < n}
  IN  [i \in 1..Cardinality(top) |->
        CHOOSE m \in top : Cardinality({x \in top : x > m}) = i - 1]

CopyOf(m) == [id |-> m, text |-> tg'[m]]
Copies(ids) == [i \in 1..Len(ids) |-> CopyOf(ids[i])]

At(j, l) == job[j].pc = l
Held(j)  == {job[j].todo[i].id : i \in 1..Len(job[j].todo)}

\* Mutant: what is not there is stored.
Merge_Stores(old, v) == v

\* `undefined` in an upsert changes nothing.
Merge(old, v) == IF v = "cleared" THEN old ELSE v

\* Job j is handed copies of the messages `ids`.
Hand(j, o, l, ids) ==
  /\ job' = [job EXCEPT ![j] = [op |-> o, pc |-> l, todo |-> Copies(ids)]]
  /\ latest' = [m \in Messages |->
                  IF \E i \in 1..Len(ids) : ids[i] = m THEN Merge(latest[m], tg'[m])
                                                       ELSE latest[m]]
  /\ raced' = raced \cup {m \in Messages : /\ \E i \in 1..Len(ids) : ids[i] = m
                                           /\ \E k \in AllJobs \ {j} : m \in Held(k)}

Goto(j, l) == job' = [job EXCEPT ![j].pc = l]
End(j)     == job' = [job EXCEPT ![j] = Idle]

Fault   == edits + faults < MaxMishaps /\ faults' = faults + 1
NoFault == UNCHANGED faults

\* A new message; the client's event handler gets it when there is one.
NewMessage ==
  /\ Next1 \in Messages
  /\ tg' = [tg EXCEPT ![Next1] = "old"]
  /\ IF online
       THEN \E j \in Jobs : At(j, "idle") /\ Hand(j, "new", "chat", <<Next1>>)
       ELSE UNCHANGED <<job, history>>
  /\ UNCHANGED <<online, store, walk, edits, faults, refused>>

\* An edit, which may take the text away (the caption of a photo).
EditMessage(m, t) ==
  /\ edits + faults < MaxMishaps /\ edits' = edits + 1
  /\ tg[m] = "old"
  /\ tg' = [tg EXCEPT ![m] = t]
  /\ IF online
       THEN \E j \in Jobs : At(j, "idle") /\ Hand(j, "edited", "chat", <<m>>)
       ELSE UNCHANGED <<job, history>>
  /\ UNCHANGED <<online, store, walk, faults, refused>>

\* MessagingService.send: Telegram takes the message and answers with it.
Send ==
  /\ online /\ Next1 \in Messages
  /\ chat # "absent"
  /\ tg' = [tg EXCEPT ![Next1] = "old"]
  /\ \E j \in Jobs : At(j, "idle") /\ Hand(j, "send", "chat", <<Next1>>)
  /\ UNCHANGED <<online, store, walk, edits, faults, refused>>

-----------------------------------------------------------------------------
(* The instance *)

\* onAuthorized: the subscription, and the first step of the backfill.
Authorize ==
  /\ ~online /\ instance /\ At(Backfill, "idle")
  /\ online' = TRUE
  /\ job' = [job EXCEPT ![Backfill] = [op |-> "backfill", pc |-> "dialogs", todo |-> <<>>]]
  /\ UNCHANGED <<tg, store, walk, edits, faults, history, refused>>

Disconnect ==
  /\ online
  /\ online' = FALSE
  /\ UNCHANGED <<tg, store, job, walk, edits, faults, history, refused>>

\* The cascade takes the chat, the contact and the messages.
RemoveInstance ==
  /\ instance
  /\ instance' = FALSE /\ online' = FALSE
  /\ chat' = "absent"
  /\ rows' = {} /\ lastAt' = 0
  /\ text' = [m \in Messages |-> "none"]
  /\ UNCHANGED <<tg, job, walk, edits, faults, history, refused>>

-----------------------------------------------------------------------------
(* Upserts *)

\* Job j is done with a message: a page of history goes on with the next one.
Done(j) ==
  job' = [job EXCEPT ![j] =
            IF @.op = "list"
              THEN [op |-> "list", pc |-> IF Len(@.todo) = 1 THEN "page" ELSE "contact",
                    todo |-> Tail(@.todo)]
              ELSE Idle]

\* A row may be created only when the rows it refers to exist; what an upsert
\* throws is caught: the job of an event, a send or the backfill ends, a page
\* of history goes on with the next message.
Throws(j, broken) ==
  /\ IF broken THEN NoFault ELSE Fault
  /\ refused' = (refused \/ (broken /\ instance))
  /\ Done(j)

\* listDialogs: the chat with its title, its last message if there is one.
Dialogs(j) ==
  /\ At(j, "dialogs")
  /\ tg' = tg
  /\ \/ /\ online
        /\ Hand(j, "backfill", "dialogContact", Newest(Sent, 1))
        /\ NoFault
     \/ (online => Fault) /\ (~online => NoFault) /\ End(j) /\ UNCHANGED history
  /\ UNCHANGED <<online, store, walk, edits, refused>>

\* What a column holds after an upsert that knows the name, or does not.
Richer(old, new) == IF old = "named" THEN old ELSE new

\* contacts.upsert: no property tells the rows of contacts apart.
UpsertContact(j, next) ==
  \/ instance /\ Goto(j, next) /\ NoFault /\ UNCHANGED refused
  \/ Throws(j, ~instance)

DialogContact(j) ==
  /\ At(j, "dialogContact")
  /\ UpsertContact(j, "chat") \/ (Goto(j, "chat") /\ UNCHANGED <<faults, refused>>)
  /\ UNCHANGED <<tg, online, store, walk, edits, history>>

\* Mutant: the message goes before the chat.
UpsertChat_Skipped(j) ==
  /\ At(j, "chat")
  /\ IF job[j].todo = <<>> THEN End(j) ELSE Goto(j, "contact")
  /\ UNCHANGED <<tg, online, store, walk, edits, faults, history, refused>>

\* chats.upsert: an event knows the peer only, a dialog knows the title.
UpsertChat(j) ==
  /\ At(j, "chat")
  /\ \/ /\ instance
        /\ chat' = Richer(chat, IF job[j].op = "backfill" THEN "named" ELSE "bare")
        /\ IF job[j].todo = <<>> THEN End(j) ELSE Goto(j, "contact")
        /\ NoFault
        /\ UNCHANGED refused
     \/ Throws(j, ~instance) /\ UNCHANGED chat
  /\ UNCHANGED <<tg, online, instance, rows, text, lastAt, walk, edits,
                 history>>

\* persistMessage: the sender, if the message has one.
SenderOf(j) ==
  /\ At(j, "contact")
  /\ UpsertContact(j, "message") \/ (Goto(j, "message") /\ UNCHANGED <<faults, refused>>)
  /\ UNCHANGED <<tg, online, store, walk, edits, history>>

\* Mutant: an upsert that only creates.
UpsertMessage_CreateOnly(j) ==
  /\ At(j, "message")
  /\ LET c == Head(job[j].todo) IN
     /\ instance /\ chat # "absent"
     /\ rows' = rows \cup {c.id}
     /\ text' = IF c.id \in rows THEN text ELSE [text EXCEPT ![c.id] = Merge(@, c.text)]
  /\ Goto(j, "touch")
  /\ UNCHANGED <<tg, online, instance, chat, lastAt, walk, edits, faults,
                 history, refused>>

\* messages.upsert: created, or its text updated.
UpsertMessage(j) ==
  /\ At(j, "message")
  /\ LET c == Head(job[j].todo) IN
     \/ /\ instance /\ chat # "absent"
        /\ rows' = rows \cup {c.id}
        /\ text' = [text EXCEPT ![c.id] = Merge(@, c.text)]
        /\ Goto(j, "touch")
        /\ NoFault
        /\ UNCHANGED refused
     \/ Throws(j, chat = "absent") /\ UNCHANGED <<rows, text>>
  /\ UNCHANGED <<tg, online, instance, chat, lastAt, walk, edits, history>>

\* Mutant: only a chat without a date gets one.
Later_NullOnly(d) == IF chat # "absent" /\ lastAt = 0 THEN d ELSE lastAt

\* chats.touch: the date moves forward only; no row, no change.
Later(d) == IF chat # "absent" /\ lastAt < d THEN d ELSE lastAt

\* After the message: an event is published, a page of history goes on.
Touch(j) ==
  /\ At(j, "touch")
  /\ LET m == Head(job[j].todo).id IN
     \/ /\ lastAt' = Later(m)
        /\ walk' = IF job[j].op = "list" THEN [walk EXCEPT !.fetched = TRUE] ELSE walk
        /\ Done(j)
        /\ NoFault
        /\ UNCHANGED refused
     \/ Throws(j, FALSE) /\ UNCHANGED <<lastAt, walk>>
  /\ UNCHANGED <<tg, online, instance, chat, rows, text, edits, history>>

-----------------------------------------------------------------------------
(* listMessages: pages of the chat, newest first *)

StartPage(l) == job' = [job EXCEPT ![Reader] = [op |-> "list", pc |-> l, todo |-> <<>>]]

\* The first page: recent history is pulled before it is read.
OpenChat ==
  /\ At(Reader, "idle") /\ chat # "absent"
  /\ walk' = [NoWalk EXCEPT !.stock = rows]
  /\ StartPage("pull")
  /\ UNCHANGED <<tg, online, store, edits, faults, history, refused>>

\* A later page, from the cursor of the page before.
NextPage ==
  /\ At(Reader, "idle") /\ walk.cursor # 0 /\ ~walk.ended
  /\ walk' = [walk EXCEPT !.page = {}, !.fetched = FALSE]
  /\ StartPage("page")
  /\ UNCHANGED <<tg, online, store, edits, faults, history, refused>>

Oldest(S) == CHOOSE m \in S : \A x \in S : m <= x

\* pullHistory: the newest messages, or those before the oldest of the page.
\* Without a client or a chat, or when getHistory fails, nothing is pulled.
Pull ==
  LET ids == Newest({m \in Sent : walk.page = {} \/ m < Oldest(walk.page)}, PullLimit)
      reachable == online /\ chat # "absent" /\ ids # <<>>
  IN
  /\ At(Reader, "pull")
  /\ tg' = tg
  /\ \/ reachable /\ Hand(Reader, "list", "contact", ids) /\ NoFault /\ UNCHANGED walk
     \/ /\ IF reachable THEN Fault ELSE NoFault
        /\ walk' = [walk EXCEPT !.cut = @ \/ ids # <<>>]
        /\ Goto(Reader, "page") /\ UNCHANGED history
  /\ UNCHANGED <<online, store, edits, refused>>

Answer(items, more) ==
  /\ walk' = [walk EXCEPT !.shown = @ \cup items, !.page = {}, !.fetched = FALSE,
                          !.cursor = IF more THEN Oldest(items) ELSE @,
                          !.ended = ~more]
  /\ End(Reader)

\* Mutant: the cursor's row is not skipped but the one after it is.
Below_Skips(S) == {m \in S : walk.cursor = 0 \/ m + 1 < walk.cursor}

Below(S) == {m \in S : walk.cursor = 0 \/ m < walk.cursor}

\* listByChat.  At the end of what is stored older messages are pulled once,
\* and the page is read again if any came.
Page ==
  LET left  == Below(rows)
      items == {m \in left : Cardinality({x \in left : x > m}) < PageSize}
      more  == left # items
  IN
  /\ At(Reader, "page")
  /\ \/ walk.page = {} /\ (more \/ items = {}) /\ Answer(items, more)
     \/ /\ walk.page = {} /\ ~more /\ items # {}
        /\ walk' = [walk EXCEPT !.page = items, !.fetched = FALSE]
        /\ Goto(Reader, "pull")
     \/ walk.page # {} /\ walk.fetched /\ Answer(items, more)
     \/ walk.page # {} /\ ~walk.fetched /\ Answer(walk.page, FALSE)
  /\ UNCHANGED <<tg, online, store, edits, faults, history, refused>>

-----------------------------------------------------------------------------

Step(j) == \/ Dialogs(j) \/ DialogContact(j) \/ UpsertChat(j) \/ SenderOf(j)
           \/ UpsertMessage(j) \/ Touch(j)

Next ==
  \/ NewMessage \/ Send
  \/ \E m \in Messages : \E t \in {"new", "cleared"} : EditMessage(m, t)
  \/ Authorize \/ Disconnect \/ RemoveInstance
  \/ \E j \in AllJobs : Step(j)
  \/ OpenChat \/ NextPage \/ Pull \/ Page

Spec == Init /\ [][Next]_vars

-----------------------------------------------------------------------------
(* Properties *)

\* "a chat is always upserted before its messages, so backfill and realtime
\* can overlap without violating referential integrity": while the instance
\* exists no statement of the four sources is refused by a foreign key,
\* however they interleave.
NoForeignKeyRefused == ~refused

\* A chat stands where its newest row puts it once the jobs of the rows are
\* done and none of their statements failed.
ActivityCovers ==
  faults = 0 /\ instance =>
    \A m \in rows : m <= lastAt \/ \E j \in AllJobs : m \in Held(j)

\* A message no two sources held copies of at the same time ends with the
\* last text any of them was handed.
QuietIsFresh ==
  faults = 0 /\ instance =>
    \A m \in rows \ raced :
       text[m] = latest[m] \/ \E j \in AllJobs : m \in Held(j)

\* A walk that has got to its end has shown every message that was stored
\* when it began, whatever is stored, edited or pulled between its pages.
WalkCoversStore == walk.ended /\ instance => walk.stock \subseteq walk.shown

\* "load more walks back through real history": a walk none of whose pulls
\* was cut off has shown, at its end, every message of Telegram older than
\* the newest it was shown.
WalkSeesHistory ==
  walk.ended /\ ~walk.cut /\ instance =>
    \A m \in walk.shown : {x \in Sent : x < m} \subseteq walk.shown
=============================================================================
