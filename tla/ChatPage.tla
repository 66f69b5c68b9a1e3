------------------------------- MODULE ChatPage -------------------------------
(***************************************************************************)
(* The conversation of InstanceChats.vue: the chat that is selected, the   *)
(* messages shown for it, and the answers and streamed messages that       *)
(* arrive while the user goes on clicking.                                 *)
(*                                                                         *)
(* A message is its chat and its place in it.  The server's pages are      *)
(* those of MessageSync, without its faults.                               *)
(***************************************************************************)
EXTENDS Naturals, Sequences, SequencesExt

CONSTANTS
  Chats,          \* chats of the instance
  MaxMessages,    \* bound: messages of all chats together
  PageLen,        \* messages in a page (50)
  ChatCalls       \* bound: calls of the page that are under way at one time

ASSUME ChatPageAssumption ==
  /\ MaxMessages \in Nat /\ PageLen \in Nat \ {0}
  /\ "none" \notin Chats

VARIABLES
  count,        \* count[c]: messages the server has of chat c
  open,         \* the page is mounted
  feed,         \* the EventSource, which the mount opens late, and its messages on their way
  selected,     \* the chat that is selected, or "none"
  messages,     \* the messages shown, oldest first
  cursor,       \* where the next older page begins, 0 when there is none
  loadingMore, sending,
  ask,          \* ask[k]: a call under way: what for, its chat, its cursor, its answer
  crossed       \* history: chats that were answered for while another was selected, since
                \* the conversation was last emptied or replaced

chatVars == <<count, open, feed, selected, messages, cursor, loadingMore, sending, ask, crossed>>

Message == Chats \X (Nat \ {0})
Quiet   == [for |-> "nothing", chat |-> "none", at |-> 0, served |-> FALSE, items |-> <<>>, next |-> 0]

ChatTypeOK ==
  /\ count \in [Chats -> Nat]
  /\ open \in BOOLEAN
  /\ feed \in [state : {"awaited", "open", "closed"}, queue : Seq(Message)]
  /\ selected \in Chats \cup {"none"}
  /\ messages \in Seq(Message)
  /\ cursor \in Nat
  /\ loadingMore \in BOOLEAN /\ sending \in BOOLEAN
  /\ ask \in [ChatCalls -> [for : {"nothing", "select", "older", "send"}, chat : Chats \cup {"none"},
                           at : Nat, served : BOOLEAN, items : Seq(Message), next : Nat]]
  /\ crossed \subseteq Chats

Feed(state) == [state |-> state, queue |-> <<>>]

\* Messages of all chats are counted together.
AtMost(n) == {f \in [Chats -> 0..n] : FoldFunction(+, 0, f) <= n}
Room == FoldFunction(+, 0, count) < MaxMessages

ChatInit ==
  /\ count \in AtMost(MaxMessages)
  /\ open \in BOOLEAN
  /\ feed = Feed(IF open THEN "awaited" ELSE "closed")
  /\ selected = "none" /\ messages = <<>> /\ cursor = 0
  /\ loadingMore = FALSE /\ sending = FALSE
  /\ ask = [k \in ChatCalls |-> Quiet]
  /\ crossed = {}

-----------------------------------------------------------------------------
(* The server *)

\* The stream carries each message once it is stored.
Stored(c) == count' = [count EXCEPT ![c] = @ + 1]
Streamed(m) == feed' = IF feed.state = "open" THEN [feed EXCEPT !.queue = Append(@, m)] ELSE feed

Arrive(c) ==
  /\ open \/ feed.state = "open"
  /\ Room
  /\ Stored(c) /\ Streamed(<<c, count[c] + 1>>)
  /\ UNCHANGED <<open, selected, messages, cursor, loadingMore, sending, ask, crossed>>

\* Mutant: the first message of a page is one too early.
Page_OffByOne(c, at) ==
  LET last  == IF at = 0 THEN count[c] ELSE at - 1
      first == IF last < PageLen THEN 0 ELSE last - PageLen
  IN  [items |-> [i \in 1..(last + 1 - first) |-> <<c, first + i - 1>>],
       next  |-> IF first > 1 THEN first ELSE 0]

\* listByChat: the newest messages below the cursor, oldest first here, and
\* the next cursor if there are more.
Page(c, at) ==
  LET last  == IF at = 0 THEN count[c] ELSE at - 1
      first == IF last < PageLen THEN 1 ELSE last - PageLen + 1
  IN  [items |-> [i \in 1..(last + 1 - first) |-> <<c, first + i - 1>>],
       next  |-> IF first > 1 THEN first ELSE 0]

Serve(k) ==
  /\ ask[k].for \in {"select", "older"} /\ ~ask[k].served
  /\ LET p == Page(ask[k].chat, ask[k].at) IN
       ask' = [ask EXCEPT ![k] = [@ EXCEPT !.served = TRUE, !.items = p.items, !.next = p.next]]
  /\ UNCHANGED <<count, open, feed, selected, messages, cursor, loadingMore, sending, crossed>>

ServeSend(k) ==
  /\ ask[k].for = "send" /\ ~ask[k].served /\ Room
  /\ LET m == <<ask[k].chat, count[ask[k].chat] + 1>> IN
       /\ Streamed(m)
       /\ ask' = [ask EXCEPT ![k] = [@ EXCEPT !.served = TRUE, !.items = <<m>>]]
  /\ Stored(ask[k].chat)
  /\ UNCHANGED <<open, selected, messages, cursor, loadingMore, sending, crossed>>

-----------------------------------------------------------------------------
(* The page *)

AskFor(why, c, at) ==
  \E k \in ChatCalls :
    /\ ask[k] = Quiet
    /\ ask' = [ask EXCEPT ![k] = [Quiet EXCEPT !.for = why, !.chat = c, !.at = at]]

\* The end of onMounted, after two calls: the stream of new messages is opened,
\* also when the page was left meanwhile.
Listen ==
  /\ feed.state = "awaited"
  /\ feed' = Feed("open")
  /\ UNCHANGED <<count, open, selected, messages, cursor, loadingMore, sending, ask, crossed>>

selectChat(c) ==
  /\ open
  /\ selected' = c /\ messages' = <<>> /\ cursor' = 0
  /\ AskFor("select", c, 0)
  /\ crossed' = {}
  /\ UNCHANGED <<count, open, feed, loadingMore, sending>>

loadOlder ==
  /\ open /\ selected # "none" /\ cursor # 0 /\ ~loadingMore
  /\ loadingMore' = TRUE
  /\ AskFor("older", selected, cursor)
  /\ UNCHANGED <<count, open, feed, selected, messages, cursor, sending, crossed>>

\* onSend and onFilePicked.
onSend ==
  /\ open /\ selected # "none" /\ ~sending
  /\ sending' = TRUE
  /\ AskFor("send", selected, 0)
  /\ UNCHANGED <<count, open, feed, selected, messages, cursor, loadingMore, crossed>>

\* Mutant: what is shown is not looked at.
Unseen_All(s) == s

\* What is not shown yet, in its order.
Unseen(s) ==
  LET new == {i \in 1..Len(s) : ~Contains(messages, s[i])}
  IN  [n \in 1..Cardinality(new) |->
        s[CHOOSE i \in new : Cardinality({k \in new : k < i}) = n - 1]]

\* appendMessage.
appendMessage(m) == messages' = messages \o Unseen(<<m>>)

\* Mutant: a streamed message is shown whatever its chat.
Concerns_Any(m) == TRUE

\* A streamed message is shown when it is one of the selected chat.
Concerns(m) == m[1] = selected

Deliver ==
  /\ feed.queue # <<>>
  /\ feed' = [feed EXCEPT !.queue = Tail(@)]
  /\ LET m == Head(feed.queue) IN
       IF Concerns(m) THEN appendMessage(m) ELSE UNCHANGED messages
  /\ UNCHANGED <<count, open, selected, cursor, loadingMore, sending, ask, crossed>>

\* What the page does with an answer: none looks at the chat it is for.
Show(a) ==
  \/ /\ a.for = "select"
     /\ messages' = a.items /\ cursor' = a.next
     /\ UNCHANGED <<loadingMore, sending>>
  \/ /\ a.for = "older"
     /\ messages' = Unseen(a.items) \o messages /\ cursor' = a.next
     /\ loadingMore' = FALSE /\ UNCHANGED sending
  \/ /\ a.for = "send"
     /\ appendMessage(a.items[1])
     /\ sending' = FALSE /\ UNCHANGED <<cursor, loadingMore>>

Answered(k) ==
  /\ ask[k].served
  /\ ask' = [ask EXCEPT ![k] = Quiet]
  /\ Show(ask[k])
  /\ crossed' = (IF ask[k].for = "select" THEN {} ELSE crossed) \cup ({ask[k].chat} \ {selected})
  /\ UNCHANGED <<count, open, feed, selected>>

\* The call fails: the `finally` of its handler.
Failed(k) ==
  /\ ask[k].for # "nothing" /\ ~ask[k].served
  /\ ask' = [ask EXCEPT ![k] = Quiet]
  /\ loadingMore' = (loadingMore /\ ask[k].for # "older")
  /\ sending' = (sending /\ ask[k].for # "send")
  /\ UNCHANGED <<count, open, feed, selected, messages, cursor, crossed>>

\* onUnmounted: the stream is closed if there is one yet; the calls are
\* answered all the same.
Unmount ==
  /\ open /\ open' = FALSE
  /\ feed' = IF feed.state = "open" THEN Feed("closed") ELSE feed
  /\ UNCHANGED <<count, selected, messages, cursor, loadingMore, sending, ask, crossed>>

ChatNext ==
  \/ \E c \in Chats : Arrive(c) \/ selectChat(c)
  \/ Listen \/ loadOlder \/ onSend \/ Deliver
  \/ \E k \in ChatCalls : Serve(k) \/ ServeSend(k) \/ Answered(k) \/ Failed(k)

-----------------------------------------------------------------------------
(* Properties *)

\* Nothing is shown twice, although a message that is sent comes back as an
\* answer and on the stream, in either order, and chats are selected again
\* while pages of them are under way.  And each message shown is one of the chat
\* in the header, or of a chat whose answer, asked for before it was left, came
\* while another was selected: it came then and not from an earlier one, since
\* a chat that is selected, and the first page of any, start over.
ConversationSound ==
  /\ IsInjective(messages)
  /\ \A i \in 1..Len(messages) : messages[i][1] \in {selected} \cup crossed
=============================================================================
