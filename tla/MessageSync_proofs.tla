-------------------------- MODULE MessageSync_proofs --------------------------
(***************************************************************************)
(* Theorems about MessageSync for every value of the constants: any number *)
(* of messages, of concurrent events and sends, any page sizes.            *)
(***************************************************************************)
EXTENDS MessageSync, FiniteSetTheorems, SequenceTheorems, TLAPS

USE SyncAssumption DEF SyncAssumption

\* What a job is at, by its operation: pages of history are the reader's, and
\* every other job holds one copy at most.
Working == {"contact", "message", "touch"}
Listing == {"pull", "page"} \cup Working
JobSound(j) ==
  LET q == job[j] IN
  /\ q.pc = "idle" <=> q.op = "none"
  /\ q.op = "list" => j = Reader /\ q.pc \in Listing
  /\ q.op \notin {"list", "none"} => q.pc \notin {"pull", "page"} /\ Len(q.todo) <= 1 /\ j # Reader
  /\ q.pc \in {"idle", "dialogs", "pull", "page"} => q.todo = <<>>
  /\ q.pc \in Working => q.todo # <<>>
  /\ \A i, k \in 1..Len(q.todo) : q.todo[i].id = q.todo[k].id => i = k
JobsSound == \A j \in AllJobs : JobSound(j)

\* A job works on a message of a chat that has its row.
ChatFirst == instance => \A j \in AllJobs : job[j].pc \in Working => chat # "absent"

\* Two jobs with copies of a message race for its row.
RaceSeen == \A j, k \in AllJobs : j # k => Held(j) \cap Held(k) \subseteq raced

\* Where the text of a message nobody races for is: in its row, or in the one
\* copy that is on its way there.
Pending(j, i) == ~(i = 1 /\ At(j, "touch"))
TextKept ==
  faults = 0 /\ instance =>
    /\ \A m \in Messages \ raced : (\A j \in AllJobs : m \notin Held(j)) => text[m] = latest[m]
    /\ \A j \in AllJobs : \A i \in 1..Len(job[j].todo) :
         LET c == job[j].todo[i] IN
         c.id \notin raced =>
           latest[c.id] = IF Pending(j, i) THEN Merge(text[c.id], c.text) ELSE text[c.id]

\* What the walk has not shown of the store it began with is still there, and
\* ahead of its cursor, and in the page it may end on.
WalkAhead ==
  instance =>
    /\ walk.stock \subseteq rows
    /\ \A m \in walk.stock \ walk.shown :
         /\ ~walk.ended
         /\ walk.cursor = 0 \/ m < walk.cursor
         /\ walk.page # {} => m \in walk.page

IInv == /\ TypeOK /\ JobsSound /\ ChatFirst /\ NoForeignKeyRefused /\ ActivityCovers
        /\ RaceSeen /\ TextKept /\ WalkAhead

-----------------------------------------------------------------------------
(* Newest, Oldest and pages *)

Above(S, m) == {x \in S : x > m}

LEMMA MessageSets ==
  ASSUME NEW S \in SUBSET Messages
  PROVE  /\ IsFiniteSet(S) /\ Cardinality(S) \in Nat /\ S \subseteq Nat
         /\ S # {} => Cardinality(S) \in Nat \ {0}
<1>1. 1 \in Int /\ N \in Int
  OBVIOUS
<1>2. IsFiniteSet(Messages)
  BY <1>1, FS_Interval DEF Messages
<1>3. IsFiniteSet(S)
  BY <1>2, FS_Subset
<1>4. Cardinality(S) \in Nat /\ (S # {} => Cardinality(S) # 0)
  BY <1>3, FS_CardinalityType, FS_EmptySet
<1>5. S \subseteq Nat
  BY DEF Messages
<1>. QED
  BY <1>3, <1>4, <1>5

LEMMA AboveIs ==
  ASSUME NEW S \in SUBSET Messages, NEW m \in S
  PROVE  /\ IsFiniteSet(S) /\ Cardinality(S) \in Nat
         /\ Above(S, m) \in SUBSET S /\ IsFiniteSet(Above(S, m))
         /\ Cardinality(Above(S, m)) \in 0..Cardinality(S) - 1
         /\ \A p \in S : p > m => Cardinality(Above(S, p)) < Cardinality(Above(S, m))
<1>1. IsFiniteSet(S)
  BY MessageSets
<1>2. \A p \in S : Above(S, p) \in SUBSET S /\ IsFiniteSet(Above(S, p)) /\ Cardinality(Above(S, p)) \in Nat
  BY <1>1, FS_Subset, FS_CardinalityType DEF Above
<1>3. Cardinality(S) \in Nat
  BY <1>1, FS_CardinalityType
<1>4. Cardinality(Above(S, m)) <= Cardinality(S) /\ Cardinality(Above(S, m)) # Cardinality(S)
  <2>1. m \notin Above(S, m)
    BY DEF Above, Messages
  <2>. QED
    BY <1>1, <1>2, <2>1, FS_Subset
<1>5. ASSUME NEW p \in S, p > m PROVE Cardinality(Above(S, p)) < Cardinality(Above(S, m))
  <2>1. Above(S, p) \in SUBSET Above(S, m)
    BY <1>5, MessageSets DEF Above
  <2>2. p \in Above(S, m) /\ p \notin Above(S, p)
    BY <1>5 DEF Above, Messages
  <2>. QED
    BY <1>2, <2>1, <2>2, FS_Subset
<1>. QED
  BY <1>1, <1>2, <1>3, <1>4, <1>5

\* The messages of a set are counted off from the newest.
LEMMA Ranks ==
  ASSUME NEW S \in SUBSET Messages, NEW k \in 0..Cardinality(S) - 1
  PROVE  \E m \in S : Cardinality(Above(S, m)) = k
<1>. SUFFICES ASSUME \A m \in S : Cardinality(Above(S, m)) # k PROVE FALSE
  OBVIOUS
<1>. DEFINE T == (0..Cardinality(S) - 1) \ {k}
            f == [m \in S |-> Cardinality(Above(S, m))]
<1>1. IsFiniteSet(S) /\ Cardinality(S) \in Nat
  BY MessageSets
<1>2. f \in [S -> T]
  BY AboveIs
<1>3. IsFiniteSet(T) /\ Cardinality(T) = Cardinality(S) - 1
  <2>. DEFINE n == Cardinality(S)
              All == 0..(n - 1)
  <2>1. n \in Nat /\ 0 \in Int /\ n - 1 \in Int /\ k \in All
    BY <1>1
  <2>2. IsFiniteSet(All) /\ Cardinality(All) = n
    BY <2>1, FS_Interval
  <2>3. T = All \ {k}
    OBVIOUS
  <2>. HIDE DEF All, T
  <2>. QED
    BY <2>1, <2>2, <2>3, FS_RemoveElement
<1>4. PICK x, y \in S : x # y /\ f[x] = f[y]
  <2>. HIDE DEF T, f
  <2>. QED
    BY <1>1, <1>2, <1>3, FS_PigeonHole
<1>5. x > y \/ y > x
  BY <1>4 DEF Messages
<1>. QED
  BY <1>1, <1>4, <1>5, AboveIs

\* The n newest of a set, each once, and n at most.
LEMMA NewestIs ==
  ASSUME NEW S \in SUBSET Messages, NEW n \in Nat
  PROVE  /\ Newest(S, n) \in Seq(S) /\ Len(Newest(S, n)) <= n
         /\ \A i, k \in 1..Len(Newest(S, n)) : Newest(S, n)[i] = Newest(S, n)[k] => i = k
<1>. DEFINE top == {m \in S : Cardinality(Above(S, m)) < n}
            C(i) == CHOOSE m \in top : Cardinality(Above(top, m)) = i - 1
<1>1. Newest(S, n) = [i \in 1..Cardinality(top) |-> C(i)]
  BY DEF Newest, Above
<1>2. top \in SUBSET Messages /\ IsFiniteSet(top) /\ Cardinality(top) \in Nat
  BY MessageSets
<1>. HIDE DEF top
<1>3. ASSUME NEW i \in 1..Cardinality(top) PROVE C(i) \in top /\ Cardinality(Above(top, C(i))) = i - 1
  <2>1. i - 1 \in 0..Cardinality(top) - 1
    BY <1>2
  <2>. QED
    BY <1>2, <2>1, Ranks
<1>4. top \in SUBSET S
  BY DEF top
<1>. HIDE DEF C
<1>5. Newest(S, n) \in Seq(S) /\ Len(Newest(S, n)) = Cardinality(top)
  BY <1>1, <1>2, <1>3, <1>4
<1>6. Cardinality(top) <= n
  <2>. SUFFICES ASSUME Cardinality(top) > n PROVE FALSE
    BY <1>2
  <2>1. PICK m \in top : Cardinality(Above(top, m)) = n
    BY <1>2, Ranks
  <2>2. m \in S /\ Cardinality(Above(S, m)) < n
    BY <2>1 DEF top
  <2>3. Above(top, m) \in SUBSET Above(S, m)
    BY <1>4 DEF Above
  <2>4. Cardinality(Above(top, m)) <= Cardinality(Above(S, m)) /\ Cardinality(Above(S, m)) \in Nat
    BY <2>2, <2>3, AboveIs, FS_Subset
  <2>. QED
    BY <2>1, <2>2, <2>4
<1>7. ASSUME NEW i \in 1..Cardinality(top), NEW k \in 1..Cardinality(top), C(i) = C(k) PROVE i = k
  BY <1>2, <1>3, <1>7
<1>. QED
  BY <1>1, <1>2, <1>5, <1>6, <1>7

LEMMA OldestIs ==
  ASSUME NEW S \in SUBSET Messages, S # {}
  PROVE  Oldest(S) \in S /\ \A x \in S : Oldest(S) <= x
<1>1. IsFiniteSet(S) /\ Cardinality(S) \in Nat \ {0}
  BY MessageSets
<1>2. PICK m \in S : Cardinality(Above(S, m)) = Cardinality(S) - 1
  BY <1>1, Ranks
<1>3. IsFiniteSet(S \ {m}) /\ Cardinality(S \ {m}) = Cardinality(S) - 1
  BY <1>1, FS_RemoveElement
<1>4. Above(S, m) \in SUBSET (S \ {m})
  BY DEF Above, Messages
<1>5. Above(S, m) = S \ {m}
  BY <1>2, <1>3, <1>4, FS_Subset
<1>6. \A x \in S : m <= x
  BY <1>5 DEF Above, Messages
<1>. QED
  BY <1>6 DEF Oldest

\* A page is the newest part of what is left, and empty only if nothing is.
Newer(left) == {m \in left : Cardinality({x \in left : x > m}) < PageSize}

LEMMA PageIs ==
  ASSUME NEW left \in SUBSET Messages
  PROVE  /\ Newer(left) \in SUBSET left
         /\ \A m \in left \ Newer(left) : \A i \in Newer(left) : m < i
         /\ left # {} => Newer(left) # {}
<1>1. \A m \in left : m \in Newer(left) <=> Cardinality(Above(left, m)) < PageSize
  BY DEF Newer, Above
<1>2. Newer(left) \in SUBSET left
  BY DEF Newer
<1>3. ASSUME NEW m \in left \ Newer(left), NEW i \in Newer(left) PROVE m < i
  <2>1. i \in left /\ m \in left /\ m # i
    BY <1>2
  <2>2. Cardinality(Above(left, i)) < PageSize /\ ~(Cardinality(Above(left, m)) < PageSize)
    BY <1>1, <2>1
  <2>3. m > i => Cardinality(Above(left, m)) < Cardinality(Above(left, i))
    BY <2>1, AboveIs
  <2>. QED
    BY <2>1, <2>2, <2>3, AboveIs DEF Messages
<1>4. ASSUME left # {} PROVE Newer(left) # {}
  <2>1. IsFiniteSet(left) /\ Cardinality(left) \in Nat \ {0}
    BY <1>4, MessageSets
  <2>2. PICK m \in left : Cardinality(Above(left, m)) = 0
    BY <2>1, Ranks
  <2>. QED
    BY <1>1, <2>2
<1>. QED
  BY <1>2, <1>3, <1>4

-----------------------------------------------------------------------------
(* What happens to a job *)

Job == [op : Ops, pc : Places, todo : Seq(Copy)]

LEMMA JobIs ==
  ASSUME TypeOK, JobsSound, NEW j \in AllJobs
  PROVE  /\ job[j] \in Job /\ JobSound(j)
         /\ job[j].todo \in Seq(Copy) /\ Len(job[j].todo) \in Nat
         /\ job[j].todo = <<>> <=> Len(job[j].todo) = 0
         /\ \A i \in 1..Len(job[j].todo) : /\ job[j].todo[i] \in Copy
                                           /\ job[j].todo[i].id \in Messages
                                           /\ job[j].todo[i].text \in Texts
<1>1. job[j] \in Job /\ JobSound(j)
  BY DEF TypeOK, JobsSound, Job
<1>2. job[j].todo \in Seq(Copy)
  BY <1>1 DEF Job
<1>3. Len(job[j].todo) \in Nat /\ (job[j].todo = <<>> <=> Len(job[j].todo) = 0)
  BY <1>2, EmptySeq, LenProperties
<1>4. ASSUME NEW i \in 1..Len(job[j].todo) PROVE job[j].todo[i] \in Copy
  BY <1>2, ElementOfSeq
<1>. QED
  BY <1>1, <1>2, <1>3, <1>4 DEF Copy

LEMMA NoJob == Idle \in Job /\ Idle.todo = <<>> /\ Idle.pc = "idle" /\ Idle.op = "none"
BY EmptySeq DEF Idle, Job, Ops, Places

\* A message handed to a job.
LEMMA HandIs ==
  ASSUME TypeOK, NEW j \in AllJobs, NEW o, NEW l, NEW ids \in Seq(Messages), Hand(j, o, l, ids)
  PROVE  /\ Len(Copies(ids)) = Len(ids) /\ Len(ids) \in Nat
         /\ \A i \in 1..Len(ids) : /\ ids[i] \in Messages
                                   /\ Copies(ids)[i].id = ids[i] /\ Copies(ids)[i].text = tg'[ids[i]]
         /\ job'[j] = [op |-> o, pc |-> l, todo |-> Copies(ids)]
         /\ \A k \in AllJobs \ {j} : job'[k] = job[k]
         /\ Held(j)' = {ids[i] : i \in 1..Len(ids)}
         /\ \A k \in AllJobs \ {j} : Held(k)' = Held(k)
<1>1. Len(ids) \in Nat /\ \A i \in 1..Len(ids) : ids[i] \in Messages
  BY LenProperties, ElementOfSeq
<1>2. Len(Copies(ids)) = Len(ids)
  BY <1>1 DEF Copies
<1>3. \A i \in 1..Len(ids) : Copies(ids)[i].id = ids[i] /\ Copies(ids)[i].text = tg'[ids[i]]
  BY DEF Copies, CopyOf
<1>4. job'[j] = [op |-> o, pc |-> l, todo |-> Copies(ids)] /\ \A k \in AllJobs \ {j} : job'[k] = job[k]
  BY DEF Hand, TypeOK
<1>5. Held(j)' = {ids[i] : i \in 1..Len(ids)}
  BY <1>2, <1>3, <1>4 DEF Held
<1>6. \A k \in AllJobs \ {j} : Held(k)' = Held(k)
  BY <1>4 DEF Held
<1>. QED
  BY <1>1, <1>2, <1>3, <1>4, <1>5, <1>6

LEMMA HandSound ==
  ASSUME TypeOK, JobsSound, NEW j \in AllJobs, NEW o, NEW l, NEW ids \in Seq(Messages), Hand(j, o, l, ids),
         \/ o = "list" /\ l = "contact" /\ j = Reader /\ ids # <<>>
         \/ o \in {"new", "edited", "send", "backfill"} /\ l \in {"chat", "dialogContact"}
              /\ Len(ids) <= 1 /\ j # Reader,
         \A i \in 1..Len(ids) : tg'[ids[i]] \in Texts,
         \A i, k \in 1..Len(ids) : ids[i] = ids[k] => i = k
  PROVE  JobsSound' /\ job' \in [AllJobs -> Job] /\ latest' \in [Messages -> {"none", "old", "new"}]
         /\ raced' \subseteq Messages
<1>0. /\ Len(Copies(ids)) = Len(ids) /\ Len(ids) \in Nat
      /\ \A i \in 1..Len(ids) : /\ ids[i] \in Messages
                                /\ Copies(ids)[i].id = ids[i] /\ Copies(ids)[i].text = tg'[ids[i]]
      /\ job'[j] = [op |-> o, pc |-> l, todo |-> Copies(ids)]
      /\ \A k \in AllJobs \ {j} : job'[k] = job[k]
  BY HandIs
<1>1. Copies(ids) \in Seq(Copy)
  BY <1>0 DEF Copies, CopyOf, Copy
<1>2. job'[j] \in Job
  <2>1. o \in Ops /\ l \in Places
    BY DEF Ops, Places
  <2>. QED
    BY <1>0, <1>1, <2>1 DEF Job
<1>3. job' \in [AllJobs -> Job]
  BY <1>2, <1>0 DEF Hand, TypeOK, Job
<1>4. JobSound(j)'
  <2>1. Copies(ids) = <<>> <=> ids = <<>>
    <3>1. Copies(ids) = <<>> <=> Len(Copies(ids)) = 0
      BY <1>1, EmptySeq
    <3>2. ids = <<>> <=> Len(ids) = 0
      BY EmptySeq
    <3>. QED
      BY <1>0, <3>1, <3>2
  <2>2. job'[j].op = o /\ job'[j].pc = l /\ job'[j].todo = Copies(ids)
    BY <1>0
  <2>3. \A i, k \in 1..Len(Copies(ids)) : Copies(ids)[i].id = Copies(ids)[k].id => i = k
    BY <1>0
  <2>. QED
    BY <1>0, <2>1, <2>2, <2>3 DEF JobSound, Listing, Working
<1>5. \A k \in AllJobs \ {j} : JobSound(k)'
  BY <1>0 DEF JobsSound, JobSound
<1>6. latest' \in [Messages -> {"none", "old", "new"}]
  <2>1. \A m \in Messages : (\E i \in 1..Len(ids) : ids[i] = m) => tg'[m] \in Texts
    OBVIOUS
  <2>. QED
    BY <2>1 DEF Hand, Merge, TypeOK, Texts
<1>7. raced' \subseteq Messages
  BY DEF Hand, TypeOK
<1>. QED
  BY <1>3, <1>4, <1>5, <1>6, <1>7 DEF JobsSound

\* A job goes on with what it holds.
LEMMA GotoIs ==
  ASSUME TypeOK, NEW j \in AllJobs, NEW l, Goto(j, l)
  PROVE  /\ job'[j].op = job[j].op /\ job'[j].pc = l /\ job'[j].todo = job[j].todo
         /\ \A k \in AllJobs \ {j} : job'[k] = job[k]
         /\ \A k \in AllJobs : Held(k)' = Held(k)
<1>1. job'[j].op = job[j].op /\ job'[j].pc = l /\ job'[j].todo = job[j].todo
      /\ \A k \in AllJobs \ {j} : job'[k] = job[k]
  BY DEF Goto, TypeOK
<1>. QED
  BY <1>1 DEF Held

LEMMA GotoSound ==
  ASSUME TypeOK, JobsSound, NEW j \in AllJobs, NEW l \in Places \ {"idle", "dialogs"}, Goto(j, l),
         \/ job[j].op = "list" /\ l \in Listing
         \/ job[j].op \notin {"list", "none"} /\ l \notin {"pull", "page"},
         l \in {"pull", "page"} => job[j].todo = <<>>,
         l \in Working => job[j].todo # <<>>
  PROVE  JobsSound' /\ job' \in [AllJobs -> Job]
<1>1. job' \in [AllJobs -> Job]
  BY DEF Goto, TypeOK, Job
<1>2. JobSound(j)
  BY DEF JobsSound
<1>3. JobSound(j)'
  BY <1>2, GotoIs DEF JobSound, Listing, Working
<1>4. \A k \in AllJobs \ {j} : JobSound(k)'
  BY GotoIs DEF JobsSound, JobSound
<1>. QED
  BY <1>1, <1>3, <1>4 DEF JobsSound

\* A job is replaced by one that holds nothing.
LEMMA FreshSound ==
  ASSUME TypeOK, JobsSound, NEW j \in AllJobs, NEW q \in Job, job' = [job EXCEPT ![j] = q],
         q.todo = <<>>,
         \/ q = Idle
         \/ q.op = "list" /\ j = Reader /\ q.pc \in {"pull", "page"}
         \/ q.op = "backfill" /\ j = Backfill /\ q.pc = "dialogs"
  PROVE  /\ JobsSound' /\ job' \in [AllJobs -> Job]
         /\ Held(j)' = {} /\ \A k \in AllJobs \ {j} : job'[k] = job[k] /\ Held(k)' = Held(k)
<1>1. job' \in [AllJobs -> Job] /\ job'[j] = q /\ \A k \in AllJobs \ {j} : job'[k] = job[k]
  BY DEF TypeOK, Job
<1>2. Len(q.todo) = 0
  BY EmptySeq
<1>3. JobSound(j)'
  BY <1>1, <1>2, NoJob DEF JobSound, Listing, Working
<1>4. \A k \in AllJobs \ {j} : JobSound(k)'
  BY <1>1 DEF JobsSound, JobSound
<1>5. Held(j)' = {} /\ \A k \in AllJobs \ {j} : Held(k)' = Held(k)
  BY <1>1, <1>2 DEF Held
<1>. QED
  BY <1>1, <1>3, <1>4, <1>5 DEF JobsSound

\* A page of history goes on with the rest of it, any other job is done.
LEMMA DoneIs ==
  ASSUME TypeOK, JobsSound, NEW j \in AllJobs, Done(j), job[j].pc \in Working \/ job[j].op # "list"
  PROVE  /\ \A k \in AllJobs \ {j} : job'[k] = job[k] /\ Held(k)' = Held(k)
         /\ \/ /\ job[j].op = "list"
               /\ job'[j].op = "list" /\ job'[j].pc = IF Len(job[j].todo) = 1 THEN "page" ELSE "contact"
               /\ Len(job'[j].todo) = Len(job[j].todo) - 1 /\ job'[j].todo \in Seq(Copy)
               /\ \A i \in 1..Len(job'[j].todo) : i + 1 \in 1..Len(job[j].todo) /\ job'[j].todo[i] = job[j].todo[i + 1]
            \/ /\ job[j].op # "list" /\ job'[j] = Idle
               /\ \A i \in 1..Len(job[j].todo) : i = 1
         /\ Held(j)' \subseteq Held(j)
         /\ job[j].pc \in Working => Held(j) \subseteq Held(j)' \cup {Head(job[j].todo).id}
<1>. DEFINE q == job[j]
            p == job'[j]
<1>0. q \in Job /\ JobSound(j) /\ q.todo \in Seq(Copy) /\ Len(q.todo) \in Nat /\ (q.todo = <<>> <=> Len(q.todo) = 0)
  BY JobIs
<1>1. \A k \in AllJobs \ {j} : job'[k] = job[k] /\ Held(k)' = Held(k)
  BY DEF Done, TypeOK, Held
<1>2. CASE q.op = "list"
  <2>1. q.todo # <<>>
    BY <1>0, <1>2 DEF JobSound
  <2>2. p = [op |-> "list", pc |-> IF Len(q.todo) = 1 THEN "page" ELSE "contact", todo |-> Tail(q.todo)]
    BY <1>2 DEF Done, TypeOK
  <2>3. /\ Len(Tail(q.todo)) = Len(q.todo) - 1 /\ Tail(q.todo) \in Seq(Copy)
        /\ \A i \in 1..Len(Tail(q.todo)) : Tail(q.todo)[i] = q.todo[i + 1]
    BY <1>0, <2>1, HeadTailProperties
  <2>4. \A i \in 1..Len(p.todo) : i + 1 \in 1..Len(q.todo) /\ p.todo[i] = q.todo[i + 1]
    BY <1>0, <2>2, <2>3
  <2>5. Held(j)' \subseteq Held(j)
    BY <2>4 DEF Held
  <2>6. Held(j) \subseteq Held(j)' \cup {Head(q.todo).id}
    <3>. SUFFICES ASSUME NEW i \in 1..Len(q.todo), i # 1 PROVE q.todo[i].id \in Held(j)'
      <4>1. Head(q.todo) = q.todo[1]
        BY <1>0, <2>1
      <4>. QED
        BY <4>1 DEF Held
    <3>1. i - 1 \in 1..Len(p.todo) /\ p.todo[i - 1] = q.todo[i]
      BY <1>0, <2>2, <2>3
    <3>. QED
      BY <3>1 DEF Held
  <2>. QED
    BY <1>1, <1>2, <2>2, <2>3, <2>4, <2>5, <2>6
<1>3. CASE q.op # "list"
  <2>1. p = Idle
    BY <1>3 DEF Done, TypeOK
  <2>2. Len(q.todo) <= 1
    BY <1>0, <1>3 DEF JobSound
  <2>3. Held(j)' = {}
    BY <2>1, NoJob, EmptySeq DEF Held
  <2>4. Held(j) \subseteq {Head(q.todo).id}
    BY <1>0, <2>2 DEF Held
  <2>. QED
    BY <1>0, <1>1, <1>3, <2>1, <2>2, <2>3, <2>4
<1>. QED
  BY <1>2, <1>3

LEMMA DoneSound ==
  ASSUME TypeOK, JobsSound, NEW j \in AllJobs, Done(j), job[j].pc \in Working \/ job[j].op # "list"
  PROVE  JobsSound' /\ job' \in [AllJobs -> Job]
<1>. DEFINE q == job[j]
            p == job'[j]
<1>0. q \in Job /\ JobSound(j) /\ q.todo \in Seq(Copy) /\ Len(q.todo) \in Nat /\ (q.todo = <<>> <=> Len(q.todo) = 0)
  BY JobIs
<1>1. CASE q.op # "list"
  <2>1. job' = [job EXCEPT ![j] = Idle]
    BY <1>1 DEF Done, TypeOK
  <2>. QED
    BY <2>1, NoJob, FreshSound
<1>2. CASE q.op = "list"
  <2>1. q.todo # <<>> /\ j = Reader
    BY <1>0, <1>2 DEF JobSound
  <2>2. p = [op |-> "list", pc |-> IF Len(q.todo) = 1 THEN "page" ELSE "contact", todo |-> Tail(q.todo)]
    BY <1>2 DEF Done, TypeOK
  <2>3. p \in Job
    BY <1>0, <2>1, <2>2, HeadTailProperties DEF Job, Ops, Places
  <2>4. job' \in [AllJobs -> Job]
    BY <2>3, <1>2 DEF Done, TypeOK, Job
  <2>5. Len(p.todo) = Len(q.todo) - 1 /\ (p.todo = <<>> <=> Len(p.todo) = 0)
    <3>1. p.todo \in Seq(Copy)
      BY <2>3 DEF Job
    <3>. QED
      BY <1>0, <1>2, <3>1, DoneIs, EmptySeq
  <2>6. \A i, k \in 1..Len(p.todo) : p.todo[i].id = p.todo[k].id => i = k
    <3>. SUFFICES ASSUME NEW i \in 1..Len(p.todo), NEW k \in 1..Len(p.todo), p.todo[i].id = p.todo[k].id
                  PROVE  i = k
      OBVIOUS
    <3>1. /\ i + 1 \in 1..Len(q.todo) /\ p.todo[i] = q.todo[i + 1]
          /\ k + 1 \in 1..Len(q.todo) /\ p.todo[k] = q.todo[k + 1]
      BY <1>2, DoneIs
    <3>2. i + 1 = k + 1
      BY <1>0, <3>1 DEF JobSound
    <3>. QED
      BY <3>2
  <2>7. JobSound(j)'
    BY <1>0, <2>1, <2>2, <2>5, <2>6 DEF JobSound, Listing, Working
  <2>8. \A k \in AllJobs \ {j} : JobSound(k)'
    BY DoneIs DEF JobsSound, JobSound
  <2>. QED
    BY <2>4, <2>7, <2>8 DEF JobsSound
<1>. QED
  BY <1>1, <1>2

-----------------------------------------------------------------------------
(* Types *)

LEMMA StartInit == Init => TypeOK /\ JobsSound
<1>. SUFFICES ASSUME Init PROVE TypeOK /\ JobsSound
  OBVIOUS
<1>1. job \in [AllJobs -> Job] /\ \A j \in AllJobs : job[j] = Idle
  BY NoJob DEF Init
<1>2. walk \in [cursor : 0..N, page : SUBSET Messages, fetched : BOOLEAN, cut : BOOLEAN,
                shown : SUBSET Messages, ended : BOOLEAN, stock : SUBSET Messages]
  BY DEF Init, NoWalk
<1>3. 0 \in 0..N /\ 0 \in 0..MaxMishaps
  OBVIOUS
<1>4. TypeOK
  BY <1>1, <1>2, <1>3 DEF Init, TypeOK, Job
<1>5. JobsSound
  BY <1>1, NoJob, EmptySeq DEF JobsSound, JobSound, Working
<1>. QED
  BY <1>4, <1>5

LEMMA FaultTypes ==
  ASSUME TypeOK, Fault \/ NoFault
  PROVE  faults' \in 0..MaxMishaps /\ (faults' = 0 => faults = 0 /\ NoFault)
BY DEF TypeOK, Fault, NoFault

LEMMA SentIs == TypeOK => Sent \in SUBSET Messages /\ \A m \in Sent : tg[m] \in Texts
BY DEF TypeOK, Sent

LEMMA OneMessage ==
  ASSUME NEW m \in Messages
  PROVE  /\ <<m>> \in Seq(Messages) /\ Len(<<m>>) = 1 /\ \A i \in 1..Len(<<m>>) : <<m>>[i] = m /\ i = 1
OBVIOUS

\* What may arrive: a message is sent or edited.
LEMMA ArriveTypes ==
  ASSUME TypeOK, JobsSound, NEW m \in Messages, NEW t \in Texts, tg' = [tg EXCEPT ![m] = t],
         \/ \E j \in Jobs, o \in {"new", "edited", "send"} : At(j, "idle") /\ Hand(j, o, "chat", <<m>>)
         \/ UNCHANGED <<job, history>>
  PROVE  /\ tg' \in [Messages -> Texts \cup {"unsent"}]
         /\ JobsSound' /\ job' \in [AllJobs -> [op : Ops, pc : Places, todo : Seq(Copy)]]
         /\ latest' \in [Messages -> {"none", "old", "new"}] /\ raced' \subseteq Messages
<1>1. tg' \in [Messages -> Texts \cup {"unsent"}] /\ tg'[m] = t
  BY DEF TypeOK
<1>2. ASSUME NEW j \in Jobs, NEW o \in {"new", "edited", "send"}, Hand(j, o, "chat", <<m>>)
      PROVE  JobsSound' /\ job' \in [AllJobs -> Job] /\ latest' \in [Messages -> {"none", "old", "new"}]
               /\ raced' \subseteq Messages
  <2>1. j \in AllJobs /\ j # Reader
    BY DEF AllJobs
  <2>2. \A i \in 1..Len(<<m>>) : tg'[<<m>>[i]] \in Texts
    BY <1>1, OneMessage
  <2>3. \A i, k \in 1..Len(<<m>>) : <<m>>[i] = <<m>>[k] => i = k
    BY OneMessage
  <2>4. <<m>> \in Seq(Messages) /\ Len(<<m>>) <= 1
    BY OneMessage
  <2>. QED
    BY <1>2, <2>1, <2>2, <2>3, <2>4, HandSound
<1>3. CASE UNCHANGED <<job, history>>
  BY <1>3 DEF TypeOK, JobsSound, JobSound, history, Job
<1>. QED
  BY <1>1, <1>2, <1>3 DEF Job

LEMMA TelegramTypes ==
  ASSUME TypeOK, JobsSound,
         NewMessage \/ Send \/ \E m \in Messages : \E t \in {"new", "cleared"} : EditMessage(m, t)
  PROVE  TypeOK' /\ JobsSound'
<1>1. CASE NewMessage
  <2>1. Next1 \in Messages /\ tg' = [tg EXCEPT ![Next1] = "old"] /\ "old" \in Texts
    BY <1>1 DEF NewMessage, Texts
  <2>2. \/ \E j \in Jobs, o \in {"new", "edited", "send"} : At(j, "idle") /\ Hand(j, o, "chat", <<Next1>>)
        \/ UNCHANGED <<job, history>>
    BY <1>1 DEF NewMessage
  <2>. HIDE DEF Next1
  <2>3. UNCHANGED <<online, store, walk, edits, faults, refused>>
    BY <1>1 DEF NewMessage
  <2>. QED
    BY <2>1, <2>2, <2>3, ArriveTypes DEF TypeOK, store
<1>2. CASE Send
  <2>1. Next1 \in Messages /\ tg' = [tg EXCEPT ![Next1] = "old"] /\ "old" \in Texts
    BY <1>2 DEF Send, Texts
  <2>2. \E j \in Jobs, o \in {"new", "edited", "send"} : At(j, "idle") /\ Hand(j, o, "chat", <<Next1>>)
    BY <1>2 DEF Send
  <2>3. UNCHANGED <<online, store, walk, edits, faults, refused>>
    BY <1>2 DEF Send
  <2>. QED
    BY <2>1, <2>2, <2>3, ArriveTypes DEF TypeOK, store
<1>3. ASSUME NEW m \in Messages, NEW t \in {"new", "cleared"}, EditMessage(m, t)
      PROVE  TypeOK' /\ JobsSound'
  <2>1. t \in Texts /\ tg' = [tg EXCEPT ![m] = t]
    BY <1>3 DEF EditMessage, Texts
  <2>2. \/ \E j \in Jobs, o \in {"new", "edited", "send"} : At(j, "idle") /\ Hand(j, o, "chat", <<m>>)
        \/ UNCHANGED <<job, history>>
    BY <1>3 DEF EditMessage
  <2>3. UNCHANGED <<online, store, walk, faults, refused>>
    BY <1>3 DEF EditMessage
  <2>4. edits' \in 0..MaxMishaps
    BY <1>3 DEF EditMessage, TypeOK
  <2>. QED
    BY <2>1, <2>2, <2>3, <2>4, ArriveTypes DEF TypeOK, store
<1>. QED
  BY <1>1, <1>2, <1>3

LEMMA InstanceTypes ==
  ASSUME TypeOK, JobsSound, Authorize \/ Disconnect \/ RemoveInstance
  PROVE  TypeOK' /\ JobsSound'
<1>1. CASE Authorize
  <2>. DEFINE q == [op |-> "backfill", pc |-> "dialogs", todo |-> <<>>]
  <2>1. q \in Job /\ Backfill \in AllJobs
    BY EmptySeq DEF Job, Ops, Places, AllJobs
  <2>2. JobsSound' /\ job' \in [AllJobs -> Job]
    BY <1>1, <2>1, FreshSound DEF Authorize
  <2>. QED
    BY <1>1, <2>2 DEF Authorize, TypeOK, store, history, Job
<1>2. CASE Disconnect
  BY <1>2 DEF Disconnect, TypeOK, JobsSound, JobSound, store, history
<1>3. CASE RemoveInstance
  <2>1. lastAt' \in 0..N /\ text' \in [Messages -> {"none", "old", "new"}] /\ rows' \subseteq Messages
    BY <1>3 DEF RemoveInstance
  <2>2. JobsSound'
    BY <1>3 DEF RemoveInstance, JobsSound, JobSound
  <2>. QED
    BY <1>3, <2>1, <2>2 DEF RemoveInstance, TypeOK, history
<1>. QED
  BY <1>1, <1>2, <1>3

LEMMA ThrowsTypes ==
  ASSUME TypeOK, JobsSound, NEW j \in AllJobs, NEW broken \in BOOLEAN, Throws(j, broken),
         job[j].pc \in Working \/ job[j].op # "list"
  PROVE  /\ JobsSound' /\ job' \in [AllJobs -> Job] /\ faults' \in 0..MaxMishaps /\ refused' \in BOOLEAN
BY FaultTypes, DoneSound DEF Throws, TypeOK

LEMMA StepTypes ==
  ASSUME TypeOK, JobsSound, NEW j \in AllJobs, Step(j)
  PROVE  TypeOK' /\ JobsSound'
<1>. DEFINE q == job[j]
<1>0. q \in Job /\ JobSound(j) /\ q.todo \in Seq(Copy)
  BY JobIs
<1>1. CASE Dialogs(j)
  <2>1. q.op \notin {"none", "list"} /\ j # Reader
    BY <1>0, <1>1 DEF Dialogs, At, JobSound, Listing, Working
  <2>2. faults' \in 0..MaxMishaps
    BY <1>1, FaultTypes DEF Dialogs
  <2>3. CASE Hand(j, "backfill", "dialogContact", Newest(Sent, 1)) /\ tg' = tg
    <3>. DEFINE ids == Newest(Sent, 1)
    <3>1. /\ ids \in Seq(Sent) /\ Len(ids) <= 1 /\ \A i, k \in 1..Len(ids) : ids[i] = ids[k] => i = k
      BY SentIs, NewestIs
    <3>. HIDE DEF ids
    <3>2. ids \in Seq(Messages) /\ \A i \in 1..Len(ids) : tg'[ids[i]] \in Texts
      BY <2>3, <3>1, SentIs, SeqMonotonic, ElementOfSeq
    <3>3. Hand(j, "backfill", "dialogContact", ids)
      BY <2>3 DEF ids
    <3>4. JobsSound' /\ job' \in [AllJobs -> Job] /\ latest' \in [Messages -> {"none", "old", "new"}]
            /\ raced' \subseteq Messages
      BY <2>1, <3>1, <3>2, <3>3, HandSound
    <3>. QED
      BY <1>1, <2>2, <3>4 DEF Dialogs, TypeOK, store, Job
  <2>4. CASE End(j) /\ UNCHANGED history
    <3>1. JobsSound' /\ job' \in [AllJobs -> Job]
      BY <2>4, NoJob, FreshSound DEF End
    <3>. QED
      BY <1>1, <2>2, <2>4, <3>1 DEF Dialogs, TypeOK, store, history, Job
  <2>. QED
    BY <1>1, <2>3, <2>4 DEF Dialogs
<1>2. CASE DialogContact(j)
  <2>1. q.op \notin {"none", "list"}
    BY <1>0, <1>2 DEF DialogContact, At, JobSound, Listing, Working
  <2>2. CASE Goto(j, "chat") /\ UNCHANGED refused /\ NoFault
    <3>1. JobsSound' /\ job' \in [AllJobs -> Job]
      BY <2>1, <2>2, GotoSound DEF Places, Working
    <3>. QED
      BY <1>2, <2>2, <3>1 DEF DialogContact, TypeOK, store, history, NoFault, Job
  <2>3. CASE Throws(j, ~instance)
    <3>1. (~instance) \in BOOLEAN
      OBVIOUS
    <3>. QED
      BY <1>2, <2>1, <2>3, <3>1, ThrowsTypes DEF DialogContact, TypeOK, store, history, Job
  <2>. QED
    BY <1>2, <2>2, <2>3 DEF DialogContact, UpsertContact, NoFault
<1>3. CASE UpsertChat(j)
  <2>1. q.op \notin {"none", "list"}
    BY <1>0, <1>3 DEF UpsertChat, At, JobSound, Listing, Working
  <2>2. ASSUME chat' = Richer(chat, IF job[j].op = "backfill" THEN "named" ELSE "bare"),
               IF job[j].todo = <<>> THEN End(j) ELSE Goto(j, "contact"), NoFault, UNCHANGED refused
        PROVE  TypeOK' /\ JobsSound'
    <3>1. JobsSound' /\ job' \in [AllJobs -> Job]
      BY <2>1, <2>2, NoJob, FreshSound, GotoSound DEF Places, Working, End
    <3>. QED
      BY <1>3, <2>2, <3>1 DEF UpsertChat, Richer, TypeOK, history, NoFault, Job
  <2>3. CASE Throws(j, ~instance) /\ UNCHANGED chat
    <3>1. (~instance) \in BOOLEAN
      OBVIOUS
    <3>. QED
      BY <1>3, <2>1, <2>3, <3>1, ThrowsTypes DEF UpsertChat, TypeOK, history, Job
  <2>. QED
    BY <1>3, <2>2, <2>3 DEF UpsertChat
<1>4. CASE SenderOf(j)
  <2>1. q.pc \in Working /\ q.todo # <<>> /\ (q.op = "list" \/ q.op \notin {"list", "none"})
    BY <1>0, <1>4 DEF SenderOf, At, JobSound, Working
  <2>2. CASE Goto(j, "message") /\ UNCHANGED refused /\ NoFault
    <3>1. JobsSound' /\ job' \in [AllJobs -> Job]
      BY <2>1, <2>2, GotoSound DEF Places, Working, Listing
    <3>. QED
      BY <1>4, <2>2, <3>1 DEF SenderOf, TypeOK, store, history, NoFault, Job
  <2>3. CASE Throws(j, ~instance)
    <3>1. (~instance) \in BOOLEAN
      OBVIOUS
    <3>. QED
      BY <1>4, <2>1, <2>3, <3>1, ThrowsTypes DEF SenderOf, TypeOK, store, history, Job
  <2>. QED
    BY <1>4, <2>2, <2>3 DEF SenderOf, UpsertContact, NoFault
<1>5. CASE UpsertMessage(j)
  <2>1. q.pc \in Working /\ q.todo # <<>> /\ (q.op = "list" \/ q.op \notin {"list", "none"})
    BY <1>0, <1>5 DEF UpsertMessage, At, JobSound, Working
  <2>. DEFINE c == Head(q.todo)
  <2>2. c \in Copy
    BY <1>0, <2>1, HeadTailProperties
  <2>3. CASE /\ rows' = rows \cup {c.id} /\ text' = [text EXCEPT ![c.id] = Merge(@, c.text)]
             /\ Goto(j, "touch") /\ NoFault /\ UNCHANGED refused
    <3>1. JobsSound' /\ job' \in [AllJobs -> Job]
      BY <2>1, <2>3, GotoSound DEF Places, Working, Listing
    <3>2. rows' \subseteq Messages /\ text' \in [Messages -> {"none", "old", "new"}]
      BY <2>2, <2>3 DEF TypeOK, Copy, Merge, Texts
    <3>. QED
      BY <1>5, <2>3, <3>1, <3>2 DEF UpsertMessage, TypeOK, history, NoFault, Job
  <2>4. CASE Throws(j, chat = "absent") /\ UNCHANGED <<rows, text>>
    <3>1. (chat = "absent") \in BOOLEAN
      OBVIOUS
    <3>. QED
      BY <1>5, <2>1, <2>4, <3>1, ThrowsTypes DEF UpsertMessage, TypeOK, history, Job
  <2>. QED
    BY <1>5, <2>3, <2>4 DEF UpsertMessage
<1>6. CASE Touch(j)
  <2>1. q.pc \in Working /\ q.todo # <<>>
    BY <1>0, <1>6 DEF Touch, At, JobSound, Working
  <2>. DEFINE m == Head(q.todo).id
  <2>2. m \in Messages
    <3>1. Head(q.todo) \in Copy
      BY <1>0, <2>1, HeadTailProperties
    <3>. QED
      BY <3>1 DEF Copy
  <2>3. CASE /\ lastAt' = Later(m) /\ Done(j) /\ NoFault /\ UNCHANGED refused
             /\ walk' = IF job[j].op = "list" THEN [walk EXCEPT !.fetched = TRUE] ELSE walk
    <3>1. JobsSound' /\ job' \in [AllJobs -> Job]
      BY <2>1, <2>3, DoneSound
    <3>2. lastAt' \in 0..N
      BY <2>2, <2>3 DEF Later, TypeOK, Messages
    <3>3. walk' \in [cursor : 0..N, page : SUBSET Messages, fetched : BOOLEAN, cut : BOOLEAN,
                     shown : SUBSET Messages, ended : BOOLEAN, stock : SUBSET Messages]
      BY <2>3 DEF TypeOK
    <3>. QED
      BY <1>6, <2>3, <3>1, <3>2, <3>3 DEF Touch, TypeOK, history, NoFault, Job
  <2>4. CASE Throws(j, FALSE) /\ UNCHANGED <<lastAt, walk>>
    BY <1>6, <2>1, <2>4, ThrowsTypes DEF Touch, TypeOK, history, Job
  <2>. QED
    BY <1>6, <2>3, <2>4 DEF Touch
<1>. QED
  BY <1>1, <1>2, <1>3, <1>4, <1>5, <1>6 DEF Step

\* The reader pulls only as it lists, and then holds nothing.
LEMMA ReaderAt ==
  ASSUME TypeOK, JobsSound, job[Reader].pc \in {"pull", "page"}
  PROVE  job[Reader].op = "list" /\ job[Reader].todo = <<>> /\ Held(Reader) = {} /\ Reader \in AllJobs
<1>1. Reader \in AllJobs
  BY DEF AllJobs
<1>2. job[Reader].op = "list" /\ job[Reader].todo = <<>>
  BY <1>1, JobIs DEF JobSound
<1>3. Held(Reader) = {}
  BY <1>2, EmptySeq DEF Held
<1>. QED
  BY <1>1, <1>2, <1>3

WalkSet == [cursor : 0..N, page : SUBSET Messages, fetched : BOOLEAN, cut : BOOLEAN,
            shown : SUBSET Messages, ended : BOOLEAN, stock : SUBSET Messages]

\* What Page reads.
Left == Below(rows)
LEMMA LeftIs ==
  ASSUME TypeOK
  PROVE  /\ Left \in SUBSET Messages /\ Left \subseteq rows /\ Newer(Left) \in SUBSET Left
         /\ \A m \in rows : walk.cursor = 0 \/ m < walk.cursor => m \in Left
         /\ Left # Newer(Left) =>
              /\ Oldest(Newer(Left)) \in Messages
              /\ \A m \in Left \ Newer(Left) : m < Oldest(Newer(Left))
<1>1. Left \in SUBSET Messages /\ Left \subseteq rows /\ \A m \in rows : walk.cursor = 0 \/ m < walk.cursor => m \in Left
  BY DEF Left, Below, TypeOK
<1>2. Newer(Left) \in SUBSET Left
  BY <1>1, PageIs
<1>3. ASSUME Left # Newer(Left)
      PROVE  /\ Oldest(Newer(Left)) \in Newer(Left)
             /\ \A m \in Left \ Newer(Left) : m < Oldest(Newer(Left))
  <2>1. Newer(Left) # {} /\ Newer(Left) \in SUBSET Messages
    BY <1>1, <1>2, <1>3, PageIs
  <2>2. Oldest(Newer(Left)) \in Newer(Left)
    BY <2>1, OldestIs
  <2>. QED
    BY <1>1, <2>2, PageIs
<1>. QED
  BY <1>1, <1>2, <1>3

LEMMA AnswerIs ==
  ASSUME TypeOK, JobsSound, NEW items, NEW more \in BOOLEAN, Answer(items, more)
  PROVE  /\ walk'.shown = walk.shown \cup items /\ walk'.page = {} /\ walk'.ended = ~more
         /\ walk'.cursor = IF more THEN Oldest(items) ELSE walk.cursor
         /\ walk'.stock = walk.stock
         /\ items \in SUBSET Messages /\ (more => Oldest(items) \in Messages) => walk' \in WalkSet
         /\ JobsSound' /\ job' \in [AllJobs -> Job]
         /\ Held(Reader)' = {} /\ \A k \in AllJobs \ {Reader} : job'[k] = job[k] /\ Held(k)' = Held(k)
<1>1. walk \in WalkSet
  BY DEF TypeOK, WalkSet
<1>2. /\ walk'.shown = walk.shown \cup items /\ walk'.page = {} /\ walk'.ended = ~more
      /\ walk'.cursor = IF more THEN Oldest(items) ELSE walk.cursor
      /\ walk'.stock = walk.stock
  BY <1>1 DEF Answer, WalkSet
<1>3. ASSUME items \in SUBSET Messages, more => Oldest(items) \in Messages PROVE walk' \in WalkSet
  <2>. DEFINE c == IF more THEN Oldest(items) ELSE walk.cursor
              e == ~more
              sh == walk.shown \cup items
  <2>1. c \in 0..N /\ e \in BOOLEAN /\ sh \in SUBSET Messages
    <3>1. walk.shown \in SUBSET Messages /\ walk.cursor \in 0..N
      BY <1>1 DEF WalkSet
    <3>2. more => Oldest(items) \in 0..N
      BY <1>3 DEF Messages
    <3>. QED
      BY <1>3, <3>1, <3>2
  <2>2. walk' = [walk EXCEPT !.shown = sh, !.page = {}, !.fetched = FALSE, !.cursor = c, !.ended = e]
    BY DEF Answer
  <2>. HIDE DEF c, e, sh
  <2>. QED
    BY <1>1, <2>1, <2>2 DEF WalkSet
<1>4. Reader \in AllJobs /\ job' = [job EXCEPT ![Reader] = Idle]
  BY DEF AllJobs, Answer, End
<1>. QED
  BY <1>2, <1>3, <1>4, NoJob, FreshSound

LEMMA StartPageIs ==
  ASSUME TypeOK, JobsSound, NEW l \in {"pull", "page"}, StartPage(l)
  PROVE  /\ JobsSound' /\ job' \in [AllJobs -> Job]
         /\ Held(Reader)' = {} /\ \A k \in AllJobs \ {Reader} : job'[k] = job[k] /\ Held(k)' = Held(k)
         /\ job'[Reader].pc = l
<1>. DEFINE q == [op |-> "list", pc |-> l, todo |-> <<>>]
<1>1. q \in Job /\ Reader \in AllJobs /\ q.pc = l
  BY EmptySeq DEF Job, Ops, Places, AllJobs
<1>2. job' = [job EXCEPT ![Reader] = q]
  BY DEF StartPage
<1>3. q.op = "list" /\ q.todo = <<>>
  OBVIOUS
<1>. HIDE DEF q
<1>4. job'[Reader].pc = l
  BY <1>1, <1>2 DEF TypeOK
<1>. QED
  BY <1>1, <1>2, <1>3, <1>4, FreshSound

\* What a pull hands to the reader.
LEMMA PullIs ==
  ASSUME TypeOK, JobsSound, Pull
  PROVE  \/ \E ids \in Seq(Messages) :
              /\ ids # <<>> /\ \A i \in 1..Len(ids) : tg[ids[i]] \in Texts
              /\ \A i, k \in 1..Len(ids) : ids[i] = ids[k] => i = k
              /\ Hand(Reader, "list", "contact", ids)
              /\ UNCHANGED walk /\ NoFault /\ online /\ chat # "absent"
         \/ /\ Goto(Reader, "page") /\ UNCHANGED history /\ (Fault \/ NoFault)
            /\ walk' \in WalkSet /\ walk'.cursor = walk.cursor /\ walk'.page = walk.page
            /\ walk'.shown = walk.shown /\ walk'.ended = walk.ended /\ walk'.stock = walk.stock
<1>. DEFINE S == {m \in Sent : walk.page = {} \/ m < Oldest(walk.page)}
            ids == Newest(S, PullLimit)
<1>1. S \in SUBSET Messages /\ PullLimit \in Nat /\ \A m \in S : tg[m] \in Texts
  BY SentIs
<1>. HIDE DEF S
<1>2. ids \in Seq(S) /\ \A i, k \in 1..Len(ids) : ids[i] = ids[k] => i = k
  BY <1>1, NewestIs
<1>. HIDE DEF ids
<1>3. ids \in Seq(Messages) /\ \A i \in 1..Len(ids) : tg[ids[i]] \in Texts
  BY <1>1, <1>2, SeqMonotonic, ElementOfSeq
<1>4. \/ online /\ chat # "absent" /\ ids # <<>> /\ Hand(Reader, "list", "contact", ids) /\ NoFault /\ UNCHANGED walk
      \/ /\ Fault \/ NoFault
         /\ \E b \in BOOLEAN : walk' = [walk EXCEPT !.cut = b]
         /\ Goto(Reader, "page") /\ UNCHANGED history
  <2>1. walk.cut \in BOOLEAN
    BY DEF TypeOK
  <2>2. (walk.cut \/ ids # <<>>) \in BOOLEAN
    OBVIOUS
  <2>3. [walk EXCEPT !.cut = @ \/ ids # <<>>] = [walk EXCEPT !.cut = (walk.cut \/ ids # <<>>)]
    OBVIOUS
  <2>. QED
    BY <2>2, <2>3 DEF Pull, ids, S
<1>5. ASSUME NEW b \in BOOLEAN, walk' = [walk EXCEPT !.cut = b]
      PROVE  /\ walk' \in WalkSet /\ walk'.cursor = walk.cursor /\ walk'.page = walk.page
             /\ walk'.shown = walk.shown /\ walk'.ended = walk.ended /\ walk'.stock = walk.stock
  BY <1>5 DEF TypeOK, WalkSet
<1>. QED
  BY <1>2, <1>3, <1>4, <1>5

LEMMA ReaderTypes ==
  ASSUME TypeOK, JobsSound, OpenChat \/ NextPage \/ Pull \/ Page
  PROVE  TypeOK' /\ JobsSound'
<1>1. CASE OpenChat
  <2>1. walk' \in WalkSet
    <3>1. NoWalk \in WalkSet
      BY DEF NoWalk, WalkSet
    <3>2. walk' = [NoWalk EXCEPT !.stock = rows] /\ rows \in SUBSET Messages
      BY <1>1 DEF OpenChat, TypeOK
    <3>. QED
      BY <3>1, <3>2 DEF WalkSet
  <2>. QED
    BY <1>1, <2>1, StartPageIs DEF OpenChat, TypeOK, store, history, Job, WalkSet
<1>2. CASE NextPage
  <2>1. walk' \in WalkSet
    BY <1>2 DEF NextPage, WalkSet, TypeOK
  <2>. QED
    BY <1>2, <2>1, StartPageIs DEF NextPage, TypeOK, store, history, Job, WalkSet
<1>3. CASE Pull
  <2>0. job[Reader].pc = "pull" /\ tg' = tg /\ UNCHANGED <<online, store, edits, refused>>
    BY <1>3 DEF Pull, At
  <2>1. ASSUME NEW ids \in Seq(Messages), ids # <<>>, \A i \in 1..Len(ids) : tg[ids[i]] \in Texts,
               \A i, k \in 1..Len(ids) : ids[i] = ids[k] => i = k,
               Hand(Reader, "list", "contact", ids), UNCHANGED walk, NoFault
        PROVE  TypeOK' /\ JobsSound'
    <3>1. JobsSound' /\ job' \in [AllJobs -> Job] /\ latest' \in [Messages -> {"none", "old", "new"}]
            /\ raced' \subseteq Messages
      BY <2>0, <2>1, ReaderAt, HandSound
    <3>. QED
      BY <2>0, <2>1, <3>1 DEF TypeOK, store, NoFault, Job
  <2>2. CASE Goto(Reader, "page") /\ UNCHANGED history /\ (Fault \/ NoFault) /\ walk' \in WalkSet
    <3>1. JobsSound' /\ job' \in [AllJobs -> Job]
      BY <2>0, <2>2, ReaderAt, GotoSound DEF Places, Working, Listing
    <3>. QED
      BY <2>0, <2>2, <3>1, FaultTypes DEF TypeOK, store, history, Job, WalkSet
  <2>. QED
    BY <1>3, <2>1, <2>2, PullIs
<1>4. CASE Page
  <2>. DEFINE items == Newer(Left)
              more == Left # items
  <2>1. job[Reader].pc = "page" /\ UNCHANGED <<tg, online, store, edits, faults, history, refused>>
    BY <1>4 DEF Page, At
  <2>2. items \in SUBSET Messages /\ (more => Oldest(items) \in Messages) /\ more \in BOOLEAN
    BY LeftIs
  <2>. HIDE DEF items, more
  <2>3. \/ Answer(items, more) \/ Answer(walk.page, FALSE)
        \/ walk' = [walk EXCEPT !.page = items, !.fetched = FALSE] /\ Goto(Reader, "pull")
    BY <1>4 DEF Page, Newer, Left, items, more
  <2>4. CASE Answer(items, more) \/ Answer(walk.page, FALSE)
    <3>1. walk.page \in SUBSET Messages
      BY DEF TypeOK
    <3>2. JobsSound' /\ job' \in [AllJobs -> Job] /\ walk' \in WalkSet
      <4>1. ASSUME NEW its \in SUBSET Messages, NEW mo \in BOOLEAN, mo => Oldest(its) \in Messages,
                   Answer(its, mo)
            PROVE  JobsSound' /\ job' \in [AllJobs -> Job] /\ walk' \in WalkSet
        BY <4>1, AnswerIs
      <4>. QED
        BY <2>2, <2>4, <3>1, <4>1
    <3>. QED
      BY <2>1, <3>2 DEF TypeOK, store, history, Job, WalkSet
  <2>5. CASE walk' = [walk EXCEPT !.page = items, !.fetched = FALSE] /\ Goto(Reader, "pull")
    <3>1. walk' \in WalkSet
      BY <2>2, <2>5 DEF TypeOK, WalkSet
    <3>2. JobsSound' /\ job' \in [AllJobs -> Job]
      BY <2>1, <2>5, ReaderAt, GotoSound DEF Places, Working, Listing
    <3>. QED
      BY <2>1, <3>1, <3>2 DEF TypeOK, store, history, Job, WalkSet
  <2>. QED
    BY <2>3, <2>4, <2>5
<1>. QED
  BY <1>1, <1>2, <1>3, <1>4

LEMMA TypesStep == TypeOK /\ JobsSound /\ Next => TypeOK' /\ JobsSound'
BY TelegramTypes, InstanceTypes, StepTypes, ReaderTypes DEF Next

-----------------------------------------------------------------------------
(* The store *)

StoreInv == ChatFirst /\ NoForeignKeyRefused /\ RaceSeen /\ TextKept /\ ActivityCovers

LEMMA StoreInit == Init => StoreInv
<1>. SUFFICES ASSUME Init PROVE StoreInv
  OBVIOUS
<1>1. \A j \in AllJobs : job[j] = Idle /\ Len(job[j].todo) = 0 /\ job[j].pc = "idle"
  BY NoJob, EmptySeq DEF Init
<1>2. \A j \in AllJobs : Held(j) = {}
  BY <1>1 DEF Held
<1>3. ChatFirst /\ NoForeignKeyRefused /\ RaceSeen /\ ActivityCovers
  BY <1>1, <1>2 DEF ChatFirst, NoForeignKeyRefused, RaceSeen, ActivityCovers, Working, Init
<1>4. TextKept
  BY <1>1 DEF TextKept, Init
<1>. QED
  BY <1>3, <1>4 DEF StoreInv

\* Copies are handed to a job that holds none.
LEMMA StoreHand ==
  ASSUME TypeOK, JobsSound, StoreInv,
         NEW j \in AllJobs, NEW o, NEW l, NEW ids \in Seq(Messages), Hand(j, o, l, ids),
         Held(j) = {}, l # "touch", l \in Working => chat # "absent",
         \A i, k \in 1..Len(ids) : ids[i] = ids[k] => i = k,
         UNCHANGED <<store, refused>>, faults' = 0 => faults = 0
  PROVE  StoreInv'
<1>. DEFINE new == {ids[i] : i \in 1..Len(ids)}
<1>0. /\ Len(Copies(ids)) = Len(ids)
      /\ \A i \in 1..Len(ids) : /\ ids[i] \in Messages
                                /\ Copies(ids)[i].id = ids[i] /\ Copies(ids)[i].text = tg'[ids[i]]
      /\ job'[j] = [op |-> o, pc |-> l, todo |-> Copies(ids)]
      /\ \A k \in AllJobs \ {j} : job'[k] = job[k]
      /\ Held(j)' = new
      /\ \A k \in AllJobs \ {j} : Held(k)' = Held(k)
  BY HandIs
<1>1. /\ new \in SUBSET Messages
      /\ \A m \in Messages : latest'[m] = IF m \in new THEN Merge(latest[m], tg'[m]) ELSE latest[m]
      /\ raced \subseteq raced'
      /\ \A m \in new : \A k \in AllJobs \ {j} : m \in Held(k) => m \in raced'
  <2>1. new \in SUBSET Messages
    BY <1>0
  <2>2. \A m : m \in new <=> \E i \in 1..Len(ids) : ids[i] = m
    OBVIOUS
  <2>. HIDE DEF new
  <2>. QED
    BY <2>1, <2>2 DEF Hand
<1>2. job'[j].pc = l /\ job'[j].todo = Copies(ids)
  BY <1>0
<1>3. \A i \in 1..Len(ids) : ids[i] \in new
  OBVIOUS
<1>. HIDE DEF new
<1>4. ChatFirst' /\ NoForeignKeyRefused'
  BY <1>0, <1>2 DEF StoreInv, ChatFirst, NoForeignKeyRefused, store
<1>5. RaceSeen'
  BY <1>0, <1>1 DEF StoreInv, RaceSeen
<1>6. ActivityCovers'
  BY <1>0 DEF StoreInv, ActivityCovers, store
<1>7. TextKept'
  <2>. SUFFICES ASSUME faults' = 0, instance' PROVE TextKept'
    BY DEF TextKept
  <2>0. faults = 0 /\ instance /\ text' = text
    BY DEF store
  <2>1. \A m \in Messages \ raced : (\A k \in AllJobs : m \notin Held(k)) => text[m] = latest[m]
    BY <2>0 DEF StoreInv, TextKept
  <2>2. ASSUME NEW m \in Messages \ raced', \A k \in AllJobs : m \notin Held(k)' PROVE text[m] = latest'[m]
    <3>1. m \notin new /\ \A k \in AllJobs : m \notin Held(k)
      BY <1>0, <2>2
    <3>. QED
      BY <1>1, <2>1, <3>1
  <2>3. ASSUME NEW i \in 1..Len(ids), ids[i] \notin raced'
        PROVE  Pending(j, i)' /\ latest'[ids[i]] = Merge(text[ids[i]], tg'[ids[i]])
    <3>1. ids[i] \in Messages \ raced /\ \A k \in AllJobs : ids[i] \notin Held(k)
      BY <1>0, <1>1, <1>3, <2>3
    <3>2. text[ids[i]] = latest[ids[i]]
      BY <2>1, <3>1
    <3>. QED
      BY <1>1, <1>2, <1>3, <3>1, <3>2 DEF Pending, At
  <2>4. ASSUME NEW k \in AllJobs \ {j}, NEW i \in 1..Len(job[k].todo), job[k].todo[i].id \notin raced'
        PROVE  latest'[job[k].todo[i].id] = IF Pending(k, i)' THEN Merge(text[job[k].todo[i].id], job[k].todo[i].text)
                                                              ELSE text[job[k].todo[i].id]
    <3>. DEFINE c == job[k].todo[i]
    <3>1. c.id \in Messages /\ c.id \in Held(k)
      BY JobIs DEF Held
    <3>2. c.id \notin new /\ c.id \notin raced
      BY <1>1, <2>4, <3>1
    <3>3. latest'[c.id] = latest[c.id]
      BY <1>1, <3>1, <3>2
    <3>4. Pending(k, i)' = Pending(k, i)
      BY <1>0 DEF Pending, At
    <3>. QED
      BY <2>0, <3>2, <3>3, <3>4 DEF StoreInv, TextKept
  <2>. QED
    BY <1>0, <1>2, <2>0, <2>2, <2>3, <2>4 DEF TextKept
<1>. QED
  BY <1>4, <1>5, <1>6, <1>7 DEF StoreInv

\* A job moves on, or is replaced while it holds nothing: what is held and
\* stored stays.
LEMMA StoreKeeps ==
  ASSUME TypeOK, JobsSound, StoreInv, NEW j \in AllJobs,
         \A k \in AllJobs \ {j} : job'[k] = job[k],
         \/ job'[j].todo = job[j].todo
         \/ Held(j) = {} /\ job'[j].todo = <<>>,
         job[j].pc # "touch", job'[j].pc # "touch",
         job'[j].pc \in Working => job[j].pc \in Working \/ chat' # "absent",
         chat # "absent" => chat' # "absent",
         UNCHANGED <<instance, rows, text, lastAt, history, refused>>, faults' = 0 => faults = 0
  PROVE  StoreInv'
<1>1. Held(j)' = Held(j) /\ \A i \in 1..Len(job'[j].todo) : i \in 1..Len(job[j].todo) /\ job'[j].todo[i] = job[j].todo[i]
  <2>1. CASE job'[j].todo = job[j].todo
    BY <2>1 DEF Held
  <2>2. CASE Held(j) = {} /\ job'[j].todo = <<>>
    <3>1. Len(job'[j].todo) = 0
      BY <2>2, EmptySeq
    <3>2. Held(j)' = {}
      BY <3>1 DEF Held
    <3>. QED
      BY <2>2, <3>1, <3>2
  <2>. QED
    BY <2>1, <2>2
<1>2. \A k \in AllJobs : Held(k)' = Held(k)
  <2>1. ASSUME NEW k \in AllJobs \ {j} PROVE Held(k)' = Held(k)
    BY DEF Held
  <2>. QED
    BY <1>1, <2>1
<1>3. ChatFirst' /\ NoForeignKeyRefused' /\ RaceSeen'
  BY <1>2 DEF StoreInv, ChatFirst, NoForeignKeyRefused, RaceSeen, history
<1>4. ActivityCovers'
  BY <1>2 DEF StoreInv, ActivityCovers
<1>5. TextKept'
  <2>. SUFFICES ASSUME faults' = 0, instance' PROVE TextKept'
    BY DEF TextKept
  <2>0. faults = 0 /\ instance /\ UNCHANGED <<text, latest, raced>>
    BY DEF history
  <2>1. \A m \in Messages \ raced' : (\A k \in AllJobs : m \notin Held(k)') => text'[m] = latest'[m]
    BY <1>2, <2>0 DEF StoreInv, TextKept
  <2>2. ASSUME NEW k \in AllJobs, NEW i \in 1..Len(job'[k].todo), job'[k].todo[i].id \notin raced
        PROVE  LET c == job'[k].todo[i] IN
               latest[c.id] = IF Pending(k, i)' THEN Merge(text[c.id], c.text) ELSE text[c.id]
    <3>1. i \in 1..Len(job[k].todo) /\ job'[k].todo[i] = job[k].todo[i]
      BY <1>1
    <3>2. Pending(k, i)' <=> Pending(k, i)
      BY DEF Pending, At
    <3>. QED
      BY <2>0, <2>2, <3>1, <3>2 DEF StoreInv, TextKept
  <2>. QED
    BY <2>0, <2>1, <2>2 DEF TextKept
<1>. QED
  BY <1>3, <1>4, <1>5 DEF StoreInv

\* A statement that throws while its rows are there is a fault.
LEMMA StoreThrows ==
  ASSUME TypeOK, JobsSound, StoreInv, NEW j \in AllJobs, NEW broken \in BOOLEAN, Throws(j, broken),
         broken => ~instance, job[j].pc \in Working \/ job[j].op # "list",
         UNCHANGED <<store, history>>
  PROVE  StoreInv'
<1>1. ~(faults' = 0 /\ instance')
  BY FaultTypes DEF Throws, Fault, TypeOK, store
<1>2. TextKept' /\ ActivityCovers'
  BY <1>1 DEF TextKept, ActivityCovers
<1>3. NoForeignKeyRefused'
  BY DEF Throws, StoreInv, NoForeignKeyRefused
<1>4. RaceSeen'
  <2>1. \A k \in AllJobs : Held(k)' \subseteq Held(k)
    BY DoneIs DEF Throws
  <2>. QED
    BY <2>1 DEF StoreInv, RaceSeen, history
<1>5. ChatFirst'
  <2>1. \A k \in AllJobs : job'[k].pc \in Working => job[k].pc \in Working
    BY DoneIs, NoJob DEF Throws, Working
  <2>. QED
    BY <2>1 DEF StoreInv, ChatFirst, store
<1>. QED
  BY <1>2, <1>3, <1>4, <1>5 DEF StoreInv

\* Nothing the store's invariant speaks of changes.
LEMMA StoreSame ==
  ASSUME StoreInv, UNCHANGED <<job, store, history, faults, refused>>
  PROVE  StoreInv'
<1>1. \A k \in AllJobs : Held(k)' = Held(k)
  BY DEF Held
<1>2. ChatFirst' /\ NoForeignKeyRefused' /\ RaceSeen' /\ ActivityCovers'
  BY <1>1 DEF StoreInv, ChatFirst, NoForeignKeyRefused, RaceSeen, ActivityCovers, store, history
<1>3. TextKept'
  BY <1>1 DEF StoreInv, TextKept, Pending, At, store, history
<1>. QED
  BY <1>2, <1>3 DEF StoreInv

LEMMA EmptyHanded ==
  ASSUME TypeOK, JobsSound, NEW j \in AllJobs, job[j].pc \in {"idle", "dialogs", "pull", "page"}
  PROVE  job[j].todo = <<>> /\ Held(j) = {}
<1>1. job[j].todo = <<>> /\ Len(job[j].todo) = 0
  BY JobIs DEF JobSound
<1>. QED
  BY <1>1 DEF Held

LEMMA StoreTelegram ==
  ASSUME TypeOK, JobsSound, StoreInv,
         NewMessage \/ Send \/ \E m \in Messages : \E t \in {"new", "cleared"} : EditMessage(m, t)
  PROVE  StoreInv'
<1>1. ASSUME NEW m \in Messages, NEW j \in Jobs, NEW o \in {"new", "edited", "send"},
             At(j, "idle"), Hand(j, o, "chat", <<m>>), UNCHANGED <<store, refused, faults>>
      PROVE  StoreInv'
  <2>1. j \in AllJobs /\ Held(j) = {}
    BY <1>1, EmptyHanded DEF AllJobs, At
  <2>2. <<m>> \in Seq(Messages) /\ \A i, k \in 1..Len(<<m>>) : <<m>>[i] = <<m>>[k] => i = k
    BY OneMessage
  <2>3. "chat" # "touch" /\ "chat" \notin Working
    BY DEF Working
  <2>. QED
    BY <1>1, <2>1, <2>2, <2>3, StoreHand
<1>2. /\ UNCHANGED <<store, refused, faults>>
      /\ \/ UNCHANGED <<job, history>>
         \/ \E m \in Messages : \E j \in Jobs : \E o \in {"new", "edited", "send"} :
              At(j, "idle") /\ Hand(j, o, "chat", <<m>>)
  BY DEF NewMessage, Send, EditMessage
<1>. QED
  BY <1>1, <1>2, StoreSame

LEMMA StoreInstance ==
  ASSUME TypeOK, JobsSound, StoreInv, Authorize \/ Disconnect \/ RemoveInstance
  PROVE  StoreInv'
<1>1. CASE Authorize
  <2>1. Backfill \in AllJobs /\ job[Backfill].pc = "idle"
    BY <1>1 DEF AllJobs, Authorize, At
  <2>2. Held(Backfill) = {}
    BY <2>1, EmptyHanded
  <2>3. /\ \A k \in AllJobs \ {Backfill} : job'[k] = job[k]
        /\ job'[Backfill].pc = "dialogs" /\ job'[Backfill].todo = <<>>
    BY <1>1, <2>1 DEF Authorize, TypeOK
  <2>. QED
    BY <1>1, <2>1, <2>2, <2>3, StoreKeeps DEF Authorize, store, Working
<1>2. CASE Disconnect
  BY <1>2, StoreSame DEF Disconnect
<1>3. CASE RemoveInstance
  <2>1. \A k \in AllJobs : Held(k)' = Held(k)
    BY <1>3 DEF RemoveInstance, Held
  <2>. QED
    BY <1>3, <2>1 DEF RemoveInstance, StoreInv, ChatFirst, NoForeignKeyRefused, RaceSeen, TextKept,
                      ActivityCovers, history
<1>. QED
  BY <1>1, <1>2, <1>3

LEMMA StoreDialogs ==
  ASSUME TypeOK, JobsSound, StoreInv, NEW j \in AllJobs, Dialogs(j)
  PROVE  StoreInv'
<1>1. Held(j) = {} /\ job[j].pc = "dialogs" /\ (faults' = 0 => faults = 0) /\ UNCHANGED <<store, refused>>
  BY EmptyHanded, FaultTypes DEF Dialogs, At
<1>2. CASE Hand(j, "backfill", "dialogContact", Newest(Sent, 1))
  <2>. DEFINE ids == Newest(Sent, 1)
  <2>1. ids \in Seq(Sent) /\ \A i, k \in 1..Len(ids) : ids[i] = ids[k] => i = k
    BY SentIs, NewestIs
  <2>. HIDE DEF ids
  <2>2. ids \in Seq(Messages)
    BY <2>1, SentIs, SeqMonotonic
  <2>3. Hand(j, "backfill", "dialogContact", ids) /\ "dialogContact" # "touch" /\ "dialogContact" \notin Working
    BY <1>2 DEF ids, Working
  <2>. QED
    BY <1>1, <2>1, <2>2, <2>3, StoreHand
<1>3. CASE End(j) /\ UNCHANGED history
  <2>1. job'[j] = Idle /\ \A k \in AllJobs \ {j} : job'[k] = job[k]
    BY <1>3 DEF End, TypeOK
  <2>2. job'[j].todo = <<>> /\ job'[j].pc = "idle"
    BY <2>1, NoJob
  <2>. QED
    BY <1>1, <1>3, <2>1, <2>2, StoreKeeps DEF store, Working
<1>. QED
  BY <1>2, <1>3 DEF Dialogs

LEMMA StoreContact ==
  ASSUME TypeOK, JobsSound, StoreInv, NEW j \in AllJobs, DialogContact(j) \/ SenderOf(j)
  PROVE  StoreInv'
<1>1. PICK next \in {"chat", "message"} :
        /\ At(j, IF next = "chat" THEN "dialogContact" ELSE "contact")
        /\ UNCHANGED <<store, history>>
        /\ (Goto(j, next) /\ UNCHANGED <<faults, refused>>) \/ Throws(j, ~instance)
  BY DEF DialogContact, SenderOf, UpsertContact, NoFault
<1>2. CASE Goto(j, next) /\ UNCHANGED <<faults, refused>>
  <2>1. job'[j].pc = next /\ job'[j].todo = job[j].todo /\ \A k \in AllJobs \ {j} : job'[k] = job[k]
    BY <1>2, GotoIs
  <2>2. job[j].pc # "touch" /\ next # "touch" /\ (next \in Working => job[j].pc \in Working)
    BY <1>1 DEF At, Working
  <2>. QED
    BY <1>1, <1>2, <2>1, <2>2, StoreKeeps DEF store
<1>3. CASE Throws(j, ~instance)
  <2>1. (~instance) \in BOOLEAN
    OBVIOUS
  <2>2. job[j].pc \in Working \/ job[j].op # "list"
    BY <1>1, JobIs DEF At, JobSound, Working, Listing
  <2>. QED
    BY <1>1, <1>3, <2>1, <2>2, StoreThrows
<1>. QED
  BY <1>1, <1>2, <1>3

LEMMA StoreChat ==
  ASSUME TypeOK, JobsSound, StoreInv, NEW j \in AllJobs, UpsertChat(j)
  PROVE  StoreInv'
<1>1. job[j].pc = "chat" /\ job[j].op # "list" /\ UNCHANGED <<instance, rows, text, lastAt, history>>
  BY JobIs DEF UpsertChat, At, JobSound, Listing, Working
<1>2. ASSUME chat' = Richer(chat, IF job[j].op = "backfill" THEN "named" ELSE "bare"),
             IF job[j].todo = <<>> THEN End(j) ELSE Goto(j, "contact"), NoFault, UNCHANGED refused
      PROVE  StoreInv'
  <2>1. chat' # "absent" /\ faults' = faults
    BY <1>2 DEF Richer, NoFault
  <2>2. /\ \A k \in AllJobs \ {j} : job'[k] = job[k]
        /\ job'[j].todo = job[j].todo /\ job'[j].pc # "touch"
    <3>1. CASE job[j].todo = <<>>
      BY <1>2, <3>1, NoJob DEF End, TypeOK
    <3>2. CASE job[j].todo # <<>>
      BY <1>2, <3>2, GotoIs
    <3>. QED
      BY <3>1, <3>2
  <2>. QED
    BY <1>1, <1>2, <2>1, <2>2, StoreKeeps
<1>3. CASE Throws(j, ~instance) /\ UNCHANGED chat
  <2>1. (~instance) \in BOOLEAN
    OBVIOUS
  <2>. QED
    BY <1>1, <1>3, <2>1, StoreThrows DEF store
<1>. QED
  BY <1>2, <1>3 DEF UpsertChat

LEMMA StoreMessage ==
  ASSUME TypeOK, JobsSound, StoreInv, NEW j \in AllJobs, UpsertMessage(j)
  PROVE  StoreInv'
<1>. DEFINE q == job[j]
            c == q.todo[1]
<1>1. /\ q.pc = "message" /\ q.pc \in Working /\ UNCHANGED <<instance, chat, lastAt, history>>
      /\ q.todo # <<>> /\ Head(q.todo) = c /\ 1 \in 1..Len(q.todo) /\ c \in Copy /\ c.id \in Held(j)
      /\ \A i \in 1..Len(q.todo) : i # 1 => q.todo[i].id # c.id
  <2>1. q.pc = "message" /\ q.pc \in Working /\ UNCHANGED <<instance, chat, lastAt, history>>
    BY DEF UpsertMessage, At, Working
  <2>2. JobSound(j) /\ Len(q.todo) \in Nat /\ (q.todo = <<>> <=> Len(q.todo) = 0) /\ q.todo \in Seq(Copy)
    BY JobIs
  <2>3. q.todo # <<>>
    BY <2>1, <2>2 DEF JobSound
  <2>4. Head(q.todo) = c /\ 1 \in 1..Len(q.todo)
    BY <2>2, <2>3
  <2>5. c \in Copy /\ c.id \in Held(j)
    BY <2>4, JobIs DEF Held
  <2>6. \A i \in 1..Len(q.todo) : i # 1 => q.todo[i].id # c.id
    BY <2>2, <2>4 DEF JobSound
  <2>. QED
    BY <2>1, <2>3, <2>4, <2>5, <2>6
<1>2. ASSUME instance, chat # "absent", rows' = rows \cup {c.id},
             text' = [text EXCEPT ![c.id] = Merge(@, c.text)],
             Goto(j, "touch"), NoFault, UNCHANGED refused
      PROVE  StoreInv'
  <2>0. /\ job'[j].pc = "touch" /\ job'[j].todo = q.todo /\ \A k \in AllJobs \ {j} : job'[k] = job[k]
        /\ \A k \in AllJobs : Held(k)' = Held(k)
    BY <1>2, GotoIs
  <2>1. ChatFirst' /\ NoForeignKeyRefused' /\ RaceSeen'
    BY <1>1, <1>2, <2>0 DEF StoreInv, ChatFirst, NoForeignKeyRefused, RaceSeen, history
  <2>2. ActivityCovers'
    BY <1>1, <1>2, <2>0 DEF StoreInv, ActivityCovers, NoFault
  <2>3. TextKept'
    <3>. SUFFICES ASSUME faults' = 0 PROVE TextKept'
      BY DEF TextKept
    <3>0. faults = 0 /\ instance /\ UNCHANGED <<latest, raced>>
      BY <1>1, <1>2 DEF NoFault, history
    <3>1. /\ \A m \in Messages \ raced : (\A k \in AllJobs : m \notin Held(k)) => text[m] = latest[m]
          /\ \A k \in AllJobs : \A i \in 1..Len(job[k].todo) : job[k].todo[i].id \notin raced =>
               latest[job[k].todo[i].id] = IF Pending(k, i) THEN Merge(text[job[k].todo[i].id], job[k].todo[i].text)
                                                            ELSE text[job[k].todo[i].id]
      BY <3>0 DEF StoreInv, TextKept
    <3>2. \A m \in Messages : text'[m] = IF m = c.id THEN Merge(text[m], c.text) ELSE text[m]
      BY <1>2 DEF TypeOK
    <3>3. ASSUME NEW m \in Messages \ raced, \A k \in AllJobs : m \notin Held(k)' PROVE text'[m] = latest[m]
      <4>1. m # c.id /\ \A k \in AllJobs : m \notin Held(k)
        BY <1>1, <2>0, <3>3
      <4>. QED
        BY <3>1, <3>2, <4>1
    <3>4. ASSUME NEW k \in AllJobs \ {j}, NEW i \in 1..Len(job[k].todo), job[k].todo[i].id \notin raced
          PROVE  latest[job[k].todo[i].id] = IF Pending(k, i)' THEN Merge(text'[job[k].todo[i].id], job[k].todo[i].text)
                                                               ELSE text'[job[k].todo[i].id]
      <4>1. job[k].todo[i].id \in Messages /\ job[k].todo[i].id \in Held(k)
        BY JobIs DEF Held
      <4>2. job[k].todo[i].id # c.id
        BY <1>1, <3>4, <4>1 DEF StoreInv, RaceSeen
      <4>3. Pending(k, i)' = Pending(k, i)
        BY <2>0 DEF Pending, At
      <4>4. text'[job[k].todo[i].id] = text[job[k].todo[i].id]
        BY <3>2, <4>1, <4>2
      <4>. QED
        BY <3>1, <3>4, <4>3, <4>4
    <3>5. ASSUME NEW i \in 1..Len(q.todo), q.todo[i].id \notin raced
          PROVE  latest[q.todo[i].id] = IF Pending(j, i)' THEN Merge(text'[q.todo[i].id], q.todo[i].text)
                                                          ELSE text'[q.todo[i].id]
      <4>1. q.todo[i].id \in Messages
        BY JobIs
      <4>2. Pending(j, i) /\ (Pending(j, i)' <=> i # 1)
        BY <1>1, <2>0 DEF Pending, At
      <4>3. latest[q.todo[i].id] = Merge(text[q.todo[i].id], q.todo[i].text)
        BY <3>1, <3>5, <4>2
      <4>4. CASE i = 1
        BY <3>2, <4>1, <4>2, <4>3, <4>4
      <4>5. CASE i # 1
        BY <1>1, <3>2, <4>1, <4>2, <4>3, <4>5
      <4>. QED
        BY <4>4, <4>5
    <3>6. \A m \in Messages \ raced' : (\A k \in AllJobs : m \notin Held(k)') => text'[m] = latest'[m]
      BY <3>0, <3>3
    <3>7. ASSUME NEW k \in AllJobs, NEW i \in 1..Len(job'[k].todo), job'[k].todo[i].id \notin raced'
          PROVE  latest'[job'[k].todo[i].id] =
                   IF Pending(k, i)' THEN Merge(text'[job'[k].todo[i].id], job'[k].todo[i].text)
                                     ELSE text'[job'[k].todo[i].id]
      <4>1. CASE k = j
        BY <2>0, <3>0, <3>5, <3>7, <4>1
      <4>2. CASE k # j
        BY <2>0, <3>0, <3>4, <3>7, <4>2
      <4>. QED
        BY <4>1, <4>2
    <3>. QED
      BY <3>6, <3>7 DEF TextKept
  <2>. QED
    BY <2>1, <2>2, <2>3 DEF StoreInv
<1>3. CASE Throws(j, chat = "absent") /\ UNCHANGED <<rows, text>>
  <2>1. (chat = "absent") \in BOOLEAN
    OBVIOUS
  <2>2. chat = "absent" => ~instance
    BY <1>1 DEF StoreInv, ChatFirst
  <2>. QED
    BY <1>1, <1>3, <2>1, <2>2, StoreThrows DEF store
<1>. QED
  BY <1>1, <1>2, <1>3 DEF UpsertMessage

LEMMA StoreTouch ==
  ASSUME TypeOK, JobsSound, StoreInv, NEW j \in AllJobs, Touch(j)
  PROVE  StoreInv'
<1>. DEFINE q == job[j]
            m == Head(q.todo).id
<1>1. q.pc = "touch" /\ q.pc \in Working /\ UNCHANGED <<instance, chat, rows, text, history>>
  BY DEF Touch, At, Working
<1>2. /\ JobSound(j) /\ q.todo # <<>> /\ 1 \in 1..Len(q.todo) /\ Head(q.todo) = q.todo[1]
      /\ m \in Messages /\ m \in Held(j)
  <2>1. JobSound(j) /\ Len(q.todo) \in Nat /\ (q.todo = <<>> <=> Len(q.todo) = 0) /\ q.todo \in Seq(Copy)
    BY JobIs
  <2>2. q.todo # <<>> /\ 1 \in 1..Len(q.todo) /\ Head(q.todo) = q.todo[1]
    BY <1>1, <2>1 DEF JobSound
  <2>3. m \in Messages /\ m \in Held(j)
    BY <2>2, JobIs DEF Held
  <2>. QED
    BY <2>1, <2>2, <2>3
<1>3. ASSUME lastAt' = Later(m), Done(j), NoFault, UNCHANGED refused PROVE StoreInv'
  <2>0. /\ \A k \in AllJobs \ {j} : job'[k] = job[k] /\ Held(k)' = Held(k)
        /\ Held(j)' \subseteq Held(j) /\ Held(j) \subseteq Held(j)' \cup {m}
        /\ job'[j].pc # "touch"
        /\ \A i \in 1..Len(job'[j].todo) : i + 1 \in 1..Len(q.todo) /\ job'[j].todo[i] = q.todo[i + 1]
    <3>1. Len(Idle.todo) = 0
      BY NoJob, EmptySeq
    <3>2. job'[j].pc # "touch"
      BY <1>1, <1>3, DoneIs, NoJob
    <3>3. \A i \in 1..Len(job'[j].todo) : i + 1 \in 1..Len(q.todo) /\ job'[j].todo[i] = q.todo[i + 1]
      BY <1>1, <1>3, <3>1, DoneIs
    <3>. QED
      BY <1>1, <1>3, <3>2, <3>3, DoneIs
  <2>1. ChatFirst' /\ NoForeignKeyRefused' /\ RaceSeen'
    <3>1. \A k \in AllJobs : job'[k].pc \in Working => job[k].pc \in Working
      BY <1>1, <2>0
    <3>2. \A k \in AllJobs : Held(k)' \subseteq Held(k)
      BY <2>0
    <3>. QED
      BY <1>1, <1>3, <3>1, <3>2 DEF StoreInv, ChatFirst, NoForeignKeyRefused, RaceSeen, history
  <2>2. ActivityCovers'
    <3>. SUFFICES ASSUME faults = 0, instance, NEW r \in rows
                  PROVE  r <= lastAt' \/ \E k \in AllJobs : r \in Held(k)'
      BY <1>1, <1>3 DEF ActivityCovers, NoFault
    <3>1. chat # "absent"
      BY <1>1 DEF StoreInv, ChatFirst
    <3>2. lastAt <= lastAt' /\ m <= lastAt' /\ lastAt \in Nat /\ lastAt' \in Nat /\ r \in Nat
      BY <1>2, <1>3, <3>1 DEF Later, TypeOK, Messages
    <3>3. r <= lastAt \/ \E k \in AllJobs : r \in Held(k)
      BY DEF StoreInv, ActivityCovers
    <3>4. ASSUME NEW k \in AllJobs, r \in Held(k) PROVE r \in Held(k)' \/ r = m
      BY <2>0, <3>4
    <3>. QED
      BY <3>2, <3>3, <3>4
  <2>3. TextKept'
    <3>. SUFFICES ASSUME faults' = 0, instance' PROVE TextKept'
      BY DEF TextKept
    <3>0. faults = 0 /\ instance /\ UNCHANGED <<text, latest, raced>>
      BY <1>1, <1>3 DEF NoFault, history
    <3>1. /\ \A x \in Messages \ raced : (\A k \in AllJobs : x \notin Held(k)) => text[x] = latest[x]
          /\ \A k \in AllJobs : \A i \in 1..Len(job[k].todo) : job[k].todo[i].id \notin raced =>
               latest[job[k].todo[i].id] = IF Pending(k, i) THEN Merge(text[job[k].todo[i].id], job[k].todo[i].text)
                                                            ELSE text[job[k].todo[i].id]
      BY <3>0 DEF StoreInv, TextKept
    <3>2. ASSUME NEW x \in Messages \ raced, \A k \in AllJobs : x \notin Held(k)' PROVE text[x] = latest[x]
      <4>1. CASE x = m
        <5>1. ~Pending(j, 1)
          BY <1>1 DEF Pending, At
        <5>. QED
          BY <1>2, <3>1, <3>2, <4>1, <5>1
      <4>2. CASE x # m
        BY <2>0, <3>1, <3>2, <4>2
      <4>. QED
        BY <4>1, <4>2
    <3>3. ASSUME NEW k \in AllJobs \ {j}, NEW i \in 1..Len(job[k].todo), job[k].todo[i].id \notin raced
          PROVE  latest[job[k].todo[i].id] = IF Pending(k, i)' THEN Merge(text[job[k].todo[i].id], job[k].todo[i].text)
                                                               ELSE text[job[k].todo[i].id]
      <4>1. Pending(k, i)' = Pending(k, i)
        BY <2>0 DEF Pending, At
      <4>. QED
        BY <3>1, <3>3, <4>1
    <3>4. ASSUME NEW i \in 1..Len(job'[j].todo), job'[j].todo[i].id \notin raced
          PROVE  latest[job'[j].todo[i].id] = IF Pending(j, i)' THEN Merge(text[job'[j].todo[i].id], job'[j].todo[i].text)
                                                                ELSE text[job'[j].todo[i].id]
      <4>1. i + 1 \in 1..Len(q.todo) /\ job'[j].todo[i] = q.todo[i + 1] /\ i + 1 # 1
        BY <2>0
      <4>2. Pending(j, i + 1) /\ Pending(j, i)'
        BY <2>0, <4>1 DEF Pending, At
      <4>. QED
        BY <3>1, <3>4, <4>1, <4>2
    <3>5. \A x \in Messages \ raced' : (\A k \in AllJobs : x \notin Held(k)') => text'[x] = latest'[x]
      BY <3>0, <3>2
    <3>6. ASSUME NEW k \in AllJobs, NEW i \in 1..Len(job'[k].todo), job'[k].todo[i].id \notin raced'
          PROVE  latest'[job'[k].todo[i].id] =
                   IF Pending(k, i)' THEN Merge(text'[job'[k].todo[i].id], job'[k].todo[i].text)
                                     ELSE text'[job'[k].todo[i].id]
      <4>1. CASE k = j
        BY <3>0, <3>4, <3>6, <4>1
      <4>2. CASE k # j
        BY <2>0, <3>0, <3>3, <3>6, <4>2
      <4>. QED
        BY <4>1, <4>2
    <3>. QED
      BY <3>5, <3>6 DEF TextKept
  <2>. QED
    BY <2>1, <2>2, <2>3 DEF StoreInv
<1>4. CASE Throws(j, FALSE) /\ UNCHANGED <<lastAt, walk>>
  BY <1>1, <1>4, StoreThrows DEF store
<1>. QED
  BY <1>3, <1>4 DEF Touch

LEMMA StoreReader ==
  ASSUME TypeOK, JobsSound, StoreInv, OpenChat \/ NextPage \/ Pull \/ Page
  PROVE  StoreInv'
<1>0. Reader \in AllJobs /\ job[Reader].pc \in {"idle", "pull", "page"} /\ UNCHANGED <<store, refused>>
  BY DEF AllJobs, OpenChat, NextPage, Pull, Page, At
<1>1. Held(Reader) = {} /\ job[Reader].todo = <<>>
  BY <1>0, EmptyHanded
<1>2. ASSUME \A k \in AllJobs \ {Reader} : job'[k] = job[k], job'[Reader].todo = <<>>,
             job'[Reader].pc \in {"idle", "pull", "page"}, UNCHANGED history, faults' = 0 => faults = 0
      PROVE  StoreInv'
  <2>1. job'[Reader].pc # "touch" /\ job'[Reader].pc \notin Working /\ job[Reader].pc # "touch"
    BY <1>0, <1>2 DEF Working
  <2>. QED
    BY <1>0, <1>1, <1>2, <2>1, StoreKeeps DEF store
<1>3. CASE OpenChat \/ NextPage
  <2>1. PICK l \in {"pull", "page"} : StartPage(l)
    BY <1>3 DEF OpenChat, NextPage
  <2>2. /\ \A k \in AllJobs \ {Reader} : job'[k] = job[k]
        /\ job'[Reader].todo = <<>> /\ job'[Reader].pc = l
    BY <1>0, <2>1 DEF StartPage, TypeOK
  <2>. QED
    BY <1>2, <1>3, <2>2 DEF OpenChat, NextPage
<1>4. CASE Pull
  <2>1. ASSUME NEW ids \in Seq(Messages), \A i, k \in 1..Len(ids) : ids[i] = ids[k] => i = k,
               Hand(Reader, "list", "contact", ids), NoFault, chat # "absent"
        PROVE  StoreInv'
    <3>1. "contact" # "touch" /\ (faults' = 0 => faults = 0)
      BY <2>1 DEF NoFault
    <3>. QED
      BY <1>0, <1>1, <2>1, <3>1, StoreHand
  <2>2. CASE Goto(Reader, "page") /\ UNCHANGED history /\ (Fault \/ NoFault)
    <3>1. \A k \in AllJobs \ {Reader} : job'[k] = job[k]
      BY <1>0, <2>2, GotoIs
    <3>2. job'[Reader].todo = <<>> /\ job'[Reader].pc = "page"
      BY <1>0, <1>1, <2>2, GotoIs
    <3>. QED
      BY <1>2, <2>2, <3>1, <3>2, FaultTypes
  <2>. QED
    BY <1>4, <2>1, <2>2, PullIs
<1>5. CASE Page
  <2>1. End(Reader) \/ Goto(Reader, "pull")
    BY <1>5 DEF Page, Answer
  <2>2. UNCHANGED <<faults, history>>
    BY <1>5 DEF Page
  <2>3. CASE End(Reader)
    BY <1>0, <1>2, <2>2, <2>3, NoJob DEF End, TypeOK
  <2>4. CASE Goto(Reader, "pull")
    BY <1>0, <1>1, <1>2, <2>2, <2>4, GotoIs
  <2>. QED
    BY <2>1, <2>3, <2>4
<1>. QED
  BY <1>3, <1>4, <1>5

-----------------------------------------------------------------------------
(* The walk of a reader *)

LEMMA WalkKeeps ==
  ASSUME WalkAhead, rows \subseteq rows', instance' => instance,
         walk'.stock = walk.stock, walk'.shown = walk.shown, walk'.ended = walk.ended,
         walk'.cursor = walk.cursor, walk'.page = walk.page
  PROVE  WalkAhead'
BY DEF WalkAhead

LEMMA WalkStep ==
  ASSUME TypeOK, JobsSound, WalkAhead, NEW j \in AllJobs, Step(j)
  PROVE  WalkAhead'
<1>1. rows \subseteq rows' /\ instance' = instance
  BY DEF Step, Dialogs, DialogContact, UpsertChat, SenderOf, UpsertMessage, Touch, store
<1>2. walk' = walk \/ walk' = [walk EXCEPT !.fetched = TRUE]
  BY DEF Step, Dialogs, DialogContact, UpsertChat, SenderOf, UpsertMessage, Touch
<1>3. /\ walk'.stock = walk.stock /\ walk'.shown = walk.shown /\ walk'.ended = walk.ended
      /\ walk'.cursor = walk.cursor /\ walk'.page = walk.page
  BY <1>2 DEF TypeOK
<1>. QED
  BY <1>1, <1>3, WalkKeeps

\* A page is answered from what is left below the cursor: what it does not
\* show is older than all it shows, and then the walk has not ended.
LEMMA WalkPage ==
  ASSUME TypeOK, JobsSound, WalkAhead, Page
  PROVE  WalkAhead'
<1>. DEFINE items == Newer(Left)
            more == Left # items
            due == walk.stock \ walk.shown
<1>. SUFFICES ASSUME instance' PROVE WalkAhead'
  BY DEF WalkAhead
<1>1. instance /\ UNCHANGED rows
  BY DEF Page, store
<1>2. /\ walk.stock \subseteq rows
      /\ \A m \in due : ~walk.ended /\ (walk.cursor = 0 \/ m < walk.cursor) /\ (walk.page # {} => m \in walk.page)
  BY <1>1 DEF WalkAhead
<1>3. due \subseteq Left /\ more \in BOOLEAN
  BY <1>2, LeftIs
<1>4. more => \A m \in Left \ items : m < Oldest(items)
  BY LeftIs
<1>. HIDE DEF items, more, due
<1>5. \/ Answer(items, more)
      \/ walk.page # {} /\ Answer(walk.page, FALSE)
      \/ ~more /\ walk' = [walk EXCEPT !.page = items, !.fetched = FALSE]
  BY DEF Page, Newer, Left, items, more
<1>6. CASE Answer(items, more)
  <2>1. /\ walk'.shown = walk.shown \cup items /\ walk'.page = {} /\ walk'.ended = ~more
        /\ walk'.cursor = IF more THEN Oldest(items) ELSE walk.cursor
        /\ walk'.stock = walk.stock
    BY <1>3, <1>6, AnswerIs
  <2>2. ASSUME NEW m \in walk'.stock \ walk'.shown
        PROVE  ~walk'.ended /\ m < walk'.cursor /\ walk'.page = {}
    <3>1. m \in Left \ items
      BY <1>3, <2>1, <2>2 DEF due
    <3>2. more
      BY <3>1 DEF more
    <3>. QED
      BY <1>4, <2>1, <3>1, <3>2
  <2>. QED
    BY <1>1, <1>2, <2>1, <2>2 DEF WalkAhead
<1>7. CASE walk.page # {} /\ Answer(walk.page, FALSE)
  <2>1. walk'.shown = walk.shown \cup walk.page /\ walk'.stock = walk.stock
    <3>. DEFINE page == walk.page
    <3>1. FALSE \in BOOLEAN /\ Answer(page, FALSE)
      BY <1>7
    <3>. HIDE DEF page
    <3>2. walk'.shown = walk.shown \cup page /\ walk'.stock = walk.stock
      BY <3>1, AnswerIs
    <3>. QED
      BY <3>2 DEF page
  <2>2. walk'.stock \ walk'.shown = {}
    BY <1>2, <1>7, <2>1 DEF due
  <2>. QED
    BY <1>1, <1>2, <2>1, <2>2 DEF WalkAhead
<1>8. CASE ~more /\ walk' = [walk EXCEPT !.page = items, !.fetched = FALSE]
  <2>1. /\ walk'.stock = walk.stock /\ walk'.shown = walk.shown /\ walk'.ended = walk.ended
        /\ walk'.cursor = walk.cursor /\ walk'.page = items
    BY <1>8 DEF TypeOK
  <2>2. due \subseteq items
    BY <1>3, <1>8 DEF more
  <2>. QED
    BY <1>1, <1>2, <2>1, <2>2 DEF WalkAhead, due
<1>. QED
  BY <1>5, <1>6, <1>7, <1>8

LEMMA WalkReader ==
  ASSUME TypeOK, JobsSound, WalkAhead, OpenChat \/ NextPage \/ Pull \/ Page
  PROVE  WalkAhead'
<1>1. UNCHANGED <<instance, rows>>
  BY DEF OpenChat, NextPage, Pull, Page, store
<1>2. CASE OpenChat
  <2>1. /\ walk'.stock = rows /\ walk'.shown = {} /\ walk'.ended = FALSE /\ walk'.cursor = 0
        /\ walk'.page = {}
    BY <1>2 DEF OpenChat, NoWalk
  <2>. QED
    BY <1>1, <2>1 DEF WalkAhead
<1>3. CASE NextPage
  <2>1. /\ walk'.stock = walk.stock /\ walk'.shown = walk.shown /\ walk'.ended = walk.ended
        /\ walk'.cursor = walk.cursor /\ walk'.page = {}
    BY <1>3 DEF NextPage, TypeOK
  <2>. QED
    BY <1>1, <2>1 DEF WalkAhead
<1>4. CASE Pull
  <2>1. /\ walk'.stock = walk.stock /\ walk'.shown = walk.shown /\ walk'.ended = walk.ended
        /\ walk'.cursor = walk.cursor /\ walk'.page = walk.page
    BY <1>4, PullIs
  <2>. QED
    BY <1>1, <2>1, WalkKeeps
<1>. QED
  BY <1>2, <1>3, <1>4, WalkPage

-----------------------------------------------------------------------------
(* The theorems *)

LEMMA Start == Init => IInv
<1>. SUFFICES ASSUME Init PROVE IInv
  OBVIOUS
<1>1. WalkAhead
  BY DEF Init, NoWalk, WalkAhead
<1>. QED
  BY <1>1, StartInit, StoreInit DEF IInv, StoreInv

LEMMA Inductive == IInv /\ [Next]_vars => IInv'
<1>. SUFFICES ASSUME IInv, [Next]_vars PROVE IInv'
  OBVIOUS
<1>0. TypeOK /\ JobsSound /\ StoreInv /\ WalkAhead
  BY DEF IInv, StoreInv
<1>1. CASE NewMessage \/ Send \/ \E m \in Messages : \E t \in {"new", "cleared"} : EditMessage(m, t)
  <2>1. UNCHANGED <<instance, rows, walk>>
    BY <1>1 DEF NewMessage, Send, EditMessage, store
  <2>. QED
    BY <1>0, <1>1, <2>1, TelegramTypes, StoreTelegram, WalkKeeps DEF IInv, StoreInv
<1>2. CASE Authorize \/ Disconnect \/ RemoveInstance
  <2>1. WalkAhead'
    <3>1. CASE Authorize \/ Disconnect
      <4>1. UNCHANGED <<instance, rows, walk>>
        BY <3>1 DEF Authorize, Disconnect, store
      <4>. QED
        BY <1>0, <4>1, WalkKeeps
    <3>2. CASE RemoveInstance
      BY <3>2 DEF RemoveInstance, WalkAhead
    <3>. QED
      BY <1>2, <3>1, <3>2
  <2>. QED
    BY <1>0, <1>2, <2>1, InstanceTypes, StoreInstance DEF IInv, StoreInv
<1>3. ASSUME NEW j \in AllJobs, Step(j) PROVE IInv'
  <2>1. StoreInv'
    BY <1>0, <1>3, StoreDialogs, StoreContact, StoreChat, StoreMessage, StoreTouch DEF Step
  <2>2. WalkAhead'
    BY <1>0, <1>3, WalkStep
  <2>3. TypeOK' /\ JobsSound'
    BY <1>0, <1>3, StepTypes
  <2>. QED
    BY <2>1, <2>2, <2>3 DEF IInv, StoreInv
<1>4. CASE OpenChat \/ NextPage \/ Pull \/ Page
  BY <1>0, <1>4, ReaderTypes, StoreReader, WalkReader DEF IInv, StoreInv
<1>5. CASE UNCHANGED vars
  <2>1. TypeOK' /\ JobsSound'
    BY <1>0, <1>5 DEF vars, store, history, TypeOK, JobsSound, JobSound
  <2>2. StoreInv'
    BY <1>0, <1>5, StoreSame DEF vars
  <2>3. WalkAhead'
    BY <1>0, <1>5, WalkKeeps DEF vars, store
  <2>. QED
    BY <2>1, <2>2, <2>3 DEF IInv, StoreInv
<1>. QED
  BY <1>1, <1>2, <1>3, <1>4, <1>5 DEF Next

LEMMA Invariant == Spec => []IInv
BY Start, Inductive, PTL DEF Spec

\* The rows, the copies of every job and the walk stay within the values the
\* schema and the code allow.
THEOREM TypeCorrect == Spec => []TypeOK
<1>1. IInv => TypeOK
  BY DEF IInv
<1>. QED
  BY <1>1, Invariant, PTL

\* A message is upserted only after the chat it refers to, whatever order the
\* backfill, the events, the sends and the pages of history run in.
THEOREM ReferencesHold == Spec => []NoForeignKeyRefused
<1>1. IInv => NoForeignKeyRefused
  BY DEF IInv
<1>. QED
  BY <1>1, Invariant, PTL

\* touchChat after every message: as long as no statement fails, a chat's
\* lastMessageAt covers each of its rows no job is at work on.
THEOREM ActivityIsCovered == Spec => []ActivityCovers
<1>1. IInv => ActivityCovers
  BY DEF IInv
<1>. QED
  BY <1>1, Invariant, PTL

\* The upsert of messages, which leaves the text alone when it is not given:
\* a row no two jobs raced for holds the last text any source was handed.
THEOREM LastTextStays == Spec => []QuietIsFresh
<1>1. IInv => QuietIsFresh
  BY DEF IInv, TypeOK, TextKept, QuietIsFresh
<1>. QED
  BY <1>1, Invariant, PTL

\* listByChat and its cursor: a client that pages to the end has been shown
\* every message that was stored when it began.
THEOREM WalkIsComplete == Spec => []WalkCoversStore
<1>1. IInv => WalkCoversStore
  BY DEF IInv, WalkAhead, WalkCoversStore
<1>. QED
  BY <1>1, Invariant, PTL

=============================================================================
