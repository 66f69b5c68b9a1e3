--------------------------- MODULE UserAdmin_proofs ---------------------------
(***************************************************************************)
(* Theorems about BootChain and UserAdmin for every value of the           *)
(* constants: any number of users, names, secrets and requests at a time,  *)
(* of deaths, failing statements and changes of the environment.           *)
(***************************************************************************)
EXTENDS UserAdmin, TLAPS

USE BootAssumption DEF BootAssumption

\* What is up was started after what it depends on.
InOrder ==
  /\ api # "off" => "api" \in started
  /\ "api" \in started => "migrate" \in started
  /\ "migrate" \in started => migrated /\ "init-db" \in started
  /\ "init-db" \in started => accepting

\* A secret of the operator is the same in every process.  A generated one is
\* in the file, or on its way into the file while it is rewritten, from the
\* moment an API has listened with it.
SecretKept(s) ==
  IF s \in given
    THEN /\ served[s] \in {0, 1}
         /\ api \in {"write", "written"} \cup SeedPlaces => env[s] = 1
    ELSE /\ served[s] # 0 => IF api = "written" THEN pending[s] = served[s] ELSE file[s] = served[s]
         /\ api = "write" => pending[s] = env[s] /\ (file[s] # 0 => pending[s] = file[s])
         /\ api = "written" => pending[s] = env[s]
         /\ api \in SeedPlaces => file[s] = env[s]

SecretsKept == \A s \in Secrets \ excused : SecretKept(s)

\* The row a seed promotes is there, the one it is about to register is not, and
\* rows are made under new ids.
SeedRow ==
  /\ api \in {"promote", "setAdmin"} => found \in Ids /\ Exists(found)
  /\ api = "register" => \A i \in Ids : row[i].name # SeedName
  /\ \A i \in Ids : Exists(i) => i \in used

\* Without explicit credentials the seed gets past its count on an empty table
\* only.
SeedAlone ==
  ~explicit =>
    /\ api # "promote"
    /\ api \in {"find", "register", "create"} => \A i \in Ids : ~Exists(i)
    /\ api = "setAdmin" => \A i \in Ids : Exists(i) => i = found

\* What is known of a request that passed the guards, until its statement.
ReqSound(r) ==
  LET q == req[r] IN
  IF q.pc = "idle" THEN q = NoRequest
  ELSE /\ api = "up"
       /\ q.user \in Ids /\ q.user \in used /\ q.role = "admin"
       /\ q.op \in Ops
       /\ q.op = "register" => q.newName \in Names
       /\ q.op # "register" => q.pc = "statement" /\ q.target \in Ids
       /\ ~OwnRole(q) /\ ~SameRole(q) /\ ~OwnAccount(q)
       /\ r \notin stale => row[q.user].role = "admin"

Requested == \A r \in Requests : ReqSound(r)

\* An admin is there, or nobody yet, or a seed is about to promote its row, or,
\* with explicit credentials, will find or make the row it promotes.
AdminKept ==
  seedCut \/ staleActs \/ Admins # {}
    \/ (api # "up" /\ (explicit \/ \A i \in Ids : ~Exists(i)))
    \/ api = "setAdmin"

IInv == TypeOK /\ InOrder /\ SecretsKept /\ SeedRow /\ SeedAlone /\ Requested /\ AdminKept

-----------------------------------------------------------------------------
(* Types *)

LEMMA NoRequestIsOne ==
  /\ NoRequest \in
       [op : Ops \cup {"none"}, pc : {"idle", "find", "statement"}, user : Ids \cup {0},
        role : Roles \cup {"none"}, target : Ids \cup {0}, newRole : Roles \cup {"none"},
        newName : Names \cup {"none"}]
  /\ NoRequest.pc = "idle" /\ NoRequest.op = "none"
BY DEF NoRequest

LEMMA TypesInit == Init => TypeOK
<1>. SUFFICES ASSUME Init PROVE TypeOK
  OBVIOUS
<1>1. Unset \in [Secrets -> Nat]
  BY DEF Unset
<1>2. bound \in Bounds /\ given \subseteq Secrets
  BY DEF Init, BootInit
<1>3. 0 \in 0..bound.deaths /\ 0 \in 0..bound.faults /\ 0 \in 0..bound.changes
  BY <1>2
<1>4. row \in [Ids -> Rows \cup {NoRow}]
  BY DEF Init, BootInit
<1>5. BootTypeOK
  BY <1>1, <1>2, <1>3, <1>4 DEF Init, BootInit, BootTypeOK, Places
<1>. QED
  BY <1>5, NoRequestIsOne DEF Init, TypeOK

LEMMA ServiceTypes ==
  ASSUME BootTypeOK, (\E s \in Services : Start(s)) \/ Accept
  PROVE  BootTypeOK'
BY DEF BootTypeOK, Start, Accept, users, Places

LEMMA ConfigTypes ==
  ASSUME BootTypeOK, Load \/ Truncate \/ Write
  PROVE  BootTypeOK'
<1>1. deaths \in Nat
  BY DEF BootTypeOK
<1>2. \A s \in Secrets : Resolved(s) \in Nat /\ Persisted(s) \in Nat
  BY <1>1 DEF BootTypeOK, Resolved, Persisted, Generated
<1>3. Unset \in [Secrets -> Nat]
  BY DEF Unset
<1>. QED
  BY <1>2, <1>3 DEF BootTypeOK, Load, Truncate, Write, users, Places, SeedPlaces

LEMMA SeedTypes ==
  ASSUME BootTypeOK, SeedRow, SeedFails \/ Count \/ Find \/ Register \/ Create \/ Promote
  PROVE  BootTypeOK'
<1>1. CASE SeedFails
  BY <1>1 DEF BootTypeOK, SeedFails, SeedFrame, Listen, users, Places
<1>2. CASE Count
  BY <1>2 DEF BootTypeOK, Count, SeedFrame, Quietly, Goto, Listen, users, Places, SeedPlaces
<1>3. CASE Find
  BY <1>3 DEF BootTypeOK, Find, SeedFrame, Quietly, Through, Goto, Listen, users, Places, SeedPlaces
<1>4. CASE Register
  BY <1>4 DEF BootTypeOK, Register, SeedFrame, Quietly, Goto, Listen, users, Places, SeedPlaces
<1>5. CASE Create
  <2>1. NewRow(SeedName) \in Rows
    BY DEF NewRow, Rows, Roles
  <2>. QED
    BY <1>5, <2>1 DEF BootTypeOK, Create, Insert, SeedFrame, Quietly, Goto, Places, SeedPlaces
<1>6. CASE Promote
  <2>1. found \in Ids /\ row[found] \in Rows
    BY <1>6 DEF Promote, SeedRow, Exists, BootTypeOK
  <2>2. [row[found] EXCEPT !.role = "admin"] \in Rows
    BY <2>1 DEF Rows, Roles
  <2>. QED
    BY <1>6, <2>1, <2>2 DEF BootTypeOK, Promote, SeedFrame, Through, Listen, Places
<1>. QED
  BY <1>1, <1>2, <1>3, <1>4, <1>5, <1>6

LEMMA OutageTypes ==
  ASSUME BootTypeOK, Outage
  PROVE  BootTypeOK'
<1>1. ASSUME NEW whole \in BOOLEAN, Die(whole) PROVE BootTypeOK'
  <2>1. deaths + 1 \in 0..bound.deaths
    BY <1>1 DEF Die, BootTypeOK
  <2>. QED
    BY <1>1, <2>1 DEF Die, BootTypeOK, Unset, users, Places
<1>2. ASSUME NEW s \in Secrets, ChangeEnvironment(s) PROVE BootTypeOK'
  <2>1. changes + 1 \in 0..bound.changes
    BY <1>2 DEF ChangeEnvironment, BootTypeOK
  <2>. QED
    BY <1>2, <2>1 DEF ChangeEnvironment, BootTypeOK, users
<1>. QED
  BY <1>1, <1>2 DEF Outage

\* What a row looks like, field by field.
LEMMA RowFields ==
  ASSUME BootTypeOK, NEW i \in Ids
  PROVE  /\ ~Exists(i) => row[i].name = "none" /\ row[i].role = "none"
         /\ Exists(i) => row[i] \in Rows /\ row[i].name \in Names /\ row[i].role \in Roles
         /\ Exists(i) <=> row[i].name # "none"
         /\ row[i].role = "admin" => Exists(i)
BY DEF BootTypeOK, Exists, Rows, Roles, NoRow

LEMMA NewRows ==
  ASSUME NEW n \in Names
  PROVE  NewRow(n) \in Rows /\ NewRow(n) # NoRow /\ NewRow(n).name = n /\ NewRow(n).role = "viewer"
BY DEF NewRow, Rows, Roles, NoRow

\* A request that passes the guards, and what is known of it.
LEMMA ArriveIs ==
  ASSUME TypeOK, NEW r \in Requests, Arrive(r)
  PROVE  \E q : /\ req' = [req EXCEPT ![r] = q] /\ stale' = stale \ {r}
                /\ UNCHANGED <<boot, users, staleActs>> /\ api = "up"
                /\ q \in [op : Ops, pc : {"find", "statement"}, user : Ids, role : Roles,
                          target : Ids \cup {0}, newRole : Roles \cup {"none"},
                          newName : Names \cup {"none"}]
                /\ Exists(q.user) /\ q.role = "admin" /\ q.role = row[q.user].role
                /\ q.op = "register" => q.newName \in Names
                /\ q.op # "register" => q.pc = "statement" /\ q.target \in Ids
                /\ ~OwnRole(q) /\ ~SameRole(q) /\ ~OwnAccount(q)
<1>1. PICK i \in Ids, b \in Bodies, hasKey \in BOOLEAN :
        Begin(r, [op |-> b.op, pc |-> IF b.op = "register" THEN "find" ELSE "statement",
                  user |-> i, role |-> row[i].role, target |-> b.target,
                  newRole |-> b.newRole, newName |-> b.newName], hasKey)
  BY DEF Arrive
<1>2. /\ b.op \in Ops /\ b.target \in Ids \cup {0} /\ b.newRole \in Roles \cup {"none"}
      /\ b.newName \in Names \cup {"none"}
      /\ b.op = "register" => b.newName \in Names
      /\ b.op # "register" => b.target \in Ids
  BY DEF Bodies, Body, Ops
<1>3. Exists(i) /\ row[i].role = "admin"
  BY <1>1 DEF Begin, JwtAuth, RolesGuard
<1>. QED
  BY <1>1, <1>2, <1>3 DEF Begin, JwtAuth, RolesGuard, Roles

LEMMA ArriveTypes ==
  ASSUME TypeOK, NEW r \in Requests, Arrive(r)
  PROVE  TypeOK'
<1>1. BootTypeOK'
  BY ArriveIs DEF TypeOK, BootTypeOK, boot, users
<1>. QED
  BY ArriveIs, <1>1 DEF TypeOK

\* What a handler can do: refuse, wait for the hash, or commit one statement.
LEMMA HandleIs ==
  ASSUME TypeOK, Requested, NEW r \in Requests, Handle(r)
  PROVE  /\ UNCHANGED boot /\ api = "up" /\ req[r].pc # "idle"
         /\ \/ req' = [req EXCEPT ![r].pc = "statement"] /\ UNCHANGED <<users, stale, staleActs>>
                 /\ req[r].pc = "find" /\ req[r].op = "register"
            \/ Refuse(r)
            \/ \E i \in Ids \ used :
                 /\ req[r].newName \in Names
                 /\ Commit(r, [row EXCEPT ![i] = NewRow(req[r].newName)], used \cup {i})
                 /\ Answer(r)
            \/ /\ req[r].op \in {"setRole", "update"} /\ Exists(req[r].target) /\ req[r].target \in Ids
               /\ \E n \in Rows :
                    /\ Commit(r, [row EXCEPT ![req[r].target] = n], used)
                    /\ n.role = IF req[r].newRole = "none" THEN row[req[r].target].role ELSE req[r].newRole
               /\ Answer(r)
            \/ /\ req[r].op = "remove" /\ req[r].target \in Ids
               /\ Commit(r, [row EXCEPT ![req[r].target] = NoRow], used) /\ Answer(r)
<1>. DEFINE q == req[r]
<1>0. ReqSound(r)
  BY DEF Requested
<1>1. CASE RegisterFind(r)
  BY <1>0, <1>1 DEF RegisterFind, Frame, ReqSound
<1>2. CASE RegisterCreate(r)
  BY <1>0, <1>2 DEF RegisterCreate, Frame, ReqSound
<1>3. CASE Update(r)
  <2>. DEFINE o == row[q.target]
              n == [name |-> IF q.newName = "none" THEN o.name ELSE q.newName,
                    role |-> IF q.newRole = "none" THEN o.role ELSE q.newRole]
  <2>1. q.op \in {"setRole", "update"} /\ q.pc = "statement" /\ q.target \in Ids /\ api = "up" /\ UNCHANGED boot
    BY <1>0, <1>3 DEF Update, ReqSound, Frame
  <2>2. \/ Exists(q.target) /\ Commit(r, [row EXCEPT ![q.target] = n], used) /\ Answer(r)
        \/ Refuse(r)
    BY <1>3 DEF Update
  <2>3. Exists(q.target) => n \in Rows
    <3>1. q.newName \in Names \cup {"none"} /\ q.newRole \in Roles \cup {"none"}
      BY DEF TypeOK
    <3>. QED
      BY <3>1, <2>1, RowFields DEF TypeOK, Rows
  <2>4. n.role = IF q.newRole = "none" THEN o.role ELSE q.newRole
    OBVIOUS
  <2>. QED
    BY <2>1, <2>2, <2>3, <2>4
<1>4. CASE Remove(r)
  BY <1>0, <1>4 DEF Remove, Frame, ReqSound
<1>. QED
  BY <1>1, <1>2, <1>3, <1>4 DEF Handle

LEMMA HandleTypes ==
  ASSUME TypeOK, Requested, NEW r \in Requests, Handle(r)
  PROVE  TypeOK'
<1>1. row' \in [Ids -> Rows \cup {NoRow}] /\ used' \subseteq Ids
  <2>1. row \in [Ids -> Rows \cup {NoRow}] /\ used \subseteq Ids
    BY DEF TypeOK, BootTypeOK
  <2>. QED
    BY <2>1, HandleIs, NewRows DEF Refuse, Commit, users
<1>2. BootTypeOK'
  BY <1>1, HandleIs DEF TypeOK, BootTypeOK, boot
<1>3. stale' \subseteq Requests /\ staleActs' \in BOOLEAN
  BY HandleIs DEF TypeOK, Refuse, Commit
<1>4. \/ req' = [req EXCEPT ![r].pc = "statement"]
      \/ req' = [req EXCEPT ![r] = NoRequest]
  BY HandleIs DEF Refuse, Answer
<1>. QED
  BY <1>2, <1>3, <1>4, NoRequestIsOne DEF TypeOK

-----------------------------------------------------------------------------
(* Steps of the boot *)

SeedStep == SeedFails \/ Count \/ Find \/ Register \/ Create \/ Promote

\* A step that is not the seed's leaves the rows.
LEMMA RowsOutsideSeed ==
  ASSUME BootStep \/ Outage
  PROVE  \/ UNCHANGED users /\ UNCHANGED bound
         \/ SeedStep /\ api \in SeedPlaces
<1>1. (\E s \in Services : Start(s)) => UNCHANGED users /\ UNCHANGED bound
  BY DEF Start
<1>2. Accept \/ Load \/ Truncate \/ Write => UNCHANGED users /\ UNCHANGED bound
  BY DEF Accept, Load, Truncate, Write
<1>3. Outage => UNCHANGED users /\ UNCHANGED bound
  BY DEF Outage, Die, ChangeEnvironment
<1>4. SeedStep => api \in SeedPlaces
  BY DEF SeedStep, SeedFails, Count, Find, Register, Create, Promote, SeedPlaces
<1>. QED
  BY <1>1, <1>2, <1>3, <1>4 DEF BootStep, SeedStep

\* Where the process gets: only the seed brings it up, and up it stays until
\* it dies.
LEMMA UpFromSeed ==
  ASSUME BootStep \/ Outage, InOrder, api' = "up"
  PROVE  \/ api = "up" /\ UNCHANGED <<users, found, served>>
         \/ SeedStep /\ api \in SeedPlaces /\ served' = env
<1>1. ASSUME NEW s \in Services, Start(s) PROVE api = "up" /\ UNCHANGED <<users, found, served>>
  BY <1>1 DEF Start
<1>2. Accept \/ Load \/ Truncate \/ Write => api = "up" /\ UNCHANGED <<users, found, served>>
  BY DEF Accept, Load, Truncate, Write
<1>3. ASSUME NEW whole \in BOOLEAN, Die(whole) PROVE FALSE
  BY <1>3 DEF Die
<1>4. ASSUME NEW s \in Secrets, ChangeEnvironment(s) PROVE api = "up" /\ UNCHANGED <<users, found, served>>
  BY <1>4 DEF ChangeEnvironment
<1>5. SeedStep => api \in SeedPlaces
  BY DEF SeedStep, SeedFails, Count, Find, Register, Create, Promote, SeedPlaces
<1>6. SeedStep => served' = env
  BY DEF SeedStep, SeedFails, Count, Find, Register, Create, Promote, Listen, Goto
<1>. QED
  BY <1>1, <1>2, <1>3, <1>4, <1>5, <1>6 DEF BootStep, SeedStep, Outage

LEMMA BootTypes ==
  ASSUME TypeOK, SeedRow, BootOrOutage
  PROVE  TypeOK'
<1>1. BootTypeOK'
  BY ServiceTypes, ConfigTypes, SeedTypes, OutageTypes DEF TypeOK, BootOrOutage, BootStep
<1>. QED
  BY <1>1, NoRequestIsOne DEF TypeOK, BootOrOutage

LEMMA OrderInit == Init => InOrder
BY DEF Init, BootInit, InOrder

LEMMA OrderStep ==
  ASSUME InOrder, BootStep \/ Outage
  PROVE  InOrder'
<1>1. ASSUME NEW s \in Services, Start(s) PROVE InOrder'
  <2>1. CASE s = "api"
    BY <1>1, <2>1 DEF Start, DependsOn, InOrder
  <2>2. CASE s = "migrate"
    BY <1>1, <2>2 DEF Start, DependsOn, InOrder
  <2>3. CASE s = "init-db"
    BY <1>1, <2>3 DEF Start, DependsOn, InOrder
  <2>4. CASE s \in {"prepare", "postgres", "redis"}
    BY <1>1, <2>4 DEF Start, InOrder
  <2>. QED
    BY <2>1, <2>2, <2>3, <2>4 DEF Services
<1>2. CASE Accept
  BY <1>2 DEF Accept, InOrder
<1>3. CASE Load \/ Truncate \/ Write
  BY <1>3 DEF Load, Truncate, Write, InOrder
<1>4. CASE SeedStep
  <2>1. api # "off" /\ UNCHANGED <<started, migrated, accepting>>
    BY <1>4 DEF SeedStep, SeedFails, Count, Find, Register, Create, Promote, SeedPlaces, SeedFrame
  <2>. QED
    BY <2>1 DEF InOrder
<1>5. ASSUME NEW whole \in BOOLEAN, Die(whole) PROVE InOrder'
  BY <1>5 DEF Die, InOrder
<1>6. ASSUME NEW s \in Secrets, ChangeEnvironment(s) PROVE InOrder'
  BY <1>6 DEF ChangeEnvironment, InOrder
<1>. QED
  BY <1>1, <1>2, <1>3, <1>4, <1>5, <1>6 DEF BootStep, SeedStep, Outage

-----------------------------------------------------------------------------
(* Secrets *)

LEMMA SecretsInit == Init => SecretsKept
<1>. SUFFICES ASSUME Init, NEW s \in Secrets PROVE SecretKept(s)
  BY DEF SecretsKept
<1>1. served[s] = 0 /\ api = "off"
  BY DEF Init, BootInit, Unset
<1>. QED
  BY <1>1 DEF SecretKept, SeedPlaces

LEMMA SecretsStep ==
  ASSUME BootTypeOK, InOrder, SecretsKept, BootStep \/ Outage
  PROVE  SecretsKept'
<1>. SUFFICES ASSUME NEW s \in Secrets, s \notin excused' PROVE SecretKept(s)'
  BY DEF SecretsKept
<1>1. ASSUME s \in excused PROVE FALSE
  <2>1. ASSUME NEW k \in Services, Start(k) PROVE FALSE
    BY <1>1, <2>1 DEF Start
  <2>2. SeedStep => UNCHANGED excused
    BY DEF SeedStep, SeedFails, Count, Find, Register, Create, Promote, SeedFrame
  <2>3. Accept \/ Load \/ Truncate \/ Write => UNCHANGED excused
    BY DEF Accept, Load, Truncate, Write
  <2>4. Outage => excused \subseteq excused'
    BY DEF Outage, Die, ChangeEnvironment, BootTypeOK
  <2>. QED
    BY <1>1, <2>1, <2>2, <2>3, <2>4 DEF BootStep, SeedStep
<1>2. SecretKept(s)
  BY <1>1 DEF SecretsKept
<1>3. ASSUME NEW k \in Services, Start(k) PROVE SecretKept(s)'
  BY <1>2, <1>3 DEF Start, InOrder, SecretKept, SeedPlaces
<1>4. CASE Accept
  BY <1>2, <1>4 DEF Accept, SecretKept
<1>5. CASE Load
  <2>1. env'[s] = Resolved(s)
    BY <1>5 DEF Load
  <2>2. CASE s \in given
    BY <1>2, <1>5, <2>1, <2>2 DEF Load, SecretKept, Resolved
  <2>3. CASE s \notin given /\ Missing = {}
    <3>1. file[s] # 0
      BY <2>3 DEF Missing
    <3>. QED
      BY <1>2, <1>5, <2>1, <2>3, <3>1 DEF Load, SecretKept, Resolved, SeedPlaces
  <2>4. CASE s \notin given /\ Missing # {}
    <3>1. pending'[s] = Resolved(s)
      BY <1>5, <2>4 DEF Load, Persisted
    <3>. QED
      BY <1>2, <1>5, <2>1, <2>4, <3>1 DEF Load, SecretKept, Resolved, SeedPlaces
  <2>. QED
    BY <2>2, <2>3, <2>4
<1>6. CASE Truncate
  BY <1>2, <1>6 DEF Truncate, SecretKept, SeedPlaces, Unset
<1>7. CASE Write
  BY <1>2, <1>7 DEF Write, SecretKept, SeedPlaces
<1>8. CASE SeedStep
  <2>1. api \in SeedPlaces /\ UNCHANGED <<given, file, env, pending>>
    BY <1>8 DEF SeedStep, SeedFails, Count, Find, Register, Create, Promote, SeedPlaces, SeedFrame
  <2>2. \/ api' = "up" /\ served' = env
        \/ api' \in SeedPlaces /\ served' = served
    BY <1>8 DEF SeedStep, SeedFails, Count, Find, Register, Create, Promote, SeedPlaces, Listen, Goto
  <2>. QED
    BY <1>2, <2>1, <2>2 DEF SecretKept, SeedPlaces
<1>9. ASSUME NEW whole \in BOOLEAN, Die(whole) PROVE SecretKept(s)'
  BY <1>2, <1>9 DEF Die, SecretKept, SeedPlaces
<1>10. ASSUME NEW k \in Secrets, ChangeEnvironment(k) PROVE SecretKept(s)'
  <2>1. k # s
    BY <1>10 DEF ChangeEnvironment
  <2>. QED
    BY <1>2, <1>10, <2>1 DEF ChangeEnvironment, SecretKept
<1>. QED
  BY <1>3, <1>4, <1>5, <1>6, <1>7, <1>8, <1>9, <1>10 DEF BootStep, SeedStep, Outage

-----------------------------------------------------------------------------
(* The row of the seed *)

LEMMA SeedInit == Init => SeedRow /\ SeedAlone
BY DEF Init, BootInit, SeedRow, SeedAlone, Exists

\* Until it reaches the seed, a process has no row of the seed in hand.
LEMMA SeedRowStep ==
  ASSUME BootTypeOK, InOrder, SeedRow, SeedAlone, BootStep \/ Outage
  PROVE  SeedRow' /\ SeedAlone'
<1>1. ASSUME NEW k \in Services, Start(k) PROVE SeedRow' /\ SeedAlone'
  BY <1>1 DEF Start, SeedRow, SeedAlone, Exists, users
<1>2. CASE Accept
  BY <1>2 DEF Accept, SeedRow, SeedAlone, Exists, users
<1>3. CASE Load \/ Truncate \/ Write
  BY <1>3 DEF Load, Truncate, Write, SeedRow, SeedAlone, Exists, users
<1>4. CASE SeedFails
  BY <1>4 DEF SeedFails, SeedFrame, Listen, SeedRow, SeedAlone, Exists, users
<1>5. CASE Count
  BY <1>5 DEF Count, SeedFrame, Listen, Goto, SeedRow, SeedAlone, Exists, users
<1>6. CASE Find
  <2>1. UNCHANGED <<row, used, explicit>>
    BY <1>6 DEF Find, SeedFrame, users
  <2>2. ASSUME NEW i \in Ids, row[i].name = SeedName,
               IF row[i].role = "admin" THEN Listen ELSE Goto("promote") /\ found' = i
        PROVE  SeedRow' /\ SeedAlone'
    <3>1. Exists(i)
      BY <2>2, RowFields
    <3>2. explicit
      BY <3>1, <1>6 DEF SeedAlone, Find
    <3>. QED
      BY <2>1, <2>2, <3>1, <3>2 DEF SeedRow, SeedAlone, Listen, Goto, Exists
  <2>3. CASE Goto("register") /\ UNCHANGED found /\ \A i \in Ids : row[i].name # SeedName
    BY <1>6, <2>1, <2>3 DEF Find, Goto, SeedRow, SeedAlone, Exists
  <2>. QED
    BY <1>6, <2>2, <2>3 DEF Find
<1>7. CASE Register
  BY <1>7 DEF Register, SeedFrame, Listen, Goto, SeedRow, SeedAlone, Exists, users
<1>8. CASE Create
  <2>1. PICK i \in Ids : Insert(SeedName, i) /\ found' = i
    BY <1>8 DEF Create
  <2>2. row' = [row EXCEPT ![i] = NewRow(SeedName)] /\ used' = used \cup {i} /\ api' = "setAdmin"
        /\ api = "create" /\ UNCHANGED explicit
    BY <1>8, <2>1 DEF Create, Insert, Goto, SeedFrame
  <2>3. row'[i] # NoRow /\ \A k \in Ids \ {i} : row'[k] = row[k]
    BY <2>2, NewRows DEF BootTypeOK
  <2>. QED
    BY <2>1, <2>2, <2>3 DEF SeedRow, SeedAlone, Exists
<1>9. CASE Promote
  <2>1. found \in Ids /\ Exists(found) /\ api' = "up" /\ UNCHANGED used
    BY <1>9 DEF Promote, SeedRow, Listen
  <2>2. \A k \in Ids : Exists(k)' => Exists(k)
    <3>1. \A k \in Ids : k # found => row'[k] = row[k]
      BY <1>9, <2>1 DEF Promote, BootTypeOK
    <3>. QED
      BY <2>1, <3>1 DEF Exists
  <2>. QED
    BY <2>1, <2>2 DEF SeedRow, SeedAlone
<1>10. ASSUME NEW whole \in BOOLEAN, Die(whole) PROVE SeedRow' /\ SeedAlone'
  BY <1>10 DEF Die, SeedRow, SeedAlone, Exists, users
<1>11. ASSUME NEW s \in Secrets, ChangeEnvironment(s) PROVE SeedRow' /\ SeedAlone'
  BY <1>11 DEF ChangeEnvironment, SeedRow, SeedAlone, Exists, users
<1>. QED
  BY <1>1, <1>2, <1>3, <1>4, <1>5, <1>6, <1>7, <1>8, <1>9, <1>10, <1>11 DEF BootStep, Outage

\* A request changes nothing of the boot, and gives rows new ids.
LEMMA SeedRowRequest ==
  ASSUME TypeOK, Requested, SeedRow, SeedAlone, NEW r \in Requests, Arrive(r) \/ Handle(r)
  PROVE  SeedRow' /\ SeedAlone' /\ UNCHANGED boot
<1>1. CASE Arrive(r)
  BY <1>1, ArriveIs DEF SeedRow, SeedAlone, Exists, boot, users
<1>2. CASE Handle(r)
  <2>1. UNCHANGED boot /\ api = "up"
    BY <1>2, HandleIs
  <2>2. row \in [Ids -> Rows \cup {NoRow}]
    BY DEF TypeOK, BootTypeOK
  <2>3. \A k \in Ids : Exists(k)' => k \in used'
    BY <1>2, <2>2, HandleIs, NewRows DEF Refuse, Commit, users, SeedRow, Exists
  <2>. QED
    BY <2>1, <2>3 DEF SeedRow, SeedAlone, boot
<1>. QED
  BY <1>1, <1>2

-----------------------------------------------------------------------------
(* Requests *)

LEMMA RequestedInit == Init => Requested
BY NoRequestIsOne DEF Init, Requested, ReqSound

LEMMA RequestedBoot ==
  ASSUME TypeOK, InOrder, Requested, BootOrOutage
  PROVE  Requested'
<1>1. CASE api' # "up"
  BY <1>1, NoRequestIsOne DEF BootOrOutage, Requested, ReqSound
<1>2. CASE api' = "up" /\ api = "up"
  <2>1. UNCHANGED <<row, used, req, stale>>
    BY <1>2, UpFromSeed DEF BootOrOutage, SeedPlaces, users
  <2>. QED
    BY <1>2, <2>1 DEF Requested, ReqSound, OwnRole, SameRole, OwnAccount
<1>3. CASE api' = "up" /\ api # "up"
  <2>1. UNCHANGED req
    BY <1>3 DEF BootOrOutage
  <2>2. \A r \in Requests : req[r].pc = "idle" /\ req[r] = NoRequest
    BY <1>3 DEF Requested, ReqSound
  <2>. QED
    BY <2>1, <2>2 DEF Requested, ReqSound
<1>. QED
  BY <1>1, <1>2, <1>3

LEMMA RequestedArrive ==
  ASSUME TypeOK, SeedRow, Requested, NEW r \in Requests, Arrive(r)
  PROVE  Requested'
<1>. SUFFICES ASSUME NEW p \in Requests PROVE ReqSound(p)'
  BY DEF Requested
<1>1. CASE p = r
  BY <1>1, ArriveIs DEF TypeOK, SeedRow, ReqSound, boot, users, OwnRole, SameRole, OwnAccount
<1>2. CASE p # r
  BY <1>2, ArriveIs DEF TypeOK, Requested, ReqSound, boot, users, OwnRole, SameRole, OwnAccount
<1>. QED
  BY <1>1, <1>2

LEMMA RequestedHandle ==
  ASSUME TypeOK, Requested, NEW r \in Requests, Handle(r)
  PROVE  Requested'
<1>. SUFFICES ASSUME NEW p \in Requests PROVE ReqSound(p)'
  BY DEF Requested
<1>0. ReqSound(p) /\ ReqSound(r) /\ UNCHANGED api /\ api = "up" /\ req[r].pc # "idle"
  BY HandleIs DEF Requested, boot
<1>1. CASE p = r
  <2>1. CASE req' = [req EXCEPT ![r] = NoRequest]
    BY <1>1, <2>1, NoRequestIsOne DEF TypeOK, ReqSound
  <2>2. CASE req' = [req EXCEPT ![r].pc = "statement"] /\ UNCHANGED <<users, stale, staleActs>>
    <3>1. req'[r] = [req[r] EXCEPT !.pc = "statement"]
      BY <2>2 DEF TypeOK
    <3>2. /\ req'[r].pc = "statement" /\ req'[r].op = req[r].op /\ req'[r].user = req[r].user
          /\ req'[r].role = req[r].role /\ req'[r].target = req[r].target
          /\ req'[r].newRole = req[r].newRole /\ req'[r].newName = req[r].newName
      BY <3>1 DEF TypeOK
    <3>. QED
      BY <1>0, <1>1, <2>2, <3>2 DEF ReqSound, OwnRole, SameRole, OwnAccount, users
  <2>. QED
    BY <2>1, <2>2, HandleIs DEF Refuse, Answer
<1>2. CASE p # r
  <2>1. req'[p] = req[p]
    BY <1>2, HandleIs DEF Refuse, Answer, TypeOK
  <2>2. req[p].pc # "idle" /\ p \notin stale' => row'[req[p].user].role = "admin"
    <3>1. CASE UNCHANGED <<users, stale, staleActs>>
      BY <1>0, <3>1 DEF ReqSound, users
    <3>2. ASSUME NEW table, NEW ids, Commit(r, table, ids)
          PROVE req[p].pc # "idle" /\ p \notin stale' => row'[req[p].user].role = "admin"
      BY <1>0, <1>2, <3>2 DEF Commit, ReqSound
    <3>. QED
      BY <3>1, <3>2, HandleIs DEF Refuse
  <2>3. used \subseteq used'
    BY HandleIs DEF Refuse, Commit, users
  <2>. QED
    BY <1>0, <2>1, <2>2, <2>3 DEF ReqSound, OwnRole, SameRole, OwnAccount
<1>. QED
  BY <1>1, <1>2

\* A user's own request leaves the user's role and row as they are, or sets the
\* role of a row that is there to the one the guard had read; which is the same
\* unless somebody else changed it meanwhile.
LEMMA OwnRoleStep ==
  ASSUME TypeOK, Requested, NEW r \in Requests, Handle(r)
  PROVE  LET u == req[r].user IN
         /\ row'[u].role = row[u].role \/ (Exists(u) /\ row'[u].role = req[r].role)
         /\ r \notin stale => row[u].role = "admin" /\ row'[u].role = "admin"
<1>. DEFINE q == req[r]
            u == q.user
            Kept == row'[u].role = row[u].role \/ (Exists(u) /\ row'[u].role = q.role)
<1>1. ReqSound(r) /\ q.pc # "idle"
  BY HandleIs DEF Requested
<1>2. /\ u \in Ids /\ u \in used /\ q.role = "admin"
      /\ r \notin stale => row[u].role = "admin"
  BY <1>1 DEF ReqSound
<1>3. row \in [Ids -> Rows \cup {NoRow}]
  BY DEF TypeOK, BootTypeOK
<1>4. ASSUME UNCHANGED users PROVE Kept
  BY <1>4 DEF users
<1>5. ASSUME NEW i \in Ids \ used, NEW n, Commit(r, [row EXCEPT ![i] = n], used \cup {i})
      PROVE  Kept
  BY <1>2, <1>3, <1>5 DEF Commit
<1>6. ASSUME q.op \in {"setRole", "update"}, q.target \in Ids, Exists(q.target), NEW n \in Rows,
             Commit(r, [row EXCEPT ![q.target] = n], used),
             n.role = IF q.newRole = "none" THEN row[q.target].role ELSE q.newRole
      PROVE  Kept
  <2>1. row' = [row EXCEPT ![q.target] = n]
    BY <1>6 DEF Commit
  <2>2. CASE q.target # u
    BY <1>2, <1>3, <2>1, <2>2
  <2>3. CASE q.target = u
    <3>1. n.role = row[u].role \/ n.role = q.role
      BY <1>1, <1>6, <2>3 DEF ReqSound, OwnRole, SameRole
    <3>. QED
      BY <1>2, <1>3, <1>6, <2>1, <2>3, <3>1
  <2>. QED
    BY <2>2, <2>3
<1>7. ASSUME q.op = "remove", Commit(r, [row EXCEPT ![q.target] = NoRow], used)
      PROVE  Kept
  <2>1. q.target # u
    BY <1>1, <1>7 DEF ReqSound, OwnAccount
  <2>. QED
    BY <1>2, <1>3, <1>7, <2>1 DEF Commit
<1>8. Kept
  BY HandleIs, <1>4, <1>5, <1>6, <1>7 DEF Refuse
<1>. QED
  BY <1>2, <1>8

-----------------------------------------------------------------------------
(* Admins *)

LEMMA AdminInit == Init => AdminKept
BY DEF Init, BootInit, AdminKept, Exists

LEMMA AdminBoot ==
  ASSUME TypeOK, InOrder, SeedRow, AdminKept, BootOrOutage
  PROVE  AdminKept'
<1>0. UNCHANGED staleActs /\ (BootStep \/ Outage)
  BY DEF BootOrOutage
<1>1. CASE ~SeedStep
  <2>1. UNCHANGED users
    BY <1>0, <1>1, RowsOutsideSeed
  <2>2. Admins' = Admins /\ ((\A i \in Ids : ~Exists(i)) => (\A i \in Ids : ~Exists(i))')
    BY <2>1 DEF Admins, Exists, users
  <2>3. api # "up" => api' # "up"
    BY <1>0, <1>1, UpFromSeed
  <2>4. /\ UNCHANGED explicit /\ (seedCut => seedCut')
        /\ api = "setAdmin" => api' = "setAdmin" \/ seedCut' \/ (explicit /\ api' # "up")
    <3>. DEFINE Keeps == /\ UNCHANGED explicit /\ (seedCut => seedCut')
                         /\ api = "setAdmin" => api' = "setAdmin" \/ seedCut' \/ (explicit /\ api' # "up")
    <3>1. ASSUME NEW k \in Services, Start(k) PROVE Keeps
      BY <3>1 DEF Start, InOrder
    <3>2. CASE Accept \/ Load \/ Truncate \/ Write
      BY <3>2 DEF Accept, Load, Truncate, Write
    <3>3. ASSUME NEW whole \in BOOLEAN, Die(whole) PROVE Keeps
      <4>1. UNCHANGED explicit /\ api' # "up"
        BY <3>3 DEF Die
      <4>2. (seedCut => seedCut') /\ (api = "setAdmin" /\ ~explicit => seedCut')
        BY <3>3, Zenon DEF Die
      <4>. QED
        BY <4>1, <4>2
    <3>4. ASSUME NEW k \in Secrets, ChangeEnvironment(k) PROVE Keeps
      BY <3>4 DEF ChangeEnvironment
    <3>. QED
      BY <1>0, <1>1, <3>1, <3>2, <3>3, <3>4 DEF BootStep, SeedStep, Outage
  <2>. QED
    BY <1>0, <2>2, <2>3, <2>4 DEF AdminKept
<1>2. CASE SeedFails
  BY <1>2 DEF SeedFails, AdminKept
<1>3. CASE Count
  <2>1. UNCHANGED <<users, seedCut, explicit>> /\ api = "count"
    BY <1>3 DEF Count, Quietly, SeedFrame
  <2>2. api' = "find" \/ \E i \in Ids : Exists(i)
    BY <1>3 DEF Count, Goto
  <2>3. api' = "find" \/ (api' = "up" /\ ~explicit)
    BY <1>3, Zenon DEF Count, Listen, Goto
  <2>. QED
    BY <1>0, <2>1, <2>2, <2>3 DEF AdminKept, Admins, Exists, users
<1>4. CASE Find
  <2>1. UNCHANGED <<users, explicit>> /\ api = "find"
    BY <1>4 DEF Find, SeedFrame
  <2>2. ASSUME NEW i \in Ids, row[i].role = "admin" PROVE AdminKept'
    BY <2>1, <2>2 DEF AdminKept, Admins, users
  <2>3. ASSUME NEW i \in Ids, row[i].name = SeedName, Goto("promote"), Quietly PROVE AdminKept'
    <3>1. Exists(i)
      BY <2>3, RowFields DEF TypeOK
    <3>. QED
      BY <1>0, <2>1, <2>3, <3>1 DEF AdminKept, Admins, Exists, Goto, Quietly, users
  <2>4. CASE Goto("register") /\ Quietly
    BY <1>0, <2>1, <2>4 DEF AdminKept, Admins, Exists, Goto, Quietly, users
  <2>. QED
    BY <1>4, <2>2, <2>3, <2>4 DEF Find
<1>5. CASE Register
  <2>1. UNCHANGED <<users, seedCut, explicit>> /\ api = "register" /\ api' = "create"
    BY <1>5 DEF Register, Quietly, SeedFrame, Goto, SeedRow
  <2>. QED
    BY <1>0, <2>1 DEF AdminKept, Admins, Exists, users
<1>6. CASE Create
  BY <1>6 DEF Create, Goto, AdminKept
<1>7. CASE Promote
  <2>1. found \in Ids /\ row[found] \in Rows
    BY <1>7 DEF Promote, SeedRow, Exists, TypeOK, BootTypeOK
  <2>2. row'[found] = [row[found] EXCEPT !.role = "admin"]
    BY <1>7, <2>1 DEF Promote, TypeOK, BootTypeOK
  <2>3. row'[found].role = "admin"
    BY <2>1, <2>2 DEF Rows
  <2>. QED
    BY <2>1, <2>3 DEF AdminKept, Admins
<1>. QED
  BY <1>1, <1>2, <1>3, <1>4, <1>5, <1>6, <1>7 DEF SeedStep

LEMMA AdminRequest ==
  ASSUME TypeOK, SeedRow, Requested, AdminKept, NEW r \in Requests, Arrive(r) \/ Handle(r)
  PROVE  AdminKept'
<1>1. CASE Arrive(r)
  BY <1>1, ArriveIs DEF AdminKept, Admins, Exists, boot, users
<1>2. CASE Handle(r)
  <2>1. UNCHANGED boot /\ api = "up"
    BY <1>2, HandleIs
  <2>2. staleActs => staleActs'
    BY <1>2, HandleIs DEF Refuse, Commit
  <2>3. CASE r \notin stale
    <3>1. req[r].user \in Ids
      BY <1>2, HandleIs DEF Requested, ReqSound
    <3>. QED
      BY <1>2, <2>3, <3>1, OwnRoleStep DEF AdminKept, Admins
  <2>4. CASE r \in stale /\ row' # row
    <3>1. ASSUME NEW table, NEW ids, Commit(r, table, ids)
          PROVE  staleActs' \/ \A i \in Admins : row'[i].role = "admin"
      <4>1. row' = table
        BY <3>1 DEF Commit
      <4>2. staleActs' = (staleActs \/ (r \in stale /\ \E i \in Admins : table[i].role # "admin"))
        BY <3>1 DEF Commit
      <4>. QED
        BY <2>4, <4>1, <4>2, Zenon
    <3>2. staleActs' \/ \A i \in Admins : row'[i].role = "admin"
      BY <1>2, <2>4, <3>1, HandleIs DEF Refuse, users
    <3>3. UNCHANGED <<seedCut, api>>
      BY <2>1 DEF boot
    <3>4. Admins # {} => staleActs' \/ Admins' # {}
      BY <3>2 DEF Admins
    <3>. QED
      BY <2>1, <2>2, <3>3, <3>4 DEF AdminKept
  <2>5. CASE row' = row
    BY <2>1, <2>2, <2>5 DEF AdminKept, Admins, Exists, boot
  <2>. QED
    BY <2>3, <2>4, <2>5
<1>. QED
  BY <1>1, <1>2

-----------------------------------------------------------------------------
(* Theorems *)

LEMMA IInvStep == IInv /\ [Next]_vars => IInv'
<1>. SUFFICES ASSUME IInv, [Next]_vars PROVE IInv'
  OBVIOUS
<1>. USE DEF IInv
<1>1. CASE BootOrOutage
  <2>1. BootStep \/ Outage
    BY <1>1 DEF BootOrOutage
  <2>. QED
    BY <1>1, <2>1, BootTypes, OrderStep, SecretsStep, SeedRowStep, RequestedBoot, AdminBoot DEF TypeOK
<1>2. ASSUME NEW r \in Requests, Arrive(r) \/ Handle(r) PROVE IInv'
  <2>1. SeedRow' /\ SeedAlone' /\ UNCHANGED boot /\ AdminKept'
    BY <1>2, SeedRowRequest, AdminRequest
  <2>2. InOrder' /\ SecretsKept'
    BY <2>1 DEF InOrder, SecretsKept, SecretKept, boot
  <2>3. TypeOK' /\ Requested'
    BY <1>2, ArriveTypes, HandleTypes, RequestedArrive, RequestedHandle
  <2>. QED
    BY <2>1, <2>2, <2>3
<1>3. CASE UNCHANGED vars
  BY <1>3 DEF vars, boot, users, adminVars, TypeOK, BootTypeOK, InOrder, SecretsKept, SecretKept,
     SeedRow, SeedAlone, Requested, ReqSound, OwnRole, SameRole, OwnAccount, AdminKept, Admins, Exists
<1>. QED
  BY <1>1, <1>2, <1>3 DEF Next

LEMMA Invariant == Spec => []IInv
<1>1. Init => IInv
  BY TypesInit, OrderInit, SecretsInit, SeedInit, RequestedInit, AdminInit DEF IInv
<1>. QED
  BY <1>1, IInvStep, PTL DEF Spec

\* The table of users, the secrets and the requests keep their types in every
\* interleaving of s6, the bootstrap, the seed and the UsersController.
THEOREM TypeCorrect == Spec => []TypeOK
BY Invariant, PTL DEF IInv

\* s6 (dependencies.d) starts no API process before the schema is migrated and
\* PostgreSQL accepts connections, whatever dies and restarts.
THEOREM ApiHasSchema == Spec => []ApiAfterSchema
<1>1. IInv => ApiAfterSchema
  BY DEF IInv, InOrder, ApiAfterSchema
<1>. QED
  BY <1>1, Invariant, PTL

\* A listening API has an admin, for any number of users and of concurrent
\* registrations, role changes, renames and removals.
THEOREM AdminAlways == Spec => []AdminSurvives
<1>1. IInv => AdminSurvives
  BY DEF IInv, AdminKept, AdminSurvives
<1>. QED
  BY <1>1, Invariant, PTL

\* Only a seed that ends changes what an API listened with.
LEMMA ServedBySeed ==
  ASSUME BootStep \/ Outage, served' # served
  PROVE  SeedStep /\ api \in SeedPlaces /\ served' = env
<1>1. ASSUME NEW k \in Services, Start(k) PROVE FALSE
  BY <1>1 DEF Start
<1>2. ~(Accept \/ Load \/ Truncate \/ Write)
  BY DEF Accept, Load, Truncate, Write
<1>3. ~Outage
  BY DEF Outage, Die, ChangeEnvironment
<1>4. SeedStep => api \in SeedPlaces /\ served' \in {env, served}
  BY DEF SeedStep, SeedFails, Count, Find, Register, Create, Promote, Listen, Goto, SeedPlaces
<1>. QED
  BY <1>1, <1>2, <1>3, <1>4 DEF BootStep, SeedStep

\* bootstrapRuntimeConfig gives every API process the secrets of the one
\* before it, but for those the operator changed and for the generated ones that
\* a later write of the file loses when a death cuts it in two.  The first write
\* may be cut as often as it likes.
THEOREM SecretsAreStable == Spec => SecretsStable
<1>1. ASSUME IInv, [Next]_vars, NEW s \in Secrets, served'[s] # served[s]
      PROVE  served[s] = 0 \/ s \in excused
  <2>1. BootStep \/ Outage
    <3>1. ASSUME NEW r \in Requests, Arrive(r) \/ Handle(r) PROVE FALSE
      BY <1>1, <3>1, SeedRowRequest DEF IInv, boot
    <3>. QED
      BY <1>1, <3>1 DEF Next, BootOrOutage, vars, boot
  <2>2. api \in SeedPlaces /\ served'[s] = env[s]
    BY <1>1, <2>1, ServedBySeed
  <2>3. s \notin excused => SecretKept(s)
    BY <1>1 DEF IInv, SecretsKept
  <2>. QED
    BY <1>1, <2>2, <2>3 DEF SecretKept, SeedPlaces
<1>2. IInv /\ [Next]_vars => [\A s \in Secrets : served'[s] # served[s] => served[s] = 0 \/ s \in excused]_boot
  BY <1>1
<1>. QED
  BY <1>2, Invariant, PTL DEF Spec, SecretsStable

\* SeedService without SEED_EMAIL and SEED_USERNAME touches no row but the one
\* it created itself.
THEOREM SeedLeavesOthers == Spec => SeedLeavesManaged
<1>1. ASSUME IInv, [Next]_vars, ~explicit, api \in SeedPlaces, row' # row, NEW i \in Ids, Exists(i)
      PROVE  i = found
  <2>1. BootStep \/ Outage
    <3>1. ASSUME NEW r \in Requests, Arrive(r) \/ Handle(r) PROVE FALSE
      <4>1. api = "up"
        BY <1>1, <3>1, ArriveIs, HandleIs DEF IInv
      <4>. QED
        BY <1>1, <4>1 DEF SeedPlaces
    <3>. QED
      BY <1>1, <3>1 DEF Next, BootOrOutage, vars, users
  <2>2. SeedStep
    BY <1>1, <2>1, RowsOutsideSeed DEF users
  <2>3. Create \/ Promote
    BY <1>1, <2>2 DEF SeedStep, SeedFails, Count, Find, Register, users
  <2>. QED
    BY <1>1, <2>3 DEF Create, Promote, IInv, SeedAlone
<1>2. IInv /\ [Next]_vars =>
        [~explicit /\ api \in SeedPlaces /\ row' # row =>
           \A i \in Ids : Exists(i) => i = found]_<<boot, users>>
  BY <1>1
<1>. QED
  BY <1>2, Invariant, PTL DEF Spec, SeedLeavesManaged

\* The statement of a user's own request takes neither the role nor the row from
\* the user, however late it runs: what it can do, and only once somebody else
\* has changed the user, is to give back the role the guard had read.
THEOREM OwnRoleIsKept == Spec => OwnRoleKept
<1>. DEFINE Own(r) ==
       LET u == req[r].user IN
       req[r].pc # "idle" /\ req'[r].pc = "idle" /\ api' = "up" =>
         \/ row'[u].role = row[u].role
         \/ r \in stale /\ Exists(u) /\ row'[u].role = req[r].role
<1>1. ASSUME IInv, [Next]_vars, NEW r \in Requests, req[r].pc # "idle", req'[r].pc = "idle", api' = "up"
      PROVE  Own(r)
  <2>1. CASE BootOrOutage \/ UNCHANGED vars
    BY <1>1, <2>1 DEF BootOrOutage, vars, adminVars
  <2>2. ASSUME NEW p \in Requests, Arrive(p) PROVE FALSE
    BY <1>1, <2>2, ArriveIs DEF IInv, TypeOK
  <2>3. ASSUME NEW p \in Requests, p # r, Handle(p) PROVE FALSE
    <3>1. TypeOK /\ Requested
      BY <1>1 DEF IInv
    <3>2. \/ req' = [req EXCEPT ![p].pc = "statement"]
          \/ req' = [req EXCEPT ![p] = NoRequest]
      BY <2>3, <3>1, HandleIs DEF Refuse, Answer
    <3>3. DOMAIN req = Requests
      BY <3>1 DEF TypeOK
    <3>4. req'[r] = req[r]
      BY <2>3, <3>2, <3>3
    <3>. QED
      BY <1>1, <3>4
  <2>4. CASE Handle(r)
    BY <1>1, <2>4, OwnRoleStep DEF IInv
  <2>. QED
    BY <1>1, <2>1, <2>2, <2>3, <2>4 DEF Next
<1>2. IInv /\ [Next]_vars => [\A r \in Requests : Own(r)]_vars
  BY <1>1
<1>. QED
  BY <1>2, Invariant, PTL DEF Spec, OwnRoleKept
=============================================================================
