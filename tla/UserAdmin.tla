------------------------------ MODULE UserAdmin ------------------------------
(***************************************************************************)
(* Accounts of the dashboard while the API is up: the guards, the          *)
(* UsersController, AuthService.register and UsersService, over the table  *)
(* that BootChain boots and seeds.                                         *)
(*                                                                         *)
(* A request is authenticated from the row of its user; guards and         *)
(* handlers then decide from that copy, and the statement runs later.      *)
(***************************************************************************)
EXTENDS BootChain

CONSTANTS
  Requests      \* requests the API handles at the same time

VARIABLES
  req,        \* req[r]: the operation, its user's copy and its target
  stale,      \* history: requests whose user lost the role or the row meanwhile
  staleActs   \* history: one of them took the role or the row from an admin

adminVars == <<req, stale, staleActs>>
vars == <<boot, users, adminVars>>

Ops == {"register", "setRole", "update", "remove"}
NoRequest == [op |-> "none", pc |-> "idle", user |-> 0, role |-> "none", target |-> 0,
              newRole |-> "none", newName |-> "none"]

TypeOK ==
  /\ BootTypeOK
  /\ req \in [Requests ->
       [op : Ops \cup {"none"}, pc : {"idle", "find", "statement"}, user : Ids \cup {0},
        role : Roles \cup {"none"}, target : Ids \cup {0}, newRole : Roles \cup {"none"},
        newName : Names \cup {"none"}]]
  /\ stale \subseteq Requests /\ staleActs \in BOOLEAN

Init ==
  /\ BootInit
  /\ req = [r \in Requests |-> NoRequest]
  /\ stale = {} /\ staleActs = FALSE

-----------------------------------------------------------------------------
(* Guards *)

\* A JWT says who, not which role: every user that ever existed may hold one,
\* and JwtStrategy.validate looks the row up.  GlobalApiKeyGuard wants the key
\* as well; RolesGuard, of @Roles('admin'), wants the role of the copy.
JwtAuth(i)       == Exists(i)
ApiKey(hasKey)   == hasKey
RolesGuard(role) == role = "admin"

\* Mutants: a handler without its check.
OwnRole_Unchecked(q)    == FALSE
OwnAccount_Unchecked(q) == FALSE
SameRole_Unchecked(q)   == FALSE

\* "Cannot change your own role", in setRole and in update.
OwnRole(q)    == q.op = "setRole" /\ q.user = q.target
SameRole(q)   == q.op = "update" /\ q.user = q.target /\ q.newRole \notin {"none", q.role}
\* "Cannot delete your own account".
OwnAccount(q) == q.op = "remove" /\ q.user = q.target

\* A request that passes the guards and its handler's check.
Begin(r, q, hasKey) ==
  /\ api = "up" /\ req[r] = NoRequest
  /\ Cardinality({p \in Requests : req[p] # NoRequest}) < bound.requests
  /\ JwtAuth(q.user) /\ ApiKey(hasKey)
  /\ q.role = row[q.user].role /\ RolesGuard(q.role)
  /\ ~OwnRole(q) /\ ~SameRole(q) /\ ~OwnAccount(q)
  /\ req' = [req EXCEPT ![r] = q]
  /\ stale' = stale \ {r}
  /\ UNCHANGED <<boot, users, staleActs>>

\* The bodies the DTOs let through.
Body(op, target, role, name) == [op |-> op, target |-> target, newRole |-> role, newName |-> name]
Bodies ==
  {Body("register", 0, "none", n) : n \in Names} \cup
  {Body("setRole", i, o, "none") : i \in Ids, o \in Roles} \cup
  {Body("update", i, o, n) : i \in Ids, o \in Roles \cup {"none"}, n \in Names} \cup
  {Body("update", i, o, "none") : i \in Ids, o \in Roles} \cup
  {Body("remove", i, "none", "none") : i \in Ids}

Arrive(r) ==
  \E i \in Ids, b \in Bodies, hasKey \in BOOLEAN :
    Begin(r, [op |-> b.op, pc |-> IF b.op = "register" THEN "find" ELSE "statement",
              user |-> i, role |-> row[i].role, target |-> b.target,
              newRole |-> b.newRole, newName |-> b.newName], hasKey)

-----------------------------------------------------------------------------
(* UsersService *)

\* The unique columns: no other row has the name.
Free(n, i) == \A k \in Ids \ {i} : row[k].name # n

\* A statement of r leaves the table as `table`; a request whose user it takes
\* the role or the row from is stale.
Commit(r, table, ids) ==
  /\ row' = table /\ used' = ids
  /\ stale' = stale \cup {p \in Requests \ {r} : /\ req[p].pc # "idle"
                                                 /\ row[req[p].user].role = "admin"
                                                 /\ table[req[p].user].role # "admin"}
  /\ staleActs' = (staleActs \/ (r \in stale /\ \E i \in Admins : table[i].role # "admin"))

Answer(r) == req' = [req EXCEPT ![r] = NoRequest]
Refuse(r) == Answer(r) /\ UNCHANGED <<users, stale, staleActs>>
Frame == UNCHANGED boot

\* register: the name is looked for, the password hashed, the row created; a
\* unique violation in between is a conflict too.
RegisterFind(r) ==
  /\ req[r].pc = "find"
  /\ IF Free(req[r].newName, 0)
       THEN req' = [req EXCEPT ![r].pc = "statement"] /\ UNCHANGED <<users, stale, staleActs>>
       ELSE Refuse(r)
  /\ Frame

RegisterCreate(r) ==
  /\ req[r].op = "register" /\ req[r].pc = "statement"
  /\ \E i \in Ids \ used :
       IF Free(req[r].newName, i)
         THEN /\ Commit(r, [row EXCEPT ![i] = NewRow(req[r].newName)], used \cup {i})
              /\ Answer(r)
         ELSE Refuse(r)
  /\ Frame

\* setRole and update: only the fields that were sent; no such row, or a name
\* that is taken, is an error.
Update(r) ==
  LET q == req[r]
      o == row[q.target]
      n == [name |-> IF q.newName = "none" THEN o.name ELSE q.newName,
            role |-> IF q.newRole = "none" THEN o.role ELSE q.newRole]
  IN
  /\ q.op \in {"setRole", "update"} /\ q.pc = "statement"
  /\ IF Exists(q.target) /\ Free(n.name, q.target)
       THEN Commit(r, [row EXCEPT ![q.target] = n], used) /\ Answer(r)
       ELSE Refuse(r)
  /\ Frame

Remove(r) ==
  /\ req[r].op = "remove" /\ req[r].pc = "statement"
  /\ IF Exists(req[r].target)
       THEN Commit(r, [row EXCEPT ![req[r].target] = NoRow], used) /\ Answer(r)
       ELSE Refuse(r)
  /\ Frame

Handle(r) == RegisterFind(r) \/ RegisterCreate(r) \/ Update(r) \/ Remove(r)

\* The requests die with the process.
BootOrOutage ==
  /\ BootStep \/ Outage
  /\ req' = IF api' = "up" THEN req ELSE [r \in Requests |-> NoRequest]
  /\ stale' = IF api' = "up" THEN stale ELSE {}
  /\ UNCHANGED staleActs

Next ==
  \/ BootOrOutage
  \/ \E r \in Requests : Arrive(r) \/ Handle(r)

Spec == Init /\ [][Next]_vars

-----------------------------------------------------------------------------
(* Properties *)

\* Somebody can always administer: a listening API has an admin, through any
\* mix of registrations, demotions, renames, removals, restarts and seeds that
\* die at any statement.  Excused are a seed that fails or, without explicit
\* credentials, dies between its two statements, until one goes through; and
\* an admin put out by a request whose own user had lost the role meanwhile.
AdminSurvives ==
  api = "up" /\ ~seedCut /\ ~staleActs => Admins # {}

\* "Cannot change your own role", "Cannot delete your own account": the
\* statement of a user's own request, however late it runs, takes neither the
\* role nor the row from its user.  It changes the role only when somebody
\* else had taken it while the request was handled, and then only back to the
\* one the guard had read.
OwnRoleKept ==
  [][\A r \in Requests :
       LET u == req[r].user IN
       req[r].pc # "idle" /\ req'[r].pc = "idle" /\ api' = "up" =>
         \/ row'[u].role = row[u].role
         \/ r \in stale /\ Exists(u) /\ row'[u].role = req[r].role]_vars

-----------------------------------------------------------------------------
(* What the documentation says and the code does not do *)

\* users.controller.ts: "Cannot change your own role", without the exception.
OwnRoleNeverChanges ==
  [][\A r \in Requests :
       LET u == req[r].user IN
       req[r].pc # "idle" /\ req'[r].pc = "idle" /\ api' = "up" =>
         row'[u].role = row[u].role]_vars
=============================================================================
