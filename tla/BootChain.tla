------------------------------ MODULE BootChain ------------------------------
(***************************************************************************)
(* The all-in-one container from power-on to a listening API: the s6       *)
(* services and their dependencies, the migrations, the runtime bootstrap  *)
(* with its secrets file, and the seeding of the first admin.  The         *)
(* container or the API process may die at any step; what is on the data   *)
(* volume stays.                                                           *)
(*                                                                         *)
(* A secret is a number: 0 when it is not set, 1 when the operator set it, *)
(* and a new one for each value generateSecret returns.                    *)
(***************************************************************************)
EXTENDS Naturals, FiniteSets

CONSTANTS
  Ids,          \* ids of user rows, each used once
  Names,        \* emails with usernames
  SeedName,     \* the email and username the seed looks for
  Secrets,      \* MANAGED_SECRETS
  Bounds        \* bounds to choose from: of the deaths of the container or of the
                \* API process, the statements of the seed that fail, the changes
                \* of the operator's environment, the requests at one time, and
                \* the secrets the operator may set before the first boot

ASSUME BootAssumption ==
  /\ SeedName \in Names /\ "none" \notin Names /\ 0 \notin Ids
  /\ \A b \in Bounds : {b.deaths, b.faults, b.changes, b.requests} \subseteq Nat /\ b.given \subseteq Secrets

VARIABLES
  bound,      \* the bounds of this behaviour
  started,    \* services s6 has brought up
  accepting,  \* PostgreSQL accepts connections
  migrated,   \* the schema is that of the code
  given,      \* secrets the operator's environment sets
  explicit,   \* SEED_EMAIL and SEED_USERNAME are both set
  file,       \* secrets.json: what it holds for each secret, nothing once cut off
  env,        \* process.env of the API: its secrets
  pending,    \* what persistSecretsFile is writing
  api,        \* where the API process is
  found,      \* the row the seed found or created
  row,        \* the table of users
  used,       \* ids that were given to a row
  served,     \* history: each secret when an API last listened
  excused,    \* history: secrets the operator changed, and generated ones an API had
              \* listened with when a write of the file was cut off
  seedCut,    \* history: a statement of a seed failed, or a death met a seed without
              \* explicit credentials between its two; until a seed goes through
  deaths, faults, changes

boot == <<started, accepting, migrated, given, explicit, file, env, pending, api, found, served, excused,
          seedCut, deaths, faults, changes, bound>>
users == <<row, used>>

Roles == {"admin", "viewer"}      \* operators manage no users either
NoRow == [name |-> "none", role |-> "none"]
Rows  == [name : Names, role : Roles]
Exists(i) == row[i] # NoRow
Admins == {i \in Ids : row[i].role = "admin"}

Services == {"prepare", "postgres", "redis", "init-db", "migrate", "api"}
SeedPlaces == {"count", "find", "promote", "register", "create", "setAdmin"}
Places == {"off", "load", "write", "written"} \cup SeedPlaces \cup {"up"}
Unset == [s \in Secrets |-> 0]

BootTypeOK ==
  /\ started \subseteq Services /\ accepting \in BOOLEAN /\ migrated \in BOOLEAN
  /\ given \subseteq Secrets
  /\ explicit \in BOOLEAN
  /\ file \in [Secrets -> Nat]
  /\ env \in [Secrets -> Nat] /\ pending \in [Secrets -> Nat]
  /\ served \in [Secrets -> Nat]
  /\ api \in Places
  /\ found \in Ids \cup {0}
  /\ row \in [Ids -> Rows \cup {NoRow}] /\ used \subseteq Ids
  /\ excused \subseteq Secrets /\ seedCut \in BOOLEAN
  /\ deaths \in 0..bound.deaths /\ faults \in 0..bound.faults /\ changes \in 0..bound.changes
  /\ bound \in Bounds

BootInit ==
  /\ bound \in Bounds
  /\ started = {} /\ accepting = FALSE /\ migrated = FALSE
  /\ given \in SUBSET bound.given /\ explicit \in BOOLEAN
  /\ file = Unset /\ env = Unset /\ pending = Unset
  /\ api = "off" /\ found = 0
  /\ row = [i \in Ids |-> NoRow] /\ used = {}
  /\ served = Unset /\ excused = {} /\ seedCut = FALSE
  /\ deaths = 0 /\ faults = 0 /\ changes = 0

-----------------------------------------------------------------------------
(* s6 *)

\* Mutant: the API waits for the cache only.
DependsOn_NoMigrate(s) ==
  CASE s = "prepare" -> {}           [] s \in {"postgres", "redis"} -> {"prepare"}
    [] s = "init-db" -> {"postgres"} [] s = "migrate" -> {"init-db"}
    [] s = "api" -> {"redis"}

\* The dependencies.d directories.
DependsOn(s) ==
  CASE s = "prepare" -> {}           [] s \in {"postgres", "redis"} -> {"prepare"}
    [] s = "init-db" -> {"postgres"} [] s = "migrate" -> {"init-db"}
    [] s = "api" -> {"migrate", "redis"}

\* A service is started when those it depends on are up.  init-db waits for
\* PostgreSQL to accept connections; migrate deploys what is pending.
Start(s) ==
  /\ s \notin started /\ DependsOn(s) \subseteq started
  /\ s = "init-db" => accepting
  /\ started' = started \cup {s}
  /\ migrated' = (migrated \/ s = "migrate")
  /\ api' = IF s = "api" THEN "load" ELSE api
  /\ UNCHANGED <<bound, accepting, given, explicit, file, env, pending, found, served, excused, seedCut, deaths, faults,
                 changes, users>>

\* A long-running service is up before it is ready.
Accept ==
  /\ "postgres" \in started /\ ~accepting
  /\ accepting' = TRUE
  /\ UNCHANGED <<bound, started, migrated, given, explicit, file, env, pending, api, found, served, excused, seedCut,
                 deaths, faults, changes, users>>

\* The API process dies and its service starts it again, or the container
\* stops with everything in it.
Die(whole) ==
  /\ deaths < bound.deaths /\ deaths' = deaths + 1
  /\ IF whole THEN started # {} /\ started' = {} /\ accepting' = FALSE /\ api' = "off"
              ELSE api # "off" /\ api' = "load" /\ UNCHANGED <<started, accepting>>
  /\ env' = Unset /\ pending' = Unset /\ found' = 0
  /\ excused' = IF api = "written" THEN excused \cup {s \in Secrets \ given : served[s] # 0} ELSE excused
  /\ seedCut' = (seedCut \/ (api = "setAdmin" /\ ~explicit))
  /\ UNCHANGED <<bound, migrated, given, explicit, file, served, faults, changes, users>>

\* The operator sets or unsets a secret between two runs of the container.
ChangeEnvironment(s) ==
  /\ started = {} /\ changes < bound.changes /\ changes' = changes + 1
  /\ given' = IF s \in given THEN given \ {s} ELSE given \cup {s}
  /\ excused' = excused \cup {s}
  /\ UNCHANGED <<bound, started, accepting, migrated, explicit, file, env, pending, api, found, served, seedCut, deaths,
                 faults, users>>

-----------------------------------------------------------------------------
(* bootstrapRuntimeConfig *)

\* generateSecret: a value the secret has not had in an earlier process.
Generated == 2 + deaths

\* Operator-provided values win, then the file, then a generated one.
Resolved(s) == IF s \in given THEN 1 ELSE IF file[s] # 0 THEN file[s] ELSE Generated
Missing == {s \in Secrets \ given : file[s] = 0}

\* Mutant: only what was generated is written.
Persisted_OnlyGenerated(s) == IF s \in Missing THEN Resolved(s) ELSE 0

\* What was in the file stays in it, with what was generated.
Persisted(s) == IF s \in given THEN file[s] ELSE Resolved(s)

Load ==
  /\ api = "load"
  /\ env' = [s \in Secrets |-> Resolved(s)]
  /\ IF Missing = {} THEN api' = "count" /\ UNCHANGED pending
                     ELSE api' = "write" /\ pending' = [s \in Secrets |-> Persisted(s)]
  /\ UNCHANGED <<bound, started, accepting, migrated, given, explicit, file, found, served, excused, seedCut,
                 deaths, faults, changes, users>>

\* persistSecretsFile: writeFileSync truncates the file, then writes it.  A
\* file that does not parse counts as empty when it is loaded.
Truncate ==
  /\ api = "write" /\ api' = "written"
  /\ file' = Unset
  /\ UNCHANGED <<bound, started, accepting, migrated, given, explicit, env, pending, found, served, excused,
                 seedCut, deaths, faults, changes, users>>

Write ==
  /\ api = "written" /\ api' = "count"
  /\ file' = pending /\ pending' = Unset
  /\ UNCHANGED <<bound, started, accepting, migrated, given, explicit, env, found, served, excused, seedCut,
                 deaths, faults, changes, users>>

-----------------------------------------------------------------------------
(* SeedService.onApplicationBootstrap, before the API listens *)

SeedFrame == UNCHANGED <<bound, started, accepting, migrated, given, explicit, file, env, pending, excused,
                         deaths, changes>>
Listen == api' = "up" /\ served' = env /\ found' = 0
Goto(p) == api' = p /\ UNCHANGED served
Quietly == UNCHANGED <<faults, seedCut>>
Through == seedCut' = FALSE /\ UNCHANGED faults

\* A statement that fails is logged, and the API listens all the same.
SeedFails ==
  /\ api \in SeedPlaces /\ faults < bound.faults
  /\ faults' = faults + 1 /\ seedCut' = TRUE
  /\ Listen /\ SeedFrame /\ UNCHANGED users

\* Mutant: the seed looks for its user whatever the table holds.
Count_NoGuard ==
  /\ api = "count" /\ Goto("find") /\ UNCHANGED found
  /\ SeedFrame /\ Quietly /\ UNCHANGED users

\* Without explicit credentials only an empty table is seeded.
Count ==
  /\ api = "count"
  /\ IF ~explicit /\ \E i \in Ids : Exists(i) THEN Listen ELSE Goto("find") /\ UNCHANGED found
  /\ SeedFrame /\ Quietly /\ UNCHANGED users

Find ==
  /\ api = "find"
  /\ \/ \E i \in Ids : /\ row[i].name = SeedName
                       /\ IF row[i].role = "admin" THEN Listen /\ Through
                            ELSE Goto("promote") /\ found' = i /\ Quietly
     \/ (\A i \in Ids : row[i].name # SeedName) /\ Goto("register") /\ Quietly /\ UNCHANGED found
  /\ SeedFrame /\ UNCHANGED users

\* AuthService.register looks for the name again, then hashes and creates.
Register ==
  /\ api = "register"
  /\ IF \E i \in Ids : row[i].name = SeedName THEN Listen ELSE Goto("create") /\ UNCHANGED found
  /\ SeedFrame /\ Quietly /\ UNCHANGED users

\* Mutant: the column has no default.
NewRow_NoRole(n) == [name |-> n, role |-> "none"]

\* The role of a new row is the default of the schema.
NewRow(n) == [name |-> n, role |-> "viewer"]

\* user.create: a new id.
Insert(n, i) ==
  /\ i \in Ids \ used
  /\ row' = [row EXCEPT ![i] = NewRow(n)] /\ used' = used \cup {i}

Create ==
  /\ api = "create"
  /\ \E i \in Ids : Insert(SeedName, i) /\ found' = i
  /\ Goto("setAdmin")
  /\ SeedFrame /\ Quietly

\* setRole of a row that exists, or an error.
Promote ==
  /\ api \in {"promote", "setAdmin"}
  /\ row' = [row EXCEPT ![found].role = "admin"] /\ UNCHANGED used
  /\ Listen
  /\ SeedFrame /\ Through

BootStep ==
  \/ \E s \in Services : Start(s)
  \/ Accept
  \/ Load \/ Truncate \/ Write
  \/ SeedFails \/ Count \/ Find \/ Register \/ Create \/ Promote

Outage == (\E whole \in BOOLEAN : Die(whole)) \/ \E s \in Secrets : ChangeEnvironment(s)

-----------------------------------------------------------------------------
(* Properties *)

\* Start-up order: an API process is started only once PostgreSQL accepts
\* connections and the schema its statements need is there, although s6 starts
\* services side by side and each may be slow.  (A PostgreSQL that dies while
\* the API runs is not in the model.)
ApiAfterSchema == api # "off" => migrated /\ accepting

\* "Generated values are persisted so they stay stable across restarts": an
\* API listens with the secrets the API before it listened with, whatever
\* died in between, also when a death cuts the first write of the file in two.
\* Excused are the secrets the operator changed and, when a death cuts a later
\* write in two, the generated ones, which the file then loses.
SecretsStable ==
  [][\A s \in Secrets : served'[s] # served[s] => served[s] = 0 \/ s \in excused]_boot

\* "An existing, operator-managed deployment is never touched": without
\* explicit credentials the seed changes no row once there is one, but for
\* the row it created itself.
SeedLeavesManaged ==
  [][~explicit /\ api \in SeedPlaces /\ row' # row =>
       \A i \in Ids : Exists(i) => i = found]_<<boot, users>>
=============================================================================
