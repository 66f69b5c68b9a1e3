----------------------------- MODULE WebhooksPage -----------------------------
(***************************************************************************)
(* The form of Webhooks.vue that creates and edits webhooks.  A save is up *)
(* to three awaits: the fields, the instances to link and to unlink, all   *)
(* at once, and the list.  The refs of the form are read again after each  *)
(* of them, and the form stays open to the user meanwhile.                 *)
(*                                                                         *)
(* The server is linkInstance, unlinkInstance, create and list of          *)
(* WebhooksService; the other fields of a webhook are left out.            *)
(***************************************************************************)
EXTENDS Naturals, FiniteSets, Functions

CONSTANTS
  Hooks,        \* webhooks
  Targets,      \* instances a webhook may be linked to
  ListCalls,    \* bound: loads of the list under way at one time
  MaxSaves,     \* bound: times the form is submitted
  MaxToggles    \* bound: times a webhook is switched on or off

ASSUME WebhooksAssumption == MaxSaves \in Nat /\ MaxToggles \in Nat /\ "none" \notin Hooks

VARIABLES
  visited,      \* the page is mounted
  linked,       \* the server: the instances of each webhook that exists
  webhooks,     \* the list of the page: the same, as it was when it was read
  list,         \* what the table shows: "loading", "error" or "rows"
  lists,        \* lists[l]: load l, and what the server answered it
  showForm, editing,
  copy,         \* the instances of `editing`, which is an entry of an old list
  ticks,        \* form.instanceIds
  save,         \* what the save waits for, and the webhook it was asked for
  links,        \* calls of linkWebhookInstance and unlinkWebhookInstance, by save
  saves,
  toggling,     \* calls of toggleActive under way
  toggles,
  clean,        \* history: the save began from what the server had
  touched       \* history: the form was not let alone since

form   == <<showForm, editing, copy, ticks>>
table  == <<webhooks, list, lists>>
excuse == <<clean, touched>>
hookVars == <<visited, linked, table, form, save, links, saves, toggling, toggles, excuse>>

Tables == UNION {[w -> SUBSET Targets] : w \in SUBSET Hooks}
Nothing == Restrict([w \in Hooks |-> {}], {})
NoLoad == [at |-> "idle", rows |-> Nothing]
NoSave == [at |-> "idle", hook |-> "none", with |-> {}, load |-> "none"]

HooksTypeOK ==
  /\ visited \in BOOLEAN /\ showForm \in BOOLEAN /\ clean \in BOOLEAN /\ touched \in BOOLEAN
  /\ linked \in Tables /\ webhooks \in Tables
  /\ list \in {"loading", "error", "rows"}
  /\ lists \in [ListCalls -> [at : {"idle", "asked", "answered"}, rows : Tables]]
  /\ editing \in Hooks \cup {"none"}
  /\ copy \subseteq Targets /\ ticks \subseteq Targets
  /\ save \in [at : {"idle", "update", "create", "links", "reload"}, hook : Hooks \cup {"none"},
               with : SUBSET Targets, load : ListCalls \cup {"none"}]
  /\ links \subseteq [op : {"link", "unlink"}, hook : Hooks, to : Targets, save : 1..MaxSaves]
  /\ saves \in 0..MaxSaves /\ toggles \in 0..MaxToggles /\ toggling \in 0..MaxToggles

HooksInit ==
  /\ visited \in BOOLEAN
  /\ \E w \in SUBSET Hooks : linked = [v \in w |-> Targets]
  /\ webhooks = Nothing /\ list = "loading"
  /\ \E l \in ListCalls :
       lists = [m \in ListCalls |-> IF visited /\ m = l THEN [NoLoad EXCEPT !.at = "asked"] ELSE NoLoad]
  /\ showForm = FALSE /\ editing = "none" /\ copy = {} /\ ticks = {}
  /\ save = NoSave /\ links = {} /\ saves = 0
  /\ toggling = 0 /\ toggles = 0
  /\ clean = TRUE /\ touched = FALSE

-----------------------------------------------------------------------------
(* The list *)

load(l) ==
  /\ lists[l].at = "idle"
  /\ lists' = [lists EXCEPT ![l].at = "asked"]
  /\ list' = "loading" /\ UNCHANGED webhooks

listWebhooks(l) ==
  /\ lists[l].at = "asked"
  /\ lists' = [lists EXCEPT ![l] = [at |-> "answered", rows |-> linked]]
  /\ UNCHANGED <<visited, linked, webhooks, list, form, save, links, saves, toggling, toggles, excuse>>

\* A save that waits for the list is over.
Loaded(l) ==
  /\ lists' = [lists EXCEPT ![l] = NoLoad]
  /\ save' = IF save.at = "reload" /\ save.load = l THEN NoSave ELSE save
  /\ UNCHANGED <<visited, linked, form, links, saves, toggling, toggles, excuse>>

\* An error is shown until the next load begins, whatever is answered.
ListAnswered(l) ==
  /\ lists[l].at = "answered"
  /\ webhooks' = lists[l].rows
  /\ list' = IF list = "error" THEN "error" ELSE "rows"
  /\ Loaded(l)

ListFails(l) ==
  /\ lists[l].at = "asked"
  /\ list' = "error" /\ UNCHANGED webhooks
  /\ Loaded(l)

\* The switch of a row: a call, then a load, or the message of an error.
toggleActive ==
  /\ ~showForm /\ list = "rows" /\ webhooks # Nothing
  /\ toggles < MaxToggles /\ toggles' = toggles + 1
  /\ toggling' = toggling + 1
  /\ UNCHANGED <<visited, linked, table, form, save, links, saves, excuse>>

Toggled ==
  /\ toggling > 0 /\ toggling' = toggling - 1
  /\ UNCHANGED table \/ \E l \in ListCalls : load(l)
  /\ UNCHANGED <<visited, linked, form, save, links, saves, toggles, excuse>>

-----------------------------------------------------------------------------
(* The form *)

\* The open form covers the table and the button above it.
OpenForm(w, its) ==
  /\ ~showForm /\ showForm' = TRUE
  /\ editing' = w /\ copy' = its /\ ticks' = its
  /\ touched' = TRUE
  /\ UNCHANGED <<visited, linked, table, save, links, saves, toggling, toggles, clean>>

openCreate == OpenForm("none", {})
openEdit   == list = "rows" /\ \E w \in DOMAIN webhooks : OpenForm(w, webhooks[w])

CloseForm ==
  /\ showForm /\ showForm' = FALSE
  /\ touched' = TRUE
  /\ UNCHANGED <<visited, linked, table, editing, copy, ticks, save, links, saves, toggling, toggles, clean>>

toggleArray(i) ==
  /\ showForm
  /\ ticks' = IF i \in ticks THEN ticks \ {i} ELSE ticks \cup {i}
  /\ touched' = TRUE
  /\ UNCHANGED <<visited, linked, table, showForm, editing, copy, save, links, saves, toggling, toggles, clean>>

\* The button is disabled while any save is under way.
submitForm ==
  /\ showForm /\ save.at = "idle"
  /\ saves < MaxSaves /\ saves' = saves + 1
  /\ save' = [NoSave EXCEPT !.at = IF editing = "none" THEN "create" ELSE "update",
                             !.hook = editing, !.with = IF editing = "none" THEN ticks ELSE {}]
  /\ clean' = (editing \in DOMAIN linked /\ linked[editing] = copy /\ \A c \in links : c.hook # editing)
  /\ touched' = FALSE
  /\ UNCHANGED <<visited, linked, table, form, links, toggling, toggles>>

\* The rest of a save that went well: the form is closed and the list loaded.
Saved ==
  /\ showForm' = FALSE /\ UNCHANGED <<editing, copy, ticks>>
  /\ \E l \in ListCalls : load(l) /\ save' = [save EXCEPT !.at = "reload", !.load = l]

\* The message of an error; the form stays as it is.
SaveFailed == save' = NoSave /\ UNCHANGED <<table, form>>

\* The call carries the ticks of the moment it was made; its answer may be lost.
createWebhook ==
  /\ save.at = "create"
  /\ \E w \in Hooks \ DOMAIN linked :
       linked' = [v \in DOMAIN linked \cup {w} |-> IF v = w THEN save.with ELSE linked[v]]
  /\ Saved \/ SaveFailed
  /\ UNCHANGED <<visited, links, saves, toggling, toggles, excuse>>

\* Mutant: nothing is unlinked.
reconcileInstances_LinksOnly ==
  {[op |-> "link", hook |-> editing, to |-> i, save |-> saves] : i \in ticks \ copy}

\* The calls of Promise.all.
reconcileInstances ==
       {[op |-> "link",   hook |-> editing, to |-> i, save |-> saves] : i \in ticks \ copy}
  \cup {[op |-> "unlink", hook |-> editing, to |-> i, save |-> saves] : i \in copy \ ticks}

\* The fields are stored.  `editing` is null when the user has opened the form
\* for a new webhook meanwhile.
Updated ==
  /\ save.at = "update"
  /\ links' = IF editing = "none" THEN links ELSE links \cup reconcileInstances
  /\ CASE editing = "none"        -> SaveFailed
       [] reconcileInstances = {} -> Saved
       [] OTHER -> save' = [save EXCEPT !.at = "links"] /\ UNCHANGED <<table, form>>
  /\ UNCHANGED <<visited, linked, saves, toggling, toggles, excuse>>

SaveRefused ==
  /\ save.at \in {"update", "create"}
  /\ SaveFailed
  /\ UNCHANGED <<visited, linked, links, saves, toggling, toggles, excuse>>

\* linkInstance and unlinkInstance say the same twice.
Linking(c) ==
  linked' = [linked EXCEPT ![c.hook] = IF c.op = "link" THEN @ \cup {c.to} ELSE @ \ {c.to}]

Awaited(c) == save.at = "links" /\ c.save = saves

\* Mutant: one answer is enough.
AllAnswered_First(c) == TRUE
AllAnswered(c) == \A d \in links \ {c} : d.save # saves

LinkAnswered(c) ==
  /\ links' = links \ {c} /\ Linking(c)
  /\ IF Awaited(c) /\ AllAnswered(c) THEN Saved ELSE UNCHANGED <<save, table, form>>
  /\ UNCHANGED <<visited, saves, toggling, toggles, excuse>>

\* A call that fails, before or after the server has stored it, ends the save;
\* the others go on.
LinkFails(c) ==
  /\ links' = links \ {c} /\ (Linking(c) \/ UNCHANGED linked)
  /\ IF Awaited(c) THEN SaveFailed ELSE UNCHANGED <<save, table, form>>
  /\ UNCHANGED <<visited, saves, toggling, toggles, excuse>>

HooksNext ==
  /\ visited
  /\ \/ \E l \in ListCalls : listWebhooks(l) \/ ListAnswered(l) \/ ListFails(l)
     \/ toggleActive \/ Toggled
     \/ openCreate \/ openEdit \/ CloseForm
     \/ \E i \in Targets : toggleArray(i)
     \/ submitForm \/ createWebhook \/ Updated \/ SaveRefused
     \/ \E c \in links : LinkAnswered(c) \/ LinkFails(c)

-----------------------------------------------------------------------------
(* Properties *)

\* "Reconcile linked instances on edit (link added, unlink removed)": a save
\* that closes the form leaves its webhook with the instances that are ticked,
\* in whatever order lists, links and switches are answered and after any
\* failures, if the form had been opened on what the server has and is let
\* alone while it is saved.
LinksMatchForm ==
  [][save.at \in {"update", "links"} /\ save'.at = "reload" /\ clean /\ ~touched =>
       linked'[save.hook] = ticks]_hookVars

-----------------------------------------------------------------------------
(* What the documentation says and the code does not do *)

\* The same without the conditions: after a save that failed half way the
\* retry starts from the old copy, so an instance it linked and that is not
\* ticked any more stays linked.
AnySaveMatchesForm ==
  [][save.at \in {"update", "links"} /\ save'.at = "reload" /\ ~touched =>
       linked'[save.hook] = ticks]_hookVars
=============================================================================
