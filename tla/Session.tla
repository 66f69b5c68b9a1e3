-------------------------------- MODULE Session --------------------------------
(***************************************************************************)
(* The session of a tab of the dashboard: the store of stores/auth.ts, the *)
(* guard of the router, the pages that log in, unlock and log out, and the *)
(* routes of AuthController they call.  The browser keeps the cookie and   *)
(* the API key; the rest is lost when the tab is loaded again.             *)
(*                                                                         *)
(* Pages are of three kinds: "app" (behind the layout, with the button     *)
(* that logs out), "login" and "unlock".                                   *)
(***************************************************************************)
EXTENDS Naturals, FiniteSets

CONSTANTS
  Keys,         \* API keys
  TabCalls,     \* bound: handlers of the tab that are waiting at one time
  MaxLoads,     \* bound: times the tab is loaded
  MaxTroubles   \* bound: keys rotated, cookies that expire, calls that fail

ASSUME SessionAssumption == MaxLoads \in Nat /\ MaxTroubles \in Nat /\ "none" \notin Keys

VARIABLES
  gatewayKey,   \* the API_KEY of the server
  cookie,       \* the browser has a cookie the server accepts
  stored,       \* the key in localStorage, or "none"
  apiKey,       \* `apiKey` of lib/api.ts
  user,         \* the store knows a user
  initialized, apiKeyReady,
  page,         \* the page that is shown, "none" before the first
  goal,         \* the page whose component is being loaded, or "none"
  way,          \* way[k]: what handler k waits for
  loads, troubles,
  accepted,     \* history: keys the server accepted since the tab was loaded
  blind,        \* history: the key was there and not checked at startup
  overlapped,   \* history: two navigations waited for auth.init at once
  stranded      \* history: a logout failed and no navigation followed

kept  == <<gatewayKey, cookie, stored>>
store == <<apiKey, user, initialized, apiKeyReady>>
told  == <<accepted, blind, overlapped, stranded>>
sessionVars == <<kept, store, page, goal, way, loads, troubles, told>>

Pages  == {"app", "login", "unlock"}
Routes == {"me", "check", "login", "loginMe", "submit", "logout"}
AtRest == [for |-> "nothing", to |-> "none", sends |-> "none", answer |-> "none", form |-> FALSE]

SessionTypeOK ==
  /\ gatewayKey \in Keys /\ cookie \in BOOLEAN
  /\ {stored, apiKey} \subseteq Keys \cup {"none"}
  /\ {user, initialized, apiKeyReady, blind, overlapped, stranded} \subseteq BOOLEAN
  /\ {page, goal} \subseteq Pages \cup {"none"}
  /\ way \in [TabCalls -> [for : Routes \cup {"nothing", "push"}, to : Pages \cup {"none"},
                           sends : Keys \cup {"none", "cookie"},
                           answer : {"none", "ok", "refused"}, form : BOOLEAN]]
  /\ loads \in 0..MaxLoads /\ troubles \in 0..MaxTroubles
  /\ accepted \subseteq Keys

SessionInit ==
  /\ gatewayKey \in Keys /\ cookie \in BOOLEAN
  /\ stored \in Keys \cup {"none"} /\ apiKey = "none"
  /\ user = FALSE /\ initialized = FALSE /\ apiKeyReady = FALSE
  /\ page = "none" /\ goal = "none"
  /\ way = [k \in TabCalls |-> AtRest]
  /\ loads \in {0, MaxLoads} /\ troubles = 0
  /\ accepted = {} /\ blind = FALSE /\ overlapped = FALSE /\ stranded = FALSE

-----------------------------------------------------------------------------
(* Calls and the server *)

InUse   == page # "none" \/ \E k \in TabCalls : way[k] # AtRest
Trouble == InUse /\ troubles < MaxTroubles /\ troubles' = troubles + 1

\* Handler k, with the page of its form if it has one, sends a request.
Sending(route, to, sends) ==
  [AtRest EXCEPT !.for = route, !.to = to, !.sends = sends, !.form = (route \in {"login", "submit"})]
Credential == IF cookie THEN "cookie" ELSE "none"

\* LocalStrategy: the password is right or not.
Password == {"ok", "refused"}

\* JwtStrategy: a user of a token that is good.
Token(w) == IF w.sends = "cookie" THEN {"ok"} ELSE {"refused"}

\* ApiKeyStrategy: the key of the server.
Key(w) == IF w.sends = gatewayKey THEN {"ok"} ELSE {"refused"}

\* Nobody is refused a logout.
Verdicts(w) ==
  CASE w.for = "login"              -> Password
    [] w.for \in {"me", "loginMe"}  -> Token(w)
    [] w.for \in {"check", "submit"} -> Key(w)
    [] w.for = "logout"             -> {"ok"}

Reply(k) ==
  LET w == way[k] IN
  /\ w.for \in Routes /\ w.answer = "none"
  /\ \E answer \in Verdicts(w) :
       /\ way' = [way EXCEPT ![k].answer = answer]
       /\ accepted' = IF w.sends \in Keys /\ answer = "ok" THEN accepted \cup {w.sends} ELSE accepted
  /\ UNCHANGED <<kept, store, page, goal, loads, troubles, blind, overlapped, stranded>>

\* The call does not get through; the code treats it as a refusal.
Cut(k) ==
  /\ Trouble
  /\ way[k].for \in Routes /\ way[k].answer = "none"
  /\ way' = [way EXCEPT ![k].answer = "refused"]
  /\ UNCHANGED <<kept, store, page, goal, loads, told>>

RotateKey ==
  /\ Trouble
  /\ gatewayKey' \in Keys \ {gatewayKey}
  /\ UNCHANGED <<cookie, stored, store, page, goal, way, loads, told>>

\* The token runs out, or its user is deleted.
CookieExpires ==
  /\ Trouble
  /\ cookie /\ cookie' = FALSE
  /\ UNCHANGED <<gatewayKey, stored, store, page, goal, way, loads, told>>

-----------------------------------------------------------------------------
(* The router *)

\* Mutant: the unlock step is not forced.
Guard_NoUnlock(to) ==
  CASE to # "login" /\ ~user' -> "login"
    [] to = "login" /\ user'  -> IF apiKeyReady' THEN "app" ELSE "unlock"
    [] to = "unlock" /\ user' /\ apiKeyReady' -> "app"
    [] OTHER -> to

\* router.beforeEach, once the store is initialized.
Guard(to) ==
  CASE to # "login" /\ ~user' -> "login"
    [] to = "login" /\ user'  -> IF apiKeyReady' THEN "app" ELSE "unlock"
    [] to = "app" /\ user' /\ ~apiKeyReady'   -> "unlock"
    [] to = "unlock" /\ user' /\ apiKeyReady' -> "app"
    [] OTHER -> to

\* The guard runs again for the page it redirects to.
Push(to) == goal' = Guard(Guard(to)) /\ stranded' = FALSE

\* The address is entered, or the tab loaded again: the first navigation calls
\* auth.init.
Load(to) ==
  /\ loads < MaxLoads /\ loads' = loads + 1
  /\ user' = FALSE /\ initialized' = FALSE
  /\ apiKey' = stored /\ apiKeyReady' = (stored # "none")
  /\ page' = "none" /\ goal' = "none"
  /\ \E k \in TabCalls :
       way' = [j \in TabCalls |-> IF j = k THEN Sending("me", to, Credential) ELSE AtRest]
  /\ accepted' = {} /\ blind' = FALSE /\ overlapped' = FALSE /\ stranded' = FALSE
  /\ UNCHANGED <<kept, troubles>>

\* A link, or the buttons of the browser; before the store is initialized a
\* navigation calls auth.init too.
Navigate(to) ==
  /\ InUse
  /\ UNCHANGED <<kept, store, page, loads, troubles, accepted, blind>>
  /\ IF initialized
       THEN /\ Push(to)
            /\ UNCHANGED <<way, overlapped>>
       ELSE /\ \E k \in TabCalls : /\ way[k] = AtRest
                                   /\ way' = [way EXCEPT ![k] = Sending("me", to, Credential)]
            /\ overlapped' = TRUE
            /\ UNCHANGED <<goal, stranded>>

\* The component is there: the page changes, and with it the forms.
Arrived ==
  /\ goal # "none" /\ goal' = "none"
  /\ page' = goal
  /\ way' = [k \in TabCalls |->
               IF way[k].for = "push" THEN AtRest
               ELSE IF page = goal THEN way[k] ELSE [way[k] EXCEPT !.form = FALSE]]
  /\ UNCHANGED <<kept, store, loads, troubles, told>>

-----------------------------------------------------------------------------
(* The store *)

forgetApiKey ==
  /\ apiKey' = "none" /\ stored' = "none" /\ apiKeyReady' = FALSE
  /\ blind' = FALSE

\* The end of init, and the guard of the navigation that called it; one that
\* was overtaken may be dropped.
Initialized(k) ==
  /\ initialized' = TRUE
  /\ \/ Push(way[k].to)
     \/ overlapped /\ UNCHANGED <<goal, stranded>>
  /\ way' = [way EXCEPT ![k] = AtRest]

\* init after api.me: a persisted key is validated for a user only.
initMe(k) ==
  /\ way[k].for = "me" /\ way[k].answer # "none"
  /\ user' = (way[k].answer = "ok")
  /\ IF user' /\ apiKey # "none"
       THEN /\ way' = [way EXCEPT ![k] = Sending("check", @.to, stored)]
            /\ UNCHANGED <<initialized, apiKeyReady, goal, blind, stranded>>
       ELSE /\ apiKeyReady' = (apiKey # "none")
            /\ blind' = (blind \/ apiKey # "none")
            /\ Initialized(k)
  /\ UNCHANGED <<kept, apiKey, page, loads, troubles, accepted, overlapped>>

\* init after the key check.
initCheck(k) ==
  /\ way[k].for = "check" /\ way[k].answer # "none"
  /\ IF way[k].answer = "ok"
       THEN apiKeyReady' = (apiKey # "none") /\ UNCHANGED <<apiKey, stored, blind>>
       ELSE forgetApiKey
  /\ UNCHANGED user
  /\ Initialized(k)
  /\ UNCHANGED <<gatewayKey, cookie, page, loads, troubles, accepted, overlapped>>

\* The button of a form is disabled until its handler ends.
Submitting == \E k \in TabCalls : way[k].form

SendForm(route, sends) ==
  /\ \E k \in TabCalls : /\ way[k] = AtRest
                         /\ way' = [way EXCEPT ![k] = Sending(route, "none", sends)]
  /\ UNCHANGED <<kept, store, page, goal, loads, troubles, told>>

SubmitLogin == page = "login" /\ ~Submitting /\ SendForm("login", "none")

SubmitKey == page = "unlock" /\ ~Submitting /\ \E key \in Keys : SendForm("submit", key)

\* The layout and the unlock page have a button that logs out.
PressLogout == page \in {"app", "unlock"} /\ SendForm("logout", "none")

\* The handler waits for router.push, or is done.
Pushing(k) == way' = [way EXCEPT ![k].for = "push", ![k].sends = "none", ![k].answer = "none"]
Resting(k) == way' = [way EXCEPT ![k] = AtRest]

\* login: the cookie comes with the answer, then api.me is asked.
login(k) ==
  /\ way[k].for = "login" /\ way[k].answer # "none"
  /\ IF way[k].answer = "ok"
       THEN /\ cookie' = TRUE
            /\ way' = [way EXCEPT ![k] = [Sending("loginMe", "none", "cookie") EXCEPT !.form = @]]
       ELSE UNCHANGED cookie /\ Resting(k)
  /\ UNCHANGED <<gatewayKey, stored, store, page, goal, loads, troubles, told>>

\* The rest of login, and Login.vue: to the page that was asked for.
loginUser(k) ==
  /\ way[k].for = "loginMe" /\ way[k].answer # "none"
  /\ IF way[k].answer = "ok"
       THEN /\ user' = TRUE /\ UNCHANGED <<apiKey, initialized, apiKeyReady>>
            /\ \E to \in {"app", "unlock"} : Push(to)
            /\ Pushing(k)
       ELSE UNCHANGED <<store, goal, stranded>> /\ Resting(k)
  /\ UNCHANGED <<kept, page, loads, troubles, accepted, blind, overlapped>>

\* Mutant: the key is kept whatever the server says.
submitApiKey_Unchecked(k) ==
  /\ way[k].for = "submit" /\ way[k].answer # "none"
  /\ apiKey' = way[k].sends /\ stored' = way[k].sends
  /\ apiKeyReady' = TRUE /\ blind' = FALSE
  /\ UNCHANGED <<user, initialized>>
  /\ \E to \in {"app", "unlock"} : Push(to)
  /\ Pushing(k)
  /\ UNCHANGED <<gatewayKey, cookie, page, loads, troubles, accepted, overlapped>>

\* submitApiKey and Unlock.vue: a key that was accepted is kept.
submitApiKey(k) ==
  /\ way[k].for = "submit" /\ way[k].answer # "none"
  /\ IF way[k].answer = "ok"
       THEN /\ apiKey' = way[k].sends /\ stored' = way[k].sends
            /\ apiKeyReady' = TRUE /\ blind' = FALSE
            /\ UNCHANGED <<user, initialized>>
            /\ \E to \in {"app", "unlock"} : Push(to)
            /\ Pushing(k)
       ELSE UNCHANGED <<stored, store, goal, blind, stranded>> /\ Resting(k)
  /\ UNCHANGED <<gatewayKey, cookie, page, loads, troubles, accepted, overlapped>>

\* logout: the `finally` empties the store; the navigation follows only when
\* the call did not fail.
logout(k) ==
  /\ way[k].for = "logout" /\ way[k].answer # "none"
  /\ user' = FALSE /\ UNCHANGED initialized
  /\ forgetApiKey
  /\ IF way[k].answer = "ok"
       THEN cookie' = FALSE /\ Push("login") /\ Pushing(k)
       ELSE UNCHANGED <<cookie, goal>> /\ stranded' = TRUE /\ Resting(k)
  /\ UNCHANGED <<gatewayKey, page, loads, troubles, accepted, overlapped>>

SessionNext ==
  \/ \E to \in Pages : Load(to) \/ Navigate(to)
  \/ Arrived \/ RotateKey \/ CookieExpires
  \/ SubmitLogin \/ SubmitKey \/ PressLogout
  \/ \E k \in TabCalls : \/ Reply(k) \/ Cut(k)
                         \/ initMe(k) \/ initCheck(k) \/ login(k) \/ loginUser(k)
                         \/ submitApiKey(k) \/ logout(k)

-----------------------------------------------------------------------------
(* Properties *)

\* `unlocked` of the store.
unlocked == user /\ apiKeyReady

\* A page behind the layout is left as soon as its session is: it is shown to
\* a user with a key, or the tab is on its way to another page, however the
\* answers of logins, key checks and logouts cross with navigations.  Not so
\* after a logout that failed, until the user goes somewhere, nor when two
\* navigations waited for the store.
AppNeedsSession ==
  page = "app" /\ ~stranded /\ ~overlapped => unlocked \/ goal # "none"

\* "the user is logged in AND has supplied a valid API key": the key of an
\* unlocked tab was accepted by the server since the tab was loaded, through
\* any rotation and retry; not so when nobody was logged in at startup, where
\* a persisted key is not validated.
KeyWasAccepted ==
  initialized /\ unlocked /\ ~blind /\ ~overlapped => apiKey \in accepted

-----------------------------------------------------------------------------
(* What the documentation says and the code does not do *)

\* stores/auth.ts, unlocked: "True once the user is logged in AND has supplied
\* a valid API key."
UnlockedHasValidKey == initialized /\ unlocked => apiKey \in accepted
=============================================================================
