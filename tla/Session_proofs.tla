---------------------------- MODULE Session_proofs ----------------------------
(***************************************************************************)
(* The inductive invariant of Session, for any keys, any number of         *)
(* handlers that wait at one time, of loads and of troubles.  The theorems *)
(* it serves are those of Dashboard_proofs.                                *)
(***************************************************************************)
EXTENDS Session, TLAPS

USE SessionAssumption DEF SessionAssumption

Ways == [for : Routes \cup {"nothing", "push"}, to : Pages \cup {"none"},
         sends : Keys \cup {"none", "cookie"}, answer : {"none", "ok", "refused"}, form : BOOLEAN]

\* What a handler waits for: the startup is on its way to a page, a key that
\* is checked is a key, and one that was found good was accepted.
WaySound(w) ==
  /\ w.for \in {"me", "check"} => w.to \in Pages
  /\ w.for \in {"check", "submit"} => w.sends \in Keys
  /\ w.for \in {"check", "submit"} /\ w.answer = "ok" => w.sends \in accepted
WaysSound == \A k \in TabCalls : WaySound(way[k])

\* Until the store is initialized nothing is shown, and the one handler there
\* may be is the startup's, which checks the key the tab has.
StartsAlone ==
  ~overlapped /\ ~initialized =>
    /\ page = "none" /\ goal = "none"
    /\ \A j, k \in TabCalls : way[j] # AtRest /\ way[k] # AtRest => j = k
    /\ \A k \in TabCalls :
         way[k] # AtRest => /\ way[k].for \in {"me", "check"}
                            /\ way[k].for = "check" => way[k].sends = apiKey
Settled == ~overlapped /\ initialized => \A k \in TabCalls : way[k].for \notin {"me", "check"}

\* The layout is on its way to a user with a key only.
GoalAllowed == goal = "app" /\ ~stranded /\ ~overlapped => unlocked

\* The tab is not loaded, or its key is the one that is stored.
Unloaded ==
  /\ page = "none" /\ goal = "none" /\ ~initialized /\ ~overlapped
  /\ \A k \in TabCalls : way[k] = AtRest
Persisted == Unloaded \/ stored = apiKey

\* A key that makes the tab ready is there, and was accepted unless it was
\* not looked at.
KeyThere == apiKeyReady => apiKey # "none"
KeyKnown == initialized /\ apiKeyReady /\ ~blind /\ ~overlapped => apiKey \in accepted

SessionInv ==
  /\ SessionTypeOK /\ WaysSound /\ StartsAlone /\ Settled /\ GoalAllowed /\ AppNeedsSession
  /\ Persisted /\ KeyThere /\ KeyKnown

-----------------------------------------------------------------------------
(* Handlers and the guard *)

LEMMA TypesAre ==
  ASSUME SessionTypeOK
  PROVE  /\ way \in [TabCalls -> Ways]
         /\ stored \in Keys \cup {"none"} /\ apiKey \in Keys \cup {"none"}
         /\ user \in BOOLEAN /\ initialized \in BOOLEAN /\ apiKeyReady \in BOOLEAN
         /\ blind \in BOOLEAN /\ overlapped \in BOOLEAN /\ stranded \in BOOLEAN
         /\ page \in Pages \cup {"none"} /\ goal \in Pages \cup {"none"}
BY DEF SessionTypeOK, Ways

LEMMA RestIs ==
  /\ AtRest \in Ways /\ AtRest.for = "nothing" /\ AtRest.answer = "none" /\ AtRest.form = FALSE
  /\ WaySound(AtRest)
BY DEF AtRest, Ways, Routes, WaySound

LEMMA SendingIs ==
  ASSUME NEW route \in Routes, NEW to \in Pages \cup {"none"}, NEW sends \in Keys \cup {"none", "cookie"}
  PROVE  /\ Sending(route, to, sends) \in Ways
         /\ Sending(route, to, sends).for = route /\ Sending(route, to, sends).to = to
         /\ Sending(route, to, sends).sends = sends /\ Sending(route, to, sends).answer = "none"
         /\ Sending(route, to, sends) # AtRest
<1>1. (route \in {"login", "submit"}) \in BOOLEAN
  OBVIOUS
<1>2. /\ Sending(route, to, sends) \in Ways
      /\ Sending(route, to, sends).for = route /\ Sending(route, to, sends).to = to
      /\ Sending(route, to, sends).sends = sends /\ Sending(route, to, sends).answer = "none"
  BY <1>1 DEF Sending, AtRest, Ways
<1>3. route # "nothing"
  BY DEF Routes
<1>. QED
  BY <1>2, <1>3, RestIs

\* Handler k goes on with w, the others wait on.
LEMMA WayIs ==
  ASSUME SessionTypeOK, NEW k \in TabCalls, NEW w \in Ways, way' = [way EXCEPT ![k] = w]
  PROVE  /\ way' \in [TabCalls -> Ways] /\ way'[k] = w
         /\ \A j \in TabCalls \ {k} : way'[j] = way[j]
BY TypesAre

\* The guard never leaves the tab without a page, and opens the layout to a
\* user with a key only.
LEMMA GuardIs ==
  ASSUME NEW to \in Pages
  PROVE  /\ Guard(Guard(to)) \in Pages
         /\ Guard(Guard(to)) = "app" => user' /\ apiKeyReady'
BY DEF Guard, Pages

LEMMA PushIs ==
  ASSUME NEW to \in Pages, Push(to)
  PROVE  /\ goal' \in Pages /\ goal' # "none" /\ stranded' = FALSE
         /\ goal' = "app" => user' /\ apiKeyReady'
<1>1. goal' = Guard(Guard(to)) /\ stranded' = FALSE
  BY DEF Push
<1>2. "none" \notin Pages
  BY DEF Pages
<1>. QED
  BY <1>1, <1>2, GuardIs

-----------------------------------------------------------------------------
(* Calls *)

LEMMA WaysKeep ==
  ASSUME SessionTypeOK, WaysSound, NEW k \in TabCalls, NEW w \in Ways, way' = [way EXCEPT ![k] = w],
         WaySound(w)', accepted \subseteq accepted'
  PROVE  WaysSound'
<1>1. \A j \in TabCalls : way'[j] = IF j = k THEN w ELSE way[j]
  BY WayIs
<1>2. \A j \in TabCalls : WaySound(way[j])
  BY DEF WaysSound
<1>. QED
  BY <1>1, <1>2 DEF WaysSound, WaySound

\* A handler goes on with what it was asked, ends, or begins after the startup.
LEMMA CallKeeps ==
  ASSUME SessionInv, NEW k \in TabCalls, NEW w \in Ways, way' = [way EXCEPT ![k] = w],
         \/ w = AtRest
         \/ way[k] # AtRest /\ w.for = way[k].for /\ w.sends = way[k].sends
         \/ w.for \notin {"me", "check"} /\ (initialized \/ overlapped),
         WaySound(w)', accepted \subseteq accepted', accepted' \subseteq Keys,
         gatewayKey' \in Keys, cookie' \in BOOLEAN, loads' \in 0..MaxLoads, troubles' \in 0..MaxTroubles,
         UNCHANGED <<stored, store, page, goal, blind, overlapped, stranded>>
  PROVE  SessionInv'
<1>1. /\ way' \in [TabCalls -> Ways] /\ way'[k] = w
      /\ \A j \in TabCalls \ {k} : way'[j] = way[j]
  BY WayIs DEF SessionInv
<1>2. SessionTypeOK'
  BY <1>1 DEF SessionInv, SessionTypeOK, store, Ways
<1>3. WaysSound'
  BY WaysKeep DEF SessionInv
<1>4. StartsAlone'
  BY <1>1, RestIs DEF SessionInv, StartsAlone, store
<1>5. Settled'
  BY <1>1, RestIs DEF SessionInv, Settled, StartsAlone, store
<1>6. GoalAllowed' /\ AppNeedsSession' /\ KeyThere' /\ KeyKnown'
  BY DEF SessionInv, GoalAllowed, AppNeedsSession, KeyThere, KeyKnown, unlocked, store
<1>7. Persisted'
  BY <1>1, RestIs DEF SessionInv, Persisted, Unloaded, store
<1>. QED
  BY <1>2, <1>3, <1>4, <1>5, <1>6, <1>7 DEF SessionInv

LEMMA TroubleIs == SessionTypeOK /\ Trouble => troubles' \in 0..MaxTroubles
BY DEF SessionTypeOK, Trouble

LEMMA AnswerKeeps ==
  ASSUME SessionInv, NEW k \in TabCalls, Reply(k) \/ Cut(k)
  PROVE  SessionInv'
<1>. DEFINE v == way[k]
<1>0. v \in Ways /\ v.for \in Routes /\ v # AtRest /\ WaySound(v) /\ accepted \subseteq Keys
      /\ gatewayKey \in Keys /\ cookie \in BOOLEAN /\ loads \in 0..MaxLoads /\ troubles \in 0..MaxTroubles
  <2>1. v \in Ways
    BY TypesAre DEF SessionInv
  <2>2. v.for \in Routes /\ "nothing" \notin Routes
    BY DEF Reply, Cut, Routes
  <2>. QED
    BY <2>1, <2>2, RestIs DEF SessionInv, SessionTypeOK, WaysSound
<1>1. ASSUME NEW a \in {"ok", "refused"}, way' = [way EXCEPT ![k].answer = a], accepted \subseteq accepted',
             accepted' \subseteq Keys,
             a = "ok" /\ v.sends \in Keys => v.sends \in accepted',
             UNCHANGED <<kept, store, page, goal, loads, blind, overlapped, stranded>>,
             troubles' \in 0..MaxTroubles
      PROVE  SessionInv'
  <2>1. [v EXCEPT !.answer = a] \in Ways
    BY <1>0 DEF Ways
  <2>2. PICK w \in Ways : w = [v EXCEPT !.answer = a]
    BY <2>1
  <2>3. w.for = v.for /\ w.to = v.to /\ w.sends = v.sends /\ w.answer = a
    BY <1>0, <2>2 DEF Ways
  <2>4. way' = [way EXCEPT ![k] = w]
    BY <1>1, <2>2
  <2>5. WaySound(w)'
    BY <1>0, <1>1, <2>3 DEF WaySound
  <2>. QED
    BY <1>0, <1>1, <2>3, <2>4, <2>5, CallKeeps DEF kept
<1>2. CASE Reply(k)
  <2>1. PICK a \in Verdicts(v) :
          /\ way' = [way EXCEPT ![k].answer = a]
          /\ accepted' = IF v.sends \in Keys /\ a = "ok" THEN accepted \cup {v.sends} ELSE accepted
    BY <1>2 DEF Reply
  <2>2. Verdicts(v) \subseteq {"ok", "refused"}
    BY <1>0 DEF Verdicts, Routes, Password, Token, Key
  <2>. QED
    BY <1>0, <1>1, <1>2, <2>1, <2>2 DEF Reply
<1>3. CASE Cut(k)
  <2>1. troubles' \in 0..MaxTroubles
    BY <1>3, TroubleIs DEF Cut, SessionInv
  <2>. QED
    BY <1>0, <1>1, <1>3, <2>1 DEF Cut, told
<1>. QED
  BY <1>2, <1>3

\* The forms and the button are there once the tab is initialized.
LEMMA FormKeeps ==
  ASSUME SessionInv, SubmitLogin \/ SubmitKey \/ PressLogout
  PROVE  SessionInv'
<1>1. PICK k \in TabCalls, route \in {"login", "submit", "logout"}, sends \in Keys \cup {"none"} :
        /\ way' = [way EXCEPT ![k] = Sending(route, "none", sends)]
        /\ route = "submit" => sends \in Keys
        /\ UNCHANGED <<kept, store, page, goal, loads, troubles, told>>
  BY DEF SubmitLogin, SubmitKey, PressLogout, SendForm
<1>2. initialized \/ overlapped
  BY DEF SubmitLogin, SubmitKey, PressLogout, SessionInv, StartsAlone
<1>. DEFINE w == Sending(route, "none", sends)
<1>3. w \in Ways /\ w.for = route /\ w.sends = sends /\ w.answer = "none"
  BY SendingIs DEF Routes
<1>. HIDE DEF w
<1>4. WaySound(w)'
  BY <1>1, <1>3 DEF WaySound
<1>5. /\ gatewayKey \in Keys /\ cookie \in BOOLEAN /\ loads \in 0..MaxLoads /\ troubles \in 0..MaxTroubles
      /\ accepted \subseteq Keys
  BY DEF SessionInv, SessionTypeOK
<1>6. way' = [way EXCEPT ![k] = w]
  BY <1>1 DEF w
<1>. QED
  BY <1>1, <1>2, <1>3, <1>4, <1>5, <1>6, CallKeeps DEF kept, told

LEMMA ServerKeeps ==
  ASSUME SessionInv,
         \/ RotateKey \/ CookieExpires
         \/ UNCHANGED sessionVars
  PROVE  SessionInv'
<1>1. UNCHANGED <<stored, store, page, goal, way, loads, told>>
  BY DEF RotateKey, CookieExpires, sessionVars, kept
<1>2. SessionTypeOK'
  <2>1. gatewayKey' \in Keys /\ cookie' \in BOOLEAN /\ troubles' \in 0..MaxTroubles
    BY TroubleIs DEF SessionInv, RotateKey, CookieExpires, SessionTypeOK, sessionVars, kept
  <2>. QED
    BY <1>1, <2>1 DEF SessionInv, SessionTypeOK, store, told
<1>3. WaysSound' /\ StartsAlone' /\ Settled' /\ Persisted'
  BY <1>1 DEF SessionInv, WaysSound, WaySound, StartsAlone, Settled, Persisted, Unloaded, store, told
<1>4. GoalAllowed' /\ AppNeedsSession' /\ KeyThere' /\ KeyKnown'
  BY <1>1 DEF SessionInv, GoalAllowed, AppNeedsSession, KeyThere, KeyKnown, unlocked, store, told
<1>. QED
  BY <1>2, <1>3, <1>4 DEF SessionInv

-----------------------------------------------------------------------------
(* The router *)

LEMMA LoadKeeps ==
  ASSUME SessionInv, NEW to \in Pages, Load(to)
  PROVE  SessionInv'
<1>1. PICK k \in TabCalls :
        way' = [j \in TabCalls |-> IF j = k THEN Sending("me", to, Credential) ELSE AtRest]
  BY DEF Load
<1>2. Credential \in {"none", "cookie"}
  BY DEF Credential
<1>3. PICK w \in Ways : w = Sending("me", to, Credential) /\ w.for = "me" /\ w.to = to /\ w.answer = "none"
  BY <1>2, SendingIs DEF Routes
<1>4. \A j \in TabCalls : way'[j] = IF j = k THEN w ELSE AtRest
  BY <1>1, <1>3
<1>5. way' \in [TabCalls -> Ways]
  BY <1>1, <1>3, RestIs
<1>6. /\ user' = FALSE /\ initialized' = FALSE /\ apiKey' = stored /\ apiKeyReady' = (stored # "none")
      /\ page' = "none" /\ goal' = "none" /\ accepted' = {} /\ blind' = FALSE /\ overlapped' = FALSE
      /\ stranded' = FALSE /\ UNCHANGED <<gatewayKey, cookie, stored, troubles>>
  BY DEF Load, kept
<1>7. loads' \in 0..MaxLoads
  BY DEF Load, SessionInv, SessionTypeOK
<1>8. SessionTypeOK'
  <2>1. apiKeyReady' \in BOOLEAN
    BY <1>6
  <2>. QED
    BY <1>5, <1>6, <1>7, <2>1 DEF SessionInv, SessionTypeOK, Ways
<1>9. WaysSound'
  BY <1>3, <1>4, RestIs DEF WaysSound, WaySound
<1>10. StartsAlone' /\ Settled'
  BY <1>3, <1>4, <1>6 DEF StartsAlone, Settled
<1>11. GoalAllowed' /\ AppNeedsSession' /\ Persisted' /\ KeyThere' /\ KeyKnown'
  BY <1>6 DEF GoalAllowed, AppNeedsSession, Persisted, KeyThere, KeyKnown
<1>. QED
  BY <1>8, <1>9, <1>10, <1>11 DEF SessionInv

\* Two navigations that wait for the store void what is said of them.
LEMMA NavigateKeeps ==
  ASSUME SessionInv, NEW to \in Pages, Navigate(to)
  PROVE  SessionInv'
<1>1. UNCHANGED <<gatewayKey, cookie, stored, apiKey, user, initialized, apiKeyReady, page, loads, troubles,
                  accepted, blind>>
  BY DEF Navigate, kept, store
<1>2. ~Unloaded /\ stored = apiKey
  BY DEF Navigate, InUse, Unloaded, SessionInv, Persisted
<1>3. CASE initialized /\ Push(to) /\ UNCHANGED <<way, overlapped>>
  <2>1. goal' \in Pages /\ goal' # "none" /\ stranded' = FALSE /\ (goal' = "app" => user' /\ apiKeyReady')
    BY <1>3, PushIs
  <2>2. SessionTypeOK'
    BY <1>1, <1>3, <2>1 DEF SessionInv, SessionTypeOK
  <2>3. WaysSound' /\ StartsAlone' /\ Settled' /\ Persisted'
    BY <1>1, <1>2, <1>3 DEF SessionInv, WaysSound, WaySound, StartsAlone, Settled, Persisted
  <2>4. GoalAllowed' /\ AppNeedsSession' /\ KeyThere' /\ KeyKnown'
    BY <1>1, <1>3, <2>1 DEF SessionInv, GoalAllowed, AppNeedsSession, KeyThere, KeyKnown, unlocked
  <2>. QED
    BY <2>2, <2>3, <2>4 DEF SessionInv
<1>4. ASSUME NEW k \in TabCalls, way' = [way EXCEPT ![k] = Sending("me", to, Credential)],
             overlapped' = TRUE, UNCHANGED <<goal, stranded>>
      PROVE  SessionInv'
  <2>1. Credential \in {"none", "cookie"}
    BY DEF Credential
  <2>2. PICK w \in Ways : w = Sending("me", to, Credential) /\ w.for = "me" /\ w.to = to /\ w.answer = "none"
    BY <2>1, SendingIs DEF Routes
  <2>3. way' = [way EXCEPT ![k] = w]
    BY <1>4, <2>2
  <2>4. WaySound(w)'
    BY <2>2 DEF WaySound
  <2>5. WaysSound'
    BY <1>1, <2>3, <2>4, WaysKeep DEF SessionInv
  <2>6. SessionTypeOK'
    BY <1>1, <1>4, <2>3, WayIs DEF SessionInv, SessionTypeOK, Ways
  <2>7. StartsAlone' /\ Settled' /\ GoalAllowed' /\ AppNeedsSession' /\ KeyKnown'
    BY <1>4 DEF StartsAlone, Settled, GoalAllowed, AppNeedsSession, KeyKnown
  <2>8. KeyThere' /\ Persisted'
    BY <1>1, <1>2 DEF SessionInv, KeyThere, Persisted
  <2>. QED
    BY <2>5, <2>6, <2>7, <2>8 DEF SessionInv
<1>. QED
  BY <1>3, <1>4 DEF Navigate

LEMMA ArrivedKeeps ==
  ASSUME SessionInv, Arrived
  PROVE  SessionInv'
<1>1. /\ goal # "none" /\ goal' = "none" /\ page' = goal
      /\ UNCHANGED <<gatewayKey, cookie, stored, apiKey, user, initialized, apiKeyReady, loads, troubles,
                     accepted, blind, overlapped, stranded>>
  BY DEF Arrived, kept, store, told
<1>2. ASSUME NEW k \in TabCalls
      PROVE  /\ way'[k] \in Ways /\ WaySound(way'[k])
             /\ way'[k].for \in {"me", "check"} => way[k].for \in {"me", "check"}
  <2>0. way[k] \in Ways /\ WaySound(way[k])
    BY TypesAre DEF SessionInv, WaysSound
  <2>1. \/ way'[k] = AtRest
        \/ way'[k] = way[k]
        \/ way'[k] = [way[k] EXCEPT !.form = FALSE]
    BY DEF Arrived
  <2>2. CASE way'[k] = [way[k] EXCEPT !.form = FALSE]
    <3>1. /\ way'[k] \in Ways /\ way'[k].for = way[k].for /\ way'[k].to = way[k].to
          /\ way'[k].sends = way[k].sends /\ way'[k].answer = way[k].answer
      BY <2>0, <2>2 DEF Ways
    <3>. QED
      BY <2>0, <3>1 DEF WaySound
  <2>. QED
    BY <2>0, <2>1, <2>2, RestIs
<1>3. way' \in [TabCalls -> Ways]
  BY <1>2 DEF Arrived
<1>4. SessionTypeOK'
  BY <1>1, <1>3 DEF SessionInv, SessionTypeOK, Ways
<1>5. WaysSound'
  BY <1>1, <1>2 DEF WaysSound, WaySound
<1>6. StartsAlone' /\ Settled'
  BY <1>1, <1>2 DEF SessionInv, StartsAlone, Settled
<1>7. GoalAllowed' /\ AppNeedsSession' /\ KeyThere' /\ KeyKnown'
  BY <1>1 DEF SessionInv, GoalAllowed, AppNeedsSession, KeyThere, KeyKnown, unlocked
<1>8. Persisted'
  BY <1>1 DEF SessionInv, Persisted, Unloaded
<1>. QED
  BY <1>4, <1>5, <1>6, <1>7, <1>8 DEF SessionInv

-----------------------------------------------------------------------------
(* The store *)

\* A handler that waits: the tab is loaded.
LEMMA Waiting ==
  ASSUME SessionInv, NEW k \in TabCalls, way[k].for \in Routes
  PROVE  /\ way[k] \in Ways /\ way[k] # AtRest /\ WaySound(way[k])
         /\ ~Unloaded /\ stored = apiKey
         /\ way[k].for \in {"me", "check"} /\ ~overlapped =>
              /\ ~initialized /\ page = "none" /\ goal = "none"
              /\ \A j \in TabCalls \ {k} : way[j] = AtRest
         /\ way[k].for \notin {"me", "check"} => initialized \/ overlapped
<1>1. way[k] \in Ways /\ WaySound(way[k])
  BY TypesAre DEF SessionInv, WaysSound
<1>2. way[k] # AtRest
  BY RestIs DEF Routes
<1>3. ~Unloaded /\ stored = apiKey
  BY <1>2 DEF SessionInv, Persisted, Unloaded
<1>4. overlapped \in BOOLEAN /\ initialized \in BOOLEAN
  BY TypesAre DEF SessionInv
<1>5. way[k].for \in {"me", "check"} /\ ~overlapped =>
        /\ ~initialized /\ page = "none" /\ goal = "none"
        /\ \A j \in TabCalls \ {k} : way[j] = AtRest
  BY <1>2, <1>4 DEF SessionInv, Settled, StartsAlone
<1>6. way[k].for \notin {"me", "check"} => initialized \/ overlapped
  BY <1>2, <1>4 DEF SessionInv, StartsAlone
<1>. QED
  BY <1>1, <1>2, <1>3, <1>5, <1>6

LEMMA InitializedKeeps ==
  ASSUME SessionInv, NEW k \in TabCalls, way[k].for \in {"me", "check"}, Initialized(k),
         user' \in BOOLEAN, apiKeyReady' \in BOOLEAN, blind' \in BOOLEAN,
         apiKey' \in Keys \cup {"none"}, stored' = apiKey', KeyThere', KeyKnown',
         UNCHANGED <<gatewayKey, cookie, page, loads, troubles, accepted, overlapped>>
  PROVE  SessionInv'
<1>0. /\ way[k] \in Ways /\ WaySound(way[k]) /\ way[k].to \in Pages
      /\ ~overlapped => page = "none" /\ \A j \in TabCalls \ {k} : way[j] = AtRest
  BY Waiting DEF Routes, WaySound
<1>1. /\ initialized' = TRUE /\ way' = [way EXCEPT ![k] = AtRest]
      /\ Push(way[k].to) \/ (overlapped /\ UNCHANGED <<goal, stranded>>)
  BY DEF Initialized
<1>2. /\ way' \in [TabCalls -> Ways] /\ way'[k] = AtRest
      /\ \A j \in TabCalls \ {k} : way'[j] = way[j]
  BY <1>1, RestIs, WayIs DEF SessionInv
<1>3. PICK to \in Pages : to = way[k].to
  BY <1>0
<1>4. \/ goal' \in Pages /\ goal' # "none" /\ stranded' = FALSE /\ (goal' = "app" => user' /\ apiKeyReady')
      \/ overlapped /\ UNCHANGED <<goal, stranded>>
  BY <1>1, <1>3, PushIs
<1>5. SessionTypeOK'
  <2>1. goal' \in Pages \cup {"none"} /\ stranded' \in BOOLEAN
    BY <1>4, TypesAre DEF SessionInv
  <2>2. initialized' \in BOOLEAN /\ overlapped' \in BOOLEAN
    BY <1>1, TypesAre DEF SessionInv
  <2>. QED
    BY <1>2, <2>1, <2>2 DEF SessionInv, SessionTypeOK, Ways
<1>6. WaysSound'
  <2>1. WaySound(AtRest)'
    BY RestIs DEF WaySound
  <2>. QED
    BY <1>1, <2>1, RestIs, WaysKeep DEF SessionInv
<1>7. StartsAlone' /\ Settled'
  BY <1>0, <1>1, <1>2, RestIs DEF StartsAlone, Settled
<1>8. GoalAllowed' /\ AppNeedsSession'
  BY <1>0, <1>4 DEF SessionInv, GoalAllowed, AppNeedsSession, unlocked
<1>9. Persisted'
  BY DEF Persisted
<1>. QED
  BY <1>5, <1>6, <1>7, <1>8, <1>9 DEF SessionInv

LEMMA initMeKeeps ==
  ASSUME SessionInv, NEW k \in TabCalls, initMe(k)
  PROVE  SessionInv'
<1>. DEFINE v == way[k]
<1>0. /\ v \in Ways /\ v.for = "me" /\ v.to \in Pages /\ stored = apiKey /\ ~Unloaded
      /\ ~overlapped => ~initialized /\ page = "none" /\ goal = "none" /\ \A j \in TabCalls \ {k} : way[j] = AtRest
  BY Waiting DEF initMe, Routes, WaySound
<1>1. /\ UNCHANGED <<gatewayKey, cookie, stored, apiKey, page, loads, troubles, accepted, overlapped>>
      /\ user' = (v.answer = "ok")
  BY DEF initMe, kept
<1>2. user' \in BOOLEAN /\ apiKey \in Keys \cup {"none"} /\ blind \in BOOLEAN /\ apiKeyReady \in BOOLEAN
  BY <1>1, TypesAre DEF SessionInv
<1>3. CASE user' /\ apiKey # "none"
  <2>1. /\ way' = [way EXCEPT ![k] = Sending("check", @.to, stored)]
        /\ UNCHANGED <<initialized, apiKeyReady, goal, blind, stranded>>
    BY <1>3 DEF initMe
  <2>2. apiKey \in Keys
    BY <1>2, <1>3
  <2>3. PICK w \in Ways : w = Sending("check", v.to, stored) /\ w.for = "check" /\ w.to = v.to
                          /\ w.sends = apiKey /\ w.answer = "none" /\ w # AtRest
    BY <1>0, <2>2, SendingIs DEF Routes
  <2>4. way' = [way EXCEPT ![k] = w]
    BY <2>1, <2>3
  <2>5. /\ way' \in [TabCalls -> Ways] /\ way'[k] = w
        /\ \A j \in TabCalls \ {k} : way'[j] = way[j]
    BY <2>4, WayIs DEF SessionInv
  <2>6. WaySound(w)'
    BY <1>0, <2>2, <2>3 DEF WaySound
  <2>7. WaysSound'
    BY <1>1, <2>4, <2>6, WaysKeep DEF SessionInv
  <2>8. SessionTypeOK'
    BY <1>1, <1>2, <2>1, <2>5 DEF SessionInv, SessionTypeOK, Ways
  <2>9. StartsAlone' /\ Settled'
    BY <1>0, <1>1, <2>1, <2>3, <2>5 DEF StartsAlone, Settled
  <2>10. GoalAllowed' /\ AppNeedsSession' /\ KeyThere' /\ KeyKnown' /\ Persisted'
    BY <1>0, <1>1, <1>3, <2>1 DEF SessionInv, GoalAllowed, AppNeedsSession, KeyThere, KeyKnown, unlocked, Persisted
  <2>. QED
    BY <2>7, <2>8, <2>9, <2>10 DEF SessionInv
<1>4. CASE ~(user' /\ apiKey # "none")
  <2>1. apiKeyReady' = (apiKey # "none") /\ blind' = (blind \/ apiKey # "none") /\ Initialized(k)
    BY <1>4 DEF initMe
  <2>2. apiKeyReady' \in BOOLEAN /\ blind' \in BOOLEAN
    BY <2>1
  <2>3. KeyThere' /\ KeyKnown'
    BY <1>1, <2>1 DEF KeyThere, KeyKnown
  <2>. QED
    BY <1>0, <1>1, <1>2, <2>1, <2>2, <2>3, InitializedKeeps
<1>. QED
  BY <1>3, <1>4

LEMMA initCheckKeeps ==
  ASSUME SessionInv, NEW k \in TabCalls, initCheck(k)
  PROVE  SessionInv'
<1>. DEFINE v == way[k]
<1>0. /\ v \in Ways /\ v.for = "check" /\ WaySound(v) /\ stored = apiKey
      /\ ~overlapped => v.sends = apiKey
  <2>1. v \in Ways /\ v.for = "check" /\ WaySound(v) /\ stored = apiKey /\ v # AtRest
        /\ (~overlapped => ~initialized)
    BY Waiting DEF initCheck, Routes
  <2>. QED
    BY <2>1 DEF SessionInv, StartsAlone
<1>1. UNCHANGED <<gatewayKey, cookie, user, page, loads, troubles, accepted, overlapped>> /\ Initialized(k)
  BY DEF initCheck
<1>2. user \in BOOLEAN /\ apiKey \in Keys \cup {"none"} /\ blind \in BOOLEAN
  BY TypesAre DEF SessionInv
<1>3. CASE v.answer = "ok"
  <2>1. apiKeyReady' = (apiKey # "none") /\ UNCHANGED <<apiKey, stored, blind>>
    BY <1>3 DEF initCheck
  <2>2. apiKeyReady' \in BOOLEAN
    BY <2>1
  <2>3. KeyThere' /\ KeyKnown'
    BY <1>0, <1>1, <1>3, <2>1 DEF KeyThere, KeyKnown, WaySound
  <2>. QED
    BY <1>0, <1>1, <1>2, <2>1, <2>2, <2>3, InitializedKeeps
<1>4. CASE v.answer # "ok"
  <2>1. apiKey' = "none" /\ stored' = "none" /\ apiKeyReady' = FALSE /\ blind' = FALSE
    BY <1>4 DEF initCheck, forgetApiKey
  <2>2. KeyThere' /\ KeyKnown'
    BY <2>1 DEF KeyThere, KeyKnown
  <2>. QED
    BY <1>0, <1>1, <1>2, <2>1, <2>2, InitializedKeeps
<1>. QED
  BY <1>3, <1>4

LEMMA loginKeeps ==
  ASSUME SessionInv, NEW k \in TabCalls, login(k)
  PROVE  SessionInv'
<1>. DEFINE v == way[k]
<1>0. v \in Ways /\ v.for = "login" /\ (initialized \/ overlapped)
  BY Waiting DEF login, Routes
<1>1. UNCHANGED <<gatewayKey, stored, store, page, goal, loads, troubles, told>>
  BY DEF login
<1>2. /\ gatewayKey \in Keys /\ cookie \in BOOLEAN /\ loads \in 0..MaxLoads /\ troubles \in 0..MaxTroubles
      /\ accepted \subseteq Keys
  BY DEF SessionInv, SessionTypeOK
<1>3. CASE v.answer = "ok"
  <2>1. cookie' = TRUE /\ way' = [way EXCEPT ![k] = [Sending("loginMe", "none", "cookie") EXCEPT !.form = @]]
    BY <1>3 DEF login
  <2>2. PICK w \in Ways : /\ w = [Sending("loginMe", "none", "cookie") EXCEPT !.form = @]
                          /\ w.for = "loginMe" /\ w.answer = "none"
    <3>1. Sending("loginMe", "none", "cookie") \in Ways /\ Sending("loginMe", "none", "cookie").for = "loginMe"
          /\ Sending("loginMe", "none", "cookie").answer = "none"
      BY SendingIs DEF Routes
    <3>2. [Sending("loginMe", "none", "cookie") EXCEPT !.form = @] = Sending("loginMe", "none", "cookie")
      BY <3>1 DEF Ways
    <3>. QED
      BY <3>1, <3>2
  <2>3. WaySound(w)' /\ way' = [way EXCEPT ![k] = w]
    BY <2>1, <2>2 DEF WaySound
  <2>. QED
    BY <1>0, <1>1, <1>2, <2>1, <2>2, <2>3, CallKeeps DEF told
<1>4. CASE v.answer # "ok"
  <2>1. cookie' = cookie /\ way' = [way EXCEPT ![k] = AtRest]
    BY <1>4 DEF login, Resting
  <2>2. WaySound(AtRest)' /\ AtRest \in Ways
    BY RestIs DEF WaySound
  <2>. QED
    BY <1>0, <1>1, <1>2, <2>1, <2>2, CallKeeps DEF told
<1>. QED
  BY <1>3, <1>4

\* A handler ends in a navigation, or leaves the page it was pressed on.
LEMMA MovesKeeps ==
  ASSUME SessionInv, NEW k \in TabCalls, way[k].for \in Routes \ {"me", "check"},
         Pushing(k) \/ Resting(k),
         \/ \E to \in Pages : Push(to)
         \/ UNCHANGED goal /\ stranded' = TRUE,
         user' \in BOOLEAN, apiKeyReady' \in BOOLEAN, blind' \in BOOLEAN, cookie' \in BOOLEAN,
         apiKey' \in Keys \cup {"none"}, stored' = apiKey', KeyThere', KeyKnown',
         UNCHANGED <<gatewayKey, initialized, page, loads, troubles, accepted, overlapped>>
  PROVE  SessionInv'
<1>0. way[k] \in Ways /\ (initialized \/ overlapped)
  BY Waiting
<1>1. PICK w \in Ways : way' = [way EXCEPT ![k] = w] /\ w.for \in {"nothing", "push"}
  <2>1. CASE Resting(k)
    BY <2>1, RestIs DEF Resting
  <2>2. CASE Pushing(k)
    <3>1. way' = [way EXCEPT ![k] = [way[k] EXCEPT !.for = "push", !.sends = "none", !.answer = "none"]]
      BY <2>2, TypesAre DEF Pushing, SessionInv
    <3>2. [way[k] EXCEPT !.for = "push", !.sends = "none", !.answer = "none"] \in Ways
      BY <1>0 DEF Ways
    <3>3. [way[k] EXCEPT !.for = "push", !.sends = "none", !.answer = "none"].for = "push"
      BY <1>0 DEF Ways
    <3>. QED
      BY <3>1, <3>2, <3>3
  <2>. QED
    BY <2>1, <2>2
<1>2. /\ way' \in [TabCalls -> Ways] /\ way'[k] = w
      /\ \A j \in TabCalls \ {k} : way'[j] = way[j]
  BY <1>1, WayIs DEF SessionInv
<1>3. \/ goal' \in Pages /\ goal' # "none" /\ stranded' = FALSE /\ (goal' = "app" => user' /\ apiKeyReady')
      \/ UNCHANGED goal /\ stranded' = TRUE
  BY PushIs
<1>4. SessionTypeOK'
  <2>1. goal' \in Pages \cup {"none"} /\ stranded' \in BOOLEAN
    BY <1>3, TypesAre DEF SessionInv
  <2>2. initialized' \in BOOLEAN /\ overlapped' \in BOOLEAN
    BY TypesAre DEF SessionInv
  <2>. QED
    BY <1>2, <2>1, <2>2 DEF SessionInv, SessionTypeOK, Ways
<1>5. WaysSound'
  <2>1. WaySound(w)'
    BY <1>1 DEF WaySound
  <2>. QED
    BY <1>1, <2>1, WaysKeep DEF SessionInv
<1>6. StartsAlone'
  BY <1>0 DEF StartsAlone
<1>7. Settled'
  BY <1>1, <1>2 DEF SessionInv, Settled
<1>8. GoalAllowed' /\ AppNeedsSession'
  BY <1>3 DEF GoalAllowed, AppNeedsSession, unlocked
<1>9. Persisted'
  BY DEF Persisted
<1>. QED
  BY <1>4, <1>5, <1>6, <1>7, <1>8, <1>9 DEF SessionInv

\* A handler that was refused is done.
LEMMA RefusedKeeps ==
  ASSUME SessionInv, NEW k \in TabCalls, Resting(k),
         UNCHANGED <<gatewayKey, cookie, stored, store, page, goal, loads, troubles, told>>
  PROVE  SessionInv'
<1>1. /\ gatewayKey \in Keys /\ cookie \in BOOLEAN /\ loads \in 0..MaxLoads /\ troubles \in 0..MaxTroubles
      /\ accepted \subseteq Keys
  BY DEF SessionInv, SessionTypeOK
<1>2. WaySound(AtRest)' /\ AtRest \in Ways
  BY RestIs DEF WaySound
<1>. QED
  BY <1>1, <1>2, CallKeeps DEF told, Resting

LEMMA loginUserKeeps ==
  ASSUME SessionInv, NEW k \in TabCalls, loginUser(k)
  PROVE  SessionInv'
<1>1. UNCHANGED <<gatewayKey, cookie, stored, page, loads, troubles, accepted, blind, overlapped>>
  BY DEF loginUser, kept
<1>2. way[k].for \in Routes \ {"me", "check"}
  BY DEF loginUser, Routes
<1>3. CASE way[k].answer = "ok"
  <2>1. user' = TRUE /\ UNCHANGED <<apiKey, initialized, apiKeyReady>> /\ Pushing(k)
        /\ \E to \in Pages : Push(to)
    BY <1>3 DEF loginUser, Pages
  <2>2. apiKey \in Keys \cup {"none"} /\ apiKeyReady \in BOOLEAN /\ blind \in BOOLEAN /\ cookie \in BOOLEAN
        /\ stored = apiKey
    BY <1>2, TypesAre, Waiting DEF SessionInv, SessionTypeOK
  <2>3. KeyThere' /\ KeyKnown'
    BY <1>1, <2>1 DEF SessionInv, KeyThere, KeyKnown
  <2>. QED
    BY <1>1, <1>2, <2>1, <2>2, <2>3, MovesKeeps
<1>4. CASE way[k].answer # "ok"
  <2>1. UNCHANGED <<store, goal, stranded>> /\ Resting(k)
    BY <1>4 DEF loginUser
  <2>. QED
    BY <1>1, <2>1, RefusedKeeps DEF told
<1>. QED
  BY <1>3, <1>4

LEMMA submitApiKeyKeeps ==
  ASSUME SessionInv, NEW k \in TabCalls, submitApiKey(k)
  PROVE  SessionInv'
<1>1. UNCHANGED <<gatewayKey, cookie, page, loads, troubles, accepted, overlapped>>
  BY DEF submitApiKey
<1>2. way[k].for \in Routes \ {"me", "check"} /\ way[k].for = "submit"
  BY DEF submitApiKey, Routes
<1>3. CASE way[k].answer = "ok"
  <2>1. /\ apiKey' = way[k].sends /\ stored' = way[k].sends /\ apiKeyReady' = TRUE /\ blind' = FALSE
        /\ UNCHANGED <<user, initialized>> /\ Pushing(k) /\ \E to \in Pages : Push(to)
    BY <1>3 DEF submitApiKey, Pages
  <2>2. way[k].sends \in Keys /\ way[k].sends \in accepted /\ user \in BOOLEAN /\ cookie \in BOOLEAN
    BY <1>2, <1>3, TypesAre, Waiting DEF SessionInv, SessionTypeOK, WaySound
  <2>3. KeyThere' /\ KeyKnown'
    BY <1>1, <2>1, <2>2 DEF KeyThere, KeyKnown
  <2>. QED
    BY <1>1, <1>2, <2>1, <2>2, <2>3, MovesKeeps
<1>4. CASE way[k].answer # "ok"
  <2>1. UNCHANGED <<stored, store, goal, blind, stranded>> /\ Resting(k)
    BY <1>4 DEF submitApiKey
  <2>. QED
    BY <1>1, <2>1, RefusedKeeps DEF told
<1>. QED
  BY <1>3, <1>4

LEMMA logoutKeeps ==
  ASSUME SessionInv, NEW k \in TabCalls, logout(k)
  PROVE  SessionInv'
<1>1. /\ UNCHANGED <<gatewayKey, initialized, page, loads, troubles, accepted, overlapped>>
      /\ user' = FALSE /\ apiKey' = "none" /\ stored' = "none" /\ apiKeyReady' = FALSE /\ blind' = FALSE
  BY DEF logout, forgetApiKey
<1>2. way[k].for \in Routes \ {"me", "check"}
  BY DEF logout, Routes
<1>3. /\ Pushing(k) \/ Resting(k)
      /\ (\E to \in Pages : Push(to)) \/ (UNCHANGED goal /\ stranded' = TRUE)
  BY DEF logout, Pages
<1>4. cookie' \in BOOLEAN
  BY DEF logout, SessionInv, SessionTypeOK
<1>5. KeyThere' /\ KeyKnown'
  BY <1>1 DEF KeyThere, KeyKnown
<1>. QED
  BY <1>1, <1>2, <1>3, <1>4, <1>5, MovesKeeps

-----------------------------------------------------------------------------

LEMMA SessionStart == SessionInit => SessionInv
<1>. SUFFICES ASSUME SessionInit PROVE SessionInv
  OBVIOUS
<1>1. \A k \in TabCalls : way[k] = AtRest
  BY DEF SessionInit
<1>2. SessionTypeOK
  <2>1. way \in [TabCalls -> Ways]
    BY RestIs DEF SessionInit
  <2>2. loads \in 0..MaxLoads /\ troubles \in 0..MaxTroubles
    BY DEF SessionInit
  <2>. QED
    BY <2>1, <2>2 DEF SessionInit, SessionTypeOK, Ways
<1>3. WaysSound /\ StartsAlone /\ Settled
  BY <1>1, RestIs DEF WaysSound, StartsAlone, Settled, SessionInit
<1>4. GoalAllowed /\ AppNeedsSession /\ Persisted /\ KeyThere /\ KeyKnown
  BY <1>1 DEF SessionInit, GoalAllowed, AppNeedsSession, Persisted, Unloaded, KeyThere, KeyKnown
<1>. QED
  BY <1>2, <1>3, <1>4 DEF SessionInv

LEMMA SessionStep == SessionInv /\ (SessionNext \/ UNCHANGED sessionVars) => SessionInv'
<1>. SUFFICES ASSUME SessionInv, SessionNext \/ UNCHANGED sessionVars PROVE SessionInv'
  OBVIOUS
<1>1. CASE RotateKey \/ CookieExpires \/ UNCHANGED sessionVars
  BY <1>1, ServerKeeps
<1>2. CASE Arrived \/ SubmitLogin \/ SubmitKey \/ PressLogout
  BY <1>2, ArrivedKeeps, FormKeeps
<1>3. ASSUME NEW to \in Pages, Load(to) \/ Navigate(to) PROVE SessionInv'
  BY <1>3, LoadKeeps, NavigateKeeps
<1>4. ASSUME NEW k \in TabCalls,
             \/ Reply(k) \/ Cut(k) \/ initMe(k) \/ initCheck(k) \/ login(k) \/ loginUser(k)
             \/ submitApiKey(k) \/ logout(k)
      PROVE  SessionInv'
  BY <1>4, AnswerKeeps, initMeKeeps, initCheckKeeps, loginKeeps, loginUserKeeps, submitApiKeyKeeps, logoutKeeps
<1>. QED
  BY <1>1, <1>2, <1>3, <1>4 DEF SessionNext

===============================================================================
