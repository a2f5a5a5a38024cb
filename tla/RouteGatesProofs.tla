-------------------------- MODULE RouteGatesProofs --------------------------
(***************************************************************************)
(* What holds of sessions, cookies and the gates of a tab for any number of *)
(* logins, browsers, tabs and requests, and for every setup: which session  *)
(* a browser, a refresh and a login hold, that no current token is taken    *)
(* for a reuse, that an old password leaves no session, and that a tab at   *)
(* rest is on the page of its user.                                         *)
(***************************************************************************)
EXTENDS RouteGates, TLAPS

Exists(s) == session[s].step # "none"

(* Whatever is under way is about a session, which exists unless it is      *)
(* still to be created.                                                     *)
HeldExist ==
    /\ \A b \in Browsers : login[b].step # "no" => login[b].session # None
    /\ \A b \in Browsers : login[b].step = "created" => Exists(login[b].session)
    /\ \A b \in Browsers : logout[b].step # "no" => logout[b].session # None /\ Exists(logout[b].session)
    /\ \A b \in Browsers : change[b].step # "no" => change[b].session # None
    /\ \A t \in Tabs : refresh[t].step # "no" => refresh[t].session # None /\ Exists(refresh[t].session)

AuthTypes == TypeOK /\ HeldExist
TypeInv == GatesTypeOK /\ HeldExist

(* A session that does not know the password is one that a change of it is  *)
(* about to end; with no overlap a login under way knows the password.      *)
Careful == ~(May("overlap") \/ May("crash") \/ May("keep"))
DieInv == Careful =>
    /\ \A b \in Browsers : change[b].step # "no" => change[b].others
    /\ \A b \in Browsers : login[b].step = "verified" => login[b].knows = password
    /\ \A s \in Sessions : session[s].step = "live" /\ session[s].knows # password
         => \E b \in Browsers : change[b].step = "written" /\ change[b].session # s

(* Nobody but its browser holds a session, and a login shares its own with  *)
(* nothing at all.                                                          *)
OwnerInv ==
    /\ \A b, c \in Browsers : b # c /\ jar[b].session # None => jar[b].session # jar[c].session
    /\ \A t \in Tabs, b \in Browsers : refresh[t].step # "no" /\ b # setup.browser[t]
         => jar[b].session # refresh[t].session
    /\ \A t, u \in Tabs : t # u /\ refresh[t].step # "no" /\ refresh[u].step # "no"
         => refresh[t].session # refresh[u].session
LoginInv ==
    /\ \A b \in Browsers : login[b].step = "verified" => ~Exists(login[b].session)
    /\ \A b, c \in Browsers : b # c /\ login[b].step # "no" /\ login[c].step # "no"
         => login[b].session # login[c].session
    /\ \A b, c \in Browsers : login[b].step = "created" => jar[c].session # login[b].session
    /\ \A b, c \in Browsers : login[b].step = "created" /\ logout[c].step # "no"
         => logout[c].session # login[b].session
    /\ \A b \in Browsers, t \in Tabs : login[b].step = "created" /\ refresh[t].step # "no"
         => refresh[t].session # login[b].session

(* A browser has the current token of its session, or a refresh that was    *)
(* served has; and so has a refresh that is still to be served.             *)
Live(s) == session[s].step = "live"
TokenInv ==
    /\ late = {}
    /\ \A s \in Sessions : session[s].step # "reused"
    /\ \A b \in Browsers : login[b].step = "created" => session[login[b].session].token = 1
    /\ \A t \in Tabs : refresh[t].step \in {"sent", "rotated"} /\ Live(refresh[t].session)
         => refresh[t].token = session[refresh[t].session].token
    /\ \A b \in Browsers : jar[b].session # None /\ Live(jar[b].session)
         => \/ jar[b].token = session[jar[b].session].token
            \/ \E t \in Tabs : refresh[t].step = "rotated" /\ refresh[t].session = jar[b].session

CalmInv == Calm => OwnerInv /\ LoginInv /\ TokenInv

(* What the tab knows of its user: it has an answer, asks for it or was     *)
(* refused; and who is known as what he is not by now is asked for again,   *)
(* with an error at hand, or has moved since he was asked for.              *)
KnownInv ==
    /\ place \notin {"away", "callback"} => cached.user # "none" \/ cached.asked \/ cached.error
    /\ cached.user = "member" /\ ~joined => cached.asked \/ cached.error \/ cached.moved
    /\ cached.user = "new" /\ joined => cached.asked \/ cached.error \/ cached.moved

(* The tab t alone in browser b: sessions end by its logout only, whose     *)
(* answer is then still to come; and without cookies and with no logout     *)
(* unsettled the tab knows no user and asks for him in vain.                *)
Alone == Does("browse") /\ setup.acts \cap {"reset", "revoke"} = {} /\ Calm
InVain(q) == request[q].step # "ok" /\ (request[q].step = "sent" => ~request[q].fresh)
Gone(b)   == ~crossed /\ ~out /\ jar[b].session = None /\ logout[b].step = "no"
Unknown   == cached.user = "none" /\ (cached.asked => InVain(Me))
AloneAt(b, t) ==
    /\ active /\ ~mail
    /\ login[b].step = "created" => Live(login[b].session)
    /\ refresh[t].step = "refused" => ~Live(refresh[t].session)
    /\ ~crossed /\ jar[b].session # None /\ ~Live(jar[b].session) => logout[b].step = "served"
    /\ Gone(b) => Unknown
AloneInv == Alone => AloneAt(Browser, Tab)

-----------------------------------------------------------------------------
(* Types.                                                                   *)

SessionType == [step : {"none", "live", "ended", "reused"}, token : Nat, knows : Nat]
JarType     == [session : Sessions \cup {None}, token : Nat, fresh : BOOLEAN]
LoginType   == [step : {"no", "verified", "created"}, session : Sessions \cup {None}, knows : Nat]
LogoutType  == [step : {"no", "sent", "served"}, session : Sessions \cup {None}]
ChangeType  == [step : {"no", "verified", "written"}, session : Sessions \cup {None},
                others : BOOLEAN]
RefreshType == [step : {"no", "sent", "rotated", "refused"}, session : Sessions \cup {None},
                token : Nat]
RequestType == [step : {"idle", "sent", "401", "waiting", "ok", "failed"},
                retried : BOOLEAN, fresh : BOOLEAN]
LateType    == [session : Sessions, token : Nat]

SessionsType == [Sessions -> SessionType]
RequestsType == [Requests -> RequestType]

(* No session has the number None, and the tabs of a setup have browsers.   *)
LEMMA NoneIsNoSession == None \notin Sessions /\ Sessions \subseteq Nat
  BY AuthAssumption DEF None, Sessions

LEMMA SetupIsTyped ==
  ASSUME setup \in Setups
  PROVE  /\ \A t \in Tabs : setup.browser[t] \in Browsers
         /\ \A q \in Requests : setup.tab[q] \in Tabs /\ BrowserOf(q) \in Browsers
         /\ Tab \in Tabs /\ Browser \in Browsers
         /\ setup.passwords \in Nat
  BY AuthAssumption, GatesAssumption DEF BrowserOf, Tab, Browser

(* Ending sessions changes nothing but the step of a live one.              *)
LEMMA RevokedDoes ==
  ASSUME session \in SessionsType, NEW S
  PROVE  /\ Revoked(S) \in SessionsType
         /\ \A s \in Sessions :
              /\ Revoked(S)[s].step = "live" => session[s].step = "live" /\ s \notin S
              /\ s \notin S => Revoked(S)[s] = session[s]
              /\ Revoked(S)[s].step # "none" <=> session[s].step # "none"
              /\ Revoked(S)[s].step = "reused" => session[s].step = "reused"
              /\ Revoked(S)[s].token = session[s].token
              /\ Revoked(S)[s].knows = session[s].knows
  BY DEF SessionsType, SessionType, Revoked

(* A refresh renews the token of a live session or ends it.                 *)
LEMMA RotatedDoes ==
  ASSUME session \in SessionsType, NEW r \in Sessions, NEW k \in Nat
  PROVE  /\ Rotated(r, k) \in SessionsType
         /\ \A s \in Sessions :
              /\ s # r => Rotated(r, k)[s] = session[s]
              /\ Rotated(r, k)[s].step # "none" <=> session[s].step # "none"
              /\ Rotated(r, k)[s].step = "live" => session[s].step = "live"
              /\ Rotated(r, k)[s].knows = session[s].knows
         /\ Rotates(r, k) => /\ Rotated(r, k)[r].step = "live"
                             /\ Rotated(r, k)[r].token = k + 1
         /\ ~Rotates(r, k) /\ (session[r].step = "live" => session[r].token = k)
              => Rotated(r, k) = session
  BY DEF SessionsType, SessionType, Rotated, Rotates
JarsType      == [Browsers -> JarType]
LoginsType    == [Browsers -> LoginType]
LogoutsType   == [Browsers -> LogoutType]
ChangesType   == [Browsers -> ChangeType]
RefreshesType == [Tabs -> RefreshType]

UserTypes == /\ setup \in Setups
             /\ password \in Nat /\ issued \in Nat /\ password <= issued
             /\ issued <= setup.passwords
             /\ mail \in BOOLEAN /\ active \in BOOLEAN
Parts == /\ UserTypes
         /\ session \in SessionsType /\ jar \in JarsType
         /\ login \in LoginsType /\ logout \in LogoutsType /\ change \in ChangesType
         /\ refresh \in RefreshesType /\ late \subseteq LateType /\ request \in RequestsType
JarsExist == \A b \in Browsers :
    /\ jar[b].fresh => jar[b].session # None
    /\ jar[b].session # None => Exists(jar[b].session)
Refs == JarsExist /\ HeldExist

LEMMA PartsAreTypes == AuthTypes <=> Parts /\ Refs
  <1> USE DEF AuthTypes, TypeOK, Parts, Refs, JarsExist, HeldExist, Exists, UserTypes,
     SessionsType, SessionType, JarsType, JarType, LoginsType, LoginType, LogoutsType, LogoutType,
     ChangesType, ChangeType, RefreshesType, RefreshType, RequestsType, RequestType, LateType
  <1>1. setup \in Setups => setup.passwords \in Nat
    BY AuthAssumption
  <1>2. ASSUME AuthTypes PROVE UserTypes
    BY <1>1, <1>2
  <1>3. ASSUME AuthTypes PROVE Parts /\ Refs
    BY <1>2, <1>3
  <1>4. ASSUME UserTypes PROVE password \in 0..issued /\ issued \in 0..setup.passwords
    BY <1>1, <1>4
  <1>5. ASSUME Parts, Refs PROVE AuthTypes
    BY <1>4, <1>5
  <1> QED
    BY <1>3, <1>5

LEMMA PutOne ==
  ASSUME NEW S, NEW T, NEW f \in [S -> T], NEW x \in S, NEW v \in T
  PROVE  [f EXCEPT ![x] = v] \in [S -> T]
  OBVIOUS

(* The parts, one at a time.                                                *)
LEMMA FieldsAreTyped ==
  ASSUME Parts
  PROVE  /\ \A s \in Sessions : session[s] \in SessionType
         /\ \A b \in Browsers : jar[b] \in JarType /\ login[b] \in LoginType
                                /\ logout[b] \in LogoutType /\ change[b] \in ChangeType
         /\ \A t \in Tabs : refresh[t] \in RefreshType
         /\ \A q \in Requests : request[q] \in RequestType
         /\ \A r \in late : r \in LateType
  BY DEF Parts, SessionsType, JarsType, LoginsType, LogoutsType, ChangesType, RefreshesType, RequestsType

RequestSteps == {"idle", "sent", "401", "waiting", "ok", "failed"}
LEMMA RequestMoves ==
  ASSUME NEW r \in RequestType, NEW s \in RequestSteps, NEW f \in BOOLEAN
  PROVE  /\ [r EXCEPT !.step = s] \in RequestType
         /\ [r EXCEPT !.step = s, !.fresh = f] \in RequestType
         /\ [r EXCEPT !.step = s, !.retried = TRUE] \in RequestType
         /\ [r EXCEPT !.fresh = FALSE] \in RequestType
         /\ [r EXCEPT !.retried = FALSE] \in RequestType
  BY DEF RequestType, RequestSteps

LEMMA SentIsTyped ==
  ASSUME Parts, NEW q \in Requests
  PROVE  Sent(q) \in RequestType /\ Fresh(q) \in RequestType
  <1>1. request[q] \in RequestType /\ jar[BrowserOf(q)].fresh \in BOOLEAN
    BY FieldsAreTyped, SetupIsTyped DEF JarType, Parts, UserTypes
  <1>2. Sent(q) \in RequestType
    BY <1>1, RequestMoves DEF Sent, RequestSteps
  <1> QED
    BY <1>2, RequestMoves DEF Fresh, RequestSteps

(* What a step does to the requests.                                        *)
LEMMA WokenIsTyped ==
  ASSUME Parts, NEW t \in Tabs, NEW s \in {"sent", "failed"}
  PROVE  Woken(t, s) \in RequestsType
  <1>1. \A q \in Requests : [request[q] EXCEPT !.step = s, !.fresh = (s = "sent")] \in RequestType
    BY FieldsAreTyped, RequestMoves DEF RequestSteps
  <1> QED
    BY <1>1, FieldsAreTyped DEF Woken, RequestsType

LEMMA RequestsAreTyped ==
  ASSUME Parts,
         \/ \E q \in Requests : Send(q) \/ Serve(q) \/ Unauthorized(q)
         \/ \E b \in Browsers : AccessExpires(b)
  PROVE  request' \in RequestsType
  <1>1. ASSUME NEW q \in Requests, Send(q) PROVE request' \in RequestsType
    BY <1>1, PutOne, SentIsTyped DEF Send, RequestsType, Parts
  <1>2. ASSUME NEW q \in Requests, Serve(q) PROVE request' \in RequestsType
    <2>1. PICK s \in RequestSteps : request' = [request EXCEPT ![q] = [request[q] EXCEPT !.step = s]]
      BY <1>2 DEF Serve, RequestSteps
    <2> QED
      BY <2>1, PutOne, RequestMoves, FieldsAreTyped DEF RequestsType, Parts
  <1>3. ASSUME NEW q \in Requests, Unauthorized(q) PROVE request' \in RequestsType
    <2>1. \/ request' = [request EXCEPT ![q] = [request[q] EXCEPT !.step = "failed"]]
          \/ request' = [request EXCEPT ![q] =
                            [request[q] EXCEPT !.step = "waiting", !.retried = TRUE]]
      BY <1>3 DEF Unauthorized
    <2>2. /\ [request[q] EXCEPT !.step = "failed"] \in RequestType
          /\ [request[q] EXCEPT !.step = "waiting", !.retried = TRUE] \in RequestType
      BY RequestMoves, FieldsAreTyped DEF RequestSteps
    <2> QED
      BY <2>1, <2>2, PutOne DEF RequestsType, Parts
  <1>4. ASSUME NEW b \in Browsers, AccessExpires(b) PROVE request' \in RequestsType
    <2>1. \A q \in Requests : [request[q] EXCEPT !.fresh = FALSE] \in RequestType
      BY FieldsAreTyped, RequestMoves DEF RequestSteps
    <2> QED
      BY <1>4, <2>1, FieldsAreTyped DEF AccessExpires, RequestsType
  <1> QED
    BY <1>1, <1>2, <1>3, <1>4
(* Which steps change what.                                                 *)
LEMMA WhoChanges ==
  ASSUME Next
  PROVE  /\ \/ UNCHANGED user
            \/ Forgot \/ Reset \/ SetStatus \/ \E b \in Browsers : ChangeWritten(b)
         /\ \/ UNCHANGED session
            \/ \E t \in Tabs : RefreshServed(t)
            \/ \E r \in late : RefreshLate(r)
            \/ \E b \in Browsers : \/ LoginCreated(b) \/ LogoutServed(b)
                                   \/ ChangeWritten(b) \/ ChangeRevokes(b)
                                   \/ \E s \in Sessions : RevokeSession(b, s)
            \/ Reset \/ SetStatus
         /\ \/ UNCHANGED jar
            \/ \E t \in Tabs : RefreshAnswered(t)
            \/ \E b \in Browsers : AccessExpires(b) \/ LoginAnswered(b) \/ LogoutAnswered(b)
         /\ \/ UNCHANGED login
            \/ \E b \in Browsers : \/ LoginCreated(b) \/ LoginAnswered(b)
                                   \/ \E s \in Sessions : LoginVerified(b, s)
         /\ \/ UNCHANGED logout
            \/ \E b \in Browsers : LogoutSent(b) \/ LogoutServed(b) \/ LogoutAnswered(b)
         /\ \/ UNCHANGED change
            \/ \E b \in Browsers : ChangeVerified(b) \/ ChangeWritten(b) \/ ChangeRevokes(b)
         /\ \/ UNCHANGED refresh
            \/ \E q \in Requests : Unauthorized(q)
            \/ \E t \in Tabs : RefreshServed(t) \/ RefreshAnswered(t) \/ RefreshLost(t)
         /\ \/ UNCHANGED late
            \/ \E t \in Tabs : RefreshLost(t)
            \/ \E r \in late : RefreshLate(r)
         /\ \/ UNCHANGED request
            \/ \E q \in Requests : Send(q) \/ Serve(q) \/ Unauthorized(q)
            \/ \E b \in Browsers : AccessExpires(b)
            \/ \E t \in Tabs : RefreshAnswered(t) \/ RefreshLost(t)
         /\ UNCHANGED setup
  <1> USE DEF user, asking
  <1>1. ASSUME NEW q \in Requests, Serve(q) \/ Unauthorized(q) \/ Send(q)
        PROVE  /\ UNCHANGED <<setup, user, session, jar, login, logout, change, late>>
               /\ UNCHANGED refresh \/ Unauthorized(q)
    BY <1>1 DEF Serve, Unauthorized, Send
  <1>2. ASSUME NEW t \in Tabs, RefreshServed(t) \/ RefreshAnswered(t) \/ RefreshLost(t)
        PROVE  /\ UNCHANGED <<setup, user, login, logout, change>>
               /\ UNCHANGED session \/ RefreshServed(t)
               /\ UNCHANGED jar \/ RefreshAnswered(t)
               /\ UNCHANGED late \/ RefreshLost(t)
               /\ UNCHANGED request \/ RefreshAnswered(t) \/ RefreshLost(t)
    BY <1>2 DEF RefreshServed, RefreshAnswered, RefreshLost
  <1>3. ASSUME NEW r \in late, RefreshLate(r)
        PROVE  UNCHANGED <<setup, user, jar, login, logout, change, refresh, request>>
    BY <1>3 DEF RefreshLate
  <1>4. ASSUME NEW b \in Browsers, AccessExpires(b)
        PROVE  UNCHANGED <<setup, user, session, login, logout, change, refresh, late>>
    BY <1>4 DEF AccessExpires
  <1>5. ASSUME NEW b \in Browsers, NEW s \in Sessions, LoginVerified(b, s)
        PROVE  UNCHANGED <<setup, user, session, jar, logout, change, refresh, late, request>>
    BY <1>5 DEF LoginVerified
  <1>6. ASSUME NEW b \in Browsers, LogoutSent(b) \/ LogoutServed(b) \/ LogoutAnswered(b)
        PROVE  /\ UNCHANGED <<setup, user, login, change, refresh, late, request>>
               /\ UNCHANGED session \/ LogoutServed(b)
               /\ UNCHANGED jar \/ LogoutAnswered(b)
    BY <1>6 DEF LogoutSent, LogoutServed, LogoutAnswered
  <1>7. ASSUME NEW b \in Browsers, ChangeVerified(b) \/ ChangeWritten(b) \/ ChangeRevokes(b)
        PROVE  /\ UNCHANGED <<setup, jar, login, logout, refresh, late, request>>
               /\ UNCHANGED user \/ ChangeWritten(b)
               /\ UNCHANGED session \/ ChangeWritten(b) \/ ChangeRevokes(b)
    BY <1>7 DEF ChangeVerified, ChangeWritten, ChangeRevokes
  <1>8. ASSUME NEW b \in Browsers, NEW s \in Sessions, RevokeSession(b, s)
        PROVE  UNCHANGED <<setup, user, jar, login, logout, change, refresh, late, request>>
    BY <1>8 DEF RevokeSession
  <1>9. ASSUME Forgot \/ Reset \/ SetStatus
        PROVE  /\ UNCHANGED <<setup, jar, login, logout, change, refresh, late, request>>
               /\ UNCHANGED session \/ Reset \/ SetStatus
    BY <1>9 DEF Forgot, Reset, SetStatus
  <1>10. ASSUME NEW b \in Browsers, LoginCreated(b) \/ LoginAnswered(b)
         PROVE  /\ UNCHANGED <<setup, user, logout, change, refresh, late, request>>
                /\ UNCHANGED session \/ LoginCreated(b)
                /\ UNCHANGED jar \/ LoginAnswered(b)
    BY <1>10 DEF LoginCreated, LoginAnswered
  <1> QED
    BY <1>1, <1>2, <1>3, <1>4, <1>6, <1>7, <1>8, <1>9, <1>10, <1>5 DEF Next, Answers

(* No session is ever forgotten.                                            *)
LEMMA SessionsStay ==
  ASSUME Parts, Refs, Next
  PROVE  /\ session' \in SessionsType
         /\ \A s \in Sessions : Exists(s) => Exists(s)'
  <1> USE NoneIsNoSession DEF Exists
  <1>0. session \in SessionsType
    BY DEF Parts
  <1>1. ASSUME NEW t \in Tabs, RefreshServed(t)
        PROVE  session' \in SessionsType /\ \A s \in Sessions : Exists(s) => Exists(s)'
    <2>1. refresh[t].session \in Sessions /\ refresh[t].token \in Nat
      BY <1>1, FieldsAreTyped DEF RefreshServed, RefreshType, Refs, HeldExist
    <2> QED
      BY <1>0, <1>1, <2>1, RotatedDoes DEF RefreshServed
  <1>2. ASSUME NEW r \in late, RefreshLate(r)
        PROVE  session' \in SessionsType /\ \A s \in Sessions : Exists(s) => Exists(s)'
    <2>1. r.session \in Sessions /\ r.token \in Nat
      BY FieldsAreTyped DEF LateType
    <2> QED
      BY <1>0, <1>2, <2>1, RotatedDoes DEF RefreshLate
  <1>3. ASSUME NEW b \in Browsers, LoginCreated(b)
        PROVE  session' \in SessionsType /\ \A s \in Sessions : Exists(s) => Exists(s)'
    <2>1. login[b].knows \in Nat
      BY FieldsAreTyped DEF LoginType
    <2> QED
      BY <1>0, <1>3, <2>1 DEF LoginCreated, SessionsType, SessionType
  <1>4. ASSUME NEW b \in Browsers, LogoutServed(b)
        PROVE  session' \in SessionsType /\ \A s \in Sessions : Exists(s) => Exists(s)'
    BY <1>0, <1>4, RevokedDoes DEF LogoutServed
  <1>5. ASSUME NEW b \in Browsers, ChangeWritten(b)
        PROVE  session' \in SessionsType /\ \A s \in Sessions : Exists(s) => Exists(s)'
    <2>1. issued' \in Nat
      BY <1>5 DEF ChangeWritten, Parts, UserTypes
    <2> QED
      BY <1>0, <1>5, <2>1 DEF ChangeWritten, SessionsType, SessionType
  <1>6. ASSUME NEW b \in Browsers, ChangeRevokes(b)
        PROVE  session' \in SessionsType /\ \A s \in Sessions : Exists(s) => Exists(s)'
    BY <1>0, <1>6, RevokedDoes DEF ChangeRevokes
  <1>7. ASSUME NEW b \in Browsers, NEW s \in Sessions, RevokeSession(b, s)
        PROVE  session' \in SessionsType /\ \A r \in Sessions : Exists(r) => Exists(r)'
    BY <1>0, <1>7, RevokedDoes DEF RevokeSession
  <1>8. CASE Reset \/ SetStatus
    BY <1>0, <1>8, RevokedDoes DEF Reset, SetStatus
  <1> QED
    BY <1>0, <1>1, <1>2, <1>3, <1>4, <1>5, <1>6, <1>7, <1>8, WhoChanges

(* A browser has cookies of sessions that exist.                            *)
LEMMA OneJarChanges ==
  ASSUME Parts, Refs, Next, NEW b \in Browsers, NEW c \in JarType,
         c.fresh => c.session # None, c.session # None => Exists(c.session),
         jar' = [jar EXCEPT ![b] = c]
  PROVE  jar' \in JarsType /\ JarsExist'
  <1> USE NoneIsNoSession DEF Exists
  <1>1. jar' \in JarsType
    BY PutOne DEF Parts, JarsType
  <1>2. \A a \in Browsers : jar'[a] = IF a = b THEN c ELSE jar[a]
    BY DEF Parts, JarsType
  <1>3. \A a \in Browsers : jar[a] \in JarType
    BY FieldsAreTyped
  <1>4. \A s \in Sessions : Exists(s) => Exists(s)'
    BY SessionsStay
  <1>5. JarsExist
    BY DEF Refs
  <1>6. ASSUME NEW a \in Browsers
        PROVE  /\ (jar[a].fresh => jar[a].session # None)'
               /\ (jar[a].session # None => Exists(jar[a].session))'
    <2>1. CASE a = b
      BY <2>1, <1>2, <1>4 DEF JarType
    <2>2. CASE a # b
      BY <2>2, <1>2, <1>3, <1>4, <1>5 DEF JarType, JarsExist
    <2> QED
      BY <2>1, <2>2
  <1> QED
    BY <1>1, <1>6 DEF JarsExist

LEMMA JarsAreTyped ==
  ASSUME Parts, Refs, Next
  PROVE  jar' \in JarsType /\ JarsExist'
  <1> USE NoneIsNoSession
  <1>0. jar \in JarsType /\ JarsExist
    BY DEF Parts, Refs
  <1>s. \A s \in Sessions : Exists(s) => Exists(s)'
    BY SessionsStay
  <1>1. ASSUME NEW t \in Tabs, RefreshAnswered(t) PROVE jar' \in JarsType /\ JarsExist'
    <2>1. setup.browser[t] \in Browsers
      BY SetupIsTyped DEF Parts, UserTypes
    <2>2. /\ refresh[t].session \in Sessions /\ Exists(refresh[t].session)
          /\ refresh[t].token \in Nat
      BY <1>1, FieldsAreTyped DEF RefreshAnswered, RefreshType, Refs, HeldExist
    <2>3. \/ jar' = [jar EXCEPT ![setup.browser[t]] =
                        [session |-> refresh[t].session, token |-> refresh[t].token, fresh |-> TRUE]]
          \/ jar' = [jar EXCEPT ![setup.browser[t]] = NoCookies]
      BY <1>1 DEF RefreshAnswered
    <2>4. /\ [session |-> refresh[t].session, token |-> refresh[t].token, fresh |-> TRUE] \in JarType
          /\ NoCookies \in JarType /\ NoCookies.session = None /\ ~NoCookies.fresh
      BY <2>2 DEF JarType, NoCookies
    <2> QED
      BY <2>1, <2>2, <2>3, <2>4, OneJarChanges
  <1>2. ASSUME NEW b \in Browsers, AccessExpires(b) PROVE jar' \in JarsType /\ JarsExist'
    BY <1>0, <1>s, <1>2 DEF AccessExpires, JarsType, JarType, JarsExist
  <1>3. ASSUME NEW b \in Browsers, LoginAnswered(b) PROVE jar' \in JarsType /\ JarsExist'
    <2>1. login[b].session \in Sessions /\ Exists(login[b].session)
      BY <1>3, FieldsAreTyped DEF LoginAnswered, LoginType, Refs, HeldExist
    <2>2. \/ UNCHANGED jar
          \/ jar' = [jar EXCEPT ![b] = [session |-> login[b].session, token |-> 1, fresh |-> TRUE]]
      BY <1>3 DEF LoginAnswered
    <2>3. [session |-> login[b].session, token |-> 1, fresh |-> TRUE] \in JarType
      BY <2>1 DEF JarType
    <2>4. CASE UNCHANGED jar
      BY <2>4, <1>0, <1>s, FieldsAreTyped DEF JarsExist, JarType
    <2> QED
      BY <2>1, <2>2, <2>3, <2>4, OneJarChanges
  <1>4. ASSUME NEW b \in Browsers, LogoutAnswered(b) PROVE jar' \in JarsType /\ JarsExist'
    <2>1. UNCHANGED jar \/ jar' = [jar EXCEPT ![b] = NoCookies]
      BY <1>4 DEF LogoutAnswered
    <2>2. NoCookies \in JarType /\ NoCookies.session = None /\ ~NoCookies.fresh
      BY DEF JarType, NoCookies
    <2>3. CASE UNCHANGED jar
      BY <2>3, <1>0, <1>s, FieldsAreTyped DEF JarsExist, JarType
    <2> QED
      BY <2>1, <2>2, <2>3, OneJarChanges
  <1>5. CASE UNCHANGED jar
    BY <1>5, <1>0, <1>s, FieldsAreTyped DEF JarsExist, JarType
  <1> QED
    BY <1>1, <1>2, <1>3, <1>4, <1>5, WhoChanges

LoginsExist == \A b \in Browsers :
    /\ login[b].step # "no" => login[b].session # None
    /\ login[b].step = "created" => Exists(login[b].session)
LEMMA LoginsAreTyped ==
  ASSUME Parts, Refs, Next
  PROVE  login' \in LoginsType /\ LoginsExist'
  <1> USE NoneIsNoSession DEF LoginsExist
  <1>0. login \in LoginsType /\ LoginsExist
    BY DEF Parts, Refs, HeldExist
  <1>s. \A s \in Sessions : Exists(s) => Exists(s)'
    BY SessionsStay
  <1>1. ASSUME NEW b \in Browsers, LoginCreated(b) PROVE login' \in LoginsType /\ LoginsExist'
    <2>1. login[b].session \in Sessions
      BY <1>1, FieldsAreTyped DEF LoginCreated, LoginType, Refs, HeldExist
    <2>2. Exists(login[b].session)'
      BY <1>1, <2>1 DEF LoginCreated, Parts, SessionsType, Exists
    <2> QED
      BY <1>0, <1>s, <1>1, <2>1, <2>2 DEF LoginCreated, LoginsType, LoginType
  <1>2. ASSUME NEW b \in Browsers, LoginAnswered(b) PROVE login' \in LoginsType /\ LoginsExist'
    BY <1>0, <1>s, <1>2 DEF LoginAnswered, LoginsType, LoginType, NoLogin
  <1>3. ASSUME NEW b \in Browsers, NEW s \in Sessions, LoginVerified(b, s)
        PROVE  login' \in LoginsType /\ LoginsExist'
    BY <1>0, <1>s, <1>3 DEF LoginVerified, LoginsType, LoginType, Parts, UserTypes
  <1>4. CASE UNCHANGED login
    BY <1>0, <1>s, <1>4 DEF LoginsType, LoginType
  <1> QED
    BY <1>1, <1>2, <1>3, <1>4, WhoChanges

LogoutsExist == \A b \in Browsers :
    logout[b].step # "no" => logout[b].session # None /\ Exists(logout[b].session)
LEMMA LogoutsAreTyped ==
  ASSUME Parts, Refs, Next
  PROVE  logout' \in LogoutsType /\ LogoutsExist'
  <1> USE NoneIsNoSession DEF LogoutsExist
  <1>0. logout \in LogoutsType /\ LogoutsExist
    BY DEF Parts, Refs, HeldExist
  <1>s. \A s \in Sessions : Exists(s) => Exists(s)'
    BY SessionsStay
  <1>1. ASSUME NEW b \in Browsers, LogoutSent(b) PROVE logout' \in LogoutsType /\ LogoutsExist'
    <2>1. jar[b].session \in Sessions /\ Exists(jar[b].session)
      BY <1>1, FieldsAreTyped DEF LogoutSent, JarType, Refs, JarsExist
    <2> QED
      BY <1>0, <1>s, <1>1, <2>1 DEF LogoutSent, LogoutsType, LogoutType
  <1>2. ASSUME NEW b \in Browsers, LogoutServed(b) PROVE logout' \in LogoutsType /\ LogoutsExist'
    BY <1>0, <1>s, <1>2 DEF LogoutServed, LogoutsType, LogoutType
  <1>3. ASSUME NEW b \in Browsers, LogoutAnswered(b) PROVE logout' \in LogoutsType /\ LogoutsExist'
    BY <1>0, <1>s, <1>3 DEF LogoutAnswered, LogoutsType, LogoutType, NoLogout
  <1>4. CASE UNCHANGED logout
    BY <1>0, <1>s, <1>4 DEF LogoutsType, LogoutType
  <1> QED
    BY <1>1, <1>2, <1>3, <1>4, WhoChanges

ChangesExist == \A b \in Browsers : change[b].step # "no" => change[b].session # None
LEMMA ChangesAreTyped ==
  ASSUME Parts, Refs, Next
  PROVE  change' \in ChangesType /\ ChangesExist'
  <1> USE NoneIsNoSession DEF ChangesExist
  <1>0. change \in ChangesType /\ ChangesExist
    BY DEF Parts, Refs, HeldExist
  <1>1. ASSUME NEW b \in Browsers, ChangeVerified(b) PROVE change' \in ChangesType /\ ChangesExist'
    <2>1. jar[b].session \in Sessions
      BY <1>1, FieldsAreTyped DEF ChangeVerified, JarType, Refs, JarsExist
    <2>2. PICK others \in BOOLEAN : change' = [change EXCEPT ![b] =
              [step |-> "verified", session |-> jar[b].session, others |-> others]]
      BY <1>1 DEF ChangeVerified
    <2> QED
      BY <1>0, <2>1, <2>2 DEF ChangesType, ChangeType
  <1>2. ASSUME NEW b \in Browsers, ChangeWritten(b) PROVE change' \in ChangesType /\ ChangesExist'
    BY <1>0, <1>2 DEF ChangeWritten, ChangesType, ChangeType
  <1>3. ASSUME NEW b \in Browsers, ChangeRevokes(b) PROVE change' \in ChangesType /\ ChangesExist'
    BY <1>0, <1>3 DEF ChangeRevokes, ChangesType, ChangeType, NoChange
  <1> QED
    BY <1>0, <1>1, <1>2, <1>3, WhoChanges

RefreshesExist == \A t \in Tabs :
    refresh[t].step # "no" => refresh[t].session # None /\ Exists(refresh[t].session)
LEMMA OneRefreshChanges ==
  ASSUME Parts, Refs, Next, NEW t \in Tabs, NEW r \in RefreshType,
         r.step # "no" => r.session # None /\ Exists(r.session),
         refresh' = [refresh EXCEPT ![t] = r]
  PROVE  refresh' \in RefreshesType /\ RefreshesExist'
  <1> USE NoneIsNoSession DEF Exists
  <1>1. refresh' \in RefreshesType
    BY PutOne DEF Parts, RefreshesType
  <1>2. \A u \in Tabs : refresh'[u] = IF u = t THEN r ELSE refresh[u]
    BY DEF Parts, RefreshesType
  <1>3. \A u \in Tabs : refresh[u] \in RefreshType
    BY FieldsAreTyped
  <1>4. \A s \in Sessions : Exists(s) => Exists(s)'
    BY SessionsStay
  <1>5. RefreshesExist
    BY DEF Refs, HeldExist, RefreshesExist
  <1>6. ASSUME NEW u \in Tabs
        PROVE  (refresh[u].step # "no" =>
                  refresh[u].session # None /\ Exists(refresh[u].session))'
    <2>1. CASE u = t
      BY <2>1, <1>2, <1>4 DEF RefreshType
    <2>2. CASE u # t
      BY <2>2, <1>2, <1>3, <1>4, <1>5, ZenonT(40) DEF RefreshType, RefreshesExist
    <2> QED
      BY <2>1, <2>2
  <1> QED
    BY <1>1, <1>6 DEF RefreshesExist

RotatedOne(r) == [step |-> "rotated", session |-> r.session, token |-> r.token + 1]
RefusedOne(r) == [step |-> "refused", session |-> r.session, token |-> r.token]
LEMMA ServedIsTyped ==
  ASSUME NEW r \in RefreshType
  PROVE  RotatedOne(r) \in RefreshType /\ RefusedOne(r) \in RefreshType
  BY DEF RefreshType, RotatedOne, RefusedOne

LEMMA RefreshesAreTyped ==
  ASSUME Parts, Refs, Next
  PROVE  refresh' \in RefreshesType /\ RefreshesExist' /\ late' \subseteq LateType
  <1> USE NoneIsNoSession
  <1>0. refresh \in RefreshesType /\ RefreshesExist /\ late \subseteq LateType
    BY DEF Parts, Refs, HeldExist, RefreshesExist
  <1>s. \A s \in Sessions : Exists(s) => Exists(s)'
    BY SessionsStay
  <1>r. \A t \in Tabs : refresh[t] \in RefreshType
    BY FieldsAreTyped
  <1>1. ASSUME NEW q \in Requests, Unauthorized(q) PROVE refresh' \in RefreshesType /\ RefreshesExist'
    <2>1. setup.tab[q] \in Tabs /\ BrowserOf(q) \in Browsers
      BY SetupIsTyped DEF Parts, UserTypes
    <2>2. jar[BrowserOf(q)] \in JarType
      BY <2>1, FieldsAreTyped
    <2>3. \/ UNCHANGED refresh
          \/ /\ refresh' = [refresh EXCEPT ![setup.tab[q]] = Asked(BrowserOf(q))]
             /\ jar[BrowserOf(q)].session # None
      BY <1>1 DEF Unauthorized, Refreshable
    <2>4. jar[BrowserOf(q)].session # None => Exists(jar[BrowserOf(q)].session)
      BY <2>1 DEF Refs, JarsExist
    <2>5. /\ Asked(BrowserOf(q)) \in RefreshType
          /\ Asked(BrowserOf(q)).session = jar[BrowserOf(q)].session
      BY <2>2 DEF Asked, RefreshType, JarType
    <2>6. CASE UNCHANGED refresh
      BY <2>6, <1>0, <1>s, <1>r DEF RefreshesExist, RefreshType
    <2> QED
      BY <2>1, <2>3, <2>4, <2>5, <2>6, OneRefreshChanges
  <1>2. ASSUME NEW t \in Tabs, RefreshServed(t) PROVE refresh' \in RefreshesType /\ RefreshesExist'
    <2>1. refresh[t] \in RefreshType
      BY <1>r
    <2>2. \/ refresh' = [refresh EXCEPT ![t] = RotatedOne(refresh[t])]
          \/ refresh' = [refresh EXCEPT ![t] = RefusedOne(refresh[t])]
      <3>1. CASE Rotates(refresh[t].session, refresh[t].token)
        BY <1>2, <3>1 DEF RefreshServed, RotatedOne
      <3>2. CASE ~Rotates(refresh[t].session, refresh[t].token)
        BY <1>2, <3>2 DEF RefreshServed, RefusedOne
      <3> QED
        BY <3>1, <3>2
    <2>3. refresh[t].session # None /\ Exists(refresh[t].session)
      BY <1>2, <1>0 DEF RefreshServed, RefreshesExist
    <2> QED
      BY <2>1, <2>2, <2>3, ServedIsTyped, OneRefreshChanges DEF RotatedOne, RefusedOne
  <1>3. ASSUME NEW t \in Tabs, RefreshAnswered(t) \/ RefreshLost(t)
        PROVE  refresh' \in RefreshesType /\ RefreshesExist'
    <2>1. refresh' = [refresh EXCEPT ![t] = NoRefresh]
      BY <1>3 DEF RefreshAnswered, RefreshLost
    <2>2. NoRefresh \in RefreshType /\ NoRefresh.step = "no"
      BY DEF NoRefresh, RefreshType
    <2> QED
      BY <2>1, <2>2, OneRefreshChanges
  <1>4. ASSUME UNCHANGED refresh PROVE refresh' \in RefreshesType /\ RefreshesExist'
    BY <1>4, <1>0, <1>s, <1>r DEF RefreshesExist, RefreshType, Exists
  <1>5. refresh' \in RefreshesType /\ RefreshesExist'
    BY <1>1, <1>2, <1>3, <1>4, WhoChanges
  <1>6. late' \subseteq LateType
    <2>1. ASSUME NEW t \in Tabs, RefreshLost(t) PROVE late' \subseteq LateType
      <3>1. refresh[t].session \in Sessions /\ refresh[t].token \in Nat
        BY <2>1, <1>0, <1>r DEF RefreshLost, RefreshesExist, RefreshType
      <3> QED
        BY <1>0, <2>1, <3>1 DEF RefreshLost, LateType
    <2>2. ASSUME NEW r \in late, RefreshLate(r) PROVE late' \subseteq LateType
      BY <1>0, <2>2 DEF RefreshLate
    <2> QED
      BY <1>0, <2>1, <2>2, WhoChanges
  <1> QED
    BY <1>5, <1>6

LEMMA UserIsTyped ==
  ASSUME Parts, Refs, Next
  PROVE  UserTypes'
  <1> USE DEF Parts, UserTypes, user
  <1>0. setup.passwords \in Nat
    BY SetupIsTyped
  <1>1. ASSUME NEW b \in Browsers, ChangeWritten(b) PROVE UserTypes'
    BY <1>0, <1>1 DEF ChangeWritten
  <1>2. CASE Forgot
    BY <1>2 DEF Forgot
  <1>3. CASE Reset
    <2>1. setup' \in Setups /\ setup' = setup /\ mail' \in BOOLEAN /\ active' \in BOOLEAN
      BY <1>3 DEF Reset
    <2>2. issued' \in Nat /\ issued' <= setup.passwords /\ password' = issued'
      BY <1>0, <1>3 DEF Reset
    <2> QED
      BY <2>1, <2>2
  <1>4. CASE SetStatus
    BY <1>4 DEF SetStatus
  <1> QED
    BY <1>1, <1>2, <1>3, <1>4, WhoChanges

LEMMA NextIsTyped ==
  ASSUME Parts, Refs, Next
  PROVE  Parts' /\ Refs'
  <1>1. request' \in RequestsType
    <2>1. ASSUME NEW t \in Tabs, RefreshAnswered(t) \/ RefreshLost(t)
          PROVE  \E s \in {"sent", "failed"} : request' = Woken(t, s)
      BY <2>1 DEF RefreshAnswered, RefreshLost
    <2>2. request \in RequestsType
      BY DEF Parts
    <2> QED
      BY <2>1, <2>2, WokenIsTyped, RequestsAreTyped, WhoChanges
  <1>2. Parts'
    BY <1>1, UserIsTyped, SessionsStay, JarsAreTyped, LoginsAreTyped, LogoutsAreTyped,
       ChangesAreTyped, RefreshesAreTyped DEF Parts
  <1>3. Refs'
    BY JarsAreTyped, LoginsAreTyped, LogoutsAreTyped, ChangesAreTyped, RefreshesAreTyped
    DEF Refs, HeldExist, LoginsExist, LogoutsExist, ChangesExist, RefreshesExist
  <1> QED
    BY <1>2, <1>3

-----------------------------------------------------------------------------
(* The gates.                                                               *)

CachedType == [user : {"none", "new", "member"}, error : BOOLEAN, stale : BOOLEAN, asked : BOOLEAN,
               moved : BOOLEAN]
PageType   == Inside \cup {"away", "home", "login", "onboarding", "callback"}
FormType   == {"no", "sent", "in", "who", "failed", "created"}
GateParts ==
    /\ place \in PageType /\ target \in Inside /\ cached \in CachedType /\ form \in FormType
    /\ out \in BOOLEAN /\ joined \in BOOLEAN /\ told \in BOOLEAN /\ crossed \in BOOLEAN
    /\ visits \in 0..MaxVisits
GateRefs == cached.asked => request[Me].step # "idle"
Typed == Parts /\ Refs /\ GateParts /\ GateRefs

LEMMA TypedIsTypes == TypeInv <=> Typed
  BY PartsAreTypes, GatesAssumption DEF TypeInv, AuthTypes, GatesTypeOK, Typed, GateParts, GateRefs,
     CachedType, PageType, FormType

(* The steps over AuthSession's, and those of the gates alone.              *)
Underneath ==
    /\ Next
    /\ UNCHANGED <<place, target, cached, joined, visits>>
    /\ form' \in {form, "sent", "in"}
    /\ out' \in BOOLEAN /\ told' \in BOOLEAN /\ crossed' \in BOOLEAN

LEMMA GatesCases ==
  ASSUME Typed, GatesNext
  PROVE  \/ Underneath
         \/ Landed \/ Redirect \/ Ages
         \/ \E p \in Inside : Browse(p)
         \/ \E p \in Inside \cup {"home", "login", "onboarding"} : Load(p)
         \/ GoogleLogin \/ BackToSignIn \/ AskWho \/ WhoAnswered
         \/ CreateOrganization \/ OpenOrganization \/ Moves \/ LogOutOfNothing \/ Settled \/ Told
  <1> USE DEF gates
  <1>t. Browser \in Browsers /\ Tab \in Tabs
    BY SetupIsTyped DEF Typed, Parts, UserTypes
  <1>b. out \in BOOLEAN /\ told \in BOOLEAN /\ crossed \in BOOLEAN
    BY DEF Typed, GateParts
  <1>1. CASE Next /\ UNCHANGED gates
    BY <1>1, <1>b DEF Underneath
  <1>2. CASE LoginCreated(Browser) /\ UNCHANGED gates
    BY <1>2, <1>t, <1>b DEF Underneath, Next
  <1>3. CASE LogoutServed(Browser) /\ UNCHANGED gates
    BY <1>3, <1>t, <1>b DEF Underneath, Next
  <1>4. CASE SignedIn
    BY <1>4, <1>t, <1>b DEF Underneath, Next, SignedIn
  <1>5. CASE LoggedOut
    BY <1>5, <1>t, <1>b DEF Underneath, Next, LoggedOut
  <1>6. CASE TabAnswers
    BY <1>6, <1>b DEF Underneath, Next, TabAnswers, Behind
  <1>7. CASE Elsewhere
    <2>1. Next
      BY <1>7, <1>t DEF Elsewhere, Next
    <2> QED
      BY <1>7, <1>b, <2>1 DEF Underneath, Elsewhere, Behind
  <1>8. CASE LogOut
    BY <1>8, <1>t, <1>b DEF Underneath, Next, LogOut
  <1>9. ASSUME NEW s \in Sessions, SignIn(s) PROVE Underneath
    BY <1>9, <1>t, <1>b DEF Underneath, Next, SignIn
  <1>10. ASSUME NEW s \in Sessions, EndSession(s) PROVE Underneath
    BY <1>10, <1>t, <1>b DEF Underneath, Next, EndSession
  <1> QED
    BY <1>1, <1>2, <1>3, <1>4, <1>5, <1>6, <1>7, <1>8, <1>9, <1>10 DEF GatesNext, TabGoesOn

(* A request that was made is not idle again.                               *)
LEMMA NeverIdleAgain ==
  ASSUME Parts, Next, NEW q \in Requests, request[q].step # "idle"
  PROVE  request'[q].step # "idle"
  <1>0. request \in RequestsType /\ \A r \in Requests : request[r] \in RequestType
    BY FieldsAreTyped DEF Parts
  <1>1. ASSUME NEW r \in Requests, Send(r) PROVE request'[q].step # "idle"
    BY <1>0, <1>1 DEF Send, Sent, RequestsType
  <1>2. ASSUME NEW r \in Requests, Serve(r) PROVE request'[q].step # "idle"
    <2>1. PICK s \in {"ok", "401", "failed"} : request' = [request EXCEPT ![r].step = s]
      BY <1>2 DEF Serve
    <2> QED
      BY <1>0, <2>1 DEF RequestsType, RequestType
  <1>3. ASSUME NEW r \in Requests, Unauthorized(r) PROVE request'[q].step # "idle"
    <2>1. \/ request' = [request EXCEPT ![r].step = "failed"]
          \/ request' = [request EXCEPT ![r].step = "waiting", ![r].retried = TRUE]
      BY <1>3 DEF Unauthorized
    <2> QED
      BY <1>0, <2>1 DEF RequestsType, RequestType
  <1>4. ASSUME NEW b \in Browsers, AccessExpires(b) PROVE request'[q].step # "idle"
    BY <1>0, <1>4 DEF AccessExpires, RequestType
  <1>5. ASSUME NEW t \in Tabs, RefreshAnswered(t) \/ RefreshLost(t) PROVE request'[q].step # "idle"
    <2>1. PICK s \in {"sent", "failed"} : request' = Woken(t, s)
      BY <1>5 DEF RefreshAnswered, RefreshLost
    <2> QED
      BY <1>0, <2>1 DEF Woken, RequestType
  <1> QED
    BY <1>1, <1>2, <1>3, <1>4, <1>5, WhoChanges

LEMMA UnderneathIsTyped ==
  ASSUME Typed, Underneath
  PROVE  Typed'
  <1>1. Parts' /\ Refs'
    BY NextIsTyped DEF Typed, Underneath
  <1>2. cached.asked => request'[Me].step # "idle"
    BY NeverIdleAgain, GatesAssumption DEF Typed, GateRefs, Underneath
  <1>3. GateParts'
    BY DEF Typed, Underneath, GateParts, FormType
  <1>4. GateRefs'
    BY <1>2 DEF Typed, Underneath, GateRefs
  <1> QED
    BY <1>1, <1>3, <1>4 DEF Typed

(* What the cached answer becomes when it is asked for, or a page opens.    *)
LEMMA AskDoes ==
  ASSUME NEW c \in CachedType
  PROVE  /\ Ask(c) \in CachedType /\ Ask(c).asked /\ Ask(c).user = c.user
         /\ Ask(c).error => c.error
         /\ c.error /\ c.user # "none" => Ask(c).error
  BY DEF Ask, CachedType

LEMMA OpenedDoes ==
  ASSUME NEW c \in CachedType
  PROVE  /\ Opened(c) \in CachedType /\ Opened(c).user = c.user
         /\ c.moved => Opened(c).moved \/ Opened(c).asked
         /\ c.asked => Opened(c) = c
         /\ c.user = "none" => Opened(c).asked
         /\ Opened(c).error => c.error
         /\ c.error /\ c.user # "none" => Opened(c).error
  BY AskDoes DEF Opened

LEMMA AnswersAreTyped ==
  ASSUME joined \in BOOLEAN, cached \in CachedType
  PROVE  /\ NoUser \in CachedType /\ NoUser.user = "none" /\ ~NoUser.asked /\ ~NoUser.error
         /\ \A who \in SaidOf(cached) :
              /\ who \in {"new", "member"}
              /\ Answered(who) \in CachedType /\ Answered(who).user = who
              /\ ~Answered(who).asked /\ Answered(who).moved = cached.moved
              /\ who = "member" /\ ~joined => cached.moved
              /\ who = "new" /\ joined => cached.moved
  BY DEF NoUser, Answered, CachedType, WhoIsIt, SaidOf

(* The requests are as they were, but for that of the tab, which is sent.   *)
AsksOnly == request' = request \/ request' = [request EXCEPT ![Me] = Fresh(Me)]

LEMMA FreshDoes ==
  ASSUME Parts, NEW q \in Requests
  PROVE  /\ Fresh(q) \in RequestType /\ Fresh(q).step = "sent"
         /\ Fresh(q).fresh => jar[BrowserOf(q)].fresh
  <1>1. request[q] \in RequestType
    BY FieldsAreTyped
  <1> QED
    BY <1>1, SentIsTyped DEF Fresh, Sent, RequestType

LEMMA AsksOnlyDoes ==
  ASSUME Parts, AsksOnly
  PROVE  /\ request' \in RequestsType
         /\ request[Me].step # "idle" => request'[Me].step # "idle"
         /\ request' # request => request'[Me] = Fresh(Me)
  <1>1. request \in RequestsType /\ Fresh(Me) \in RequestType /\ Me \in Requests
        /\ Fresh(Me).step = "sent"
    BY FreshDoes, GatesAssumption DEF Parts
  <1>2. CASE request' = request
    BY <1>1, <1>2
  <1>3. CASE request' = [request EXCEPT ![Me] = Fresh(Me)]
    BY <1>1, <1>3, PutOne DEF RequestsType
  <1> QED
    BY <1>2, <1>3 DEF AsksOnly

LEMMA ArriveDoes ==
  ASSUME Parts, NEW p, NEW c \in CachedType, Arrive(p, c)
  PROVE  /\ place' = p /\ cached' = Opened(c) /\ AsksOnly
         /\ cached'.asked /\ ~c.asked => request'[Me] = Fresh(Me)
  <1>1. request \in RequestsType /\ Me \in Requests
    BY GatesAssumption DEF Parts
  <1> QED
    BY <1>1 DEF Arrive, AsksOnly, RequestsType

(* A step of the gates alone.                                               *)
Aside == UNCHANGED behind /\ request' \in RequestsType

LEMMA AsideIsTyped ==
  ASSUME Typed, Aside, GateParts', GateRefs'
  PROVE  Typed'
  <1>1. Parts'
    BY DEF Typed, Parts, UserTypes, Aside, behind, user, asking
  <1>2. Refs'
    BY DEF Typed, Refs, JarsExist, HeldExist, Exists, Aside, behind, user, asking
  <1> QED
    BY <1>1, <1>2 DEF Typed

LEMMA ArrivalIsTyped ==
  ASSUME Typed, NEW p \in PageType, NEW c \in CachedType, Arrive(p, c), UNCHANGED behind,
         c.asked => request[Me].step # "idle",
         target' \in Inside, form' \in FormType,
         out' \in BOOLEAN, joined' = joined, told' \in BOOLEAN, crossed' \in BOOLEAN,
         visits' \in 0..MaxVisits
  PROVE  Typed'
  <1>1. place' = p /\ cached' = Opened(c) /\ AsksOnly
        /\ (cached'.asked /\ ~c.asked => request'[Me] = Fresh(Me))
    BY ArriveDoes DEF Typed
  <1>2. request' \in RequestsType /\ (request[Me].step # "idle" => request'[Me].step # "idle")
    BY <1>1, AsksOnlyDoes DEF Typed
  <1>3. Fresh(Me).step = "sent"
    BY FreshDoes, GatesAssumption DEF Typed
  <1>4. GateParts'
    BY <1>1, OpenedDoes DEF GateParts, Typed
  <1>5. cached'.asked => request'[Me].step # "idle"
    BY <1>1, <1>2, <1>3
  <1>6. GateRefs'
    BY <1>5 DEF GateRefs
  <1> QED
    BY <1>2, <1>4, <1>6, AsideIsTyped DEF Aside

LEMMA GatesAreTyped ==
  ASSUME Typed, GatesNext
  PROVE  Typed'
  <1>p. /\ place \in PageType /\ target \in Inside /\ cached \in CachedType /\ form \in FormType
        /\ out \in BOOLEAN /\ joined \in BOOLEAN /\ told \in BOOLEAN /\ crossed \in BOOLEAN
        /\ visits \in 0..MaxVisits
        /\ (cached.asked => request[Me].step # "idle")
        /\ Parts /\ request \in RequestsType /\ Me \in Requests /\ Who \in Requests /\ Who # Me
    BY GatesAssumption DEF Typed, GateParts, GateRefs, Parts
  <1>f. \A q \in Requests : Fresh(q) \in RequestType /\ Fresh(q).step = "sent"
    BY <1>p, FreshDoes
  <1>v. ASSUME UNCHANGED vars PROVE Aside
    BY <1>v, <1>p DEF Aside, vars, behind, user, asking
  <1>1. CASE Landed
    <2>1. cached' \in CachedType /\ ~cached'.asked
      <3>1. CASE request[Me].step = "ok"
        BY <1>1, <1>p, <3>1, AnswersAreTyped DEF Landed
      <3>2. CASE request[Me].step # "ok"
        BY <1>1, <1>p, <3>2 DEF Landed, CachedType
      <3> QED
        BY <3>1, <3>2
    <2> QED
      BY <1>1, <1>p, <1>v, <2>1, AsideIsTyped DEF Landed, GateParts, GateRefs
  <1>2. CASE Ages
    <2>1. cached' \in CachedType /\ (cached'.asked => cached.asked)
      BY <1>2, <1>p DEF Ages, CachedType
    <2> QED
      BY <1>2, <1>p, <1>v, <2>1, AsideIsTyped DEF Ages, GateParts, GateRefs, vars
  <1>3. CASE Redirect
    <2>1. PICK p \in Gate : Arrive(p, cached)
      BY <1>3 DEF Redirect
    <2>2. p \in PageType
      BY <1>p DEF Gate, AuthGate, GuestGate, HomePage, OnboardingScreen, getPostAuthRoute,
         getPostAuthRedirectUrl, PageType, Inside
    <2> QED
      BY <1>3, <1>p, <2>1, <2>2, ArrivalIsTyped DEF Redirect, Inside
  <1>4. ASSUME NEW p \in Inside, Browse(p) PROVE Typed'
    <2>1. visits' \in 0..MaxVisits
      BY <1>4, <1>p, GatesAssumption DEF Browse
    <2> QED
      BY <1>4, <1>p, <2>1, ArrivalIsTyped DEF Browse, PageType
  <1>5. ASSUME NEW p \in Inside \cup {"home", "login", "onboarding"}, Load(p) PROVE Typed'
    <2>1. visits' \in 0..MaxVisits
      BY <1>5, <1>p, GatesAssumption DEF Load
    <2>2. request' \in RequestsType /\ request'[Me].step = "sent"
      BY <1>5, <1>p, <1>f DEF Load, RequestsType, RequestType
    <2>3. cached' \in CachedType
      BY <1>5, <1>p, AnswersAreTyped, AskDoes DEF Load
    <2> QED
      BY <1>5, <1>p, <2>1, <2>2, <2>3, AsideIsTyped
      DEF Load, GateParts, GateRefs, Aside, PageType, Inside, FormType
  <1>6. CASE GoogleLogin
    <2>1. visits' \in 0..MaxVisits
      BY <1>6, <1>p, GatesAssumption DEF GoogleLogin
    <2> QED
      BY <1>6, <1>p, <1>v, <2>1, AnswersAreTyped, AsideIsTyped
      DEF GoogleLogin, GateParts, GateRefs, PageType
  <1>7. CASE BackToSignIn
    BY <1>7, <1>p, ArrivalIsTyped DEF BackToSignIn, PageType, Inside, FormType
  <1>8. CASE AskWho
    <2>1. request' \in RequestsType /\ request'[Me] = request[Me]
      BY <1>8, <1>p, <1>f, PutOne DEF AskWho, RequestsType
    <2> QED
      BY <1>8, <1>p, <2>1, AsideIsTyped DEF AskWho, GateParts, GateRefs, Aside, FormType
  <1>9. CASE WhoAnswered
    <2>1. CASE request[Who].step = "ok"
      <3>0. PICK who \in SaidOf(cached) :
                 Arrive(getPostAuthRedirectUrl(who, IF place = "callback" THEN "app" ELSE target),
                        [Answered(who) EXCEPT !.asked = cached.asked])
        BY <1>9, <2>1 DEF WhoAnswered
      <3> DEFINE p == getPostAuthRedirectUrl(who, IF place = "callback" THEN "app" ELSE target)
                 c == [Answered(who) EXCEPT !.asked = cached.asked]
      <3>1. p \in PageType
        BY <1>p DEF getPostAuthRedirectUrl, PageType, Inside
      <3>2. c \in CachedType /\ c.asked = cached.asked
        BY <1>p, AnswersAreTyped DEF CachedType
      <3>3. Arrive(p, c) /\ form' = "no" /\ crossed' = (crossed \/ jar[Browser].session = None)
        BY <1>9, <2>1, <3>0 DEF WhoAnswered
      <3> HIDE DEF p, c
      <3> QED
        BY <1>9, <1>p, <3>1, <3>2, <3>3, ArrivalIsTyped DEF WhoAnswered, FormType
    <2>2. CASE request[Who].step # "ok"
      BY <1>9, <1>p, <2>2, AsideIsTyped DEF WhoAnswered, GateParts, GateRefs, Aside, FormType
    <2> QED
      BY <2>1, <2>2
  <1>10. CASE CreateOrganization
    <2>1. request' \in RequestsType /\ request'[Me].step = "sent"
      BY <1>10, <1>p, <1>f, PutOne DEF CreateOrganization, RequestsType
    <2>2. cached' \in CachedType
      BY <1>10, <1>p, AskDoes DEF CreateOrganization
    <2> QED
      BY <1>10, <1>p, <2>1, <2>2, AsideIsTyped
      DEF CreateOrganization, Joins, GateParts, GateRefs, Aside, FormType
  <1>11. CASE OpenOrganization
    BY <1>11, <1>p, ArrivalIsTyped DEF OpenOrganization, PageType, Inside, FormType
  <1>m. CASE Moves
    <2>1. cached' \in CachedType /\ cached'.asked = cached.asked
      BY <1>m, <1>p DEF Moves, CachedType
    <2>2. visits' \in 0..MaxVisits
      BY <1>m, <1>p, GatesAssumption DEF Moves
    <2>3. joined' \in BOOLEAN
      BY <1>m DEF Moves
    <2> QED
      BY <1>m, <1>p, <1>v, <2>1, <2>2, <2>3, AsideIsTyped DEF Moves, GateParts, GateRefs, vars
  <1>12. CASE LogOutOfNothing
    BY <1>12, <1>p, <1>v, AsideIsTyped DEF LogOutOfNothing, GateParts, GateRefs, vars
  <1>13. CASE Settled
    <2>1. request' \in RequestsType /\ request'[Me].step = "sent"
      BY <1>13, <1>p, <1>f, PutOne DEF Settled, RequestsType
    <2>2. cached' \in CachedType
      BY <1>13, <1>p, AskDoes, AnswersAreTyped DEF Settled
    <2> QED
      BY <1>13, <1>p, <2>1, <2>2, AsideIsTyped DEF Settled, GateParts, GateRefs, Aside
  <1>14. CASE Told
    <2>1. CASE place \in Inside /\ cached.user # "none"
      <3>1. NoUser \in CachedType /\ ~NoUser.asked
        BY <1>p, AnswersAreTyped
      <3> QED
        BY <1>14, <1>p, <2>1, <3>1, ArrivalIsTyped DEF Told, PageType, Inside
    <2>2. CASE ~(place \in Inside /\ cached.user # "none")
      BY <1>14, <1>p, <2>2, AsideIsTyped DEF Told, GateParts, GateRefs, Aside
    <2> QED
      BY <2>1, <2>2
  <1> QED
    BY <1>1, <1>2, <1>3, <1>4, <1>5, <1>6, <1>7, <1>8, <1>9, <1>10, <1>11, <1>m, <1>12, <1>13, <1>14,
       UnderneathIsTyped, GatesCases

(* Below the gates a step is one of AuthSession, or changes requests only.  *)
LEMMA StepsBelow ==
  ASSUME Typed, [GatesNext]_<<vars, gates>>
  PROVE  Next \/ UNCHANGED behind
  <1>1. CASE UNCHANGED <<vars, gates>>
    BY <1>1 DEF vars, behind, user, asking
  <1>2. CASE GatesNext
    BY <1>2, GatesCases DEF Underneath, Landed, Redirect, Ages, Browse, Load, GoogleLogin,
       BackToSignIn, AskWho, WhoAnswered, CreateOrganization, OpenOrganization, Moves, LogOutOfNothing,
       Settled, Told, vars, behind, user, asking
  <1> QED
    BY <1>1, <1>2

LEMMA TypedAtFirst == GatesInit => Typed
  <1> SUFFICES ASSUME GatesInit PROVE Typed
    OBVIOUS
  <1> USE DEF GatesInit, Init
  <1>1. UserTypes
    <2>1. setup \in Setups /\ setup.passwords \in Nat
      BY SetupIsTyped
    <2>2. password = 0 /\ issued = 0 /\ mail \in BOOLEAN /\ active \in BOOLEAN
      OBVIOUS
    <2> HIDE DEF GatesInit, Init
    <2> QED
      BY <2>1, <2>2 DEF UserTypes
  <1>2. /\ session \in SessionsType /\ jar \in JarsType /\ login \in LoginsType
        /\ logout \in LogoutsType /\ change \in ChangesType /\ refresh \in RefreshesType
    BY DEF SessionsType, SessionType, JarsType, JarType, LoginsType, LoginType, LogoutsType,
       LogoutType, ChangesType, ChangeType, RefreshesType, RefreshType, NoCookies, NoLogin,
       NoLogout, NoChange, NoRefresh
  <1>3. request \in RequestsType /\ late \subseteq LateType
    BY DEF RequestsType, RequestType
  <1>4. Refs
    BY DEF Refs, JarsExist, HeldExist, NoCookies, NoLogin, NoLogout, NoChange, NoRefresh
  <1>5. GateParts /\ GateRefs
    <2>1. cached \in CachedType /\ ~cached.asked
      BY DEF NoUser, CachedType
    <2>2. 0 \in 0..MaxVisits
      BY GatesAssumption
    <2> QED
      BY <2>1, <2>2 DEF GateParts, GateRefs, PageType, FormType, Inside
  <1> QED
    BY <1>1, <1>2, <1>3, <1>4, <1>5 DEF Typed, Parts

LEMMA TypedForever == GatesSpec => []Typed
  <1>1. Typed /\ [GatesNext]_<<vars, gates>> => Typed'
    <2> SUFFICES ASSUME Typed, UNCHANGED <<vars, gates>> PROVE Typed'
      BY GatesAreTyped
    <2>1. Aside
      BY DEF Aside, vars, behind, user, asking, Typed, Parts
    <2>2. GateParts' /\ GateRefs'
      BY DEF Typed, GateParts, GateRefs, vars, gates
    <2> QED
      BY <2>1, <2>2, AsideIsTyped
  <1> QED
    BY <1>1, TypedAtFirst, PTL DEF GatesSpec

(* Whatever the tabs, browsers, requests, logins and faults of a setup: the *)
(* cookies, refreshes and logouts under way are about sessions that exist,  *)
(* a question for the user has its request, and every variable is typed.    *)
THEOREM SessionTypes == GatesSpec => []GatesTypeOK
  <1>1. Typed => GatesTypeOK
    BY TypedIsTypes DEF TypeInv
  <1> QED
    BY <1>1, TypedForever, PTL

-----------------------------------------------------------------------------
(* An old password leaves no session.                                       *)

LEMMA DieAtFirst == GatesInit => DieInv
  BY DEF GatesInit, Init, DieInv, NoLogin, NoChange

(* While one of these is under way no password is changed.                  *)
LEMMA DieSteps ==
  ASSUME Typed, DieInv, Next, Careful
  PROVE  /\ \A b \in Browsers : change'[b].step # "no" => change'[b].others
         /\ \A b \in Browsers : login'[b].step = "verified" => login'[b].knows = password'
  <1>0. /\ change \in ChangesType /\ login \in LoginsType
        /\ \A b \in Browsers : change[b].step # "no" => change[b].others
        /\ \A b \in Browsers : login[b].step = "verified" => login[b].knows = password
    BY DEF Typed, Parts, DieInv
  <1>1. \A b \in Browsers : change'[b].step # "no" => change'[b].others
    <2>1. ASSUME NEW b \in Browsers, ChangeVerified(b)
          PROVE  \A c \in Browsers : change'[c].step # "no" => change'[c].others
      <3>1. change' = [change EXCEPT ![b] =
                [step |-> "verified", session |-> jar[b].session, others |-> TRUE]]
        BY <2>1 DEF ChangeVerified, Careful
      <3> QED
        BY <1>0, <3>1 DEF ChangesType
    <2>2. ASSUME NEW b \in Browsers, ChangeWritten(b) \/ ChangeRevokes(b)
          PROVE  \A c \in Browsers : change'[c].step # "no" => change'[c].others
      BY <1>0, <2>2 DEF ChangeWritten, ChangeRevokes, ChangesType, ChangeType, NoChange
    <2> QED
      BY <1>0, <2>1, <2>2, WhoChanges
  <1>2. password' = password \/ \A b \in Browsers : login[b].step # "verified"
    <2>1. ASSUME NEW b \in Browsers, ChangeWritten(b) PROVE \A c \in Browsers : login[c].step # "verified"
      BY <2>1 DEF ChangeWritten, NoOverlap, Careful
    <2>2. CASE Forgot \/ SetStatus
      BY <2>2 DEF Forgot, SetStatus
    <2>3. CASE Reset
      BY <2>3 DEF Reset, NoOverlap, Careful
    <2> QED
      BY <2>1, <2>2, <2>3, WhoChanges DEF user
  <1>3. \A b \in Browsers : login'[b].step = "verified" => login'[b].knows = password'
    <2>1. ASSUME NEW b \in Browsers, LoginCreated(b) \/ LoginAnswered(b)
          PROVE  \A c \in Browsers : login'[c].step = "verified" => login'[c].knows = password'
      <3>1. password' = password
        BY <2>1 DEF LoginCreated, LoginAnswered, user
      <3>2. \A c \in Browsers : login'[c].step = "verified" => login'[c] = login[c]
        BY <1>0, <2>1 DEF LoginCreated, LoginAnswered, LoginsType, LoginType, NoLogin
      <3> QED
        BY <1>0, <3>1, <3>2
    <2>2. ASSUME NEW b \in Browsers, NEW s \in Sessions, LoginVerified(b, s)
          PROVE  \A c \in Browsers : login'[c].step = "verified" => login'[c].knows = password'
      BY <1>0, <2>2 DEF LoginVerified, LoginsType, user
    <2> QED
      BY <1>0, <1>2, <2>1, <2>2, WhoChanges
  <1> QED
    BY <1>1, <1>3

(* A live session of an old password is about to be ended by a change.      *)
OldEnds == \A s \in Sessions : session[s].step = "live" /\ session[s].knows # password
             => \E b \in Browsers : change[b].step = "written" /\ change[b].session # s

LEMMA OldEndsOn ==
  ASSUME Typed, DieInv, Next, Careful
  PROVE  OldEnds'
  <1> USE NoneIsNoSession
  <1>0. /\ session \in SessionsType /\ change \in ChangesType /\ OldEnds
        /\ \A b \in Browsers : change[b].step # "no" => change[b].others
        /\ \A b \in Browsers : login[b].step = "verified" => login[b].knows = password
    BY DEF Typed, Parts, DieInv, OldEnds
  <1>1. ASSUME NEW b \in Browsers, ChangeVerified(b) PROVE OldEnds'
    <2>1. \A c \in Browsers : change[c].step = "written" => change'[c] = change[c]
      BY <1>0, <1>1 DEF ChangeVerified, ChangesType
    <2> QED
      BY <1>0, <1>1, <2>1 DEF ChangeVerified, OldEnds, user
  <1>2. ASSUME NEW b \in Browsers, ChangeWritten(b) PROVE OldEnds'
    <2>1. change[b].session \in Sessions /\ issued' \in Nat
      BY <1>2, FieldsAreTyped
      DEF ChangeWritten, Typed, Refs, HeldExist, ChangeType, Parts, UserTypes
    <2>2. change'[b].step = "written" /\ change'[b].session = change[b].session
      BY <1>0, <1>2 DEF ChangeWritten, ChangesType, ChangeType
    <2>3. session'[change[b].session].knows = password'
      BY <1>0, <1>2, <2>1 DEF ChangeWritten, SessionsType, SessionType
    <2> QED
      BY <2>1, <2>2, <2>3 DEF OldEnds
  <1>3. ASSUME NEW b \in Browsers, ChangeRevokes(b) PROVE OldEnds'
    <2>1. session' = Revoked(Sessions \ {change[b].session}) /\ password' = password
      BY <1>0, <1>3 DEF ChangeRevokes, Careful, user
    <2>2. \A s \in Sessions : session'[s].step = "live" =>
            s = change[b].session /\ session[s].step = "live" /\ session'[s].knows = session[s].knows
      BY <1>0, <2>1, RevokedDoes
    <2>3. \A c \in Browsers : c # b => change'[c] = change[c]
      BY <1>0, <1>3 DEF ChangeRevokes, ChangesType
    <2> QED
      <3> SUFFICES ASSUME NEW s \in Sessions,
                          session'[s].step = "live" /\ session'[s].knows # password'
                   PROVE  \E c \in Browsers : change'[c].step = "written" /\ change'[c].session # s
        BY DEF OldEnds
      <3>1. PICK c \in Browsers : change[c].step = "written" /\ change[c].session # s
        BY <1>0, <2>1, <2>2, ZenonT(40) DEF OldEnds
      <3>2. c # b
        BY <2>2, <3>1
      <3> QED
        BY <2>3, <3>1, <3>2
  <1>4. ASSUME NEW b \in Browsers, LoginCreated(b) PROVE OldEnds'
    <2>1. /\ \A s \in Sessions : s # login[b].session => session'[s] = session[s]
          /\ login[b].session \in Sessions => session'[login[b].session].knows = login[b].knows
          /\ login[b].knows = password /\ password' = password /\ change' = change
      BY <1>0, <1>4 DEF LoginCreated, SessionsType, user
    <2> QED
      BY <1>0, <2>1 DEF OldEnds
  <1>5. ASSUME NEW t \in Tabs, RefreshServed(t) PROVE OldEnds'
    <2>1. PICK x \in Sessions, k \in Nat : /\ session' = Rotated(x, k)
                                          /\ password' = password /\ change' = change
      BY <1>5, FieldsAreTyped
      DEF RefreshServed, RefreshType, Typed, Refs, HeldExist, user, asking
    <2>2. \A s \in Sessions : session'[s].step = "live" =>
            session[s].step = "live" /\ session'[s].knows = session[s].knows
      BY <1>0, <2>1, RotatedDoes
    <2> QED
      BY <1>0, <2>1, <2>2 DEF OldEnds
  <1>6. ASSUME NEW r \in late, RefreshLate(r) PROVE OldEnds'
    <2>1. PICK x \in Sessions, k \in Nat : /\ session' = Rotated(x, k)
                                          /\ password' = password /\ change' = change
      BY <1>6, FieldsAreTyped DEF RefreshLate, LateType, Typed, user, asking
    <2>2. \A s \in Sessions : session'[s].step = "live" =>
            session[s].step = "live" /\ session'[s].knows = session[s].knows
      BY <1>0, <2>1, RotatedDoes
    <2> QED
      BY <1>0, <2>1, <2>2 DEF OldEnds
  <1>7. ASSUME NEW S, session' = Revoked(S), password' = password, change' = change PROVE OldEnds'
    <2>1. \A s \in Sessions : session'[s].step = "live" =>
            session[s].step = "live" /\ session'[s].knows = session[s].knows
      BY <1>0, <1>7, RevokedDoes
    <2> QED
      BY <1>0, <1>7, <2>1, ZenonT(40) DEF OldEnds
  <1>8. ASSUME session' = Revoked(Sessions) PROVE OldEnds'
    BY <1>0, <1>8, RevokedDoes DEF OldEnds
  <1>9. ASSUME NEW b \in Browsers, NEW s \in Sessions, LogoutServed(b) \/ RevokeSession(b, s)
        PROVE  OldEnds'
    BY <1>7, <1>9 DEF LogoutServed, RevokeSession, user, asking
  <1>10. CASE Forgot \/ Reset \/ SetStatus
    BY <1>0, <1>8, <1>10 DEF Forgot, Reset, SetStatus, OldEnds, asking
  <1>11. ASSUME NEW b \in Browsers, LogoutServed(b) PROVE OldEnds'
    BY <1>7, <1>11 DEF LogoutServed, user
  <1>12. CASE UNCHANGED <<session, password, change>>
    BY <1>0, <1>12 DEF OldEnds
  <1> QED
    BY <1>1, <1>2, <1>3, <1>4, <1>5, <1>6, <1>9, <1>10, <1>11, <1>12, WhoChanges DEF user

LEMMA DieForever == GatesSpec => []DieInv
  <1>1. Typed /\ DieInv /\ [GatesNext]_<<vars, gates>> => DieInv'
    <2> SUFFICES ASSUME Typed, DieInv, [GatesNext]_<<vars, gates>>, Careful' PROVE DieInv'
      BY DEF DieInv
    <2>1. CASE Next
      <3>1. Careful
        BY <2>1, WhoChanges DEF Careful, May
      <3> QED
        BY <2>1, <3>1, DieSteps, OldEndsOn DEF DieInv, OldEnds
    <2>2. CASE UNCHANGED behind
      BY <2>2 DEF DieInv, Careful, May, behind, user, asking
    <2> QED
      BY <2>1, <2>2, StepsBelow
  <1> QED
    BY <1>1, DieAtFirst, TypedForever, PTL DEF GatesSpec

(* Whatever overlaps else, in any number of browsers: a changed or reset    *)
(* password leaves no session of the old one once no change is between its  *)
(* two commits, if no login overlaps it, the server does not die in between *)
(* and the user does not keep the others.                                   *)
THEOREM OldSessionsEnd == GatesSpec => []OldPasswordDies
  <1>1. DieInv => OldPasswordDies
    BY DEF DieInv, OldPasswordDies, Careful
  <1> QED
    BY <1>1, DieForever, PTL

-----------------------------------------------------------------------------
(* No current token is taken for a reuse.                                   *)

LEMMA CalmAtFirst == GatesInit => CalmInv
  BY NoneIsNoSession
  DEF GatesInit, Init, CalmInv, OwnerInv, LoginInv, TokenInv, NoCookies, NoLogin, NoLogout, NoRefresh

Held == OwnerInv /\ LoginInv /\ TokenInv

(* Who holds which token of which session stays, but for logouts that are   *)
(* over; sessions may end.                                                  *)
HoldersStay ==
    /\ \A s \in Sessions : /\ session'[s].step # "none" <=> session[s].step # "none"
                           /\ session'[s].step = "live" => session[s].step = "live"
                           /\ session'[s].step = "reused" => session[s].step = "reused"
                           /\ session'[s].token = session[s].token
    /\ \A b \in Browsers : /\ jar'[b].session = jar[b].session
                           /\ jar'[b].token = jar[b].token
                           /\ logout'[b].step # "no" => logout[b].step # "no"
                           /\ logout'[b].step # "no" => logout'[b].session = logout[b].session
    /\ login' = login /\ refresh' = refresh /\ late' = late /\ setup' = setup

LEMMA HoldersAreTyped ==
  ASSUME Typed
  PROVE  /\ \A b \in Browsers : /\ jar[b].session # None => jar[b].session \in Sessions
                                /\ jar[b].session # None => session[jar[b].session].step # "none"
                                /\ login[b].step # "no" => login[b].session \in Sessions
                                /\ logout[b].step # "no" => logout[b].session \in Sessions
                                /\ logout[b].step # "no" => session[logout[b].session].step # "none"
         /\ \A t \in Tabs : /\ refresh[t].step # "no" => refresh[t].session \in Sessions
                            /\ refresh[t].step # "no" => refresh[t].session # None
                            /\ refresh[t].step # "no" => session[refresh[t].session].step # "none"
                            /\ refresh[t].token \in Nat
         /\ \A s \in Sessions : s # None
  BY FieldsAreTyped, NoneIsNoSession
  DEF Typed, Refs, JarsExist, HeldExist, Exists, JarType, LoginType, LogoutType, RefreshType

LEMMA HeldStays ==
  ASSUME Typed, Held, HoldersStay
  PROVE  Held'
  <1>1. OwnerInv'
    BY DEF Held, OwnerInv, HoldersStay
  <1>2. LoginInv'
    BY HoldersAreTyped DEF Held, LoginInv, HoldersStay, Exists
  <1>3. TokenInv'
    BY HoldersAreTyped DEF Held, TokenInv, HoldersStay, Live
  <1> QED
    BY <1>1, <1>2, <1>3 DEF Held

(* A refresh starts with the token of the cookies.                          *)
LEMMA HeldWhenAsked ==
  ASSUME Typed, Held, OneTab, NEW t \in Tabs, refresh[t].step = "no",
         jar[setup.browser[t]].session # None,
         refresh' = [refresh EXCEPT ![t] = Asked(setup.browser[t])],
         UNCHANGED <<setup, session, jar, login, logout, late>>
  PROVE  Held'
  <1> DEFINE b == setup.browser[t]
  <1>1. b \in Browsers
    BY SetupIsTyped DEF Typed, Parts, UserTypes
  <1>2. /\ \A u \in Tabs : u # t => refresh'[u] = refresh[u]
        /\ refresh'[t].step = "sent" /\ refresh'[t].session = jar[b].session
        /\ refresh'[t].token = jar[b].token
    BY DEF Asked, Typed, Parts, RefreshesType
  <1>3. \A u \in Tabs : u # t => setup.browser[u] # b
    BY DEF OneTab
  <1> HIDE DEF b
  <1>4. OwnerInv'
    BY <1>1, <1>2, <1>3 DEF Held, OwnerInv, b
  <1>5. LoginInv'
    BY <1>1, <1>2, HoldersAreTyped DEF Held, LoginInv, Exists
  <1>6. TokenInv'
    BY <1>1, <1>2, <1>3, HoldersAreTyped DEF Held, OwnerInv, TokenInv, Live, b
  <1> QED
    BY <1>4, <1>5, <1>6 DEF Held

(* It is served by the row with the token it has.                           *)
LEMMA HeldWhenServed ==
  ASSUME Typed, Held, NEW t \in Tabs, RefreshServed(t)
  PROVE  Held'
  <1> DEFINE s == refresh[t].session
             k == refresh[t].token
  <1>1. s \in Sessions /\ k \in Nat /\ session \in SessionsType /\ session[s].step # "none"
    BY HoldersAreTyped DEF RefreshServed, Typed, Parts
  <1>2. session[s].step = "live" => session[s].token = k
    BY DEF RefreshServed, Held, TokenInv, Live
  <1>3. /\ session' = Rotated(s, k)
        /\ refresh[t].step = "sent"
        /\ \A u \in Tabs : u # t => refresh'[u] = refresh[u]
        /\ refresh'[t].session = s
        /\ Rotates(s, k) => refresh'[t].step = "rotated" /\ refresh'[t].token = k + 1
        /\ ~Rotates(s, k) => refresh'[t].step = "refused"
        /\ UNCHANGED <<setup, jar, login, logout, late>>
    BY DEF RefreshServed, Typed, Parts, RefreshesType, asking
  <1> HIDE DEF s, k
  <1>4. /\ \A r \in Sessions : r # s => session'[r] = session[r]
        /\ \A r \in Sessions : session'[r].step # "none" <=> session[r].step # "none"
        /\ Rotates(s, k) => session'[s].step = "live" /\ session'[s].token = k + 1
        /\ ~Rotates(s, k) => session' = session
    BY <1>1, <1>2, <1>3, RotatedDoes
  <1>5. \A u \in Tabs : refresh'[u].session = refresh[u].session
                        /\ (refresh'[u].step # "no" <=> refresh[u].step # "no")
    BY <1>3 DEF s
  <1>6. OwnerInv'
    BY <1>3, <1>5 DEF Held, OwnerInv
  <1>7. LoginInv'
    BY <1>3, <1>4, <1>5, HoldersAreTyped DEF Held, LoginInv, Exists
  <1>8. TokenInv'
    <2>1. CASE Rotates(s, k)
      <3>1. late' = {} /\ \A r \in Sessions : session'[r].step # "reused"
        BY <2>1, <1>1, <1>3, <1>4 DEF Held, TokenInv
      <3>2. \A b \in Browsers : login[b].step = "created" => session'[login[b].session].token = 1
        BY <1>1, <1>3, <1>4, HoldersAreTyped DEF Held, TokenInv, LoginInv, s
      <3>3. \A u \in Tabs : refresh'[u].step \in {"sent", "rotated"} /\ Live(refresh[u].session)'
              => refresh'[u].token = session'[refresh'[u].session].token
        BY <2>1, <1>1, <1>3, <1>4, HoldersAreTyped DEF Held, TokenInv, OwnerInv, Live, s
      <3>4. \A b \in Browsers : jar[b].session # None /\ session'[jar[b].session].step = "live"
              => \/ jar[b].token = session'[jar[b].session].token
                 \/ \E u \in Tabs : refresh'[u].step = "rotated" /\ refresh'[u].session = jar[b].session
        BY <2>1, <1>1, <1>3, <1>4, HoldersAreTyped DEF Held, TokenInv, Live
      <3> QED
        BY <1>3, <3>1, <3>2, <3>3, <3>4 DEF TokenInv, Live
    <2>2. CASE ~Rotates(s, k)
      BY <2>2, <1>3, <1>4 DEF Held, TokenInv, Live
    <2> QED
      BY <2>1, <2>2
  <1> QED
    BY <1>6, <1>7, <1>8 DEF Held

(* Its answer sets the cookies of its browser, or clears them.              *)
LEMMA HeldWhenAnswered ==
  ASSUME Typed, Held, OneTab, NEW t \in Tabs, RefreshAnswered(t)
  PROVE  Held'
  <1> DEFINE b == setup.browser[t]
  <1>1. b \in Browsers
    BY SetupIsTyped DEF Typed, Parts, UserTypes
  <1>2. /\ refresh[t].step \in {"rotated", "refused"}
        /\ \A u \in Tabs : u # t => refresh'[u] = refresh[u]
        /\ refresh'[t].step = "no"
        /\ \A c \in Browsers : c # b => jar'[c] = jar[c]
        /\ refresh[t].step = "rotated" => /\ jar'[b].session = refresh[t].session
                                          /\ jar'[b].token = refresh[t].token
        /\ refresh[t].step = "refused" => jar'[b].session = None
        /\ UNCHANGED <<setup, session, login, logout, late>>
    BY <1>1 DEF RefreshAnswered, Typed, Parts, RefreshesType, JarsType, NoRefresh, NoCookies, asking
  <1>3. \A u \in Tabs : u # t => setup.browser[u] # b
    BY DEF OneTab
  <1> HIDE DEF b
  <1>4. OwnerInv'
    BY <1>1, <1>2, <1>3, HoldersAreTyped DEF Held, OwnerInv, b
  <1>5. LoginInv'
    BY <1>1, <1>2, HoldersAreTyped DEF Held, LoginInv, Exists
  <1>6. TokenInv'
    BY <1>1, <1>2, <1>3, HoldersAreTyped DEF Held, OwnerInv, TokenInv, Live, b
  <1> QED
    BY <1>4, <1>5, <1>6 DEF Held

LEMMA HeldInLogin ==
  ASSUME Typed, Held, NEW b \in Browsers, NEW s \in Sessions,
         LoginVerified(b, s) \/ LoginCreated(b) \/ LoginAnswered(b)
  PROVE  Held'
  <1>1. CASE LoginVerified(b, s)
    <2>1. /\ \A c \in Browsers : c # b => login'[c] = login[c]
          /\ login'[b].step = "verified" /\ login'[b].session = s
          /\ session[s].step = "none" /\ \A c \in Browsers : login[c].session # s
          /\ UNCHANGED <<setup, session, jar, logout, refresh, late>>
      BY <1>1 DEF LoginVerified, Unused, Typed, Parts, LoginsType
    <2>2. OwnerInv' /\ TokenInv'
      BY <2>1 DEF Held, OwnerInv, TokenInv, Live
    <2>3. LoginInv'
      BY <2>1 DEF Held, LoginInv, Exists
    <2> QED
      BY <2>2, <2>3 DEF Held
  <1>2. CASE LoginCreated(b)
    <2> DEFINE r == login[b].session
    <2>1. /\ \A c \in Browsers : c # b => login'[c] = login[c]
          /\ login[b].step = "verified" /\ login'[b].step = "created" /\ login'[b].session = r
          /\ \A x \in Sessions : x # r => session'[x] = session[x]
          /\ r \in Sessions /\ session'[r].step = "live" /\ session'[r].token = 1
          /\ UNCHANGED <<setup, jar, logout, refresh, late>>
      BY <1>2, HoldersAreTyped
      DEF LoginCreated, Typed, Parts, LoginsType, LoginType, SessionsType
    <2>2. session[r].step = "none"
      BY <2>1 DEF Held, LoginInv, Exists
    <2> HIDE DEF r
    <2>3. /\ \A c \in Browsers : jar[c].session # r /\ (logout[c].step # "no" => logout[c].session # r)
          /\ \A t \in Tabs : refresh[t].step # "no" => refresh[t].session # r
          /\ \A c \in Browsers : c # b /\ login[c].step # "no" => login[c].session # r
      BY <2>1, <2>2, HoldersAreTyped DEF Held, LoginInv, r
    <2>4. OwnerInv'
      BY <2>1 DEF Held, OwnerInv
    <2>5. LoginInv'
      BY <2>1, <2>3, HoldersAreTyped DEF Held, LoginInv, Exists, r
    <2>6. TokenInv'
      BY <2>1, <2>3, HoldersAreTyped DEF Held, TokenInv, Live, r
    <2> QED
      BY <2>4, <2>5, <2>6 DEF Held
  <1>3. CASE LoginAnswered(b)
    <2>1. /\ \A c \in Browsers : c # b => login'[c] = login[c] /\ jar'[c] = jar[c]
          /\ login[b].step = "created" /\ login'[b].step = "no"
          /\ \/ jar' = jar
             \/ jar'[b].session = login[b].session /\ jar'[b].token = 1
          /\ UNCHANGED <<setup, session, logout, refresh, late>>
      BY <1>3 DEF LoginAnswered, Typed, Parts, LoginsType, JarsType, NoLogin
    <2>2. OwnerInv'
      BY <2>1, HoldersAreTyped DEF Held, OwnerInv, LoginInv
    <2>3. LoginInv'
      BY <2>1 DEF Held, LoginInv, Exists
    <2>4. TokenInv'
      BY <2>1 DEF Held, TokenInv, LoginInv, Live
    <2> QED
      BY <2>2, <2>3, <2>4 DEF Held
  <1> QED
    BY <1>1, <1>2, <1>3

LEMMA HeldInLogout ==
  ASSUME Typed, Held, NEW b \in Browsers, LogoutSent(b) \/ LogoutAnswered(b)
  PROVE  Held'
  <1>1. CASE LogoutSent(b)
    <2>1. /\ \A c \in Browsers : c # b => logout'[c] = logout[c]
          /\ logout'[b].step = "sent" /\ logout'[b].session = jar[b].session
          /\ UNCHANGED <<setup, session, jar, login, refresh, late>>
      BY <1>1 DEF LogoutSent, Typed, Parts, LogoutsType
    <2>2. OwnerInv' /\ TokenInv'
      BY <2>1 DEF Held, OwnerInv, TokenInv, Live
    <2>3. LoginInv'
      BY <2>1 DEF Held, LoginInv, Exists
    <2> QED
      BY <2>2, <2>3 DEF Held
  <1>2. CASE LogoutAnswered(b)
    <2>1. /\ \A c \in Browsers : c # b => logout'[c] = logout[c] /\ jar'[c] = jar[c]
          /\ logout'[b].step = "no"
          /\ jar' = jar \/ jar'[b].session = None
          /\ UNCHANGED <<setup, session, login, refresh, late>>
      BY <1>2 DEF LogoutAnswered, Typed, Parts, LogoutsType, JarsType, NoLogout, NoCookies
    <2>2. OwnerInv' /\ TokenInv'
      BY <2>1, HoldersAreTyped DEF Held, OwnerInv, TokenInv, Live
    <2>3. LoginInv'
      BY <2>1, HoldersAreTyped DEF Held, LoginInv, Exists
    <2> QED
      BY <2>2, <2>3 DEF Held
  <1> QED
    BY <1>1, <1>2

(* Sessions end, access tokens expire and passwords change beside that.     *)
LEMMA HeldBeside ==
  ASSUME Typed, Held, NEW b \in Browsers,
         \/ AccessExpires(b) \/ LogoutServed(b) \/ ChangeVerified(b) \/ ChangeWritten(b)
         \/ ChangeRevokes(b) \/ (\E s \in Sessions : RevokeSession(b, s))
         \/ Forgot \/ Reset \/ SetStatus
  PROVE  Held'
  <1>0. session \in SessionsType /\ jar \in JarsType /\ logout \in LogoutsType
    BY DEF Typed, Parts
  <1>1. ASSUME session' = session \/ \E S : session' = Revoked(S)
        PROVE  \A r \in Sessions : /\ session'[r].step # "none" <=> session[r].step # "none"
                                   /\ session'[r].step = "live" => session[r].step = "live"
                                   /\ session'[r].step = "reused" => session[r].step = "reused"
                                   /\ session'[r].token = session[r].token
    BY <1>0, <1>1, RevokedDoes
  <1>2. CASE AccessExpires(b)
    BY <1>0, <1>2, HeldStays DEF AccessExpires, HoldersStay, JarsType, JarType, asking
  <1>3. CASE LogoutServed(b)
    BY <1>0, <1>1, <1>3, HeldStays DEF LogoutServed, HoldersStay, LogoutsType, LogoutType
  <1>4. CASE ChangeVerified(b)
    BY <1>4, HeldStays DEF ChangeVerified, HoldersStay
  <1>5. CASE ChangeWritten(b)
    BY <1>0, <1>5, HeldStays DEF ChangeWritten, HoldersStay, SessionsType, SessionType
  <1>6. CASE ChangeRevokes(b)
    BY <1>1, <1>6, HeldStays DEF ChangeRevokes, HoldersStay
  <1>7. CASE \E s \in Sessions : RevokeSession(b, s)
    BY <1>1, <1>7, HeldStays DEF RevokeSession, HoldersStay, asking
  <1>8. CASE Forgot \/ Reset \/ SetStatus
    BY <1>1, <1>8, HeldStays DEF Forgot, Reset, SetStatus, HoldersStay, asking
  <1> QED
    BY <1>2, <1>3, <1>4, <1>5, <1>6, <1>7, <1>8

LEMMA HeldOn ==
  ASSUME Typed, Held, Calm, Next
  PROVE  Held'
  <1>1. ASSUME NEW q \in Requests, Serve(q) \/ Unauthorized(q) \/ Send(q) PROVE Held'
    <2>1. CASE UNCHANGED refresh
      BY <1>1, <2>1, HeldStays DEF Serve, Unauthorized, Send, HoldersStay, asking
    <2>2. CASE ~UNCHANGED refresh
      <3>1. setup.tab[q] \in Tabs
        BY SetupIsTyped DEF Typed, Parts, UserTypes
      <3> QED
        BY <1>1, <2>2, <3>1, HeldWhenAsked
        DEF Serve, Unauthorized, Send, Refreshable, BrowserOf, asking, Calm
    <2> QED
      BY <2>1, <2>2
  <1>2. ASSUME NEW t \in Tabs, RefreshServed(t) \/ RefreshAnswered(t) \/ RefreshLost(t) PROVE Held'
    BY <1>2, HeldWhenServed, HeldWhenAnswered DEF RefreshLost, Calm
  <1>3. ASSUME NEW r \in late PROVE FALSE
    BY DEF Held, TokenInv
  <1>4. ASSUME NEW b \in Browsers, LoginCreated(b) \/ LoginAnswered(b) PROVE Held'
    <2>1. PICK s \in Sessions : TRUE
      BY <1>4, HoldersAreTyped DEF LoginCreated, LoginAnswered
    <2> QED
      BY <1>4, <2>1, HeldInLogin
  <1>5. ASSUME NEW b \in Browsers, NEW s \in Sessions, LoginVerified(b, s) PROVE Held'
    BY <1>5, HeldInLogin
  <1>6. ASSUME NEW b \in Browsers, LogoutSent(b) \/ LogoutAnswered(b) PROVE Held'
    BY <1>6, HeldInLogout
  <1>7. ASSUME NEW b \in Browsers, NEW s \in Sessions, RevokeSession(b, s) PROVE Held'
    BY <1>7, HeldBeside
  <1>8. ASSUME NEW b \in Browsers, \/ AccessExpires(b) \/ LogoutServed(b)
                                   \/ ChangeVerified(b) \/ ChangeWritten(b) \/ ChangeRevokes(b)
        PROVE  Held'
    BY <1>8, HeldBeside
  <1>9. CASE Forgot \/ Reset \/ SetStatus
    <2>1. PICK b \in Browsers : TRUE
      BY AuthAssumption
    <2> QED
      BY <1>9, <2>1, HeldBeside
  <1> QED
    BY <1>1, <1>2, <1>3, <1>4, <1>5, <1>6, <1>7, <1>8, <1>9 DEF Next, Answers

LEMMA CalmForever == GatesSpec => []CalmInv
  <1>1. Typed /\ CalmInv /\ [GatesNext]_<<vars, gates>> => CalmInv'
    <2> SUFFICES ASSUME Typed, CalmInv, [GatesNext]_<<vars, gates>>, Calm' PROVE Held'
      BY DEF CalmInv, Held
    <2>1. setup' = setup
      BY StepsBelow, WhoChanges DEF behind
    <2>2. Calm /\ Held
      BY <2>1 DEF Calm, OneTab, May, CalmInv, Held
    <2>3. CASE Next
      BY <2>2, <2>3, HeldOn
    <2>4. CASE UNCHANGED behind
      BY <2>2, <2>4, HeldStays DEF behind, asking, HoldersStay
    <2> QED
      BY <2>3, <2>4, StepsBelow
  <1> QED
    BY <1>1, CalmAtFirst, TypedForever, PTL DEF GatesSpec

(* With one tab per browser and no lost answer no session is ever ended as  *)
(* a reuse of its token: for any number of browsers, sessions and requests  *)
(* that meet an expired token together.                                     *)
THEOREM NoTokenIsReused == GatesSpec => []NoFalseAlarm
  <1>1. CalmInv => NoFalseAlarm
    BY DEF CalmInv, TokenInv, NoFalseAlarm
  <1> QED
    BY <1>1, CalmForever, PTL

(* ... and a browser with no refresh under way holds the current token of   *)
(* its session, if that is still alive.                                     *)
THEOREM CookiesAreCurrent == GatesSpec => []TheCookieWorks
  <1>1. Typed /\ CalmInv => TheCookieWorks
    <2> SUFFICES ASSUME Typed, OwnerInv, TokenInv, NEW b \in Browsers,
                        jar[b].session # None, session[jar[b].session].step = "live",
                        \A t \in Tabs : setup.browser[t] = b => refresh[t].step = "no"
                 PROVE  jar[b].token = session[jar[b].session].token
      BY DEF CalmInv, TheCookieWorks
    <2>1. ~\E t \in Tabs : refresh[t].step = "rotated" /\ refresh[t].session = jar[b].session
      BY SetupIsTyped DEF OwnerInv
    <2> QED
      BY <2>1 DEF TokenInv, Live
  <1> QED
    BY <1>1, TypedForever, CalmForever, PTL

-----------------------------------------------------------------------------
(* Where the tab is.                                                        *)

LEMMA KnownAfterArrival ==
  ASSUME Typed, KnownInv, NEW p, NEW c \in CachedType, Arrive(p, c), joined' = joined,
         c.user = "member" /\ ~joined => c.asked \/ c.error \/ c.moved,
         c.user = "new" /\ joined => c.asked \/ c.error \/ c.moved
  PROVE  KnownInv'
  <1>1. place' = p /\ cached' = Opened(c)
    BY DEF Arrive
  <1>2. /\ cached'.user = c.user
        /\ c.asked => cached' = c
        /\ c.user = "none" => cached'.asked
        /\ c.error /\ c.user # "none" => cached'.error
        /\ c.moved => cached'.moved \/ cached'.asked
    BY <1>1, OpenedDoes
  <1> QED
    BY <1>2 DEF KnownInv

LEMMA KnownOn ==
  ASSUME Typed, KnownInv, GatesNext
  PROVE  KnownInv'
  <1>p. /\ cached \in CachedType /\ joined \in BOOLEAN
        /\ NoUser \in CachedType /\ NoUser.user = "none"
        /\ \A who \in SaidOf(cached) :
              /\ who \in {"new", "member"}
              /\ Answered(who) \in CachedType /\ Answered(who).user = who
              /\ Answered(who).moved = cached.moved
              /\ who = "member" /\ ~joined => cached.moved
              /\ who = "new" /\ joined => cached.moved
    BY AnswersAreTyped DEF Typed, GateParts
  <1>k. /\ cached.user = "member" /\ ~joined => cached.asked \/ cached.error \/ cached.moved
        /\ cached.user = "new" /\ joined => cached.asked \/ cached.error \/ cached.moved
    BY DEF KnownInv
  <1>1. CASE Landed
    <2>1. CASE request[Me].step = "ok"
      BY <1>1, <2>1, <1>p DEF Landed, KnownInv, vars
    <2>2. CASE request[Me].step # "ok"
      BY <1>1, <2>2, <1>p DEF Landed, KnownInv, vars, CachedType
    <2> QED
      BY <2>1, <2>2
  <1>2. CASE Ages
    BY <1>2, <1>p DEF Ages, KnownInv, vars, CachedType
  <1>3. CASE Redirect
    <2>1. PICK p \in Gate : Arrive(p, cached)
      BY <1>3 DEF Redirect
    <2> QED
      BY <1>3, <1>p, <1>k, <2>1, KnownAfterArrival DEF Redirect
  <1>4. ASSUME NEW p \in Inside, Browse(p) PROVE KnownInv'
    BY <1>4, <1>p, <1>k, KnownAfterArrival DEF Browse
  <1>5. ASSUME NEW p \in Inside \cup {"home", "login", "onboarding"}, Load(p) PROVE KnownInv'
    BY <1>5, <1>p, AskDoes DEF Load, KnownInv
  <1>6. CASE GoogleLogin
    BY <1>6, <1>p DEF GoogleLogin, KnownInv
  <1>7. CASE BackToSignIn
    BY <1>7, <1>p, <1>k, KnownAfterArrival DEF BackToSignIn
  <1>8. CASE AskWho
    BY <1>8 DEF AskWho, KnownInv
  <1>9. CASE WhoAnswered
    <2>1. CASE request[Who].step = "ok"
      <3>0. PICK who \in SaidOf(cached) :
                 Arrive(getPostAuthRedirectUrl(who, IF place = "callback" THEN "app" ELSE target),
                        [Answered(who) EXCEPT !.asked = cached.asked])
        BY <1>9, <2>1 DEF WhoAnswered
      <3> DEFINE p == getPostAuthRedirectUrl(who, IF place = "callback" THEN "app" ELSE target)
                 c == [Answered(who) EXCEPT !.asked = cached.asked]
      <3>1. c \in CachedType /\ c.user = who /\ c.moved = cached.moved
        BY <1>p DEF CachedType
      <3>2. Arrive(p, c) /\ joined' = joined
        BY <1>9, <3>0 DEF WhoAnswered
      <3> HIDE DEF p, c
      <3> QED
        BY <1>p, <3>1, <3>2, KnownAfterArrival
    <2>2. CASE request[Who].step # "ok"
      BY <1>9, <2>2 DEF WhoAnswered, KnownInv
    <2> QED
      BY <2>1, <2>2
  <1>10. CASE CreateOrganization
    BY <1>10, <1>p, AskDoes DEF CreateOrganization, Joins, KnownInv
  <1>11. CASE OpenOrganization
    BY <1>11, <1>p, <1>k, KnownAfterArrival DEF OpenOrganization
  <1>m. CASE Moves
    BY <1>m, <1>p DEF Moves, KnownInv, CachedType
  <1>12. CASE LogOutOfNothing
    BY <1>12 DEF LogOutOfNothing, KnownInv
  <1>13. CASE Settled
    BY <1>13, <1>p, AskDoes DEF Settled, KnownInv
  <1>14. CASE Told
    <2>1. CASE place \in Inside /\ cached.user # "none"
      BY <1>14, <1>p, <2>1, KnownAfterArrival DEF Told
    <2>2. CASE ~(place \in Inside /\ cached.user # "none")
      BY <1>14, <2>2 DEF Told, KnownInv
    <2> QED
      BY <2>1, <2>2
  <1>15. CASE Underneath
    BY <1>15 DEF Underneath, KnownInv
  <1> QED
    BY <1>1, <1>2, <1>3, <1>4, <1>5, <1>6, <1>7, <1>8, <1>9, <1>10, <1>11, <1>m, <1>12, <1>13, <1>14,
       <1>15, GatesCases

LEMMA KnownForever == GatesSpec => []KnownInv
  <1>1. GatesInit => KnownInv
    BY DEF GatesInit, KnownInv, NoUser
  <1>2. Typed /\ KnownInv /\ [GatesNext]_<<vars, gates>> => KnownInv'
    BY KnownOn DEF KnownInv, gates
  <1> QED
    BY <1>1, <1>2, TypedForever, PTL DEF GatesSpec

(* Whatever requests fail, sessions end, organizations are created, joined  *)
(* and left, and pages are loaded: a tab that nothing sends anywhere is at  *)
(* a form to sign in only if nobody is known, at the onboarding only if the *)
(* user is in no organization, in the application only if he is, unless he  *)
(* has moved since the tab asked, and never at the start.                   *)
THEOREM TheTabIsInItsPlace == GatesSpec => []PlaceFitsTheUser
  <1>1. Typed /\ KnownInv => PlaceFitsTheUser
    <2> SUFFICES ASSUME Typed, KnownInv, AtRest
                 PROVE  /\ place = "login" => FormShown
                        /\ place = "onboarding" => cached.user = "new" /\ (~joined \/ cached.moved)
                        /\ place \in Inside => Shown /\ (joined \/ cached.moved)
                        /\ place # "home"
      BY DEF PlaceFitsTheUser
    <2>1. ~cached.asked /\ Gate = {}
      BY DEF AtRest
    <2>2. cached.user \in {"none", "new", "member"}
      BY DEF Typed, GateParts, CachedType
    <2>3. CASE place = "login"
      <3>1. GuestGate = {}
        BY <2>1, <2>3 DEF Gate, Inside
      <3> QED
        BY <2>1, <2>3, <3>1 DEF GuestGate, FormShown, KnownInv, Inside
    <2>4. CASE place = "onboarding"
      <3>1. OnboardingScreen = {}
        BY <2>1, <2>4 DEF Gate, Inside
      <3> QED
        BY <2>1, <2>2, <2>4, <3>1 DEF OnboardingScreen, KnownInv, Inside
    <2>5. CASE place \in Inside
      <3>1. AuthGate = {}
        BY <2>1, <2>5 DEF Gate, Inside
      <3> QED
        BY <2>1, <2>2, <2>5, <3>1 DEF AuthGate, Shown, KnownInv, Inside
    <2>6. place # "home"
      <3>1. ASSUME place = "home" PROVE HomePage = {}
        BY <2>1, <3>1 DEF Gate, Inside
      <3> QED
        BY <2>1, <3>1 DEF HomePage, KnownInv
    <2> QED
      BY <2>3, <2>4, <2>5, <2>6
  <1> QED
    BY <1>1, TypedForever, KnownForever, PTL

-----------------------------------------------------------------------------
(* Who logs out is led out.                                                 *)

LEMMA AskedInVain ==
  ASSUME Typed, jar[Browser].session = None, request'[Me] = Fresh(Me)
  PROVE  InVain(Me)'
  <1>1. Fresh(Me).step = "sent" /\ (Fresh(Me).fresh => jar[Browser].fresh)
    BY FreshDoes, GatesAssumption DEF Typed, Browser, Tab, BrowserOf
  <1>2. ~jar[Browser].fresh
    BY SetupIsTyped DEF Typed, Parts, UserTypes, Refs, JarsExist
  <1> QED
    BY <1>1, <1>2 DEF InVain

(* A step of the gates alone that leaves the user unknown.                  *)
LEMMA AloneAside ==
  ASSUME Typed, NEW b \in Browsers, NEW t \in Tabs, AloneAt(b, t), UNCHANGED behind,
         crossed => crossed', Gone(b)' => Unknown'
  PROVE  AloneAt(b, t)'
  BY DEF AloneAt, Live, behind, user, asking

LEMMA AloneArrives ==
  ASSUME Typed, NEW b \in Browsers, b = Browser, NEW t \in Tabs, AloneAt(b, t), UNCHANGED behind,
         crossed => crossed', out' = out, NEW p, NEW c \in CachedType, Arrive(p, c),
         Gone(b) => c.user = "none" /\ (c.asked => InVain(Me))
  PROVE  AloneAt(b, t)'
  <1>1. /\ cached' = Opened(c) /\ AsksOnly /\ Parts
        /\ (cached'.asked /\ ~c.asked => request'[Me] = Fresh(Me))
    BY ArriveDoes DEF Typed
  <1>2. cached'.user = c.user
    BY <1>1, OpenedDoes
  <1>3. ASSUME Gone(b)' PROVE Unknown'
    <2>1. Gone(b) /\ jar[Browser].session = None
      BY <1>3 DEF Gone, behind, asking
    <2>2. request' # request => request'[Me] = Fresh(Me)
      BY <1>1, AsksOnlyDoes
    <2>3. CASE request'[Me] = Fresh(Me)
      BY <2>1, <2>3, <1>2, AskedInVain DEF Unknown
    <2>4. CASE request' = request
      <3>1. cached'.asked => c.asked \/ request'[Me] = Fresh(Me)
        BY <1>1
      <3> QED
        BY <2>1, <2>4, <3>1, <1>2, AskedInVain DEF Unknown, InVain
    <2> QED
      BY <2>2, <2>3, <2>4
  <1> QED
    BY <1>3, AloneAside

LEMMA AloneInTheGates ==
  ASSUME Typed, NEW b \in Browsers, b = Browser, NEW t \in Tabs, AloneAt(b, t),
         \/ Landed \/ Redirect \/ Ages
         \/ \E p \in Inside : Browse(p)
         \/ \E p \in Inside \cup {"home", "login", "onboarding"} : Load(p)
         \/ GoogleLogin \/ BackToSignIn \/ AskWho \/ WhoAnswered
         \/ CreateOrganization \/ OpenOrganization \/ Moves \/ LogOutOfNothing \/ Settled \/ Told
  PROVE  AloneAt(b, t)'
  <1>p. /\ cached \in CachedType /\ joined \in BOOLEAN /\ crossed \in BOOLEAN
        /\ NoUser \in CachedType /\ NoUser.user = "none" /\ ~NoUser.asked
        /\ request \in RequestsType /\ Me \in Requests /\ Who \in Requests /\ Who # Me
    BY AnswersAreTyped, GatesAssumption DEF Typed, GateParts, Parts
  <1>u. Gone(b) => cached.user = "none" /\ (cached.asked => InVain(Me))
    BY DEF AloneAt, Unknown
  <1>g. ASSUME UNCHANGED <<behind, out, crossed>> PROVE Gone(b)' => Gone(b)
    BY <1>g DEF Gone, behind, asking
  <1>v. UNCHANGED vars => UNCHANGED behind /\ request' = request
    BY DEF vars, behind, user, asking
  <1>f. Gone(b)' /\ UNCHANGED behind => jar[Browser].session = None
    BY DEF Gone, behind
  <1>n. Ask(NoUser).user = "none"
    BY <1>p, AskDoes
  <1>1. CASE Landed
    <2>1. request[Me].step \in {"ok", "failed"} /\ cached.asked
      BY <1>1 DEF Landed
    <2>2. ASSUME Gone(b) PROVE Unknown'
      <3>1. request[Me].step = "failed"
        BY <2>1, <2>2, <1>u DEF InVain
      <3> QED
        BY <1>1, <1>p, <1>u, <2>2, <3>1 DEF Landed, Unknown, CachedType
    <2> QED
      BY <1>1, <1>v, <1>g, <2>2, AloneAside DEF Landed
  <1>2. CASE Ages
    <2>1. ~Gone(b)
      BY <1>2, <1>u DEF Ages
    <2> QED
      BY <1>2, <1>v, <1>g, <2>1, AloneAside DEF Ages
  <1>3. CASE Redirect
    <2>1. PICK p \in Gate : Arrive(p, cached)
      BY <1>3 DEF Redirect
    <2> QED
      BY <1>3, <1>p, <1>u, <2>1, AloneArrives DEF Redirect
  <1>4. ASSUME NEW p \in Inside, Browse(p) PROVE AloneAt(b, t)'
    BY <1>4, <1>p, <1>u, AloneArrives DEF Browse
  <1>5. ASSUME NEW p \in Inside \cup {"home", "login", "onboarding"}, Load(p)
        PROVE  AloneAt(b, t)'
    <2>1. request'[Me] = Fresh(Me) /\ cached'.user = "none" /\ crossed' = crossed
          /\ UNCHANGED behind
      BY <1>5, <1>p, <1>n DEF Load, RequestsType
    <2> QED
      BY <1>f, <2>1, AskedInVain, AloneAside DEF Unknown
  <1>6. CASE GoogleLogin
    BY <1>6, <1>p, <1>v, AloneAside DEF GoogleLogin, Unknown
  <1>7. CASE BackToSignIn
    BY <1>7, <1>p, <1>u, AloneArrives DEF BackToSignIn
  <1>8. CASE AskWho
    <2>1. request'[Me] = request[Me]
      BY <1>8, <1>p DEF AskWho, RequestsType
    <2> QED
      BY <1>8, <1>g, <1>u, <2>1, AloneAside DEF AskWho, Unknown, InVain
  <1>9. CASE WhoAnswered
    <2>1. CASE request[Who].step = "ok"
      <3>1. crossed' = (crossed \/ jar[Browser].session = None) /\ UNCHANGED behind
        BY <1>9, <2>1 DEF WhoAnswered
      <3>2. ~Gone(b)'
        BY <3>1, <1>f DEF Gone
      <3> QED
        BY <3>1, <3>2, AloneAside
    <2>2. CASE request[Who].step # "ok"
      BY <1>9, <2>2, <1>g, <1>u, AloneAside DEF WhoAnswered, Unknown, InVain
    <2> QED
      BY <2>1, <2>2
  <1>10. CASE CreateOrganization
    <2>1. jar[Browser].fresh
      BY <1>10 DEF CreateOrganization, Joins
    <2>2. jar[Browser].session # None
      BY <2>1 DEF Typed, Refs, JarsExist
    <2>3. UNCHANGED behind /\ crossed' = crossed
      BY <1>10 DEF CreateOrganization
    <2> QED
      BY <1>f, <2>2, <2>3, AloneAside
  <1>11. CASE OpenOrganization
    BY <1>11, <1>p, <1>u, AloneArrives DEF OpenOrganization
  <1>m. CASE Moves
    <2>1. cached'.user = cached.user /\ cached'.asked = cached.asked
      BY <1>m, <1>p DEF Moves, CachedType
    <2> QED
      BY <1>m, <1>v, <1>g, <1>u, <2>1, AloneAside DEF Moves, Unknown, InVain
  <1>12. CASE LogOutOfNothing
    BY <1>12, <1>v, AloneAside DEF LogOutOfNothing, Gone
  <1>13. CASE Settled
    <2>1. request'[Me] = Fresh(Me) /\ cached'.user = "none" /\ crossed' = crossed
          /\ UNCHANGED behind
      BY <1>13, <1>p, <1>n DEF Settled, RequestsType
    <2> QED
      BY <1>f, <2>1, AskedInVain, AloneAside DEF Unknown
  <1>14. CASE Told
    <2>1. CASE place \in Inside /\ cached.user # "none"
      BY <1>14, <1>p, <1>u, <2>1, AloneArrives DEF Told
    <2>2. CASE ~(place \in Inside /\ cached.user # "none")
      BY <1>14, <1>g, <1>u, <2>2, AloneAside DEF Told, Unknown, InVain
    <2> QED
      BY <2>1, <2>2
  <1> QED
    BY <1>1, <1>2, <1>3, <1>4, <1>5, <1>6, <1>7, <1>8, <1>9, <1>10, <1>11, <1>m, <1>12, <1>13, <1>14

(* Where cookies, logins, logouts and refreshes are what they were, and no  *)
(* live session ended.                                                      *)
LEMMA AloneStays ==
  ASSUME Typed, NEW b \in Browsers, NEW t \in Tabs, AloneAt(b, t), UNCHANGED cached,
         out => out', crossed => crossed',
         UNCHANGED <<active, mail>>,
         login'[b] = login[b], logout'[b] = logout[b],
         refresh'[t].step = "refused" => refresh'[t] = refresh[t],
         jar'[b].session = jar[b].session,
         \A s \in Sessions : session'[s].step = "live" <=> session[s].step = "live",
         Gone(b) /\ InVain(Me) => InVain(Me)'
  PROVE  AloneAt(b, t)'
  <1>1. Gone(b)' => Gone(b)
    BY DEF Gone, Typed, GateParts
  <1>2. Gone(b)' => Unknown'
    BY <1>1 DEF AloneAt, Unknown
  <1>3. /\ login[b].step = "created" => login[b].session \in Sessions
        /\ refresh[t].step = "refused" => refresh[t].session \in Sessions
        /\ jar[b].session # None => jar[b].session \in Sessions
    BY HoldersAreTyped
  <1> QED
    BY <1>2, <1>3 DEF AloneAt, Live, Typed, GateParts

LEMMA AloneRequests ==
  ASSUME Typed, NEW b \in Browsers, b = Browser, NEW t \in Tabs, AloneAt(b, t), Behind,
         NEW q \in Requests, Send(q) \/ Serve(q) \/ Unauthorized(q)
  PROVE  AloneAt(b, t)'
  <1>0. /\ request \in RequestsType /\ refresh \in RefreshesType /\ Me \in Requests
        /\ request[Me] \in RequestType /\ request[q] \in RequestType
        /\ BrowserOf(Me) = b
    BY FieldsAreTyped, GatesAssumption DEF Typed, Parts, BrowserOf, Browser, Tab
  <1>1. /\ UNCHANGED <<setup, active, mail, session, jar, login, logout>>
        /\ UNCHANGED <<cached, out>> /\ (crossed => crossed')
    BY DEF Send, Serve, Unauthorized, Behind, user, asking
  <1>2. refresh'[t].step = "refused" => refresh'[t] = refresh[t]
    <2>1. refresh' = refresh \/ refresh' = [refresh EXCEPT ![setup.tab[q]] = Asked(BrowserOf(q))]
      BY DEF Send, Serve, Unauthorized
    <2>2. Asked(BrowserOf(q)).step = "sent"
      BY DEF Asked
    <2> QED
      BY <2>1, <2>2, <1>0 DEF RefreshesType
  <1>3. ASSUME Gone(b), InVain(Me) PROVE InVain(Me)'
    <2>1. jar[b].session = None /\ ~jar[b].fresh
      BY <1>3 DEF Gone, Typed, Refs, JarsExist
    <2>2. CASE q # Me
      <3>1. request'[Me] = request[Me]
        BY <2>2, <1>0 DEF Send, Serve, Unauthorized, RequestsType
      <3> QED
        BY <1>3, <3>1 DEF InVain
    <2>3. CASE Send(Me)
      BY <1>0, <2>1, <2>3 DEF Send, Sent, InVain, RequestsType, RequestType
    <2>4. CASE Serve(Me)
      <3>1. PICK s \in {"401", "failed"} : request' = [request EXCEPT ![Me].step = s]
        BY <1>3, <2>4 DEF Serve, InVain
      <3> QED
        BY <1>0, <3>1 DEF InVain, RequestsType, RequestType
    <2>5. CASE Unauthorized(Me)
      <3>1. request' = [request EXCEPT ![Me].step = "failed"]
        BY <1>0, <2>1, <2>5 DEF Unauthorized, Refreshable
      <3> QED
        BY <1>0, <3>1 DEF InVain, RequestsType, RequestType
    <2> QED
      BY <2>2, <2>3, <2>4, <2>5
  <1> QED
    BY <1>1, <1>2, <1>3, AloneStays

LEMMA AloneRefreshServed ==
  ASSUME Typed, Held, NEW b \in Browsers, b = Browser, NEW t \in Tabs, AloneAt(b, t), Behind,
         NEW u \in Tabs, RefreshServed(u)
  PROVE  AloneAt(b, t)'
  <1> DEFINE s == refresh[u].session
             k == refresh[u].token
  <1>1. s \in Sessions /\ k \in Nat /\ session \in SessionsType
    BY HoldersAreTyped DEF RefreshServed, Typed, Parts
  <1>2. session[s].step = "live" => session[s].token = k
    BY DEF RefreshServed, Held, TokenInv, Live
  <1>3. /\ session' = Rotated(s, k)
        /\ \A x \in Tabs : x # u => refresh'[x] = refresh[x]
        /\ refresh'[u].session = s
        /\ refresh'[u].step = "refused" => ~Rotates(s, k)
        /\ UNCHANGED <<setup, active, mail, jar, login, logout, request, cached, out>>
        /\ (crossed => crossed')
    BY DEF RefreshServed, Typed, Parts, RefreshesType, asking, user, Behind
  <1>4. active
    BY DEF AloneAt
  <1>5. ~Rotates(s, k) => session[s].step # "live"
    BY <1>2, <1>4 DEF Rotates
  <1> HIDE DEF s, k
  <1>6. \A r \in Sessions : session'[r].step = "live" <=> session[r].step = "live"
    <2>1. CASE Rotates(s, k)
      BY <2>1, <1>1, <1>3, RotatedDoes DEF Rotates
    <2>2. CASE ~Rotates(s, k)
      BY <2>2, <1>1, <1>2, <1>3, RotatedDoes
    <2> QED
      BY <2>1, <2>2
  <1>7. refresh'[t].step = "refused" => ~Live(refresh[t].session)' /\ refresh'[t].session = refresh[t].session
    <2>1. CASE t = u
      BY <2>1, <1>1, <1>3, <1>5, <1>6 DEF Live, s
    <2>2. CASE t # u
      BY <2>2, <1>3, <1>6, HoldersAreTyped DEF AloneAt, Live
    <2> QED
      BY <2>1, <2>2
  <1>8. Gone(b)' => Unknown'
    BY <1>3 DEF Gone, Unknown, InVain, AloneAt, Typed, GateParts
  <1>9. /\ login[b].step = "created" => login[b].session \in Sessions
        /\ jar[b].session # None => jar[b].session \in Sessions
    BY HoldersAreTyped
  <1> QED
    BY <1>3, <1>6, <1>7, <1>8, <1>9 DEF AloneAt, Live, Typed, GateParts

(* A refusal clears the cookies of a session whose logout is not answered   *)
(* yet, or it crossed.                                                      *)
LEMMA AloneRefreshAnswered ==
  ASSUME Typed, Held, OneTab, NEW b \in Browsers, b = Browser, NEW t \in Tabs, t = Tab,
         AloneAt(b, t), Behind, NEW u \in Tabs, RefreshAnswered(u)
  PROVE  AloneAt(b, t)'
  <1>0. /\ setup.browser[t] = b /\ setup.browser[u] \in Browsers /\ setup.tab[Me] = t
        /\ Me \in Requests /\ request \in RequestsType /\ request[Me] \in RequestType
        /\ jar \in JarsType /\ refresh \in RefreshesType
    BY SetupIsTyped, FieldsAreTyped, GatesAssumption DEF Typed, Parts, UserTypes, Browser, Tab
  <1>1. /\ UNCHANGED <<setup, active, mail, session, login, logout, cached, out>>
        /\ (crossed => crossed')
        /\ crossed' = (crossed \/ (refresh'[t] # refresh[t] /\ Crosses(refresh[t].session)))
    BY DEF RefreshAnswered, Behind, user, asking
  <1>2. CASE u # t
    <2>1. setup.browser[u] # b
      BY <1>0, <1>2 DEF OneTab
    <2>2. jar'[b] = jar[b] /\ refresh'[t] = refresh[t]
      BY <1>0, <1>2, <2>1 DEF RefreshAnswered, JarsType, RefreshesType
    <2>3. request'[Me] = request[Me]
      BY <1>0, <1>2 DEF RefreshAnswered, Woken, Waiting
    <2> QED
      BY <1>1, <2>2, <2>3, AloneStays DEF InVain
  <1>3. CASE u = t /\ refresh[t].step = "rotated"
    <2>1. jar'[b].session = refresh[t].session /\ refresh[t].session # None
          /\ refresh[t].session \in Sessions
      BY <1>0, <1>3, HoldersAreTyped DEF RefreshAnswered, JarsType
    <2>2. refresh'[t].step = "no" /\ refresh'[t] # refresh[t]
      BY <1>0, <1>3 DEF RefreshAnswered, RefreshesType, NoRefresh
    <2>3. refresh[t].session # jar[b].session => crossed'
      BY <1>1, <2>1, <2>2 DEF Crosses
    <2>4. ~Gone(b)'
      BY <2>1 DEF Gone
    <2> QED
      BY <1>1, <2>1, <2>2, <2>3, <2>4 DEF AloneAt, Live
  <1>4. CASE u = t /\ refresh[t].step = "refused"
    <2>1. jar'[b].session = None
      BY <1>0, <1>4 DEF RefreshAnswered, JarsType, NoCookies
    <2>2. refresh'[t].step = "no" /\ refresh'[t] # refresh[t]
      BY <1>0, <1>4 DEF RefreshAnswered, RefreshesType, NoRefresh
    <2>3. refresh[t].session # None /\ ~Live(refresh[t].session)
      BY <1>4, HoldersAreTyped DEF AloneAt
    <2>4. jar[b].session # None /\ refresh[t].session # jar[b].session => crossed'
      BY <1>0, <1>1, <2>1, <2>2 DEF Crosses
    <2>5. jar[b].session # None /\ refresh[t].session = jar[b].session
            => crossed \/ logout[b].step = "served"
      BY <2>3 DEF AloneAt
    <2>6. Gone(b)' => Gone(b)
      BY <1>1, <2>4, <2>5 DEF Gone
    <2>7. InVain(Me) => InVain(Me)'
      <3>1. request' = Woken(t, "failed")
        BY <1>4 DEF RefreshAnswered
      <3> QED
        BY <1>0, <3>1 DEF Woken, InVain, RequestType
    <2>8. Gone(b)' => Unknown'
      BY <1>1, <2>6, <2>7 DEF AloneAt, Unknown
    <2> QED
      BY <1>1, <2>1, <2>2, <2>8 DEF AloneAt, Live
  <1> QED
    BY <1>2, <1>3, <1>4 DEF RefreshAnswered

(* A login whose session is created has a live session, and its answer the  *)
(* cookies of it.                                                           *)
LEMMA AloneSignsIn ==
  ASSUME Typed, Held, ~May("loss"), NEW b \in Browsers, b = Browser, NEW t \in Tabs, AloneAt(b, t),
         \/ \E s \in Sessions : SignIn(s)
         \/ LoginCreated(b) /\ UNCHANGED gates
         \/ SignedIn
  PROVE  AloneAt(b, t)'
  <1>0. login \in LoginsType /\ jar \in JarsType /\ session \in SessionsType
    BY DEF Typed, Parts
  <1>1. CASE \E s \in Sessions : SignIn(s)
    <2>1. /\ login'[b].step = "verified"
          /\ UNCHANGED <<active, mail, session, jar, logout, refresh, request, cached, out, crossed>>
      BY <1>0, <1>1 DEF SignIn, LoginVerified, LoginsType, user
    <2> QED
      BY <2>1 DEF AloneAt, Live, Gone, Unknown, InVain
  <1>2. CASE LoginCreated(b) /\ UNCHANGED gates
    <2> DEFINE s == login[b].session
    <2>1. /\ s \in Sessions /\ ~Exists(s) /\ login'[b].session = s
          /\ session'[s].step = "live" /\ \A r \in Sessions : r # s => session'[r] = session[r]
          /\ UNCHANGED <<active, mail, jar, logout, refresh, request, cached, out, crossed>>
      BY <1>0, <1>2, HoldersAreTyped
      DEF LoginCreated, LoginsType, SessionsType, user, gates, Held, LoginInv
    <2>2. /\ jar[b].session # None => jar[b].session # s /\ jar[b].session \in Sessions
          /\ refresh[t].step # "no" => refresh[t].session # s /\ refresh[t].session \in Sessions
      BY <2>1, HoldersAreTyped DEF Exists
    <2> HIDE DEF s
    <2>3. login'[b].step = "created" => Live(login[b].session)'
      BY <2>1 DEF Live, s
    <2>4. Gone(b)' => Unknown'
      BY <2>1 DEF AloneAt, Gone, Unknown, InVain
    <2> QED
      BY <2>1, <2>2, <2>3, <2>4 DEF AloneAt, Live
  <1>3. CASE SignedIn
    <2>1. /\ login[b].step = "created" /\ login'[b].step = "no"
          /\ jar'[b].session = login[b].session /\ login[b].session # None
          /\ UNCHANGED <<active, mail, session, logout, refresh, request, cached, out>>
      BY <1>0, <1>3, HoldersAreTyped
      DEF SignedIn, LoginAnswered, LoginsType, JarsType, NoLogin, user
    <2> QED
      BY <2>1 DEF AloneAt, Live, Gone
  <1> QED
    BY <1>1, <1>2, <1>3

(* A logout ends the session of the cookies it was sent with, and its       *)
(* answer is settled later.                                                 *)
LEMMA AloneLogsOut ==
  ASSUME Typed, Held, ~May("loss"), NEW b \in Browsers, b = Browser, NEW t \in Tabs, AloneAt(b, t),
         LogOut \/ (LogoutServed(b) /\ UNCHANGED gates) \/ LoggedOut
  PROVE  AloneAt(b, t)'
  <1>0. logout \in LogoutsType /\ jar \in JarsType /\ session \in SessionsType
    BY DEF Typed, Parts
  <1>1. CASE LogOut
    <2>1. /\ logout[b].step = "no" /\ logout'[b].step = "sent"
          /\ UNCHANGED <<active, mail, session, jar, login, refresh, request, cached, out, crossed>>
      BY <1>0, <1>1 DEF LogOut, LogoutSent, LogoutsType, user, gates
    <2> QED
      BY <2>1 DEF AloneAt, Live, Gone
  <1>2. CASE LogoutServed(b) /\ UNCHANGED gates
    <2>1. /\ logout[b].step = "sent" /\ logout'[b].step = "served"
          /\ session' = Revoked({logout[b].session})
          /\ UNCHANGED <<active, mail, jar, login, refresh, request, cached, out, crossed>>
      BY <1>0, <1>2 DEF LogoutServed, LogoutsType, user, gates
    <2>2. \A r \in Sessions : /\ session'[r].step = "live" => session[r].step = "live"
                              /\ r # logout[b].session => session'[r] = session[r]
      BY <1>0, <2>1, RevokedDoes
    <2>3. login[b].step = "created" => login[b].session \in Sessions /\ login[b].session # logout[b].session
      BY <2>1, HoldersAreTyped DEF Held, LoginInv
    <2>4. refresh[t].step = "refused" => refresh[t].session \in Sessions
      BY HoldersAreTyped
    <2> QED
      BY <2>1, <2>2, <2>3, <2>4 DEF AloneAt, Live, Gone
  <1>3. CASE LoggedOut
    <2>1. /\ out' /\ (crossed => crossed')
          /\ UNCHANGED <<active, mail, session, login, refresh, request, cached>>
      BY <1>3 DEF LoggedOut, LogoutAnswered, user
    <2>2. jar' = [jar EXCEPT ![b] = NoCookies]
      BY <1>3 DEF LoggedOut, LogoutAnswered
    <2>3. jar'[b].session = None
      BY <1>0, <2>2 DEF JarsType, NoCookies
    <2> QED
      BY <2>1, <2>3 DEF AloneAt, Live, Gone
  <1> QED
    BY <1>1, <1>2, <1>3

LEMMA AloneOn ==
  ASSUME Typed, CalmInv, Alone, AloneAt(Browser, Tab), GatesNext
  PROVE  AloneAt(Browser, Tab)' /\ UNCHANGED <<Browser, Tab>>
  <1>p. PICK b \in Browsers, t \in Tabs : b = Browser /\ t = Tab
    BY SetupIsTyped DEF Typed, Parts, UserTypes
  <1>0. /\ b \in Browsers /\ t \in Tabs /\ b = Browser /\ t = Tab
        /\ Held /\ OneTab /\ ~May("loss") /\ ~Does("reset") /\ ~Does("revoke") /\ Does("browse")
    BY <1>p DEF CalmInv, Held, Alone, Calm, Does
  <1>a. AloneAt(b, t)
    BY <1>p
  <1>n. /\ \/ TabGoesOn \/ TabAnswers \/ Elsewhere
           \/ Ages \/ GoogleLogin \/ BackToSignIn \/ CreateOrganization \/ Moves \/ LogOut \/ LogOutOfNothing
           \/ \E p \in Inside : Browse(p)
           \/ \E p \in Inside \cup {"home", "login", "onboarding"} : Load(p)
           \/ \E s \in Sessions : SignIn(s) \/ EndSession(s)
    BY <1>0 DEF GatesNext
  <1>s. UNCHANGED <<Browser, Tab>>
    <2>1. setup' = setup
      BY StepsBelow, WhoChanges DEF behind
    <2> QED
      BY <2>1 DEF Browser, Tab
  <1> SUFFICES AloneAt(b, t)'
    BY <1>s, <1>p
  <1>1. CASE TabGoesOn
    <2>1. CASE (LoginCreated(b) /\ UNCHANGED gates) \/ SignedIn
      BY <1>0, <1>a, <2>1, AloneSignsIn
    <2>2. CASE (LogoutServed(b) /\ UNCHANGED gates) \/ LoggedOut
      BY <1>0, <1>a, <2>2, AloneLogsOut
    <2>3. CASE Landed \/ Redirect \/ AskWho \/ WhoAnswered \/ OpenOrganization \/ Settled \/ Told
      BY <1>0, <1>a, <2>3, AloneInTheGates
    <2> QED
      BY <1>0, <1>1, <2>1, <2>2, <2>3 DEF TabGoesOn
  <1>2. CASE TabAnswers
    <2>1. Behind
      BY <1>2 DEF TabAnswers
    <2>2. ASSUME NEW q \in Requests, Serve(q) \/ Unauthorized(q) PROVE AloneAt(b, t)'
      BY <1>0, <1>a, <2>1, <2>2, AloneRequests
    <2>3. ASSUME NEW u \in Tabs, RefreshServed(u) PROVE AloneAt(b, t)'
      BY <1>0, <1>a, <2>1, <2>3, AloneRefreshServed
    <2>4. ASSUME NEW u \in Tabs, RefreshAnswered(u) PROVE AloneAt(b, t)'
      BY <1>0, <1>a, <2>1, <2>4, AloneRefreshAnswered
    <2>5. ASSUME NEW u \in Tabs, RefreshLost(u) PROVE AloneAt(b, t)'
      BY <1>0, <2>5 DEF RefreshLost
    <2> QED
      BY <1>2, <2>2, <2>3, <2>4, <2>5 DEF TabAnswers, Answers
  <1>3. CASE Elsewhere
    <2>1. Behind
      BY <1>3 DEF Elsewhere
    <2>2. ASSUME NEW q \in Requests, Send(q) PROVE AloneAt(b, t)'
      BY <1>0, <1>a, <2>1, <2>2, AloneRequests
    <2>3. CASE AccessExpires(b)
      <3>1. /\ UNCHANGED <<active, mail, session, login, logout, refresh, cached, out>>
            /\ (crossed => crossed')
        BY <2>1, <2>3 DEF AccessExpires, Behind, user, asking
      <3>2. jar'[b].session = jar[b].session
        BY <2>3 DEF AccessExpires, Typed, Parts, JarsType, JarType
      <3>3. request[Me] \in RequestType /\ Me \in Requests
        BY FieldsAreTyped, GatesAssumption DEF Typed
      <3>4. InVain(Me) => InVain(Me)'
        BY <2>3, <3>3 DEF AccessExpires, InVain, RequestType
      <3> QED
        BY <1>0, <1>a, <3>1, <3>2, <3>4, AloneStays
    <2>4. ~Forgot /\ ~Reset
      BY <1>0, <1>a DEF Forgot, Reset, AloneAt
    <2> QED
      BY <1>0, <1>3, <2>2, <2>3, <2>4 DEF Elsewhere
  <1>4. ASSUME NEW s \in Sessions, EndSession(s) PROVE AloneAt(b, t)'
    BY <1>0, <1>4 DEF EndSession, RevokeSession
  <1>5. CASE LogOut
    BY <1>0, <1>a, <1>5, AloneLogsOut
  <1>6. CASE \E s \in Sessions : SignIn(s)
    BY <1>0, <1>a, <1>6, AloneSignsIn
  <1>7. CASE \/ Ages \/ GoogleLogin \/ BackToSignIn \/ CreateOrganization \/ Moves \/ LogOutOfNothing
             \/ \E p \in Inside : Browse(p)
             \/ \E p \in Inside \cup {"home", "login", "onboarding"} : Load(p)
    BY <1>0, <1>a, <1>7, AloneInTheGates
  <1> QED
    BY <1>n, <1>1, <1>2, <1>3, <1>4, <1>5, <1>6, <1>7

LEMMA AloneForever == GatesSpec => []AloneInv
  <1>1. GatesInit => AloneInv
    <2> SUFFICES ASSUME GatesInit PROVE AloneAt(Browser, Tab)
      BY DEF AloneInv
    <2>1. Browser \in Browsers /\ Tab \in Tabs
      BY SetupIsTyped DEF GatesInit, Init
    <2> QED
      BY <2>1, NoneIsNoSession
      DEF GatesInit, Init, AloneAt, Gone, Unknown, NoCookies, NoLogin, NoLogout, NoRefresh, NoUser
  <1>2. Typed /\ CalmInv /\ AloneInv /\ [GatesNext]_<<vars, gates>> => AloneInv'
    <2> SUFFICES ASSUME Typed, CalmInv, AloneInv, [GatesNext]_<<vars, gates>>, Alone'
                 PROVE  AloneAt(Browser, Tab)'
      BY DEF AloneInv
    <2>1. setup' = setup
      BY StepsBelow, WhoChanges DEF behind
    <2>2. AloneAt(Browser, Tab)
      BY <2>1 DEF Alone, Does, Calm, OneTab, May, AloneInv
    <2>3. CASE GatesNext
      BY <2>1, <2>2, <2>3, AloneOn DEF Alone, Does, Calm, OneTab, May
    <2>4. CASE UNCHANGED <<vars, gates>>
      <3>1. UNCHANGED <<Browser, Tab>>
        BY <2>1 DEF Browser, Tab
      <3> QED
        BY <2>2, <2>4, <3>1
        DEF AloneAt, Live, Gone, Unknown, InVain, vars, gates, user, asking
    <2> QED
      BY <2>3, <2>4
  <1> QED
    BY <1>1, <1>2, TypedForever, CalmForever, PTL DEF GatesSpec

(* However the answers of a logout, of refreshes and of logins follow each  *)
(* other, and whatever is loaded meanwhile: a tab at rest with no cookies   *)
(* is outside, unless an answer crossed another session, or sessions are    *)
(* ended from elsewhere.                                                    *)
THEOREM LogoutLeadsOutside == GatesSpec => []LoggedOutIsOutside
  <1>1. Typed /\ KnownInv /\ AloneInv => LoggedOutIsOutside
    <2> SUFFICES ASSUME Typed, KnownInv, AloneInv, Alone, ~crossed, AtRest,
                        jar[Browser].session = None, place \in Inside \cup {"onboarding"}
                 PROVE  FALSE
      BY DEF LoggedOutIsOutside, Alone
    <2>1. Gone(Browser) /\ ~cached.asked /\ Gate = {}
      BY DEF AtRest, Gone
    <2>2. cached.user = "none"
      BY <2>1 DEF AloneInv, AloneAt, Unknown
    <2>3. cached.error
      BY <2>1, <2>2 DEF KnownInv, Inside
    <2>4. CASE place \in Inside
      BY <2>1, <2>3, <2>4 DEF Gate, AuthGate, Inside
    <2>5. CASE place = "onboarding"
      BY <2>1, <2>3, <2>5 DEF Gate, OnboardingScreen, Inside
    <2> QED
      BY <2>4, <2>5
  <1> QED
    BY <1>1, TypedForever, KnownForever, AloneForever, PTL
=============================================================================
