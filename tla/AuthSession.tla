---------------------------- MODULE AuthSession ----------------------------
(***************************************************************************)
(* Signing in, and what keeps a browser signed in.                          *)
(*                                                                         *)
(* A session is a row with the hash of its one current refresh token.  The  *)
(* tabs of a browser share its cookies; every tab has an API client of its  *)
(* own, which answers a 401 with one refresh that all its requests wait     *)
(* for, and then repeats each request once.  A refresh replaces the token;  *)
(* an older token ends the session.  Logins, changes of the password and    *)
(* refreshes are separate steps on the server, so they can overlap.         *)
(***************************************************************************)
EXTENDS Naturals, FiniteSets

API == INSTANCE ApiClient

CONSTANTS
    MaxSessions, \* bound on logins
    Browsers,    \* devices of one user
    Tabs, Requests,
    Setups       \* where tabs and requests are, and what happens:
                 \*   browser, tab: the browser of a tab, the tab of a request
                 \*   devices, calls: the browsers in use, the requests that are sent
                 \*   endpoint, refused: what a request asks for, and those with a
                 \*     401 of their own (a wrong password or passphrase)
                 \*   acts: what the user and the admin do
                 \*   faults: "loss" of answers, "error" of requests, "crash" of the
                 \*     server, "overlap" of a login with a change of the password,
                 \*     "keep" of other sessions
                 \*   passwords: bound on changes of the password

Sessions == 1..MaxSessions
None == 0

ASSUME AuthAssumption ==
    /\ MaxSessions \in Nat /\ Browsers # {}
    /\ \A s \in Setups :
        /\ s.browser \in [Tabs -> Browsers] /\ s.tab \in [Requests -> Tabs]
        /\ s.refused \subseteq Requests /\ DOMAIN s.endpoint = Requests
        /\ s.passwords \in Nat

VARIABLES
    setup,
    password, \* the version of the password hash
    issued,   \* versions so far
    mail,     \* an unused token of a reset is in the user's mail
    active,   \* users.status
    session,  \* auth_sessions, with the password a session was opened with
    jar,      \* the cookies of a browser; fresh: the access token is not expired
    login, logout, change, \* such a request of a browser
    refresh,  \* refreshRequest of a tab
    late,     \* refreshes given up by the client that may yet be served
    request   \* a call of client.request

vars == <<setup, password, issued, mail, active, session, jar, login, logout, change,
          refresh, late, request>>
user   == <<password, issued, mail, active>>
asking == <<login, logout, change>>

BrowserOf(q) == setup.browser[setup.tab[q]]
Does(act)    == act \in setup.acts
May(fault)   == fault \in setup.faults

NoCookies == [session |-> None, token |-> 0, fresh |-> FALSE]
NoLogin   == [step |-> "no", session |-> None, knows |-> 0]
NoLogout  == [step |-> "no", session |-> None]
NoChange  == [step |-> "no", session |-> None, others |-> FALSE]
NoRefresh == [step |-> "no", session |-> None, token |-> 0]

Init ==
    /\ setup \in Setups
    /\ password = 0 /\ issued = 0 /\ mail = FALSE /\ active = TRUE
    /\ session = [s \in Sessions |-> [step |-> "none", token |-> 0, knows |-> 0]]
    /\ jar = [b \in Browsers |-> NoCookies]
    /\ login = [b \in Browsers |-> NoLogin]
    /\ logout = [b \in Browsers |-> NoLogout]
    /\ change = [b \in Browsers |-> NoChange]
    /\ refresh = [t \in Tabs |-> NoRefresh] /\ late = {}
    /\ request = [q \in Requests |-> [step |-> "idle", retried |-> FALSE, fresh |-> FALSE]]

(* The live sessions of S are revoked.                                      *)
Revoked(S) == [s \in Sessions |->
    IF s \in S /\ session[s].step = "live" THEN [session[s] EXCEPT !.step = "ended"]
    ELSE session[s]]

-----------------------------------------------------------------------------
(* A request and its 401.                                                   *)

Sent(q) == [request[q] EXCEPT !.step = "sent", !.fresh = jar[BrowserOf(q)].fresh]

Send(q) ==
    /\ request[q].step = "idle" /\ q \in setup.calls
    /\ request' = [request EXCEPT ![q] = Sent(q)]
    /\ UNCHANGED <<setup, user, session, jar, asking, refresh, late>>

(* The access token is believed without a look at its session.  With no     *)
(* network, after 15 seconds and for other statuses the request just fails. *)
Serve(q) ==
    /\ request[q].step = "sent"
    /\ \/ request' = [request EXCEPT ![q].step =
             IF @ = "sent" /\ request[q].fresh /\ active /\ q \notin setup.refused THEN "ok" ELSE "401"]
       \/ May("error") /\ request' = [request EXCEPT ![q].step = "failed"]
    /\ UNCHANGED <<setup, user, session, jar, asking, refresh, late>>

(* Endpoints whose 401 is no expired token.                                 *)
isRefreshExcluded == {API!register.url, API!verifyEmail.url, API!resendVerification.url,
    API!login.url, API!refreshToken.url, API!logout.url, API!forgotPassword.url,
    API!resetPassword.url}
Refreshable(q) == /\ ~request[q].retried /\ jar[BrowserOf(q)].session # None
                  /\ setup.endpoint[q].url \notin isRefreshExcluded

Asked(b) == [step |-> "sent", session |-> jar[b].session, token |-> jar[b].token]

(* Mutant: every request refreshes for itself.                              *)
UnauthorizedAlone(q) ==
    LET t == setup.tab[q]
        b == BrowserOf(q)
    IN  /\ request[q].step = "401"
        /\ IF ~Refreshable(q)
           THEN /\ request' = [request EXCEPT ![q].step = "failed"]
                /\ UNCHANGED <<refresh, late>>
           ELSE /\ request' = [request EXCEPT ![q].step = "waiting", ![q].retried = TRUE]
                /\ IF refresh[t].step = "no"
                   THEN refresh' = [refresh EXCEPT ![t] = Asked(b)] /\ UNCHANGED late
                   ELSE late' = late \cup {[session |-> jar[b].session, token |-> jar[b].token]}
                        /\ UNCHANGED refresh
        /\ UNCHANGED <<setup, user, session, jar, asking>>
(* The request waits for the refresh of its tab, which it starts if there   *)
(* is none.  Repeated already, without cookies or excluded it fails.        *)
Unauthorized(q) ==
    LET t == setup.tab[q]
        b == BrowserOf(q)
    IN  /\ request[q].step = "401"
        /\ IF ~Refreshable(q)
           THEN /\ request' = [request EXCEPT ![q].step = "failed"]
                /\ UNCHANGED refresh
           ELSE /\ request' = [request EXCEPT ![q].step = "waiting", ![q].retried = TRUE]
                /\ refresh' = IF refresh[t].step = "no" THEN [refresh EXCEPT ![t] = Asked(b)]
                              ELSE refresh
        /\ UNCHANGED <<setup, user, session, jar, asking, late>>

AccessExpires(b) ==
    /\ jar[b].fresh
    /\ jar' = [jar EXCEPT ![b].fresh = FALSE]
    /\ request' = [q \in Requests |-> IF BrowserOf(q) = b THEN [request[q] EXCEPT !.fresh = FALSE]
                                      ELSE request[q]]
    /\ UNCHANGED <<setup, user, session, asking, refresh, late>>

-----------------------------------------------------------------------------
(* The refresh.                                                             *)

(* rotate_session on the locked row.                                        *)
Rotates(s, token) == active /\ session[s].step = "live" /\ session[s].token = token
Rotated(s, token) ==
    IF ~active \/ session[s].step # "live" THEN session
    ELSE IF session[s].token = token THEN [session EXCEPT ![s].token = @ + 1]
    ELSE [session EXCEPT ![s].step = "reused"]

RefreshServed(t) ==
    LET s == refresh[t].session
        k == refresh[t].token
    IN  /\ refresh[t].step = "sent"
        /\ session' = Rotated(s, k)
        /\ refresh' = [refresh EXCEPT ![t] =
              IF Rotates(s, k) THEN [step |-> "rotated", session |-> s, token |-> k + 1]
              ELSE [step |-> "refused", session |-> s, token |-> k]]
        /\ UNCHANGED <<setup, user, jar, asking, late, request>>

(* The requests of tab t go on.                                             *)
Waiting(t) == {q \in Requests : setup.tab[q] = t /\ request[q].step = "waiting"}
Woken(t, step) == [q \in Requests |->
    IF q \in Waiting(t) THEN [request[q] EXCEPT !.step = step, !.fresh = (step = "sent")]
    ELSE request[q]]

(* Mutant: the answer has no refresh cookie.                                *)
RefreshAnsweredAccess(t) ==
    LET b == setup.browser[t]
    IN  /\ refresh[t].step \in {"rotated", "refused"}
        /\ refresh' = [refresh EXCEPT ![t] = NoRefresh]
        /\ IF refresh[t].step = "rotated"
           THEN /\ jar' = [jar EXCEPT ![b].fresh = TRUE] /\ request' = Woken(t, "sent")
           ELSE /\ jar' = [jar EXCEPT ![b] = NoCookies] /\ request' = Woken(t, "failed")
        /\ UNCHANGED <<setup, user, session, asking, late>>
(* New cookies, or none any more.                                           *)
RefreshAnswered(t) ==
    LET b == setup.browser[t]
    IN  /\ refresh[t].step \in {"rotated", "refused"}
        /\ refresh' = [refresh EXCEPT ![t] = NoRefresh]
        /\ IF refresh[t].step = "rotated"
           THEN /\ jar' = [jar EXCEPT ![b] = [session |-> refresh[t].session,
                                              token |-> refresh[t].token, fresh |-> TRUE]]
                /\ request' = Woken(t, "sent")
           ELSE /\ jar' = [jar EXCEPT ![b] = NoCookies]
                /\ request' = Woken(t, "failed")
        /\ UNCHANGED <<setup, user, session, asking, late>>

(* No answer in time: the requests fail with the refresh, which the server  *)
(* may still see.                                                           *)
RefreshLost(t) ==
    /\ May("loss") /\ refresh[t].step # "no"
    /\ refresh' = [refresh EXCEPT ![t] = NoRefresh]
    /\ request' = Woken(t, "failed")
    /\ \/ UNCHANGED late
       \/ /\ refresh[t].step = "sent"
          /\ late' = late \cup {[session |-> refresh[t].session, token |-> refresh[t].token]}
    /\ UNCHANGED <<setup, user, session, jar, asking>>

RefreshLate(r) ==
    /\ r \in late /\ late' = late \ {r}
    /\ session' = Rotated(r.session, r.token)
    /\ UNCHANGED <<setup, user, jar, asking, refresh, request>>

-----------------------------------------------------------------------------
(* Signing in and out.                                                      *)

SignedOut(b) ==
    jar[b].session = None \/ \E q \in Requests : BrowserOf(q) = b /\ request[q].step = "failed"

Unused(s) == /\ session[s].step = "none" /\ \A b \in Browsers : login[b].session # s
             /\ \A r \in Sessions : r < s => session[r].step # "none" \/ \E b \in Browsers : login[b].session = r

(* The password and the status are looked at ...                            *)
LoginVerified(b, s) ==
    /\ b \in setup.devices /\ login[b].step = "no" /\ SignedOut(b) /\ active /\ Unused(s)
    /\ login' = [login EXCEPT ![b] = [step |-> "verified", session |-> s, knows |-> password]]
    /\ UNCHANGED <<setup, user, session, jar, logout, change, refresh, late, request>>

(* ... and not again when the session is created.                           *)
LoginCreated(b) ==
    /\ login[b].step = "verified"
    /\ session' = [session EXCEPT ![login[b].session] =
          [step |-> "live", token |-> 1, knows |-> login[b].knows]]
    /\ login' = [login EXCEPT ![b].step = "created"]
    /\ UNCHANGED <<setup, user, jar, logout, change, refresh, late, request>>

(* Mutant: the session is not committed before the answer.                  *)
LoginAnsweredEarly(b) ==
    /\ login[b].step \in {"verified", "created"}
    /\ \/ jar' = [jar EXCEPT ![b] = [session |-> login[b].session, token |-> 1, fresh |-> TRUE]]
       \/ May("loss") /\ UNCHANGED jar
    /\ login' = [login EXCEPT ![b] = NoLogin]
    /\ UNCHANGED <<setup, user, session, logout, change, refresh, late, request>>
(* The cookies of the new session, or the answer is lost.                   *)
LoginAnswered(b) ==
    /\ login[b].step = "created"
    /\ \/ jar' = [jar EXCEPT ![b] = [session |-> login[b].session, token |-> 1, fresh |-> TRUE]]
       \/ May("loss") /\ UNCHANGED jar
    /\ login' = [login EXCEPT ![b] = NoLogin]
    /\ UNCHANGED <<setup, user, session, logout, change, refresh, late, request>>

LogoutSent(b) ==
    /\ Does("logout") /\ logout[b].step = "no" /\ jar[b].session # None
    /\ logout' = [logout EXCEPT ![b] = [step |-> "sent", session |-> jar[b].session]]
    /\ UNCHANGED <<setup, user, session, jar, login, change, refresh, late, request>>

LogoutServed(b) ==
    /\ logout[b].step = "sent"
    /\ session' = Revoked({logout[b].session})
    /\ logout' = [logout EXCEPT ![b].step = "served"]
    /\ UNCHANGED <<setup, user, jar, login, change, refresh, late, request>>

LogoutAnswered(b) ==
    /\ \/ logout[b].step = "served" /\ jar' = [jar EXCEPT ![b] = NoCookies]
       \/ logout[b].step # "no" /\ May("loss") /\ UNCHANGED jar
    /\ logout' = [logout EXCEPT ![b] = NoLogout]
    /\ UNCHANGED <<setup, user, session, login, change, refresh, late, request>>

-----------------------------------------------------------------------------
(* What ends sessions.                                                      *)

(* Without the fault no login is between its two steps.                     *)
NoOverlap == May("overlap") \/ \A b \in Browsers : login[b].step # "verified"

Forgot ==
    /\ Does("reset") /\ active /\ ~mail /\ mail' = TRUE
    /\ UNCHANGED <<setup, password, issued, active, session, jar, asking, refresh, late, request>>

(* Mutant: the sessions are left alone.                                     *)
ResetOnly ==
    /\ mail /\ issued < setup.passwords /\ NoOverlap
    /\ mail' = FALSE /\ issued' = issued + 1 /\ password' = issued'
    /\ UNCHANGED <<setup, active, session, jar, asking, refresh, late, request>>
(* One transaction: the token, the password and all sessions.               *)
Reset ==
    /\ mail /\ issued < setup.passwords /\ NoOverlap
    /\ mail' = FALSE /\ issued' = issued + 1 /\ password' = issued'
    /\ session' = Revoked(Sessions)
    /\ UNCHANGED <<setup, active, jar, asking, refresh, late, request>>

ChangeVerified(b) ==
    /\ Does("change") /\ change[b].step = "no" /\ jar[b].fresh /\ active
    /\ \E others \in {TRUE} \cup (IF May("keep") THEN {FALSE} ELSE {}) :
         change' = [change EXCEPT ![b] = [step |-> "verified", session |-> jar[b].session,
                                          others |-> others]]
    /\ UNCHANGED <<setup, user, session, jar, login, logout, refresh, late, request>>

(* The new hash is committed first.                                         *)
ChangeWritten(b) ==
    /\ change[b].step = "verified" /\ issued < setup.passwords /\ NoOverlap
    /\ issued' = issued + 1 /\ password' = issued'
    /\ session' = [session EXCEPT ![change[b].session].knows = issued']
    /\ change' = [change EXCEPT ![b].step = "written"]
    /\ UNCHANGED <<setup, mail, active, jar, login, logout, refresh, late, request>>

(* Then the other sessions, unless the server dies.                         *)
ChangeRevokes(b) ==
    /\ change[b].step = "written"
    /\ \/ session' = IF change[b].others THEN Revoked(Sessions \ {change[b].session}) ELSE session
       \/ May("crash") /\ UNCHANGED session
    /\ change' = [change EXCEPT ![b] = NoChange]
    /\ UNCHANGED <<setup, user, jar, login, logout, refresh, late, request>>

RevokeSession(b, s) ==
    /\ Does("revoke") /\ jar[b].fresh /\ active /\ session[s].step = "live"
    /\ session' = Revoked({s})
    /\ UNCHANGED <<setup, user, jar, asking, refresh, late, request>>

(* An administrator disables the user, with all sessions, or not any more.  *)
SetStatus ==
    /\ Does("disable") /\ active' = ~active
    /\ session' = IF active THEN Revoked(Sessions) ELSE session
    /\ UNCHANGED <<setup, password, issued, mail, jar, asking, refresh, late, request>>

-----------------------------------------------------------------------------
(* A request that was sent is answered, or its timeout fires.               *)
Answers ==
    \/ \E q \in Requests : Serve(q) \/ Unauthorized(q)
    \/ \E t \in Tabs : RefreshServed(t) \/ RefreshAnswered(t) \/ RefreshLost(t)

Next ==
    \/ Answers
    \/ \E q \in Requests : Send(q)
    \/ \E r \in late : RefreshLate(r)
    \/ \E b \in Browsers :
        \/ AccessExpires(b)
        \/ LoginCreated(b) \/ LoginAnswered(b)
        \/ LogoutSent(b) \/ LogoutServed(b) \/ LogoutAnswered(b)
        \/ ChangeVerified(b) \/ ChangeWritten(b) \/ ChangeRevokes(b)
        \/ \E s \in Sessions : LoginVerified(b, s) \/ RevokeSession(b, s)
    \/ Forgot \/ Reset \/ SetStatus

Spec == Init /\ [][Next]_vars
-----------------------------------------------------------------------------
(* Every token that is anywhere belongs to a session that was created.      *)
TypeOK ==
    /\ setup \in Setups
    /\ password \in 0..issued /\ issued \in 0..setup.passwords
    /\ mail \in BOOLEAN /\ active \in BOOLEAN
    /\ session \in [Sessions -> [step : {"none", "live", "ended", "reused"}, token : Nat, knows : Nat]]
    /\ jar \in [Browsers -> [session : Sessions \cup {None}, token : Nat, fresh : BOOLEAN]]
    /\ \A b \in Browsers : /\ jar[b].fresh => jar[b].session # None
                           /\ jar[b].session # None => session[jar[b].session].step # "none"
    /\ login \in [Browsers -> [step : {"no", "verified", "created"},
                               session : Sessions \cup {None}, knows : Nat]]
    /\ logout \in [Browsers -> [step : {"no", "sent", "served"}, session : Sessions \cup {None}]]
    /\ change \in [Browsers -> [step : {"no", "verified", "written"},
                                session : Sessions \cup {None}, others : BOOLEAN]]
    /\ refresh \in [Tabs -> [step : {"no", "sent", "rotated", "refused"},
                             session : Sessions \cup {None}, token : Nat]]
    /\ \A t \in Tabs : refresh[t].step # "no" => refresh[t].session # None
    /\ late \subseteq [session : Sessions, token : Nat]
    /\ request \in [Requests -> [step : {"idle", "sent", "401", "waiting", "ok", "failed"},
                                 retried : BOOLEAN, fresh : BOOLEAN]]

OneTab == \A t, u \in Tabs : setup.browser[t] = setup.browser[u] => t = u
Calm   == OneTab /\ ~May("loss")

(* With one tab and no lost answer, however many requests meet an expired   *)
(* token together, no session is ended as a reuse of its token.             *)
NoFalseAlarm == Calm => \A s \in Sessions : session[s].step # "reused"

(* ... and a browser with nothing under way has the token of its session.   *)
TheCookieWorks == Calm => \A b \in Browsers :
    /\ jar[b].session # None /\ session[jar[b].session].step = "live"
    /\ \A t \in Tabs : setup.browser[t] = b => refresh[t].step = "no"
    => jar[b].token = session[jar[b].session].token

(* A changed or reset password leaves no session of the old one, unless a   *)
(* login overlaps, the server dies, or the user asks for it.                *)
OldPasswordDies ==
    ~(May("overlap") \/ May("crash") \/ May("keep"))
        /\ (\A b \in Browsers : change[b].step # "written")
    => \A s \in Sessions : session[s].step = "live" => session[s].knows = password

RequestsDone == \A q \in Requests : request[q].step \in {"idle", "ok", "failed"}
=============================================================================
