----------------------------- MODULE RouteGates -----------------------------
(***************************************************************************)
(* Where a tab goes when a user signs in, signs out, or is no longer signed *)
(* in.  No page asks the session itself: the gates around the pages look at *)
(* one cached answer, that of getCurrentUser, and redirect.  The answer is  *)
(* fetched when a page opens and it is missing or stale, set by the forms   *)
(* that sign in, and reset by a logout.                                     *)
(*                                                                         *)
(* The tab runs over AuthSession: its requests meet expired tokens, wait    *)
(* for refreshes and are refused when the session is over.  It is the tab   *)
(* of request Me; Who is the form's own request for the user, made after a  *)
(* sign-in, and other requests belong to the pages.  Setups with the act    *)
(* "browse" have the tab, the others are AuthSession alone; with "move" the *)
(* user also gets into and out of organizations elsewhere.                  *)
(***************************************************************************)
EXTENDS AuthSession

CONSTANTS
    Me, Who,
    MaxVisits, \* bound on the pages the user opens and on what else moves the user
    MaxTokens  \* bound on the refresh tokens of a session

ASSUME GatesAssumption ==
    /\ Me \in Requests /\ Who \in Requests \ {Me}
    /\ MaxVisits \in Nat

VARIABLES
    place,  \* "away" is another site, "callback" the return from Google
    target, \* ?redirect= of the login page
    cached, \* the query getCurrentUser: an answer that came with an error is
            \* kept next to it; asked: a request for it is under way; moved: the
            \* user has got into or out of organizations since it was last asked
    form,   \* how far a form of the tab is
    out,    \* a logout was answered and is not settled yet
    joined, \* the user belongs to an organization, on the server
    told,   \* an event session.revoked is on its way to the tab
    visits, \* pages the user has opened, and moves
    crossed \* an answer about one session changed the cookies of another, or of none

gates == <<place, target, cached, form, out, joined, told, visits, crossed>>
behind == <<setup, user, session, jar, asking, refresh, late>>

Tab     == setup.tab[Me]
Browser == setup.browser[Tab]
Inside  == {"app", "organization"}

NoUser  == [user |-> "none", error |-> FALSE, stale |-> FALSE, asked |-> FALSE, moved |-> FALSE]
WhoIsIt == IF joined THEN "member" ELSE "new"
(* An answer says what was so at some time since it was asked.              *)
SaidOf(c)    == {WhoIsIt} \cup (IF c.moved THEN {"member", "new"} ELSE {})
Answered(who) == [NoUser EXCEPT !.user = who, !.moved = cached.moved]

GatesInit ==
    /\ Init
    /\ place = "away" /\ target = "app" /\ cached = NoUser
    /\ form = "no" /\ out = FALSE /\ joined \in BOOLEAN /\ told = FALSE
    /\ visits = 0 /\ crossed = FALSE

-----------------------------------------------------------------------------
(* The query.                                                               *)

Fresh(q) == [Sent(q) EXCEPT !.retried = FALSE]
Ask(c)   == [c EXCEPT !.asked = TRUE, !.error = @ /\ c.user # "none", !.moved = FALSE]

(* A page opens with answer c: an answer missing or stale is fetched.       *)
Opened(c) == IF ~c.asked /\ (c.user = "none" \/ c.stale) THEN Ask(c) ELSE c
Arrive(p, c) ==
    /\ place' = p /\ cached' = Opened(c)
    /\ request' = IF Opened(c).asked /\ ~c.asked THEN [request EXCEPT ![Me] = Fresh(Me)]
                  ELSE request

(* A background error keeps the answer and makes it stale.                  *)
Landed ==
    /\ cached.asked /\ request[Me].step \in {"ok", "failed"}
    /\ IF request[Me].step = "ok" THEN \E who \in SaidOf(cached) : cached' = Answered(who)
       ELSE cached' = [cached EXCEPT !.error = TRUE, !.stale = TRUE, !.asked = FALSE]
    /\ UNCHANGED <<vars, place, target, form, out, joined, told, visits, crossed>>

Ages ==
    /\ cached.user # "none" /\ ~cached.stale
    /\ cached' = [cached EXCEPT !.stale = TRUE]
    /\ UNCHANGED <<vars, place, target, form, out, joined, told, visits, crossed>>

-----------------------------------------------------------------------------
(* Where each gate sends the tab: nowhere, or to one place.                 *)

getPostAuthRoute(who) == IF who = "member" THEN "app" ELSE "onboarding"
getPostAuthRedirectUrl(who, redirect) == IF who = "member" THEN redirect ELSE "onboarding"

AuthGate == IF cached.error THEN {"login"}
            ELSE IF cached.user = "new" THEN {"onboarding"} ELSE {}
GuestGate == IF cached.user = "none" THEN {} ELSE {getPostAuthRedirectUrl(cached.user, target)}
HomePage == IF cached.error THEN {"login"}
            ELSE IF cached.user = "none" THEN {} ELSE {getPostAuthRoute(cached.user)}
(* Mutant: whoever is known is sent on.                                     *)
OnboardingScreenSkipped == IF cached.error THEN {"login"}
                           ELSE IF cached.user # "none" THEN {"app"} ELSE {}
OnboardingScreen == IF cached.error THEN {"login"}
                    ELSE IF cached.user = "member" THEN {getPostAuthRoute("member")} ELSE {}
Gate ==
    CASE place \in Inside     -> AuthGate
      [] place = "login"      -> GuestGate
      [] place = "home"       -> HomePage
      [] place = "onboarding" -> OnboardingScreen
      [] OTHER                -> {}

(* The page that was asked for is remembered, but not /app.                 *)
Redirect ==
    /\ \E p \in Gate : Arrive(p, cached)
    /\ target' = IF place' # "login" THEN target
                 ELSE IF place = "organization" THEN "organization" ELSE "app"
    /\ UNCHANGED <<behind, form, out, joined, told, visits, crossed>>

-----------------------------------------------------------------------------
(* The user.                                                                *)

(* What the pages under a gate show to a user they know.                    *)
Shown     == place \in Inside /\ cached.user = "member" /\ ~cached.error
FormShown == place = "login" /\ cached.user = "none" /\ cached.error

Browse(p) ==
    /\ visits < MaxVisits /\ visits' = visits + 1
    /\ Shown /\ p \in Inside \ {place} /\ Arrive(p, cached)
    /\ UNCHANGED <<behind, target, form, out, joined, told, crossed>>

(* A page is loaded, by its address or again, with nothing in the cache;    *)
(* not while the tab signs in or out or refreshes.                          *)
Resting == login[Browser].step = "no" /\ logout[Browser].step = "no" /\ refresh[Tab].step = "no"
Load(p) ==
    /\ visits < MaxVisits /\ visits' = visits + 1
    /\ Resting
    /\ place' = p /\ target' = "app" /\ cached' = Ask(NoUser)
    /\ form' = "no" /\ out' = FALSE /\ told' = FALSE
    /\ request' = [request EXCEPT ![Me] = Fresh(Me), ![Who].step = "idle"]
    /\ UNCHANGED <<behind, joined, crossed>>

(* To Google, and back with a code or with an error.                        *)
GoogleLogin ==
    /\ visits < MaxVisits /\ visits' = visits + 1
    /\ FormShown /\ form = "no" /\ Resting
    /\ place' = "callback" /\ cached' = NoUser /\ out' = FALSE /\ told' = FALSE
    /\ UNCHANGED <<vars, target, form, joined, crossed>>
BackToSignIn ==
    /\ place = "callback" /\ form \in {"no", "failed"}
    /\ Arrive("login", cached) /\ target' = "app" /\ form' = "no"
    /\ UNCHANGED <<behind, out, joined, told, visits, crossed>>

(* The login form, or the exchange of Google's code.                        *)
SignIn(s) ==
    /\ FormShown \/ place = "callback"
    /\ form = "no" /\ LoginVerified(Browser, s) /\ form' = "sent"
    /\ UNCHANGED <<place, target, cached, out, joined, told, visits, crossed>>
SignedIn ==
    /\ form = "sent" /\ LoginAnswered(Browser) /\ form' = "in" /\ crossed' = FALSE
    /\ UNCHANGED <<place, target, cached, out, joined, told, visits>>

(* The form asks who the user is, ...                                       *)
AskWho ==
    /\ form = "in" /\ form' = "who"
    /\ request' = [request EXCEPT ![Who] = Fresh(Who)]
    /\ UNCHANGED <<behind, place, target, cached, out, joined, told, visits, crossed>>
(* ... sets the answer and leaves; if it is refused the form says so.       *)
WhoAnswered ==
    /\ form = "who" /\ request[Who].step \in {"ok", "failed"}
    /\ IF request[Who].step = "ok"
       THEN /\ \E who \in SaidOf(cached) :
                 Arrive(getPostAuthRedirectUrl(who, IF place = "callback" THEN "app" ELSE target),
                        [Answered(who) EXCEPT !.asked = cached.asked])
            /\ form' = "no" /\ crossed' = (crossed \/ jar[Browser].session = None)
       ELSE /\ form' = IF place = "callback" THEN "failed" ELSE "no"
            /\ UNCHANGED <<place, cached, request, crossed>>
    /\ UNCHANGED <<behind, target, out, joined, told, visits>>

(* The organization of a new user: the answer is fetched again, and then    *)
(* the page of the organization opened.  The two steps of the form are one, *)
(* the first only saves the profile.                                        *)
Joins ==
    /\ place = "onboarding" /\ form = "no" /\ cached.user = "new" /\ ~cached.error
    /\ jar[Browser].fresh /\ active
    /\ joined' = TRUE /\ form' = "created"
(* Mutant: the cached answer is left as it is.                              *)
CreateOrganizationOnly ==
    /\ Joins
    /\ UNCHANGED <<vars, place, target, cached, out, told, visits, crossed>>
CreateOrganization ==
    /\ Joins
    /\ cached' = Ask(cached) /\ request' = [request EXCEPT ![Me] = Fresh(Me)]
    /\ UNCHANGED <<behind, place, target, out, told, visits, crossed>>
OpenOrganization ==
    /\ form = "created" /\ ~cached.asked
    /\ Arrive("organization", cached) /\ form' = "no"
    /\ UNCHANGED <<behind, target, out, joined, told, visits, crossed>>

(* An organization is deleted or left, the user is removed from one or      *)
(* accepts an invitation, here or elsewhere: the pages that do it change    *)
(* lists and go on to other pages, and nothing asks again who the user is.  *)
Moves ==
    /\ Does("move") /\ visits < MaxVisits /\ visits' = visits + 1
    /\ joined' = ~joined /\ cached' = [cached EXCEPT !.moved = TRUE]
    /\ UNCHANGED <<vars, place, target, form, out, told, crossed>>

Crosses(s) == jar' # jar /\ s # jar[Browser].session
LogOut ==
    /\ Shown /\ ~out /\ LogoutSent(Browser)
    /\ UNCHANGED gates
LoggedOut ==
    /\ LogoutAnswered(Browser) /\ out' = TRUE
    /\ crossed' = (crossed \/ Crosses(logout[Browser].session))
    /\ UNCHANGED <<place, target, cached, form, joined, told, visits>>
(* Without cookies the server has nothing to end (204), and it is settled.  *)
LogOutOfNothing ==
    /\ Shown /\ ~out /\ jar[Browser].session = None /\ out' = TRUE
    /\ UNCHANGED <<vars, place, target, cached, form, joined, told, visits, crossed>>

(* Mutant: the answer outlives the logout.                                  *)
SettledOnly ==
    /\ out /\ out' = FALSE
    /\ UNCHANGED <<vars, place, target, cached, form, joined, told, visits, crossed>>
(* resetQueries: as if never asked, and asked again.                        *)
Settled ==
    /\ out /\ out' = FALSE
    /\ cached' = Ask(NoUser) /\ request' = [request EXCEPT ![Me] = Fresh(Me)]
    /\ UNCHANGED <<behind, place, target, form, joined, told, visits, crossed>>

(* A session is ended from the list of sessions, on this device or, for the *)
(* session of the tab itself, on another one, and the tab is told.          *)
EndSession(s) ==
    /\ Shown /\ RevokeSession(Browser, s) /\ told' = TRUE
    /\ UNCHANGED <<place, target, cached, form, out, joined, visits, crossed>>
Told ==
    /\ told /\ told' = FALSE
    /\ IF place \in Inside /\ cached.user # "none"
       THEN Arrive("login", NoUser) /\ target' = "app"
       ELSE UNCHANGED <<place, target, cached, request>>
    /\ UNCHANGED <<behind, form, out, joined, visits, crossed>>

-----------------------------------------------------------------------------
(* What goes on by itself.                                                  *)
TabGoesOn ==
    \/ Landed \/ Redirect
    \/ (LoginCreated(Browser) \/ LogoutServed(Browser)) /\ UNCHANGED gates
    \/ SignedIn \/ AskWho \/ WhoAnswered \/ OpenOrganization \/ LoggedOut \/ Settled \/ Told

(* The answer to a refresh may come after that to a logout or to a login.   *)
Behind ==
    /\ crossed' = (crossed \/ (refresh'[Tab] # refresh[Tab] /\ Crosses(refresh[Tab].session)))
    /\ UNCHANGED <<place, target, cached, form, out, joined, told, visits>>
TabAnswers == Answers /\ Behind
Elsewhere  ==
    /\ \/ \E q \in Requests : Send(q)
       \/ jar[Browser].token < MaxTokens /\ AccessExpires(Browser)
       \/ Forgot \/ Reset
    /\ Behind

GatesNext ==
    \/ ~Does("browse") /\ Next /\ UNCHANGED gates
    \/ /\ Does("browse")
       /\ \/ TabGoesOn \/ TabAnswers \/ Elsewhere
          \/ Ages \/ GoogleLogin \/ BackToSignIn \/ CreateOrganization \/ Moves \/ LogOut \/ LogOutOfNothing
          \/ \E p \in Inside : Browse(p)
          \/ \E p \in Inside \cup {"home", "login", "onboarding"} : Load(p)
          \/ \E s \in Sessions : SignIn(s) \/ EndSession(s)

(* Requests are answered or time out, and a tab goes on with the answers.   *)
GatesSpec == GatesInit /\ [][GatesNext]_<<vars, gates>> /\ WF_<<vars, gates>>(
    IF Does("browse") THEN TabGoesOn \/ TabAnswers ELSE Answers /\ UNCHANGED gates)
-----------------------------------------------------------------------------
GatesTypeOK ==
    /\ TypeOK
    /\ place \in Inside \cup {"away", "home", "login", "onboarding", "callback"}
    /\ target \in Inside
    /\ cached \in [user : {"none", "new", "member"}, error : BOOLEAN, stale : BOOLEAN,
                   asked : BOOLEAN, moved : BOOLEAN]
    /\ form \in {"no", "sent", "in", "who", "failed", "created"} /\ out \in BOOLEAN
    /\ joined \in BOOLEAN /\ told \in BOOLEAN /\ visits \in 0..MaxVisits
    /\ crossed \in BOOLEAN
    /\ cached.asked => request[Me].step # "idle"

(* Nothing is under way in the tab and no gate sends it anywhere.           *)
AtRest == /\ ~cached.asked /\ form \in {"no", "failed"} /\ ~told /\ ~out /\ Gate = {}
          /\ login[Browser].step = "no" /\ logout[Browser].step = "no"

(* A tab at rest is where its user belongs: at a form to sign in only if    *)
(* nobody is known, at the onboarding only while the user is in no          *)
(* organization on the server, and on a page of the application only if he  *)
(* is in one; the start page is never left standing.  Who has got into or   *)
(* out of an organization elsewhere since the tab last asked who he is may  *)
(* stay on the wrong side, until a page opens after the answer went stale.  *)
PlaceFitsTheUser == Does("browse") /\ AtRest =>
    /\ place = "login" => FormShown
    /\ place = "onboarding" => cached.user = "new" /\ (~joined \/ cached.moved)
    /\ place \in Inside => Shown /\ (joined \/ cached.moved)
    /\ place # "home"

(* Who logs out is led out: with no cookies left and nothing under way the  *)
(* tab is outside, unless sessions are ended from elsewhere (also as a      *)
(* reuse of their token, by an answer that is lost or another tab), or      *)
(* answers crossed: a refresh answered after the logout sets the cookies    *)
(* again, a refusal or a logout answered after the next login clears its    *)
(* cookies, and a login form answered after the logout sets the user again. *)
LoggedOutIsOutside ==
    Does("browse") /\ setup.acts \cap {"reset", "revoke"} = {} /\ Calm
        /\ ~crossed /\ AtRest /\ jar[Browser].session = None
    => place \notin Inside \cup {"onboarding"}

(* An answer that is kept next to its error: the application sends the tab  *)
(* to the login page for the error, and the login page sends it back for    *)
(* the answer.                                                              *)
Bounces == cached.user # "none" /\ cached.error

(* Every request ends, no refresh leaves one waiting, and redirects come to *)
(* an end, whatever the user does and whichever session is over, but for    *)
(* the tabs that bounce.                                                    *)
ComesToRest == []<>IF Does("browse") THEN (AtRest /\ RequestsDone) \/ Bounces ELSE RequestsDone
=============================================================================
