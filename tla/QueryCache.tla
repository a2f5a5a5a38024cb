----------------------------- MODULE QueryCache -----------------------------
(***************************************************************************)
(* The query cache of one browser tab (TanStack Query) under the forms and  *)
(* realtime hooks of the web client, against a server that other people     *)
(* change as well.                                                          *)
(*                                                                         *)
(* The module follows one answer of the cache, any one: but for the dialog  *)
(* that writes a record it took from a list, no form, hook or page reads    *)
(* one answer to write another, so each can be checked alone.  The server's *)
(* data is the set of changes made to it, each to a row of its own, or to a *)
(* field of a record; an answer is the set of changes it shows.  A form     *)
(* sets the cache before it calls the server and sets it back when the call *)
(* fails; after a success hardly anything is fetched again.  What a form, a *)
(* place (a page, or a dialog on it) and a realtime hook do are parameters; *)
(* Screens has their values.                                                *)
(***************************************************************************)
EXTENDS Naturals

CONSTANTS
    Queries,     \* the queries of the client
    About,       \* About[q]: the kinds of server data in its answer
    Arrays,      \* the queries answered by a plain array
    Forms,       \* the forms of the client
    Does,        \* Does[f]: what f does
    Places,      \* pages, and dialogs with queries of their own
    At,          \* At[p]: its page, queries, forms, rooms and next places
    AppRooms,    \* rooms joined on every page of the application
    SignIn,      \* the place a tab is sent to when its session is over
    Reacts(_, _), \* what the hooks in some rooms do with an event
    Polled,      \* queries that are repeated while something is processed
    Unsignalled, \* queries whose request goes on when nobody shows them
    MaxChanges,  \* bound on the calls of everybody
    Bounds       \* what else there may be: calls, navigations (moves), repeated
                 \* queries (polls), and interrupted sockets and failed queries
                 \* (outages)

Changes == 1..MaxChanges

VARIABLES
    watched,  \* the query whose answer is followed
    place,    \* where the user is
    answer,   \* what the cache holds for the query
    fetch,    \* the request for it under way
    call,     \* call[c]: the call that makes change c
    done,     \* the changes the server has made
    feed,     \* events on their way to the tab, and the changes made before each
    online,   \* the rooms whose socket is open
    left,     \* what is left of the bounds
    mishaps   \* what happened to the answer that no code repairs

vars == <<watched, place, answer, fetch, call, done, feed, online, left, mishaps>>

Mounted(p)  == watched \in At[p].queries
InFlight    == {c \in Changes : call[c].step \in {"sent", "applied", "refused"}}
Affected(f) == Does[f].writes \cap About[watched] # {}
Touched(f)  == watched \in Does[f].matches \cup Does[f].merges \cup Does[f].refreshes

NoAnswer == [has |-> FALSE, shows |-> {}, stale |-> FALSE, broken |-> FALSE]
Answered == [NoAnswer EXCEPT !.has = TRUE]
NoFetch  == [step |-> "idle", read |-> {}, overtaken |-> FALSE]
Asked    == [NoFetch EXCEPT !.step = "asked"]
NoCall   == [step |-> "unused", by |-> "", rooms |-> {}, mine |-> FALSE, heard |-> FALSE,
             set |-> FALSE, before |-> NoAnswer, mixed |-> FALSE, saw |-> {}]

Init ==
    /\ watched \in Queries /\ place \in Places \ {SignIn}
    /\ answer = IF Mounted(place) THEN Answered ELSE NoAnswer
    /\ fetch = NoFetch
    /\ call = [c \in Changes |-> NoCall]
    /\ done = {} /\ feed = {} /\ online = At[place].rooms
    /\ left \in Bounds
    /\ mishaps = {}

-----------------------------------------------------------------------------
(* The cache.                                                               *)

(* setQueriesData on the queries S: a kept answer becomes fresh, and if it  *)
(* is among P and about that kind of data it shows change c of form f.      *)
(* Where there is no answer the updater leaves it so; a form that sets a    *)
(* whole record starts from that record (Opened).                           *)
SetData(a, S, P, c, f) ==
    IF watched \notin S \/ ~a.has THEN a
    ELSE [a EXCEPT !.stale = FALSE,
                   !.shows = IF watched \in P /\ Affected(f) THEN @ \cup {c} ELSE @]

(* {...answer, field}: an array is no array any more.                       *)
Spread(a, S) == IF watched \in S \cap Arrays /\ a.has THEN [a EXCEPT !.broken = TRUE] ELSE a

(* A write to the answer, or its invalidation where nobody shows it, while  *)
(* a request is under way: what the request brings is older.                *)
Overtake(ft, S) == IF watched \in S /\ ft.step # "idle" THEN [ft EXCEPT !.overtaken = TRUE] ELSE ft

(* invalidateQueries: stale, and fetched again at once where mounted; a     *)
(* request under way is cancelled for it.                                   *)
Invalidate(a, S) == IF watched \in S THEN [a EXCEPT !.stale = TRUE] ELSE a
(* Mutant: a request under way is taken for the new one.                    *)
RefetchWhenIdle(ft, S) == IF watched \in S /\ Mounted(place) /\ ft.step = "idle" THEN Asked ELSE ft
Refetch(ft, S) == IF watched \in S /\ Mounted(place) THEN Asked ELSE Overtake(ft, S)

(* A write to S: a call in flight that sets its snapshot back discards it.  *)
Mix(cl, S, c) == [d \in Changes |->
    IF watched \in S /\ d # c /\ d \in InFlight THEN [cl[d] EXCEPT !.mixed = TRUE] ELSE cl[d]]

(* The answer, or the one on its way, is without change c of form f.        *)
Lacks(c, f) == /\ answer.has \/ fetch.step = "read"
               /\ Affected(f) /\ c \notin answer.shows

(* Whether anything reacts to the event of form f in these rooms, and       *)
(* whether it would have set or refreshed the answer where the user is.     *)
Heard(rooms, f) == Reacts(rooms, Does[f].event) # Reacts({}, Does[f].event)
Misses(c, f) == LET h == Reacts(At[place].rooms, Does[f].event)
                IN  watched \in h.sets \cup h.refreshes /\ Lacks(c, f)

(* Sockets are closed but for those of some rooms: the events of the others *)
(* are lost.                                                                *)
KeepOnly(rooms) ==
    /\ online' = rooms
    /\ feed' = {e \in feed : Heard(rooms, call[e.change].by)}
Loses(rooms) == \E e \in feed : /\ ~Heard(rooms, call[e.change].by)
                                /\ Misses(e.change, call[e.change].by)

Mark(m, happens) == IF happens THEN mishaps \cup {m} ELSE mishaps

(* A whole record is set in place of one that showed more, or where there   *)
(* was none and it lacks a change made or under way.                        *)
Older(new) == IF \E c \in Changes \ new.shows :
                     c \in answer.shows \/ (~answer.has /\ c \in done \cup InFlight /\ Affected(call[c].by))
              THEN {"older record"} ELSE {}

(* A change the server has made is not in answer a.                         *)
Incomplete(a) == a.has /\ \E c \in done : Affected(call[c].by) /\ c \notin a.shows

(* A write makes an answer fresh that nobody shows and that was to be       *)
(* fetched again when somebody does.                                        *)
Freshened(new) == IF /\ answer.stale /\ ~new.stale /\ Incomplete(new)
                     /\ fetch.step = "idle" /\ ~Mounted(place)
                  THEN {"made fresh"} ELSE {}

-----------------------------------------------------------------------------
(* The user.                                                                *)

(* The calls still to be made, in the order of the changes.                 *)
Unmade    == {c \in Changes : call[c].step = "unused" /\ \A d \in 1..(c - 1) : call[d].step # "unused"}
Starts(c) == c \in Unmade /\ left.calls > 0 /\ left' = [left EXCEPT !.calls = @ - 1]

(* cancelQueries: what the request would have brought is not fetched again. *)
Cancels(f) == Does[f].cancels /\ watched \in Does[f].matches /\ fetch.step # "idle"

(* What the form is opened with: the answer, or a record in its place that  *)
(* the form sets, changed, whatever the answer is by then.  Where a page    *)
(* shows the answer the record is taken from it, elsewhere from a list.     *)
Opened(f) ==
    IF watched \notin Does[f].records THEN {answer}
    ELSE IF Mounted(place) THEN {a \in {answer} : a.has}
    ELSE {[answer EXCEPT !.has = TRUE, !.shows = S] :
              S \in SUBSET (answer.shows \cup {d \in done : Affected(call[d].by)})}

(* The form is used.  A second call of the same mutation takes over the     *)
(* callbacks that live with its screen.                                     *)
Submit(c, f, old) ==
    LET form == Does[f]
        set  == watched \in form.matches /\ old.has
        sent == [NoCall EXCEPT !.step = "sent", !.by = f, !.mine = TRUE,
                               !.heard = form.lives # "form", !.set = set,
                               !.before = IF set THEN old ELSE NoAnswer]
        superseded == {d \in InFlight : call[d].by = f /\ form.lives # "client"}
    IN  /\ Starts(c) /\ (Affected(f) \/ Touched(f))
        /\ form.guarded => \A d \in InFlight : call[d].by = f => ~call[d].heard
        /\ answer' = Spread(SetData(old, form.matches, form.patches, c, f), form.spreads)
        /\ fetch' = IF Cancels(f) THEN NoFetch ELSE Overtake(fetch, form.matches)
        /\ call' = [d \in Changes |->
               IF d = c THEN sent
               ELSE IF d \in superseded THEN [Mix(call, form.matches, c)[d] EXCEPT !.heard = FALSE]
               ELSE Mix(call, form.matches, c)[d]]
        /\ mishaps' = Mark("cancelled", Cancels(f)) \cup Freshened(answer') \cup Older(answer')
        /\ UNCHANGED <<watched, place, done, feed, online>>

(* The updater throws before the request is made.                           *)
SubmitFails(c, f) ==
    /\ Starts(c) /\ Does[f].throws # {} /\ Touched(f)
    /\ fetch' = IF Cancels(f) THEN NoFetch ELSE fetch
    /\ call' = [call EXCEPT ![c] = [NoCall EXCEPT !.step = "thrown", !.by = f, !.mine = TRUE]]
    /\ mishaps' = Mark("cancelled", Cancels(f))
    /\ UNCHANGED <<watched, place, answer, done, feed, online>>

(* Another page or dialog; long enough ago or not for the answer to be      *)
(* stale.  What is not there or stale is fetched; a request nobody waits    *)
(* for any more is cancelled, and if a write has made the answer fresh      *)
(* meanwhile it is not asked for again.  A new page has sockets of its own  *)
(* but for those of the application, and the calls of the old one no longer *)
(* call back.                                                               *)
Navigate(p, aged) ==
    LET same == At[p].page = At[place].page
        new  == [answer EXCEPT !.stale = @ \/ aged]
        open == IF same THEN online ELSE online \cap At[p].rooms \cap AppRooms
        opened  == Mounted(p) /\ (~same \/ ~Mounted(place))
        dropped == fetch.step # "idle" /\ ~Mounted(p) /\ watched \notin Unsignalled
    IN  /\ left.moves > 0 /\ left' = [left EXCEPT !.moves = @ - 1]
        /\ place' = p
        /\ answer' = new
        /\ fetch' = IF opened /\ fetch.step = "idle" /\ (~new.has \/ new.stale) THEN Asked
                    ELSE IF dropped THEN NoFetch ELSE fetch
        /\ call' = [c \in Changes |->
               IF c \in InFlight /\ ~same /\ Does[call[c].by].lives = "screen"
               THEN [call[c] EXCEPT !.heard = FALSE] ELSE call[c]]
        /\ KeepOnly(open)
        /\ mishaps' = Mark("missed", Loses(open)) \cup
               IF dropped /\ fetch.overtaken /\ ~new.stale /\ Incomplete(new) THEN {"cancelled"} ELSE {}
        /\ UNCHANGED <<watched, done>>

-----------------------------------------------------------------------------
(* The server and other people.                                             *)

(* The event goes to whoever listens.  An answer whose call was given up    *)
(* was set back, and stays so.                                              *)
Publish(c, f) ==
    LET heard == Heard(online, f)
    IN  /\ feed' = IF heard THEN feed \cup {[change |-> c, after |-> done]} ELSE feed
        /\ mishaps' = IF call[c].step = "late" THEN Mark("gave up", Lacks(c, f))
                      ELSE Mark("missed", ~heard /\ Misses(c, f))

Apply(c) ==
    /\ call[c].step \in {"sent", "late"}
    /\ done' = done \cup {c}
    /\ call' = [call EXCEPT ![c].step = IF @ = "sent" THEN "applied" ELSE "over",
                            ![c].rooms = At[place].rooms,
                            ![c].saw = {d \in done' : Affected(call[d].by)}]
    /\ Publish(c, call[c].by)
    /\ UNCHANGED <<watched, place, answer, fetch, online, left>>

Refuse(c) ==
    /\ call[c].step \in {"sent", "late"}
    /\ call' = [call EXCEPT ![c].step = IF @ = "sent" THEN "refused" ELSE "over"]
    /\ UNCHANGED <<watched, place, answer, fetch, done, feed, online, left, mishaps>>

(* Somebody else makes a change.                                            *)
Other(c, f) ==
    /\ Starts(c)
    /\ Affected(f) \/ LET h == Reacts(At[place].rooms, Does[f].event)
                      IN  h.ends \/ watched \in h.sets \cup h.refreshes
    /\ done' = done \cup {c}
    /\ call' = [call EXCEPT ![c] = [NoCall EXCEPT !.step = "over", !.by = f,
                                                  !.rooms = At[place].rooms]]
    /\ Publish(c, f)
    /\ UNCHANGED <<watched, place, answer, fetch, online>>

-----------------------------------------------------------------------------
(* The answer to a call.                                                    *)

(* The answer of a call is set as it is, the whole record as the server had *)
(* it then, or put into what is there.                                      *)
Merged(c, merges) ==
    IF watched \in merges \cap Does[call[c].by].returns
    THEN [answer EXCEPT !.has = TRUE, !.stale = FALSE, !.shows = call[c].saw]
    ELSE SetData(answer, merges, merges, c, call[c].by)
Answer(c) ==
    LET form == Does[call[c].by]
        merges == IF call[c].heard THEN form.merges ELSE {}
        told   == IF call[c].heard THEN form.refreshes ELSE {}
    IN  /\ call[c].step = "applied"
        /\ answer' = Invalidate(Merged(c, merges), told)
        /\ fetch' = Refetch(Overtake(fetch, merges), told)
        /\ call' = [Mix(call, merges \cup told, c) EXCEPT ![c].step = "over"]
        /\ mishaps' = Mark("unheard", ~call[c].heard /\ Lacks(c, call[c].by)
                                      /\ watched \in form.merges \cup form.refreshes)
                      \cup Freshened(answer') \cup Older(answer')
        /\ UNCHANGED <<watched, place, done, feed, online, left>>

(* onError sets back what was set, or takes the change itself back; a whole *)
(* record is set back to that the form was opened with.                     *)
Undoes(c) == call[c].heard /\ call[c].set /\ Does[call[c].by].undo # "none"
TakesBack(c) == Does[call[c].by].undo = "row" /\ watched \notin Does[call[c].by].records
(* Mutants: a form that takes its own row back sets nothing back, or all.   *)
LeavesRow(c) ==
    IF ~Undoes(c) \/ TakesBack(c) THEN answer ELSE [call[c].before EXCEPT !.stale = FALSE]
SetsAllBack(c) == IF Undoes(c) THEN [call[c].before EXCEPT !.stale = FALSE] ELSE answer
Undone(c) ==
    IF ~Undoes(c) THEN answer
    ELSE IF TakesBack(c) THEN [answer EXCEPT !.stale = FALSE, !.shows = @ \ {c}]
    ELSE [call[c].before EXCEPT !.stale = FALSE]
NotUndone(c)  == call[c].set /\ ~call[c].heard /\ Does[call[c].by].lives # "form"
RolledOver(c) == Undoes(c) /\ ~TakesBack(c) /\ call[c].mixed
Fails(c) ==
    /\ answer' = Undone(c)
    /\ fetch' = IF Undoes(c) THEN Overtake(fetch, {watched}) ELSE fetch
Harm(c) == {m \in {"not undone", "rolled over"} :
                CASE m = "not undone" -> NotUndone(c) [] m = "rolled over" -> RolledOver(c)}

Fail(c) ==
    /\ call[c].step = "refused"
    /\ Fails(c)
    /\ call' = [Mix(call, IF Undoes(c) THEN {watched} ELSE {}, c) EXCEPT ![c].step = "over"]
    /\ mishaps' = mishaps \cup Harm(c) \cup Freshened(answer')
    /\ UNCHANGED <<watched, place, done, feed, online, left>>

(* No answer within the 15 s of the client: an error to the form, whatever  *)
(* the server has done or will do.                                          *)
GiveUp(c) ==
    /\ call[c].step \in {"sent", "applied"}
    /\ Fails(c)
    /\ call' = [Mix(call, IF Undoes(c) THEN {watched} ELSE {}, c)
                EXCEPT ![c].step = IF @ = "sent" THEN "late" ELSE "over"]
    /\ mishaps' = mishaps \cup Harm(c) \cup Freshened(answer')
                     \cup (IF Affected(call[c].by) \/ call[c].set THEN {"gave up"} ELSE {})
    /\ UNCHANGED <<watched, place, done, feed, online, left>>

-----------------------------------------------------------------------------
(* Requests for the query.                                                  *)

Poll ==
    /\ left.polls > 0 /\ left' = [left EXCEPT !.polls = @ - 1]
    /\ watched \in Polled /\ Mounted(place) /\ fetch.step = "idle"
    /\ fetch' = Asked
    /\ UNCHANGED <<watched, place, answer, call, done, feed, online, mishaps>>

(* The server answers from what it has; a call of this tab that it has yet  *)
(* to make overtakes the answer.                                            *)
Read ==
    /\ fetch.step = "asked"
    /\ fetch' = [step |-> "read", read |-> {c \in done : Affected(call[c].by)},
                 overtaken |-> fetch.overtaken \/ \E c \in Changes :
                     call[c].step \in {"sent", "late"} /\ Affected(call[c].by)]
    /\ UNCHANGED <<watched, place, answer, call, done, feed, online, left, mishaps>>

(* The answer replaces what the cache holds.  If it was overtaken it shows  *)
(* an older state than the screen did; if it has all the server has, it     *)
(* repairs whatever happened before.                                        *)
Land ==
    /\ fetch.step = "read"
    /\ answer' = [Answered EXCEPT !.shows = fetch.read]
    /\ fetch' = NoFetch
    /\ call' = Mix(call, {watched}, 0)
    /\ mishaps' = IF fetch.overtaken THEN mishaps \cup {"late answer"}
                  ELSE IF {c \in done : Affected(call[c].by)} \subseteq fetch.read THEN {}
                  ELSE mishaps
    /\ UNCHANGED <<watched, place, done, feed, online, left>>

(* No answer to the request nor to its one repetition.                      *)
Lose ==
    /\ left.outages > 0 /\ left' = [left EXCEPT !.outages = @ - 1]
    /\ fetch.step # "idle"
    /\ fetch' = NoFetch
    /\ mishaps' = mishaps \cup {"failed"}
    /\ UNCHANGED <<watched, place, answer, call, done, feed, online>>

-----------------------------------------------------------------------------
(* The socket.                                                              *)

(* Events arrive in the order of their changes.                             *)
First == {e \in feed : \A x \in feed : e.after \subseteq x.after}

Deliver(e) ==
    /\ LET c == e.change
           h == Reacts(At[place].rooms, Does[call[c].by].event)
           new == SetData(answer, h.sets, h.patches, c, call[c].by)
           strayed == IF watched \in h.strays /\ new.has THEN [new EXCEPT !.shows = @ \cup {c}]
                      ELSE new
       IN  /\ ~h.ends
           /\ answer' = Invalidate(strayed, h.refreshes)
           /\ fetch' = Refetch(Overtake(fetch, h.sets), h.refreshes)
           /\ call' = Mix(call, h.sets \cup h.refreshes, 0)
    /\ feed' = feed \ {e}
    /\ mishaps' = mishaps \cup Freshened(answer')
    /\ UNCHANGED <<watched, place, done, online, left>>

(* An event that ends the session of the tab: the cache is cleared and the  *)
(* user has to sign in.  A snapshot of before is none of the empty cache.   *)
Leave(e) ==
    /\ Reacts(At[place].rooms, Does[call[e.change].by].event).ends
    /\ place' = SignIn
    /\ answer' = NoAnswer /\ fetch' = NoFetch
    /\ call' = [c \in Changes |->
           IF c \in InFlight /\ Does[call[c].by].lives = "screen"
           THEN [Mix(call, {watched}, 0)[c] EXCEPT !.heard = FALSE] ELSE Mix(call, {watched}, 0)[c]]
    /\ online' = {} /\ feed' = {}
    /\ UNCHANGED <<watched, done, left, mishaps>>

(* Whatever was on its way is lost; nothing is fetched when the socket is   *)
(* open again.                                                              *)
Disconnect(r) ==
    /\ r \in online
    /\ left.outages > 0 /\ left' = [left EXCEPT !.outages = @ - 1]
    /\ KeepOnly(online \ {r})
    /\ mishaps' = Mark("missed", Loses(online \ {r}))
    /\ UNCHANGED <<watched, place, answer, fetch, call, done>>

Connect(r) ==
    /\ r \in At[place].rooms \ online /\ online' = online \cup {r}
    /\ UNCHANGED <<watched, place, answer, fetch, call, done, feed, left, mishaps>>

-----------------------------------------------------------------------------
Next ==
    \/ \E c \in Unmade, f \in At[place].forms :
           SubmitFails(c, f) \/ \E old \in Opened(f) : Submit(c, f, old)
    \/ \E c \in Unmade, f \in Forms : Other(c, f)
    \/ \E c \in Changes : Apply(c) \/ Refuse(c) \/ Answer(c) \/ Fail(c) \/ GiveUp(c)
    \/ \E p \in At[place].next, aged \in BOOLEAN : Navigate(p, aged)
    \/ Poll \/ Read \/ Land \/ Lose
    \/ \E e \in First : Deliver(e) \/ Leave(e)
    \/ \E r \in At[place].rooms : Disconnect(r) \/ Connect(r)

Spec == Init /\ [][Next]_vars
-----------------------------------------------------------------------------
CONSTANTS
    Keeps(_),    \* Keeps(f): the answers form f keeps true by itself
    Told(_, _),  \* Told(rooms, event): the answers an event keeps true
    Forgetful    \* forms that do not take back what they showed

(* The tables fit together.  A form that is gone before its answer comes,   *)
(* or that takes nothing back, is one of the forgetful; a form that sets a  *)
(* record writes that data; the stray rows of an event do not belong to the *)
(* answers they get into.                                                   *)
ASSUME TablesFit ==
    /\ SignIn \in Places
    /\ \A p \in Places : At[p].next \subseteq Places /\ At[p].forms \subseteq Forms
    /\ \A p, q \in Places : At[p].page = At[q].page => At[p].rooms = At[q].rooms
    /\ \A f \in Forms : Does[f].undo \in {"none", "row", "snapshot"}
    /\ \A f \in Forms : Does[f].matches \cap Does[f].patches # {} =>
           f \in Forgetful \/ (Does[f].lives # "form" /\ Does[f].undo # "none")
    /\ \A f \in Forms : Does[f].records \subseteq Does[f].matches \cap Does[f].patches
    /\ \A f \in Forms : \A q \in Does[f].records \cup Does[f].returns :
           Does[f].writes \cap About[q] # {}
    /\ \A p \in Places, f \in Forms : \A q \in Reacts(At[p].rooms, Does[f].event).strays :
           Does[f].writes \cap About[q] = {}

(* The answers an event of form f brings up to date for a user at p.        *)
Brings(p, f) == LET h == Reacts(At[p].rooms, Does[f].event)
                IN  h.refreshes \cup (h.sets \cap h.patches)

(* What is promised has something behind it: a form patches, merges or      *)
(* fetches again the answers it keeps true, a hook those it is told about,  *)
(* and what the sockets of the application hear is dealt with alike on      *)
(* every page.                                                              *)
ASSUME PromisesAreBacked ==
    /\ \A f \in Forms : Keeps(f) \subseteq
           (Does[f].matches \cap Does[f].patches) \cup Does[f].merges \cup Does[f].refreshes
    /\ \A p \in Places, f \in Forms : Told(At[p].rooms, Does[f].event) \subseteq Brings(p, f)
    /\ \A p, q \in Places, f \in Forms : \A rooms \in SUBSET (At[p].rooms \cap At[q].rooms \cap AppRooms) :
           Heard(rooms, f) => Brings(p, f) \subseteq Brings(q, f)

Texts == {"missed", "cancelled", "made fresh", "unheard", "not undone", "rolled over", "gave up",
          "older record", "late answer", "failed"}

TypeOK ==
    /\ watched \in Queries /\ place \in Places
    /\ answer \in [has : BOOLEAN, shows : SUBSET Changes, stale : BOOLEAN, broken : BOOLEAN]
    /\ fetch \in [step : {"idle", "asked", "read"}, read : SUBSET done, overtaken : BOOLEAN]
    /\ \A c \in Changes :
           /\ call[c].step \in {"unused", "sent", "applied", "refused", "late", "over", "thrown"}
           /\ call[c].step # "unused" => call[c].by \in Forms
           /\ call[c].set = call[c].before.has /\ call[c].saw \subseteq done
    /\ done \subseteq {c \in Changes : call[c].step \in {"applied", "over"}}
    /\ feed \subseteq [change : done, after : SUBSET done] /\ online \subseteq At[place].rooms
    /\ mishaps \subseteq Texts

(* Nothing is under way any more.                                           *)
Quiet == /\ feed = {} /\ online = At[place].rooms /\ fetch.step = "idle"
         /\ \A c \in Changes : call[c].step \in {"unused", "over", "thrown"}

Owed(c) == \/ call[c].mine /\ watched \in Keeps(call[c].by)
           \/ watched \in Told(call[c].rooms, Does[call[c].by].event)

(* What the user looks at, once nothing is under way, shows every change    *)
(* the client undertakes to show: those of a form in the lists the form     *)
(* patches, merges or fetches again, and those of other people in the lists *)
(* the realtime hook of the page keeps; unless something happened to the    *)
(* answer that no code repairs.                                             *)
SettledViewIsTrue ==
    Quiet /\ Mounted(place) /\ answer.has /\ mishaps = {} =>
        \A c \in done : Affected(call[c].by) /\ Owed(c) => c \in answer.shows

(* Once nothing is under way, no kept answer shows a change the server does *)
(* not have, but for the forms whose optimistic change is never taken back, *)
(* for a page left before the error came, for answers set back to a         *)
(* snapshot that held another call's change, and for calls given up.        *)
NothingInvented ==
    Quiet => \A c \in answer.shows \ done :
        call[c].by \in Forgetful \/ mishaps \cap {"not undone", "rolled over", "gave up"} # {}

(* A kept answer never loses a change to its own kind of data that the      *)
(* server has made and the user has seen, unless an older answer, record or *)
(* snapshot was put over it, or the call was given up: not by another form, *)
(* by an event or by a refetch.                                             *)
NeverForgets == [][answer'.has =>
    \/ {c \in answer.shows \cap done : Affected(call[c].by)} \subseteq answer'.shows
    \/ mishaps' # {}]_vars

(* "Optimistic Update in list & single media caches": the form sets pages   *)
(* of media and single media, so an array stays an array.                   *)
AnswersKeepTheirShape == ~answer.broken

(* "The targeted device is immediately disconnected": a tab is signed out   *)
(* by the revocation of its own session, not of another one.                *)
OthersStaySignedIn == [][place # SignIn /\ place' = SignIn =>
    \E c \in done : call[c].by = "sessions_manager" /\ ~call[c].mine]_vars

=============================================================================
