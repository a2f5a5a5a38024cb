-------------------------- MODULE QueryCacheProofs --------------------------
(***************************************************************************)
(* What holds of an answer of the query cache for any tables of queries,   *)
(* forms, pages and hooks that fit together (TablesFit) and back what they *)
(* promise (PromisesAreBacked), any number of calls and any bounds: it     *)
(* shows nothing the server does not have once all is quiet, it forgets    *)
(* nothing the user has seen, and it shows what was promised.              *)
(***************************************************************************)
EXTENDS QueryCache, TLAPS

AnswerType == [has : BOOLEAN, shows : SUBSET Changes, stale : BOOLEAN, broken : BOOLEAN]
Steps    == {"unused", "sent", "applied", "refused", "late", "over", "thrown"}
RoomSets == {At[p].rooms : p \in Places} \cup {{}}
CallType == [step : Steps, by : Forms \cup {""}, rooms : RoomSets, mine : BOOLEAN,
             heard : BOOLEAN, set : BOOLEAN, before : AnswerType, mixed : BOOLEAN,
             saw : SUBSET Changes]

CallsType == [Changes -> CallType]

(* TypeOK, and the parts of a call.                                         *)
TypeInv == TypeOK /\ call \in CallsType

(* The change is to the answer's own kind of data.                          *)
Own(c) == Affected(call[c].by)

(* How far a call has come: what is applied is made, and seen by its own    *)
(* answer; what is refused or given up before the server came to it is not. *)
Made == \A c \in Changes :
    /\ call[c].step = "applied" => c \in done /\ (Own(c) => c \in call[c].saw)
    /\ call[c].step \in {"unused", "sent", "refused", "late", "thrown"} => c \notin done

(* Every row an answer shows, or can be set back or fetched to show, is     *)
(* that of a call that was made.                                            *)
Begun(c) == call[c].step # "unused"
BegunInv ==
    /\ \A c \in answer.shows : Begun(c)
    /\ \A c \in fetch.read : Begun(c)
    /\ \A d \in Changes : \A c \in call[d].before.shows : Begun(c)

(* The call is still to be answered, and whoever started it will hear, or   *)
(* the mark that he did not is set.                                         *)
Pending(c) == /\ call[c].step \in {"sent", "refused"} /\ call[c].set
              /\ watched \in Does[call[c].by].matches /\ watched \in Does[call[c].by].patches
Excused    == mishaps \cap {"not undone", "rolled over", "gave up"} # {}
Excusable(c) == c \in done \/ Pending(c) \/ call[c].by \in Forgetful \/ Excused

(* A snapshot no other write came between is as excusable as the answer; no *)
(* snapshot holds the change of its own call.                               *)
Restorable(d) == d \in InFlight /\ call[d].set /\ ~call[d].mixed
ShownInv ==
    /\ \A c \in answer.shows : Excusable(c)
    /\ \A d \in Changes : Restorable(d) => \A c \in call[d].before.shows : Excusable(c)
    /\ \A d \in Changes : d \notin call[d].before.shows

(* Setting an answer back to such a snapshot takes back no other change of  *)
(* its kind; and a request that was not overtaken brings every such change  *)
(* the answer shows and the server has or will have.                        *)
SeenInv ==
    /\ \A d \in Changes : Restorable(d) =>
           \A c \in answer.shows \ {d} : Own(c) => c \in call[d].before.shows
    /\ fetch.step = "read" /\ ~fetch.overtaken =>
           \A c \in answer.shows : Own(c) =>
               \/ c \in fetch.read
               \/ c \notin done /\ call[c].step \notin {"sent", "late"}
-----------------------------------------------------------------------------
(* The operators on the cache.                                              *)

LEMMA SetDataType ==
    ASSUME NEW a \in AnswerType, NEW S, NEW P, NEW c \in Changes, NEW f
    PROVE  /\ SetData(a, S, P, c, f) \in AnswerType
           /\ SetData(a, S, P, c, f).has = a.has
           /\ a.shows \subseteq SetData(a, S, P, c, f).shows
           /\ \A x \in SetData(a, S, P, c, f).shows :
                  \/ x \in a.shows
                  \/ x = c /\ watched \in S /\ watched \in P /\ a.has /\ Affected(f)
BY DEF SetData, AnswerType

LEMMA InvalidateType ==
    ASSUME NEW a \in AnswerType, NEW S
    PROVE  /\ Invalidate(a, S) \in AnswerType
           /\ Invalidate(a, S).has = a.has /\ Invalidate(a, S).shows = a.shows
           /\ Spread(a, S) \in AnswerType
           /\ Spread(a, S).has = a.has /\ Spread(a, S).shows = a.shows
BY DEF Invalidate, Spread, AnswerType

FetchType == [step : {"idle", "asked", "read"}, read : SUBSET done, overtaken : BOOLEAN]

LEMMA FetchTypes ==
    ASSUME NEW ft \in FetchType, NEW S
    PROVE  /\ NoFetch \in FetchType /\ Asked \in FetchType
           /\ NoFetch.step = "idle" /\ NoFetch.read = {}
           /\ Asked.step = "asked" /\ Asked.read = {}
           /\ Overtake(ft, S) \in FetchType
           /\ Overtake(ft, S).step = ft.step /\ Overtake(ft, S).read = ft.read
           /\ ~Overtake(ft, S).overtaken => ~ft.overtaken /\ (watched \notin S \/ ft.step = "idle")
           /\ Refetch(ft, S) = Asked \/ Refetch(ft, S) = Overtake(ft, S)
           /\ Refetch(ft, S) \in FetchType
<1>1. NoFetch \in FetchType /\ Asked \in FetchType
      /\ NoFetch.step = "idle" /\ NoFetch.read = {} /\ Asked.step = "asked" /\ Asked.read = {}
  BY DEF NoFetch, Asked, FetchType
<1>2. /\ Overtake(ft, S) \in FetchType
      /\ Overtake(ft, S).step = ft.step /\ Overtake(ft, S).read = ft.read
      /\ ~Overtake(ft, S).overtaken => ~ft.overtaken /\ (watched \notin S \/ ft.step = "idle")
  <2>1. CASE watched \in S /\ ft.step # "idle"
    BY <2>1 DEF Overtake, FetchType
  <2>2. CASE ~(watched \in S /\ ft.step # "idle")
    BY <2>2 DEF Overtake, FetchType
  <2> QED BY <2>1, <2>2
<1>3. Refetch(ft, S) = Asked \/ Refetch(ft, S) = Overtake(ft, S)
  BY DEF Refetch
<1> QED BY <1>1, <1>2, <1>3

LEMMA NoAnswerType ==
    /\ NoAnswer \in AnswerType /\ Answered \in AnswerType
    /\ NoAnswer.has = FALSE /\ Answered.has = TRUE
    /\ NoAnswer.shows = {} /\ Answered.shows = {}
BY DEF NoAnswer, Answered, AnswerType

(* A write mixes the snapshots of the calls in flight and leaves the rest   *)
(* of every call alone.                                                     *)
LEMMA MixType ==
    ASSUME call \in CallsType, NEW S, NEW c
    PROVE  /\ Mix(call, S, c) \in CallsType
           /\ \A d \in Changes :
                  /\ Mix(call, S, c)[d].step = call[d].step
                  /\ Mix(call, S, c)[d].by = call[d].by
                  /\ Mix(call, S, c)[d].set = call[d].set
                  /\ Mix(call, S, c)[d].before = call[d].before
                  /\ Mix(call, S, c)[d].saw = call[d].saw
                  /\ Mix(call, S, c)[d].heard = call[d].heard
                  /\ Mix(call, S, c)[d].mine = call[d].mine
                  /\ Mix(call, S, c)[d].rooms = call[d].rooms
                  /\ call[d].mixed => Mix(call, S, c)[d].mixed
                  /\ watched \in S /\ d # c /\ d \in InFlight => Mix(call, S, c)[d].mixed
<1> SUFFICES ASSUME NEW d \in Changes
             PROVE  /\ Mix(call, S, c)[d] \in CallType
                    /\ Mix(call, S, c)[d].step = call[d].step
                    /\ Mix(call, S, c)[d].by = call[d].by
                    /\ Mix(call, S, c)[d].set = call[d].set
                    /\ Mix(call, S, c)[d].before = call[d].before
                    /\ Mix(call, S, c)[d].saw = call[d].saw
                    /\ Mix(call, S, c)[d].heard = call[d].heard
                    /\ Mix(call, S, c)[d].mine = call[d].mine
                    /\ Mix(call, S, c)[d].rooms = call[d].rooms
                    /\ call[d].mixed => Mix(call, S, c)[d].mixed
                    /\ watched \in S /\ d # c /\ d \in InFlight => Mix(call, S, c)[d].mixed
  BY DEF CallsType, Mix
<1>1. call[d] \in CallType
  BY DEF CallsType
<1>2. CASE watched \in S /\ d # c /\ d \in InFlight
  <2>1. Mix(call, S, c)[d] = [call[d] EXCEPT !.mixed = TRUE]
    BY <1>2 DEF Mix
  <2> QED BY <1>1, <1>2, <2>1 DEF CallType
<1>3. CASE ~(watched \in S /\ d # c /\ d \in InFlight)
  <2>1. Mix(call, S, c)[d] = call[d]
    BY <1>3 DEF Mix
  <2> QED BY <1>1, <1>3, <2>1 DEF CallType
<1> QED BY <1>2, <1>3

-----------------------------------------------------------------------------
(* Types.                                                                   *)

LEMMA NoCallType ==
    /\ NoCall \in CallType /\ NoCall.step = "unused" /\ NoCall.set = FALSE /\ NoCall.mixed = FALSE
    /\ NoCall.before = NoAnswer /\ NoCall.saw = {}
BY NoAnswerType DEF NoCall, CallType, Steps, RoomSets

LEMMA InitTypes == ASSUME Init PROVE TypeInv
<1>1. /\ watched \in Queries /\ place \in Places /\ done = {} /\ feed = {} /\ mishaps = {}
      /\ online = At[place].rooms
      /\ answer = NoAnswer \/ answer = Answered
      /\ fetch = NoFetch
  BY DEF Init
<1>2. answer \in AnswerType
  BY <1>1, NoAnswerType
<1>3. fetch \in FetchType
  BY <1>1 DEF NoFetch, FetchType
<1>4. call \in CallsType /\ \A c \in Changes : call[c] = NoCall
  BY NoCallType DEF CallsType, Init
<1>5. \A c \in Changes : call[c].step = "unused" /\ call[c].set = call[c].before.has /\ call[c].saw = {}
  BY <1>4, NoCallType, NoAnswerType
<1> QED
  BY <1>1, <1>2, <1>3, <1>4, <1>5 DEF TypeInv, TypeOK, AnswerType, FetchType

(* What a step must keep of the calls to keep them typed.                   *)
CallsTyped ==
    /\ call' \in CallsType
    /\ \A c \in Changes : call'[c].step # "unused" => call'[c].by \in Forms
    /\ \A c \in Changes : call'[c].set = call'[c].before.has
    /\ \A c \in Changes : call'[c].saw \subseteq done'
    /\ done' \subseteq {c \in Changes : call'[c].step \in {"applied", "over"}}

LEMMA SameTypes ==
    ASSUME TypeInv, CallsTyped, watched' = watched, place' \in Places,
           answer' \in AnswerType, fetch' \in FetchType, done \subseteq done',
           feed' \subseteq [change : done', after : SUBSET done'],
           online' \subseteq At[place'].rooms, mishaps' \subseteq Texts
    PROVE  TypeInv'
<1>1. fetch' \in [step : {"idle", "asked", "read"}, read : SUBSET done', overtaken : BOOLEAN]
  BY DEF FetchType
<1>2. \A c \in Changes : call'[c].step \in Steps
  BY DEF CallsType, CallsTyped, CallType
<1> QED
  BY <1>1, <1>2 DEF TypeInv, TypeOK, CallsTyped, AnswerType, Steps, Changes, RoomSets, CallType

(* What is typed in a typed state.                                          *)
LEMMA Typed ==
    ASSUME TypeInv
    PROVE  /\ watched \in Queries /\ place \in Places
           /\ answer \in AnswerType /\ fetch \in FetchType /\ done \subseteq Changes
           /\ feed \subseteq [change : done, after : SUBSET done]
           /\ online \subseteq At[place].rooms /\ mishaps \subseteq Texts
           /\ call \in CallsType
           /\ \A c \in Changes : call[c].step # "unused" => call[c].by \in Forms
           /\ \A c \in Changes : call[c].set = call[c].before.has
           /\ \A c \in Changes : call[c].saw \subseteq done
           /\ done \subseteq {c \in Changes : call[c].step \in {"applied", "over"}}
BY DEF TypeInv, TypeOK, AnswerType, FetchType

(* What a form is opened with is an answer: the one there is, or a record   *)
(* that shows changes of the answer or of the server.                       *)
LEMMA OpenedType ==
    ASSUME TypeInv, NEW f \in Forms, NEW old \in Opened(f)
    PROVE  /\ old \in AnswerType
           /\ answer.has => old.has
           /\ old.shows \subseteq answer.shows \cup done
           /\ watched \notin Does[f].matches => old = answer
           /\ old # answer => watched \in Does[f].matches \cap Does[f].patches
<1>1. answer \in AnswerType /\ done \subseteq Changes
  BY Typed
<1>2. Does[f].records \subseteq Does[f].matches \cap Does[f].patches
  BY TablesFit
<1>3. CASE watched \notin Does[f].records
  BY <1>1, <1>3 DEF Opened
<1>4. CASE watched \in Does[f].records /\ Mounted(place)
  BY <1>1, <1>2, <1>4 DEF Opened
<1>5. CASE watched \in Does[f].records /\ ~Mounted(place)
  <2>1. PICK R \in SUBSET (answer.shows \cup {d \in done : Affected(call[d].by)}) :
            old = [answer EXCEPT !.has = TRUE, !.shows = R]
    BY <1>5 DEF Opened
  <2>2. R \subseteq answer.shows \cup done /\ R \subseteq Changes
    BY <1>1, <2>1 DEF AnswerType
  <2>3. old \in AnswerType /\ old.has = TRUE /\ old.shows = R
    BY <1>1, <2>1, <2>2 DEF AnswerType
  <2> QED BY <1>2, <1>5, <2>2, <2>3
<1> QED BY <1>3, <1>4, <1>5

LEMMA SubmitTypes ==
    ASSUME TypeInv, NEW c \in Unmade, NEW f \in Forms, NEW old \in Opened(f), Submit(c, f, old)
    PROVE  TypeInv'
<1> USE Typed, OpenedType
<1> DEFINE set  == watched \in Does[f].matches /\ old.has
           sent == [NoCall EXCEPT !.step = "sent", !.by = f, !.mine = TRUE,
                               !.heard = (Does[f].lives # "form"), !.set = set,
                               !.before = IF set THEN old ELSE NoAnswer]
           mix  == Mix(call, Does[f].matches, c)
           gone == {d \in InFlight : call[d].by = f /\ Does[f].lives # "client"}
<1>1. c \in Changes /\ call[c].step = "unused"
  BY DEF Unmade
<1>2. sent \in CallType /\ sent.step = "sent" /\ sent.by = f /\ sent.set = sent.before.has
      /\ sent.saw = {}
  <2>1. (IF set THEN old ELSE NoAnswer) \in AnswerType
        /\ set = (IF set THEN old ELSE NoAnswer).has
    BY NoAnswerType DEF AnswerType
  <2> QED
    BY <2>1, NoCallType DEF CallType, Steps, RoomSets, NoCall
<1>3. call' = [d \in Changes |-> IF d = c THEN sent
               ELSE IF d \in gone THEN [mix[d] EXCEPT !.heard = FALSE] ELSE mix[d]]
  BY Zenon DEF Submit
<1>4. /\ mix \in CallsType
      /\ \A d \in Changes : /\ mix[d].step = call[d].step /\ mix[d].by = call[d].by
                            /\ mix[d].set = call[d].set /\ mix[d].before = call[d].before
                            /\ mix[d].saw = call[d].saw
  BY MixType
<1> HIDE DEF mix, sent, gone, set
<1>5. \A d \in Changes : /\ call'[d] \in CallType
                         /\ call'[d].step = IF d = c THEN "sent" ELSE call[d].step
                         /\ call'[d].by = IF d = c THEN f ELSE call[d].by
                         /\ call'[d].set = call'[d].before.has
                         /\ call'[d].saw \subseteq done
  <2> SUFFICES ASSUME NEW d \in Changes
               PROVE /\ call'[d] \in CallType
                     /\ call'[d].step = IF d = c THEN "sent" ELSE call[d].step
                     /\ call'[d].by = IF d = c THEN f ELSE call[d].by
                     /\ call'[d].set = call'[d].before.has
                     /\ call'[d].saw \subseteq done
    OBVIOUS
  <2>1. CASE d = c
    BY <2>1, <1>2, <1>3
  <2>2. CASE d # c
    <3>1. call'[d] = mix[d] \/ call'[d] = [mix[d] EXCEPT !.heard = FALSE]
      BY <2>2, <1>3
    <3>2. mix[d] \in CallType
      BY <1>4 DEF CallsType
    <3>3. /\ call'[d] \in CallType /\ call'[d].step = mix[d].step /\ call'[d].by = mix[d].by
          /\ call'[d].set = mix[d].set /\ call'[d].before = mix[d].before
          /\ call'[d].saw = mix[d].saw
      BY <3>1, <3>2 DEF CallType
    <3>4. call[d].set = call[d].before.has /\ call[d].saw \subseteq done
      OBVIOUS
    <3> QED BY <2>2, <3>3, <3>4, <1>4
  <2> QED BY <2>1, <2>2
<1>6. CallsTyped
  <2>1. done' = done /\ c \notin done
    BY <1>1 DEF Submit
  <2>2. call' \in CallsType
    BY <1>3, <1>5 DEF CallsType
  <2> QED BY <1>1, <1>5, <2>1, <2>2 DEF CallsTyped
<1>7. answer' \in AnswerType
  BY <1>1, SetDataType, InvalidateType DEF Submit
<1>8. fetch' \in FetchType
  BY FetchTypes DEF Submit
<1>9. mishaps' \subseteq Texts
  BY DEF Submit, Mark, Freshened, Older, Texts
<1> QED
  BY <1>6, <1>7, <1>8, <1>9, SameTypes DEF Submit

LEMMA MixNothing ==
    ASSUME call \in CallsType, NEW c
    PROVE  Mix(call, {}, c) = call
BY DEF CallsType, Mix

LEMMA CallStepType ==
    ASSUME NEW q \in CallType, NEW s \in Steps
    PROVE  [q EXCEPT !.step = s] \in CallType
BY DEF CallType

(* A step of call c, after a write that mixes the others.                   *)
Stepped(S, x, c, s) == [Mix(call, S, x) EXCEPT ![c].step = s]

LEMMA StepType ==
    ASSUME call \in CallsType, NEW S, NEW x, NEW c \in Changes, NEW s \in Steps
    PROVE  /\ Stepped(S, x, c, s) \in CallsType
           /\ Stepped(S, x, c, s)[c].step = s
           /\ \A d \in Changes :
                  /\ d # c => Stepped(S, x, c, s)[d].step = call[d].step
                  /\ Stepped(S, x, c, s)[d].by = call[d].by
                  /\ Stepped(S, x, c, s)[d].set = call[d].set
                  /\ Stepped(S, x, c, s)[d].before = call[d].before
                  /\ Stepped(S, x, c, s)[d].saw = call[d].saw
                  /\ Stepped(S, x, c, s)[d].heard = call[d].heard
                  /\ Stepped(S, x, c, s)[d].mine = call[d].mine
                  /\ Stepped(S, x, c, s)[d].rooms = call[d].rooms
                  /\ call[d].mixed => Stepped(S, x, c, s)[d].mixed
                  /\ watched \in S /\ d # x /\ d \in InFlight =>
                         Stepped(S, x, c, s)[d].mixed
<1> DEFINE m == Mix(call, S, x)
           n == [m EXCEPT ![c].step = s]
<1>1. /\ m \in CallsType
      /\ \A d \in Changes :
                  /\ m[d].step = call[d].step /\ m[d].by = call[d].by
                  /\ m[d].set = call[d].set /\ m[d].before = call[d].before
                  /\ m[d].heard = call[d].heard /\ m[d].saw = call[d].saw
                  /\ m[d].mine = call[d].mine /\ m[d].rooms = call[d].rooms
                  /\ call[d].mixed => m[d].mixed
                  /\ watched \in S /\ d # x /\ d \in InFlight => m[d].mixed
  BY MixType
<1> HIDE DEF m
<1>2. n = [d \in Changes |-> IF d = c THEN [m[c] EXCEPT !.step = s] ELSE m[d]]
  BY <1>1 DEF CallsType
<1>3. \A d \in Changes : /\ n[d] \in CallType
                         /\ n[d].step = IF d = c THEN s ELSE m[d].step
                         /\ n[d].by = m[d].by /\ n[d].set = m[d].set /\ n[d].before = m[d].before
                         /\ n[d].heard = m[d].heard /\ n[d].mixed = m[d].mixed
                         /\ n[d].mine = m[d].mine /\ n[d].rooms = m[d].rooms
                         /\ n[d].saw = m[d].saw
  <2> SUFFICES ASSUME NEW d \in Changes
               PROVE /\ n[d] \in CallType
                     /\ n[d].step = IF d = c THEN s ELSE m[d].step
                     /\ n[d].by = m[d].by /\ n[d].set = m[d].set /\ n[d].before = m[d].before
                     /\ n[d].heard = m[d].heard /\ n[d].mixed = m[d].mixed
                     /\ n[d].mine = m[d].mine /\ n[d].rooms = m[d].rooms
                     /\ n[d].saw = m[d].saw
    BY Zenon
  <2>1. m[d] \in CallType
    BY <1>1 DEF CallsType
  <2>2. CASE d = c
    <3>1. n[d] = [m[d] EXCEPT !.step = s]
      BY <2>2, <1>2
    <3>2. n[d] \in CallType
      BY <2>1, <3>1, CallStepType
    <3>3. n[d].step = s /\ n[d].by = m[d].by /\ n[d].before = m[d].before
      BY <2>1, <3>1, ZenonT(40) DEF CallType
    <3>4. n[d].set = m[d].set
      BY <2>1, <3>1, ZenonT(40) DEF CallType
    <3>5. n[d].heard = m[d].heard /\ n[d].mixed = m[d].mixed
      BY <2>1, <3>1, ZenonT(40) DEF CallType
    <3>6. n[d].mine = m[d].mine /\ n[d].rooms = m[d].rooms
      BY <2>1, <3>1, ZenonT(40) DEF CallType
    <3>7. n[d].saw = m[d].saw
      BY <2>1, <3>1, ZenonT(40) DEF CallType
    <3> QED BY <2>2, <3>2, <3>3, <3>4, <3>5, <3>6, <3>7
  <2>3. CASE d # c
    <3>1. n[d] = m[d]
      BY <2>3, <1>2
    <3> QED BY <2>1, <2>3, <3>1
  <2> QED BY <2>2, <2>3
<1>4. n \in CallsType
  BY <1>2, <1>3 DEF CallsType
<1>5. \A d \in Changes : /\ call[d].mixed => n[d].mixed
                         /\ watched \in S /\ d # x /\ d \in InFlight => n[d].mixed
  <2>1. \A d \in Changes : n[d].mixed = m[d].mixed
    BY <1>3
  <2> QED BY <1>1, <2>1
<1> HIDE DEF n
<1>6. /\ n \in CallsType
      /\ n[c].step = s
      /\ \A d \in Changes :
             /\ d # c => n[d].step = call[d].step
             /\ n[d].by = call[d].by /\ n[d].set = call[d].set /\ n[d].before = call[d].before
             /\ n[d].heard = call[d].heard
             /\ n[d].mine = call[d].mine /\ n[d].rooms = call[d].rooms
             /\ n[d].saw = call[d].saw
             /\ call[d].mixed => n[d].mixed
             /\ watched \in S /\ d # x /\ d \in InFlight => n[d].mixed
  BY <1>1, <1>3, <1>4, <1>5
<1> QED BY <1>6, Zenon DEF n, m, Stepped

LEMMA StepTyped ==
    ASSUME TypeInv, NEW S, NEW x, NEW c \in Changes, NEW s \in Steps,
           call' = Stepped(S, x, c, s), call[c].step # "unused",
           done \subseteq done', done' \subseteq done \cup {c}, c \in done' => s \in {"applied", "over"}
    PROVE  CallsTyped
<1>1. /\ call' \in CallsType
      /\ call'[c].step = s
      /\ \A d \in Changes : /\ d # c => call'[d].step = call[d].step
                            /\ call'[d].by = call[d].by
                            /\ call'[d].set = call[d].set
                            /\ call'[d].before = call[d].before
                            /\ call'[d].saw = call[d].saw
  <2>1. call' = Stepped(S, x, c, s)
    OBVIOUS
  <2>2. call \in CallsType
    BY Typed
  <2>3. call' \in CallsType /\ call'[c].step = s
    BY <2>1, <2>2, StepType
  <2>4. \A d \in Changes : d # c => call'[d].step = call[d].step
    BY <2>1, <2>2, StepType
  <2>5. \A d \in Changes : call'[d].by = call[d].by
    BY <2>1, <2>2, StepType
  <2>6. \A d \in Changes : call'[d].set = call[d].set
    BY <2>1, <2>2, StepType
  <2>7. \A d \in Changes : call'[d].before = call[d].before
    BY <2>1, <2>2, StepType
  <2>8. \A d \in Changes : call'[d].saw = call[d].saw
    BY <2>1, <2>2, StepType
  <2> QED BY <2>3, <2>4, <2>5, <2>6, <2>7, <2>8
<1>2. \A d \in Changes : call'[d].set = call'[d].before.has
  BY <1>1, Typed
<1>3. \A d \in Changes : call'[d].step # "unused" => call'[d].by \in Forms
  BY <1>1, Typed
<1>4. done' \subseteq {d \in Changes : call'[d].step \in {"applied", "over"}}
  BY <1>1, Typed
<1>5. \A d \in Changes : call'[d].saw \subseteq done'
  BY <1>1, Typed
<1> QED BY <1>1, <1>2, <1>3, <1>4, <1>5 DEF CallsTyped

(* The server makes a change; what it is owed is where the user is then.    *)
LEMMA ApplyTyped ==
    ASSUME TypeInv, NEW c \in Changes, Apply(c)
    PROVE  /\ CallsTyped
           /\ call'[c].step = IF call[c].step = "sent" THEN "applied" ELSE "over"
           /\ call'[c].by = call[c].by /\ call'[c].set = call[c].set
           /\ call'[c].before = call[c].before /\ call'[c].mixed = call[c].mixed
           /\ call'[c].heard = call[c].heard /\ call'[c].mine = call[c].mine
           /\ call'[c].rooms = At[place].rooms
           /\ Own(c)' => c \in call'[c].saw
           /\ \A d \in Changes \ {c} : call'[d] = call[d]
<1> DEFINE s == IF call[c].step = "sent" THEN "applied" ELSE "over"
           w == {d \in done' : Affected(call[d].by)}
           n == [call[c] EXCEPT !.step = s, !.rooms = At[place].rooms, !.saw = w]
<1>0. call \in CallsType /\ call[c] \in CallType /\ place \in Places
  BY Typed DEF CallsType
<1>1. call' = [call EXCEPT ![c] = n] /\ done' = done \cup {c} /\ call[c].step \in {"sent", "late"}
  BY <1>0 DEF Apply, CallsType
<1>2. s \in {"applied", "over"} /\ s \in Steps
  BY DEF Steps
<1>11. w \subseteq done' /\ w \subseteq Changes /\ (Own(c) => c \in w)
  BY <1>1, Typed DEF Own
<1> HIDE DEF w
<1>3. n \in CallType /\ n.step = s /\ n.by = call[c].by /\ n.set = call[c].set
      /\ n.before = call[c].before /\ n.saw = w
  BY <1>0, <1>2, <1>11 DEF CallType, RoomSets
<1>4. n.mixed = call[c].mixed /\ n.heard = call[c].heard /\ n.mine = call[c].mine
      /\ n.rooms = At[place].rooms
  BY <1>0, <1>2 DEF CallType
<1> HIDE DEF n
<1>5. call'[c] = n /\ \A d \in Changes \ {c} : call'[d] = call[d]
  BY <1>0, <1>1 DEF CallsType
<1>6. call' \in CallsType
  BY <1>0, <1>1, <1>3 DEF CallsType
<1>7. \A d \in Changes : call'[d].set = call'[d].before.has
  BY <1>3, <1>5, Typed
<1>8. \A d \in Changes : call'[d].step # "unused" => call'[d].by \in Forms
  BY <1>1, <1>3, <1>5, Typed
<1>9. done' \subseteq {d \in Changes : call'[d].step \in {"applied", "over"}}
  BY <1>1, <1>2, <1>3, <1>5, Typed
<1>12. \A d \in Changes : call'[d].saw \subseteq done'
  BY <1>1, <1>3, <1>5, <1>11, Typed
<1>10. CallsTyped
  BY <1>6, <1>7, <1>8, <1>9, <1>12 DEF CallsTyped
<1>13. Own(c)' => Own(c)
  <2>1. watched' = watched /\ call'[c].by = call[c].by
    BY <1>3, <1>5 DEF Apply
  <2> QED BY <2>1 DEF Own, Affected
<1> QED BY <1>3, <1>4, <1>5, <1>10, <1>11, <1>13

(* Calls that only stop to be heard.                                        *)
LEMMA UnheardTyped ==
    ASSUME TypeInv, NEW G, done' = done,
           call' = [c \in Changes |-> IF c \in G THEN [call[c] EXCEPT !.heard = FALSE] ELSE call[c]]
    PROVE  /\ CallsTyped
           /\ \A c \in Changes :
                  /\ call'[c].step = call[c].step /\ call'[c].by = call[c].by
                  /\ call'[c].set = call[c].set /\ call'[c].before = call[c].before
                  /\ call'[c].mixed = call[c].mixed /\ call'[c].saw = call[c].saw
                  /\ call'[c].mine = call[c].mine /\ call'[c].rooms = call[c].rooms
                  /\ c \notin G => call'[c].heard = call[c].heard
<1>1. \A c \in Changes :
          /\ call'[c] \in CallType
          /\ call'[c].step = call[c].step /\ call'[c].by = call[c].by
          /\ call'[c].set = call[c].set /\ call'[c].before = call[c].before
          /\ call'[c].mixed = call[c].mixed /\ call'[c].saw = call[c].saw
          /\ call'[c].mine = call[c].mine /\ call'[c].rooms = call[c].rooms
          /\ c \notin G => call'[c].heard = call[c].heard
  <2> SUFFICES ASSUME NEW c \in Changes
               PROVE  /\ call'[c] \in CallType
                      /\ call'[c].step = call[c].step /\ call'[c].by = call[c].by
                      /\ call'[c].set = call[c].set /\ call'[c].before = call[c].before
                      /\ call'[c].mixed = call[c].mixed /\ call'[c].saw = call[c].saw
                      /\ call'[c].mine = call[c].mine /\ call'[c].rooms = call[c].rooms
                      /\ c \notin G => call'[c].heard = call[c].heard
    BY Zenon
  <2>1. call[c] \in CallType
    BY Typed DEF CallsType
  <2> QED BY <2>1 DEF CallType
<1>2. \A c \in Changes : call'[c].set = call'[c].before.has /\ call'[c].saw \subseteq done'
  BY <1>1, Typed
<1> QED BY <1>1, <1>2, Typed DEF CallsType, CallsTyped

LEMMA LeaveTyped ==
    ASSUME TypeInv, NEW e, Leave(e)
    PROVE  /\ CallsTyped
           /\ \A d \in Changes :
                  /\ call'[d].step = call[d].step /\ call'[d].by = call[d].by
                  /\ call'[d].set = call[d].set /\ call'[d].before = call[d].before
                  /\ call'[d].mine = call[d].mine /\ call'[d].rooms = call[d].rooms
                  /\ call'[d].saw = call[d].saw
                  /\ call[d].mixed => call'[d].mixed
                  /\ d \in InFlight => call'[d].mixed
<1> DEFINE m == Mix(call, {watched}, 0)
           G == {c \in InFlight : Does[call[c].by].lives = "screen"}
<1>0. 0 \notin Changes /\ done' = done
  BY DEF Changes, Leave
<1>1. /\ m \in CallsType
      /\ \A d \in Changes :
             /\ m[d].step = call[d].step /\ m[d].by = call[d].by
             /\ m[d].set = call[d].set /\ m[d].before = call[d].before
             /\ m[d].mine = call[d].mine /\ m[d].rooms = call[d].rooms
             /\ m[d].saw = call[d].saw
             /\ call[d].mixed => m[d].mixed
             /\ d \in InFlight => m[d].mixed
  BY <1>0, Typed, MixType
<1>2. call' = [c \in Changes |-> IF c \in G THEN [m[c] EXCEPT !.heard = FALSE] ELSE m[c]]
  BY DEF Leave
<1> HIDE DEF m, G
<1>3. \A d \in Changes :
          /\ call'[d] \in CallType
          /\ call'[d].step = m[d].step /\ call'[d].by = m[d].by
          /\ call'[d].set = m[d].set /\ call'[d].before = m[d].before
          /\ call'[d].mine = m[d].mine /\ call'[d].rooms = m[d].rooms
          /\ call'[d].mixed = m[d].mixed /\ call'[d].saw = m[d].saw
  <2> SUFFICES ASSUME NEW d \in Changes
               PROVE  /\ call'[d] \in CallType
                      /\ call'[d].step = m[d].step /\ call'[d].by = m[d].by
                      /\ call'[d].set = m[d].set /\ call'[d].before = m[d].before
                      /\ call'[d].mine = m[d].mine /\ call'[d].rooms = m[d].rooms
                      /\ call'[d].mixed = m[d].mixed /\ call'[d].saw = m[d].saw
    OBVIOUS
  <2>1. m[d] \in CallType
    BY <1>1 DEF CallsType
  <2>2. call'[d] = m[d] \/ call'[d] = [m[d] EXCEPT !.heard = FALSE]
    BY <1>2
  <2>3. /\ call'[d] \in CallType
        /\ call'[d].step = m[d].step /\ call'[d].by = m[d].by
        /\ call'[d].set = m[d].set /\ call'[d].before = m[d].before
    BY <2>1, <2>2 DEF CallType
  <2>4. /\ call'[d].mine = m[d].mine /\ call'[d].rooms = m[d].rooms
        /\ call'[d].mixed = m[d].mixed /\ call'[d].saw = m[d].saw
    BY <2>1, <2>2 DEF CallType
  <2> QED BY <2>3, <2>4
<1>4. \A d \in Changes : call'[d].set = call'[d].before.has /\ call'[d].saw \subseteq done'
  BY <1>0, <1>1, <1>3, Typed
<1>5. call' \in CallsType
  BY <1>2, <1>3 DEF CallsType
<1>6. CallsTyped
  BY <1>0, <1>1, <1>3, <1>4, <1>5, Typed DEF CallsTyped
<1> QED BY <1>1, <1>3, <1>6

(* Sockets that close leave typed what is open and on its way.              *)
LEMMA KeepOnlyTyped ==
    ASSUME TypeInv, NEW rooms, KeepOnly(rooms)
    PROVE  online' = rooms /\ feed' \subseteq feed
BY DEF KeepOnly

LEMMA PublishTyped ==
    ASSUME TypeInv, NEW c \in Changes, NEW f, Publish(c, f), done' = done \cup {c}
    PROVE  feed' \subseteq [change : done', after : SUBSET done'] /\ mishaps' \subseteq Texts
<1>1. feed' \subseteq [change : done', after : SUBSET done']
  <2>1. feed' = feed \/ feed' = feed \cup {[change |-> c, after |-> done]}
    BY DEF Publish
  <2>2. feed \subseteq [change : done', after : SUBSET done']
    BY Typed
  <2> QED BY <2>1, <2>2
<1>2. mishaps' \subseteq Texts
  BY Typed DEF Publish, Mark, Texts
<1> QED BY <1>1, <1>2

LEMMA UndoneType ==
    ASSUME TypeInv, NEW c \in Changes
    PROVE  /\ Undone(c) \in AnswerType
           /\ Undone(c).has = IF Undoes(c) /\ ~TakesBack(c) THEN call[c].before.has
                              ELSE answer.has
           /\ Undone(c).shows =
                  IF ~Undoes(c) THEN answer.shows
                  ELSE IF TakesBack(c) THEN answer.shows \ {c}
                  ELSE call[c].before.shows
<1>1. answer \in AnswerType /\ call[c].before \in AnswerType
  BY Typed DEF CallsType, CallType
<1>2. CASE ~Undoes(c)
  BY <1>1, <1>2 DEF Undone
<1>3. CASE Undoes(c) /\ TakesBack(c)
  BY <1>1, <1>3 DEF Undone, AnswerType
<1>4. CASE Undoes(c) /\ ~TakesBack(c)
  BY <1>1, <1>4 DEF Undone, AnswerType
<1> QED BY <1>2, <1>3, <1>4

(* The answer of a call: put into the answer there is, or set as it is.     *)
LEMMA MergedType ==
    ASSUME TypeInv, NEW c \in Changes, NEW S
    PROVE  /\ Merged(c, S) \in AnswerType
           /\ answer.has => Merged(c, S).has
           /\ watched \notin S => Merged(c, S) = answer
           /\ \/ /\ Merged(c, S).has = answer.has /\ answer.shows \subseteq Merged(c, S).shows
                 /\ \A x \in Merged(c, S).shows : x \in answer.shows \/ (x = c /\ watched \in S)
                 /\ answer.has /\ Own(c) /\ watched \in S => c \in Merged(c, S).shows
              \/ watched \in S /\ Merged(c, S).has /\ Merged(c, S).shows = call[c].saw
<1>1. answer \in AnswerType /\ call[c].saw \subseteq Changes
  BY Typed DEF CallsType, CallType
<1>2. CASE watched \in S \cap Does[call[c].by].returns
  <2>1. Merged(c, S) = [answer EXCEPT !.has = TRUE, !.stale = FALSE, !.shows = call[c].saw]
    BY <1>2 DEF Merged
  <2> QED BY <1>1, <1>2, <2>1 DEF AnswerType
<1>3. CASE watched \notin S \cap Does[call[c].by].returns
  <2> DEFINE a == SetData(answer, S, S, c, call[c].by)
  <2>1. Merged(c, S) = a
    BY <1>3 DEF Merged
  <2>2. a \in AnswerType /\ a.has = answer.has /\ answer.shows \subseteq a.shows
    BY <1>1, SetDataType
  <2>3. /\ \A x \in a.shows : x \in answer.shows \/ (x = c /\ watched \in S)
        /\ answer.has /\ Own(c) /\ watched \in S => c \in a.shows
        /\ watched \notin S => a = answer
    BY <1>1 DEF SetData, AnswerType, Own
  <2> QED BY <2>1, <2>2, <2>3
<1> QED BY <1>2, <1>3

LEMMA StepTypes == TypeInv /\ [Next]_vars => TypeInv'
<1> SUFFICES ASSUME TypeInv, [Next]_vars PROVE TypeInv'
  OBVIOUS
<1> USE Typed
<1>1. ASSUME NEW c \in Unmade, NEW f \in At[place].forms, NEW old \in Opened(f), Submit(c, f, old)
      PROVE  TypeInv'
  <2>1. f \in Forms
    BY TablesFit
  <2> QED BY <1>1, <2>1, SubmitTypes
<1>2. ASSUME NEW c \in Unmade, NEW f \in At[place].forms, SubmitFails(c, f) PROVE TypeInv'
  <2>1. f \in Forms /\ c \in Changes /\ call[c].step = "unused" /\ c \notin done
    BY TablesFit DEF Unmade
  <2> DEFINE thrown == [NoCall EXCEPT !.step = "thrown", !.by = f, !.mine = TRUE]
  <2>2. /\ thrown \in CallType /\ thrown.step = "thrown" /\ thrown.by = f /\ thrown.set = thrown.before.has
        /\ thrown.saw = {}
    BY <2>1, NoCallType, NoAnswerType DEF CallType, Steps, NoCall
  <2>3. call' = [call EXCEPT ![c] = thrown] /\ done' = done
    BY <1>2 DEF SubmitFails
  <2> HIDE DEF thrown
  <2>4. \A d \in Changes : call'[d] = IF d = c THEN thrown ELSE call[d]
    BY <2>3 DEF CallsType
  <2>5. call' \in CallsType
    BY <2>2, <2>3 DEF CallsType
  <2>6. \A d \in Changes : call'[d].step # "unused" => call'[d].by \in Forms
    BY <2>1, <2>2, <2>4
  <2>7. \A d \in Changes : call'[d].set = call'[d].before.has /\ call'[d].saw \subseteq done'
    BY <2>2, <2>3, <2>4
  <2>8. CallsTyped
    BY <2>1, <2>3, <2>4, <2>5, <2>6, <2>7 DEF CallsTyped
  <2>9. fetch' \in FetchType /\ mishaps' \subseteq Texts
    BY <1>2, FetchTypes DEF SubmitFails, Mark, Texts
  <2> QED BY <1>2, <2>8, <2>9, SameTypes DEF SubmitFails
<1>3. ASSUME NEW c \in Unmade, NEW f \in Forms, Other(c, f) PROVE TypeInv'
  <2>1. c \in Changes /\ call[c].step = "unused"
    BY DEF Unmade
  <2> DEFINE over == [NoCall EXCEPT !.step = "over", !.by = f, !.rooms = At[place].rooms]
  <2>2. /\ over \in CallType /\ over.step = "over" /\ over.by = f /\ over.set = over.before.has
        /\ over.saw = {}
    BY <2>1, NoCallType, NoAnswerType DEF CallType, Steps, NoCall, RoomSets
  <2>3. call' = [call EXCEPT ![c] = over] /\ done' = done \cup {c}
    BY <1>3 DEF Other
  <2> HIDE DEF over
  <2>4. \A d \in Changes : call'[d] = IF d = c THEN over ELSE call[d]
    BY <2>3 DEF CallsType
  <2>5. call' \in CallsType
    BY <2>2, <2>3 DEF CallsType
  <2>6. \A d \in Changes : call'[d].step # "unused" => call'[d].by \in Forms
    BY <2>1, <2>2, <2>4
  <2>7. \A d \in Changes : call'[d].set = call'[d].before.has /\ call'[d].saw \subseteq done'
    BY <2>2, <2>3, <2>4
  <2>8. CallsTyped
    BY <2>1, <2>2, <2>3, <2>4, <2>5, <2>6, <2>7 DEF CallsTyped
  <2>9. feed' \subseteq [change : done', after : SUBSET done'] /\ mishaps' \subseteq Texts
    BY <1>3, <2>1, <2>3, PublishTyped DEF Other
  <2> QED BY <1>3, <2>3, <2>8, <2>9, SameTypes DEF Other
<1>4. ASSUME NEW c \in Changes, Apply(c) PROVE TypeInv'
  <2>1. done' = done \cup {c}
    BY <1>4 DEF Apply
  <2>2. CallsTyped
    BY <1>4, ApplyTyped
  <2>3. feed' \subseteq [change : done', after : SUBSET done'] /\ mishaps' \subseteq Texts
    BY <1>4, <2>1, PublishTyped DEF Apply
  <2> QED BY <1>4, <2>1, <2>2, <2>3, SameTypes DEF Apply
<1>5. ASSUME NEW c \in Changes, Refuse(c) PROVE TypeInv'
  <2> DEFINE s == IF call[c].step = "sent" THEN "refused" ELSE "over"
  <2>1. call' = Stepped({}, c, c, s) /\ done' = done
        /\ call[c].step # "unused" /\ s \in Steps /\ c \notin done
    BY <1>5, MixNothing DEF Refuse, Steps, Stepped
  <2> HIDE DEF s
  <2>2. CallsTyped
    BY <2>1, StepTyped
  <2> QED BY <1>5, <2>1, <2>2, SameTypes DEF Refuse
<1>6. ASSUME NEW c \in Changes, Answer(c) PROVE TypeInv'
  <2> DEFINE form == Does[call[c].by]
             merges == IF call[c].heard THEN form.merges ELSE {}
             told   == IF call[c].heard THEN form.refreshes ELSE {}
  <2>1. call' = Stepped(merges \cup told, c, c, "over") /\ done' = done
        /\ call[c].step # "unused"
        /\ answer' = Invalidate(Merged(c, merges), told)
        /\ fetch' = Refetch(Overtake(fetch, merges), told)
    BY <1>6 DEF Answer, Stepped
  <2> HIDE DEF merges, told
  <2>2. CallsTyped
    BY <2>1, StepTyped DEF Steps
  <2>3. answer' \in AnswerType
    BY <2>1, MergedType, InvalidateType
  <2>4. fetch' \in FetchType
    BY <2>1, FetchTypes
  <2>5. mishaps' \subseteq Texts
    BY <1>6 DEF Answer, Mark, Freshened, Older, Texts
  <2> QED BY <1>6, <2>1, <2>2, <2>3, <2>4, <2>5, SameTypes DEF Answer
<1>7. ASSUME NEW c \in Changes, Fail(c) PROVE TypeInv'
  <2> DEFINE S == IF Undoes(c) THEN {watched} ELSE {}
  <2>1. call' = Stepped(S, c, c, "over") /\ done' = done
        /\ call[c].step # "unused" /\ c \notin done
    BY <1>7 DEF Fail, Stepped
  <2> HIDE DEF S
  <2>2. CallsTyped
    BY <2>1, StepTyped DEF Steps
  <2>3. answer' \in AnswerType /\ fetch' \in FetchType
    BY <1>7, UndoneType, FetchTypes DEF Fail, Fails
  <2>4. mishaps' \subseteq Texts
    BY <1>7 DEF Fail, Harm, Freshened, Texts
  <2> QED BY <1>7, <2>1, <2>2, <2>3, <2>4, SameTypes DEF Fail
<1>8. ASSUME NEW c \in Changes, GiveUp(c) PROVE TypeInv'
  <2> DEFINE S == IF Undoes(c) THEN {watched} ELSE {}
             s == IF call[c].step = "sent" THEN "late" ELSE "over"
  <2>1. call' = [Mix(call, S, c) EXCEPT ![c].step = IF @ = "sent" THEN "late" ELSE "over"]
        /\ done' = done /\ call[c].step # "unused" /\ (call[c].step = "sent" => c \notin done)
    BY <1>8 DEF GiveUp
  <2>2. Mix(call, S, c)[c].step = call[c].step
    BY MixType
  <2>3. call' = Stepped(S, c, c, s) /\ s \in Steps
        /\ call[c].step # "unused" /\ done' \subseteq done \cup {c} /\ (c \in done' => s = "over")
    BY <2>1, <2>2 DEF Steps, Stepped
  <2> HIDE DEF S, s
  <2>4. CallsTyped
    BY <2>1, <2>3, StepTyped
  <2>5. answer' \in AnswerType /\ fetch' \in FetchType
    BY <1>8, UndoneType, FetchTypes DEF GiveUp, Fails
  <2>6. mishaps' \subseteq Texts
    BY <1>8 DEF GiveUp, Harm, Freshened, Texts
  <2> QED BY <1>8, <2>1, <2>4, <2>5, <2>6, SameTypes DEF GiveUp
<1>9. ASSUME NEW p \in At[place].next, NEW aged \in BOOLEAN, Navigate(p, aged) PROVE TypeInv'
  <2>1. p \in Places /\ place' = p
    BY <1>9, TablesFit DEF Navigate
  <2> DEFINE G == {c \in InFlight : At[p].page # At[place].page /\ Does[call[c].by].lives = "screen"}
             new == [answer EXCEPT !.stale = @ \/ aged]
  <2>2. call' = [c \in Changes |-> IF c \in G THEN [call[c] EXCEPT !.heard = FALSE] ELSE call[c]]
        /\ done' = done
    BY <1>9 DEF Navigate
  <2> HIDE DEF G
  <2>3. CallsTyped
    BY <2>2, UnheardTyped
  <2>4. answer' \in AnswerType
    BY <1>9 DEF Navigate, AnswerType
  <2>5. fetch' \in FetchType
    BY <1>9, FetchTypes DEF Navigate
  <2>6. feed' \subseteq feed /\ online' \subseteq At[p].rooms
    <3> DEFINE open == IF At[p].page = At[place].page THEN online ELSE online \cap At[p].rooms \cap AppRooms
    <3>1. KeepOnly(open)
      BY <1>9 DEF Navigate
    <3>2. open \subseteq At[p].rooms
      BY <2>1, TablesFit
    <3> QED BY <3>1, <3>2, KeepOnlyTyped
  <2>7. mishaps' \subseteq Texts
    BY <1>9 DEF Navigate, Mark, Texts
  <2> QED BY <1>9, <2>1, <2>3, <2>4, <2>5, <2>6, <2>7, SameTypes DEF Navigate
<1>10. ASSUME call' = call, done' = done PROVE CallsTyped
  BY <1>10 DEF CallsTyped
<1>11. ASSUME Poll \/ Read \/ Lose PROVE TypeInv'
  <2>1. watched' = watched /\ place' = place /\ answer' = answer /\ call' = call /\ done' = done
        /\ feed' = feed /\ online' = online
    BY <1>11 DEF Poll, Read, Lose
  <2>2. fetch' \in FetchType
    <3>1. CASE Read
      <4> DEFINE o == fetch.overtaken \/ \E c \in Changes :
                     call[c].step \in {"sent", "late"} /\ Affected(call[c].by)
                 k == {c \in done : Affected(call[c].by)}
      <4>1. fetch' = [step |-> "read", read |-> k, overtaken |-> o]
        BY <3>1 DEF Read
      <4>2. o \in BOOLEAN /\ k \subseteq done
        BY DEF FetchType
      <4> HIDE DEF o, k
      <4> QED BY <4>1, <4>2 DEF FetchType
    <3>2. CASE Poll \/ Lose
      BY <3>2, FetchTypes DEF Poll, Lose
    <3> QED BY <1>11, <3>1, <3>2
  <2>3. mishaps' \subseteq Texts
    BY <1>11 DEF Poll, Read, Lose, Texts
  <2> QED BY <1>10, <2>1, <2>2, <2>3, SameTypes
<1>12. ASSUME Land PROVE TypeInv'
  <2>1. call' = Mix(call, {watched}, 0) /\ done' = done
    BY <1>12 DEF Land
  <2>2. CallsTyped
    <3>1. \A c \in Changes : /\ call'[c].step = call[c].step /\ call'[c].by = call[c].by
                             /\ call'[c].set = call[c].set /\ call'[c].before = call[c].before
                             /\ call'[c].saw = call[c].saw
      BY <2>1, MixType
    <3>2. call' \in CallsType
      BY <2>1, MixType
    <3>3. \A c \in Changes : call'[c].set = call'[c].before.has /\ call'[c].saw \subseteq done'
      BY <2>1, <3>1
    <3> QED BY <2>1, <3>1, <3>2, <3>3 DEF CallsTyped
  <2>3. answer' \in AnswerType
    <3>1. fetch.read \subseteq Changes
      BY DEF FetchType
    <3> QED BY <1>12, <3>1, NoAnswerType DEF Land, AnswerType
  <2>4. fetch' \in FetchType
    BY <1>12, FetchTypes DEF Land
  <2>5. mishaps' \subseteq Texts
    BY <1>12 DEF Land, Texts
  <2> QED BY <1>12, <2>2, <2>3, <2>4, <2>5, SameTypes DEF Land
<1>13. ASSUME NEW e \in First, Deliver(e) PROVE TypeInv'
  <2> DEFINE c == e.change
             h == Reacts(At[place].rooms, Does[call[c].by].event)
             new == SetData(answer, h.sets, h.patches, c, call[c].by)
             strayed == IF watched \in h.strays /\ new.has THEN [new EXCEPT !.shows = @ \cup {c}]
                        ELSE new
  <2>1. /\ answer' = Invalidate(strayed, h.refreshes)
        /\ fetch' = Refetch(Overtake(fetch, h.sets), h.refreshes)
        /\ call' = Mix(call, h.sets \cup h.refreshes, 0)
        /\ done' = done /\ feed' \subseteq feed
    BY <1>13 DEF Deliver
  <2>2. c \in done /\ c \in Changes
    BY DEF First
  <2> HIDE DEF h, c
  <2>3. CallsTyped
    <3>1. \A d \in Changes : /\ call'[d].step = call[d].step /\ call'[d].by = call[d].by
                             /\ call'[d].set = call[d].set /\ call'[d].before = call[d].before
                             /\ call'[d].saw = call[d].saw
      BY <2>1, MixType
    <3>2. call' \in CallsType
      BY <2>1, MixType
    <3>3. \A d \in Changes : call'[d].set = call'[d].before.has /\ call'[d].saw \subseteq done'
      BY <2>1, <3>1
    <3> QED BY <2>1, <3>1, <3>2, <3>3 DEF CallsTyped
  <2>4. answer' \in AnswerType
    <3>1. new \in AnswerType
      BY <2>2, SetDataType
    <3> HIDE DEF new
    <3>2. strayed \in AnswerType
      BY <2>2, <3>1 DEF AnswerType
    <3> QED BY <2>1, <3>2, InvalidateType
  <2>5. fetch' \in FetchType
    BY <2>1, FetchTypes
  <2>6. mishaps' \subseteq Texts
    BY <1>13 DEF Deliver, Freshened, Texts
  <2> QED BY <1>13, <2>1, <2>3, <2>4, <2>5, <2>6, SameTypes DEF Deliver
<1>14. ASSUME NEW e \in First, Leave(e) PROVE TypeInv'
  <2>1. CallsTyped /\ done' = done
    BY <1>14, LeaveTyped DEF Leave
  <2> QED BY <1>14, <2>1, NoAnswerType, FetchTypes, TablesFit, SameTypes DEF Leave
<1>15. ASSUME NEW r \in At[place].rooms, Disconnect(r) \/ Connect(r) PROVE TypeInv'
  <2>1. feed' \subseteq feed /\ online' \subseteq At[place].rooms
    BY <1>15, KeepOnlyTyped DEF Disconnect, Connect
  <2>2. mishaps' \subseteq Texts
    BY <1>15 DEF Disconnect, Connect, Mark, Texts
  <2>3. watched' = watched /\ place' = place /\ answer' = answer /\ fetch' = fetch /\ call' = call
        /\ done' = done
    BY <1>15 DEF Disconnect, Connect
  <2> QED BY <1>10, <2>1, <2>2, <2>3, SameTypes
<1>16. CASE UNCHANGED vars
  BY <1>16 DEF vars, TypeInv, TypeOK, Changes
<1> QED
  BY <1>1, <1>2, <1>3, <1>4, <1>5, <1>6, <1>7, <1>8, <1>9, <1>11, <1>12, <1>13, <1>14, <1>15, <1>16
  DEF Next

(* Every reachable state is typed: what is shown, fetched, on its way or    *)
(* kept to be set back are changes of calls that were made, and what the    *)
(* server has done are applied calls.                                       *)
THEOREM QueryTypes == Spec => []TypeOK
<1>1. Init => TypeInv
  BY InitTypes
<1>2. TypeInv /\ [Next]_vars => TypeInv'
  BY StepTypes
<1>3. TypeInv => TypeOK
  BY DEF TypeInv
<1> QED BY <1>1, <1>2, <1>3, PTL DEF Spec

-----------------------------------------------------------------------------
(* What each step does to the calls, the rows shown and the request, in     *)
(* one place for all the invariants.                                        *)

(* The calls other than c stay as they are, but for the snapshots that a    *)
(* write to S mixes; call c keeps what it was made with.                    *)
Same(d) == /\ call'[d].step = call[d].step /\ call'[d].by = call[d].by
           /\ call'[d].set = call[d].set /\ call'[d].before = call[d].before
           /\ call'[d].mine = call[d].mine /\ call'[d].rooms = call[d].rooms
           /\ call'[d].saw = call[d].saw
Stays(c, S) == \A d \in Changes \ {c} :
    /\ Same(d) /\ (call[d].mixed => call'[d].mixed)
    /\ watched \in S /\ d \in InFlight => call'[d].mixed
Moves(c) == /\ call'[c].by = call[c].by /\ call'[c].set = call[c].set
            /\ call'[c].before = call[c].before /\ (call[c].mixed => call'[c].mixed)
            /\ call'[c].mine = call[c].mine

(* The request goes on, overtaken by a write to S, or is another one that   *)
(* has brought nothing yet.                                                 *)
Goes(S) == \/ fetch'.step # "read" /\ fetch'.read = {}
           \/ /\ fetch'.step = fetch.step /\ fetch'.read = fetch.read
              /\ ~fetch'.overtaken => ~fetch.overtaken /\ (watched \notin S \/ fetch.step = "idle")

LEMMA NotZero == 0 \notin Changes
BY DEF Changes

LEMMA StepDoes ==
    ASSUME TypeInv, NEW S, NEW c \in Changes, NEW s \in Steps,
           call' = Stepped(S, c, c, s)
    PROVE  Stays(c, S) /\ Moves(c) /\ call'[c].step = s /\ call'[c].rooms = call[c].rooms
<1>1. call' = Stepped(S, c, c, s)
  OBVIOUS
<1>2. call \in CallsType
  BY Typed
<1>3. call'[c].step = s
  BY <1>1, <1>2, StepType
<1>4. \A d \in Changes : d # c => call'[d].step = call[d].step
  BY <1>1, <1>2, StepType
<1>5. \A d \in Changes : call'[d].by = call[d].by
  BY <1>1, <1>2, StepType
<1>6. \A d \in Changes : call'[d].set = call[d].set
  BY <1>1, <1>2, StepType
<1>7. \A d \in Changes : call'[d].before = call[d].before
  BY <1>1, <1>2, StepType
<1>8. \A d \in Changes : call[d].mixed => call'[d].mixed
  BY <1>1, <1>2, StepType
<1>9. \A d \in Changes : watched \in S /\ d # c /\ d \in InFlight => call'[d].mixed
  BY <1>1, <1>2, StepType
<1>10. \A d \in Changes : call'[d].mine = call[d].mine
  BY <1>1, <1>2, StepType
<1>11. \A d \in Changes : call'[d].rooms = call[d].rooms /\ call'[d].saw = call[d].saw
  BY <1>1, <1>2, StepType
<1> QED BY <1>3, <1>4, <1>5, <1>6, <1>7, <1>8, <1>9, <1>10, <1>11 DEF Stays, Moves, Same

LEMMA UnheardDoes ==
    ASSUME TypeInv, NEW G, done' = done,
           call' = [c \in Changes |-> IF c \in G THEN [call[c] EXCEPT !.heard = FALSE] ELSE call[c]]
    PROVE  Stays(0, {})
<1>1. \A d \in Changes : call[d].mixed \in BOOLEAN
  BY Typed DEF CallsType, CallType
<1> QED BY <1>1, UnheardTyped DEF Stays, Same

LEMMA MixDoes ==
    ASSUME TypeInv, NEW S, call' = Mix(call, S, 0)
    PROVE  Stays(0, S)
BY Typed, MixType, NotZero DEF Stays, Same

LEMMA CallsRest == ASSUME TypeInv, call' = call PROVE Stays(0, {})
<1>1. \A d \in Changes : call[d].mixed \in BOOLEAN
  BY Typed DEF CallsType, CallType
<1> QED BY <1>1 DEF Stays, Same

(* A form is used.                                                          *)
LEMMA SubmitDoes ==
    ASSUME TypeInv, NEW c \in Unmade, NEW f \in Forms, NEW old \in Opened(f), Submit(c, f, old)
    PROVE  /\ c \in Changes /\ call[c].step = "unused" /\ call'[c].step = "sent" /\ call'[c].by = f
           /\ call'[c].set = (watched \in Does[f].matches /\ old.has)
           /\ call'[c].before = IF call'[c].set THEN old ELSE NoAnswer
           /\ Stays(c, Does[f].matches)
           /\ answer'.has = old.has /\ old.shows \subseteq answer'.shows
           /\ \A x \in answer'.shows : \/ x \in old.shows
                                      \/ /\ x = c /\ old.has /\ Affected(f)
                                         /\ watched \in Does[f].matches /\ watched \in Does[f].patches
           /\ Goes(Does[f].matches)
           /\ done' = done /\ watched' = watched /\ mishaps \subseteq mishaps'
           /\ mishaps' = {} => answer.shows \subseteq answer'.shows
<1>0. /\ answer \in AnswerType /\ fetch \in FetchType
      /\ call \in CallsType
      /\ old \in AnswerType
  BY Typed, OpenedType
<1> DEFINE set  == watched \in Does[f].matches /\ old.has
           sent == [NoCall EXCEPT !.step = "sent", !.by = f, !.mine = TRUE,
                               !.heard = (Does[f].lives # "form"), !.set = set,
                               !.before = IF set THEN old ELSE NoAnswer]
           mix  == Mix(call, Does[f].matches, c)
           gone == {d \in InFlight : call[d].by = f /\ Does[f].lives # "client"}
<1>1. c \in Changes /\ call[c].step = "unused"
  BY DEF Unmade
<1>2. /\ sent.step = "sent" /\ sent.by = f /\ sent.set = set
      /\ sent.before = IF set THEN old ELSE NoAnswer
  BY DEF NoCall
<1>3. call' = [d \in Changes |-> IF d = c THEN sent
               ELSE IF d \in gone THEN [mix[d] EXCEPT !.heard = FALSE] ELSE mix[d]]
  BY Zenon DEF Submit
<1>4. /\ mix \in CallsType
      /\ \A d \in Changes : /\ mix[d].step = call[d].step /\ mix[d].by = call[d].by
                            /\ mix[d].set = call[d].set /\ mix[d].before = call[d].before
                            /\ mix[d].mine = call[d].mine /\ mix[d].rooms = call[d].rooms
                            /\ mix[d].saw = call[d].saw
                            /\ call[d].mixed => mix[d].mixed
                            /\ watched \in Does[f].matches /\ d # c /\ d \in InFlight => mix[d].mixed
  BY <1>0, MixType
<1>5. set \in BOOLEAN
  BY <1>0 DEF AnswerType
<1> HIDE DEF mix, sent, gone
<1>6. Stays(c, Does[f].matches)
  <2> SUFFICES ASSUME NEW d \in Changes \ {c}
               PROVE  /\ Same(d) /\ (call[d].mixed => call'[d].mixed)
                      /\ watched \in Does[f].matches /\ d \in InFlight => call'[d].mixed
    BY DEF Stays
  <2>1. call'[d] = mix[d] \/ call'[d] = [mix[d] EXCEPT !.heard = FALSE]
    BY <1>3
  <2>2. mix[d] \in CallType
    BY <1>4 DEF CallsType
  <2>3. /\ call'[d].step = mix[d].step /\ call'[d].by = mix[d].by
        /\ call'[d].set = mix[d].set /\ call'[d].before = mix[d].before
    BY <2>1, <2>2 DEF CallType
  <2>4. call'[d].mixed = mix[d].mixed
    BY <2>1, <2>2 DEF CallType
  <2>6. call'[d].mine = mix[d].mine /\ call'[d].rooms = mix[d].rooms /\ call'[d].saw = mix[d].saw
    BY <2>1, <2>2 DEF CallType
  <2>5. Same(d)
    BY <1>4, <2>3, <2>6 DEF Same
  <2> QED BY <1>4, <2>4, <2>5
<1>7. call'[c] = sent
  BY <1>1, <1>3
<1>8. Goes(Does[f].matches)
  <2>1. CASE Cancels(f)
    BY <1>0, <2>1, FetchTypes DEF Submit, Goes
  <2>2. CASE ~Cancels(f)
    <3>1. fetch' = Overtake(fetch, Does[f].matches)
      BY <2>2 DEF Submit
    <3> QED BY <1>0, <3>1, FetchTypes DEF Goes
  <2> QED BY <2>1, <2>2
<1>9. /\ answer'.has = old.has
      /\ old.shows \subseteq answer'.shows
      /\ \A x \in answer'.shows : \/ x \in old.shows
                                 \/ /\ x = c /\ old.has /\ Affected(f)
                                    /\ watched \in Does[f].matches /\ watched \in Does[f].patches
  <2> DEFINE a == SetData(old, Does[f].matches, Does[f].patches, c, f)
  <2>1. a \in AnswerType /\ a.has = old.has
        /\ old.shows \subseteq a.shows
        /\ \A x \in a.shows : \/ x \in old.shows
                             \/ /\ x = c /\ old.has /\ Affected(f)
                                /\ watched \in Does[f].matches /\ watched \in Does[f].patches
    <3>1. /\ a \in AnswerType /\ a.has = old.has
          /\ old.shows \subseteq a.shows
      BY <1>0, <1>1, SetDataType
    <3>2. \A x \in a.shows : \/ x \in old.shows
                           \/ /\ x = c /\ old.has /\ Affected(f)
                              /\ watched \in Does[f].matches /\ watched \in Does[f].patches
      BY <1>0, <1>1 DEF SetData, AnswerType
    <3> QED BY <3>1, <3>2
  <2>2. answer' = Spread(a, Does[f].spreads)
    BY DEF Submit
  <2> HIDE DEF a
  <2> QED BY <2>1, <2>2, InvalidateType
<1>10. done' = done /\ watched' = watched /\ mishaps \subseteq mishaps'
  BY DEF Submit, Mark
<1>13. mishaps' = {} => answer.shows \subseteq answer'.shows
  <2>1. answer.shows \subseteq Changes
    BY <1>0 DEF AnswerType
  <2>2. mishaps' = {} => Older(answer') = {}
    BY DEF Submit
  <2> QED BY <2>1, <2>2 DEF Older
<1>11. call'[c].set = (watched \in Does[f].matches /\ old.has)
  BY <1>2, <1>7
<1>12. call'[c].before = IF call'[c].set THEN old ELSE NoAnswer
  BY <1>2, <1>7
<1> QED
  BY <1>1, <1>2, <1>6, <1>7, <1>8, <1>9, <1>10, <1>11, <1>12, <1>13

(* A call fails before it is made, or somebody else changes something.      *)
LEMMA OtherDoes ==
    ASSUME TypeInv, NEW c \in Unmade, NEW f \in Forms, SubmitFails(c, f) \/ Other(c, f)
    PROVE  /\ c \in Changes /\ call[c].step = "unused" /\ call'[c].step \in {"thrown", "over"}
           /\ call'[c].by = f /\ call'[c].before = NoAnswer /\ call'[c].set = FALSE
           /\ call'[c].step = "thrown" => done' = done
           /\ call'[c].step = "over" => done' = done \cup {c}
           /\ Stays(c, {}) /\ answer' = answer /\ Goes({})
           /\ watched' = watched /\ mishaps \subseteq mishaps'
<1> USE Typed
<1>1. c \in Changes /\ call[c].step = "unused"
  BY DEF Unmade
<1> DEFINE thrown == [NoCall EXCEPT !.step = "thrown", !.by = f, !.mine = TRUE]
           over == [NoCall EXCEPT !.step = "over", !.by = f, !.rooms = At[place].rooms]
<1>2. /\ thrown.step = "thrown" /\ thrown.by = f /\ thrown.before = NoAnswer /\ thrown.set = FALSE
      /\ over.step = "over" /\ over.by = f /\ over.before = NoAnswer /\ over.set = FALSE
  BY DEF NoCall
<1>3. \/ call' = [call EXCEPT ![c] = thrown] /\ done' = done
      \/ call' = [call EXCEPT ![c] = over] /\ done' = done \cup {c}
  BY DEF SubmitFails, Other
<1> HIDE DEF thrown, over
<1>4. \A d \in Changes \ {c} : call'[d] = call[d] /\ call[d].mixed \in BOOLEAN
  BY <1>3 DEF CallsType, CallType
<1>5. Stays(c, {})
  BY <1>4 DEF Stays, Same
<1>6. /\ call'[c].step \in {"thrown", "over"}
      /\ call'[c].by = f /\ call'[c].before = NoAnswer /\ call'[c].set = FALSE
      /\ call'[c].step = "thrown" => done' = done
      /\ call'[c].step = "over" => done' = done \cup {c}
  BY <1>1, <1>2, <1>3 DEF CallsType
<1>7. fetch.overtaken \in BOOLEAN
  BY DEF FetchType
<1>8. Goes({})
  BY <1>7, FetchTypes DEF SubmitFails, Other, Goes
<1>9. answer' = answer /\ watched' = watched /\ mishaps \subseteq mishaps'
  BY DEF SubmitFails, Other, Publish, Mark
<1> QED BY <1>1, <1>5, <1>6, <1>8, <1>9

(* The server makes a change or refuses it.                                 *)
LEMMA ServerDoes ==
    ASSUME TypeInv, NEW c \in Changes, Apply(c) \/ Refuse(c)
    PROVE  /\ call[c].step \in {"sent", "late"}
           /\ call'[c].step \in {"applied", "refused", "over"}
           /\ call'[c].step = "refused" => call[c].step = "sent"
           /\ done' = done \cup {c} \/ done' = done
           /\ call'[c].step = "applied" => c \in done' /\ (Own(c)' => c \in call'[c].saw)
           /\ call'[c].step = "refused" => done' = done
           /\ call[c].step = "sent" <=> call'[c].step # "over"
           /\ Stays(c, {}) /\ Moves(c)
           /\ answer' = answer /\ fetch' = fetch /\ watched' = watched /\ mishaps \subseteq mishaps'
<1>0. /\ answer' = answer /\ fetch' = fetch /\ watched' = watched /\ mishaps \subseteq mishaps'
      /\ call[c].step \in {"sent", "late"}
  BY DEF Apply, Refuse, Publish, Mark
<1>1. CASE Apply(c)
  <2>1. done' = done \cup {c}
    BY <1>1 DEF Apply
  <2>2. \A d \in Changes : call[d].mixed \in BOOLEAN
    BY Typed DEF CallsType, CallType
  <2>3. Moves(c) /\ call'[c].step = IF call[c].step = "sent" THEN "applied" ELSE "over"
    BY <1>1, <2>2, ApplyTyped DEF Moves
  <2>4. Stays(c, {})
    BY <1>1, <2>2, ApplyTyped DEF Stays, Same
  <2>5. Own(c)' => c \in call'[c].saw
    BY <1>1, ApplyTyped
  <2> QED BY <1>0, <2>1, <2>3, <2>4, <2>5
<1>2. CASE Refuse(c)
  <2> DEFINE s == IF call[c].step = "sent" THEN "refused" ELSE "over"
  <2>1. call' = Stepped({}, c, c, s) /\ done' = done
    BY <1>2, Typed, MixNothing DEF Refuse, Stepped
  <2>2. s \in Steps
    BY DEF Steps
  <2>3. Stays(c, {}) /\ Moves(c) /\ call'[c].step = s
    BY <2>1, <2>2, StepDoes
  <2> QED BY <1>0, <2>1, <2>3
<1> QED BY <1>1, <1>2

(* A call is answered.                                                      *)
LEMMA AnswerDoes ==
    ASSUME TypeInv, NEW c \in Changes, Answer(c)
    PROVE  /\ call[c].step = "applied" /\ call'[c].step = "over" /\ Moves(c)
           /\ call'[c].rooms = call[c].rooms
           /\ \E S : /\ Stays(c, S) /\ Goes(S)
                     /\ \A x \in answer'.shows : x \in answer.shows \/ ((x = c \/ x \in done) /\ watched \in S)
           /\ answer.has => answer'.has
           /\ mishaps' = {} => answer.shows \subseteq answer'.shows
           /\ done' = done /\ watched' = watched /\ mishaps \subseteq mishaps'
<1>0. /\ answer \in AnswerType /\ fetch \in FetchType /\ call \in CallsType
      /\ call[c].saw \subseteq done
  BY Typed
<1> DEFINE form == Does[call[c].by]
           merges == IF call[c].heard THEN form.merges ELSE {}
           told   == IF call[c].heard THEN form.refreshes ELSE {}
<1>1. /\ call' = Stepped(merges \cup told, c, c, "over")
      /\ answer' = Invalidate(Merged(c, merges), told)
      /\ fetch' = Refetch(Overtake(fetch, merges), told)
  BY DEF Answer, Stepped
<1>2. /\ call[c].step = "applied"
      /\ done' = done /\ watched' = watched /\ mishaps \subseteq mishaps'
      /\ Older(answer') \subseteq mishaps'
  BY DEF Answer, Mark
<1> HIDE DEF merges, told
<1>3. "over" \in Steps
  BY DEF Steps
<1>4. /\ Stays(c, merges \cup told) /\ Moves(c) /\ call'[c].step = "over"
      /\ call'[c].rooms = call[c].rooms
  BY <1>1, <1>3, StepDoes
<1>5. /\ answer.has => answer'.has
      /\ mishaps' = {} => answer.shows \subseteq answer'.shows
      /\ \A x \in answer'.shows : x \in answer.shows \/ ((x = c \/ x \in done) /\ watched \in merges \cup told)
  <2> DEFINE a == Merged(c, merges)
  <2>1. /\ a \in AnswerType /\ (answer.has => a.has)
        /\ \A x \in a.shows : x \in answer.shows \/ ((x = c \/ x \in done) /\ watched \in merges)
    BY <1>0, MergedType
  <2>2. mishaps' = {} => answer.shows \subseteq answer'.shows
    BY <1>0, <1>2 DEF Older, AnswerType
  <2>3. answer' = Invalidate(a, told)
    BY <1>1
  <2> HIDE DEF a
  <2>4. answer'.shows = a.shows /\ answer'.has = a.has
    BY <2>1, <2>3, InvalidateType
  <2> QED BY <2>1, <2>2, <2>4
<1>6. Goes(merges \cup told)
  <2>1. Overtake(fetch, merges) \in FetchType
    BY <1>0, FetchTypes
  <2>2. fetch' = Asked \/ fetch' = Overtake(Overtake(fetch, merges), told)
    BY <1>1 DEF Refetch
  <2>3. CASE fetch' = Asked
    BY <2>3, <1>0, FetchTypes DEF Goes
  <2>4. CASE fetch' = Overtake(Overtake(fetch, merges), told)
    <3> DEFINE o == Overtake(fetch, merges)
    <3>1. /\ o.step = fetch.step /\ o.read = fetch.read
          /\ ~o.overtaken => ~fetch.overtaken /\ (watched \notin merges \/ fetch.step = "idle")
      BY <1>0, FetchTypes
    <3>2. /\ fetch'.step = o.step /\ fetch'.read = o.read
          /\ ~fetch'.overtaken => ~o.overtaken /\ (watched \notin told \/ o.step = "idle")
      BY <2>1, <2>4, FetchTypes
    <3> HIDE DEF o
    <3> QED BY <3>1, <3>2 DEF Goes
  <2> QED BY <2>2, <2>3, <2>4
<1> QED BY <1>2, <1>4, <1>5, <1>6

(* A call fails, or is given up: the answer is set back, or left.           *)
LEMMA FailDoes ==
    ASSUME TypeInv, NEW c \in Changes, Fail(c) \/ GiveUp(c)
    PROVE  /\ call[c].step \in {"refused", "sent", "applied"} /\ call'[c].step \in {"over", "late"}
           /\ call'[c].step = "late" => call[c].step = "sent"
           /\ call[c].step = "refused" \/ GiveUp(c)
           /\ Moves(c)
           /\ \/ ~Undoes(c) /\ answer' = answer /\ Stays(c, {}) /\ Goes({})
              \/ /\ Undoes(c) /\ Stays(c, {watched}) /\ Goes({watched})
                 /\ \/ answer'.shows = answer.shows \ {c}
                    \/ /\ ~TakesBack(c)
                       /\ answer'.shows = call[c].before.shows
           /\ done' = done /\ watched' = watched /\ mishaps \cup Harm(c) \subseteq mishaps'
           /\ GiveUp(c) /\ (Affected(call[c].by) \/ call[c].set) => "gave up" \in mishaps'
<1>0. /\ answer \in AnswerType /\ fetch \in FetchType /\ call \in CallsType
  BY Typed
<1> DEFINE S == IF Undoes(c) THEN {watched} ELSE {}
           s == IF call[c].step = "sent" THEN "late" ELSE "over"
<1>1. call' = Stepped(S, c, c, s)
  <2>1. Mix(call, S, c)[c].step = call[c].step
    BY <1>0, MixType
  <2> HIDE DEF S
  <2>2. CASE Fail(c)
    BY <2>2 DEF Fail, Stepped, S
  <2>3. CASE GiveUp(c)
    <3>1. call' = [Mix(call, S, c) EXCEPT ![c].step = IF @ = "sent" THEN "late" ELSE "over"]
      BY <2>3 DEF GiveUp, S
    <3> QED BY <2>1, <3>1 DEF Stepped
  <2> QED BY <2>2, <2>3
<1>2. s \in Steps /\ s \in {"over", "late"} /\ (s = "late" => call[c].step = "sent")
  BY DEF Steps
<1> HIDE DEF S, s
<1>3. /\ Stays(c, S) /\ Moves(c) /\ call'[c].step \in {"over", "late"}
      /\ call'[c].step = "late" => call[c].step = "sent"
  BY <1>1, <1>2, StepDoes
<1>4. /\ answer' = Undone(c)
      /\ fetch' = IF Undoes(c) THEN Overtake(fetch, {watched}) ELSE fetch
      /\ done' = done /\ watched' = watched /\ mishaps \cup Harm(c) \subseteq mishaps'
      /\ GiveUp(c) /\ (Affected(call[c].by) \/ call[c].set) => "gave up" \in mishaps'
      /\ call[c].step \in {"refused", "sent", "applied"}
      /\ call[c].step = "refused" \/ GiveUp(c)
  BY DEF Fail, GiveUp, Fails
<1>5. CASE ~Undoes(c)
  <2>1. answer' = answer /\ fetch' = fetch
    BY <1>4, <1>5 DEF Undone
  <2>2. Stays(c, {})
    BY <1>3, <1>5 DEF S
  <2>3. Goes({})
    BY <2>1, <1>0 DEF Goes
  <2> QED BY <1>3, <1>4, <1>5, <2>1, <2>2, <2>3
<1>6. CASE Undoes(c)
  <2>1. Stays(c, {watched})
    BY <1>3, <1>6 DEF S
  <2>2. Goes({watched})
    <3>1. fetch' = Overtake(fetch, {watched})
      BY <1>4, <1>6
    <3> QED BY <1>0, <3>1, FetchTypes DEF Goes
  <2>3. \/ answer'.shows = answer.shows \ {c}
        \/ /\ ~TakesBack(c)
           /\ answer'.shows = call[c].before.shows
    BY <1>4, <1>6, UndoneType
  <2> QED BY <1>3, <1>4, <1>6, <2>1, <2>2, <2>3
<1> QED BY <1>5, <1>6

(* The user goes elsewhere, is signed out, or a socket closes or opens.     *)
LEMMA LeaveDoes ==
    ASSUME TypeInv,
           \/ \E p \in At[place].next, aged \in BOOLEAN : Navigate(p, aged)
           \/ \E e \in First : Leave(e)
           \/ \E r \in At[place].rooms : Disconnect(r) \/ Connect(r)
           \/ Poll \/ Lose
    PROVE  /\ Stays(0, {}) /\ Goes({})
           /\ answer'.shows = answer.shows \/ (answer'.shows = {} /\ answer'.has = FALSE)
           /\ done' = done /\ watched' = watched /\ mishaps \subseteq mishaps'
<1>0. /\ answer \in AnswerType /\ fetch \in FetchType /\ call \in CallsType
  BY Typed
<1>1. CASE \E p \in At[place].next, aged \in BOOLEAN : Navigate(p, aged)
  <2> PICK p \in At[place].next, aged \in BOOLEAN : Navigate(p, aged)
    BY <1>1
  <2> DEFINE G == {c \in InFlight : At[p].page # At[place].page /\ Does[call[c].by].lives = "screen"}
  <2>1. call' = [c \in Changes |-> IF c \in G THEN [call[c] EXCEPT !.heard = FALSE] ELSE call[c]]
        /\ done' = done /\ watched' = watched /\ mishaps \subseteq mishaps'
    BY DEF Navigate, Mark
  <2> HIDE DEF G
  <2>2. Stays(0, {})
    BY <2>1, UnheardDoes
  <2>3. answer'.shows = answer.shows
    BY <1>0 DEF Navigate, AnswerType
  <2>4. fetch' = Asked \/ fetch' = NoFetch \/ fetch' = fetch
    BY DEF Navigate
  <2>5. Goes({})
    BY <1>0, <2>4, FetchTypes DEF Goes
  <2> QED BY <2>1, <2>2, <2>3, <2>5
<1>2. CASE \E e \in First : Leave(e)
  <2> PICK e \in First : Leave(e)
    BY <1>2
  <2>1. done' = done /\ watched' = watched /\ mishaps \subseteq mishaps'
    BY DEF Leave
  <2>2. Stays(0, {})
    BY LeaveTyped DEF Stays, Same
  <2>3. answer'.shows = {} /\ answer'.has = FALSE /\ Goes({})
    BY <1>0, NoAnswerType, FetchTypes DEF Leave, Goes
  <2> QED BY <2>1, <2>2, <2>3
<1>3. CASE \/ \E r \in At[place].rooms : Disconnect(r) \/ Connect(r)
           \/ Poll \/ Lose
  <2>1. /\ call' = call /\ answer' = answer /\ done' = done /\ watched' = watched
        /\ mishaps \subseteq mishaps'
        /\ fetch' = Asked \/ fetch' = NoFetch \/ fetch' = fetch
    BY <1>3 DEF Disconnect, Connect, Poll, Lose, Mark
  <2>2. Goes({})
    BY <1>0, <2>1, FetchTypes DEF Goes
  <2> QED BY <2>1, <2>2, CallsRest
<1> QED BY <1>1, <1>2, <1>3

(* A request is answered, and the answer arrives.                           *)
LEMMA ReadDoes ==
    ASSUME TypeInv, Read
    PROVE  /\ Stays(0, {}) /\ call' = call /\ answer' = answer
           /\ fetch'.step = "read" /\ fetch'.read = {c \in done : Affected(call[c].by)}
           /\ ~fetch'.overtaken => \A c \in Changes :
                  Affected(call[c].by) => call[c].step \notin {"sent", "late"}
           /\ done' = done /\ watched' = watched /\ mishaps' = mishaps
<1> DEFINE o == \E c \in Changes : call[c].step \in {"sent", "late"} /\ Affected(call[c].by)
           k == {c \in done : Affected(call[c].by)}
<1>1. fetch' = [step |-> "read", read |-> k, overtaken |-> fetch.overtaken \/ o]
  BY DEF Read
<1> HIDE DEF o, k
<1>2. fetch'.step = "read" /\ fetch'.read = k /\ (o => fetch'.overtaken)
  BY <1>1
<1>3. /\ call' = call /\ answer' = answer
      /\ done' = done /\ watched' = watched /\ mishaps' = mishaps
  BY DEF Read
<1> QED BY <1>2, <1>3, CallsRest DEF o, k

LEMMA LandDoes ==
    ASSUME TypeInv, Land
    PROVE  /\ fetch.step = "read" /\ Stays(0, {watched}) /\ answer'.shows = fetch.read
           /\ fetch'.step = "idle" /\ fetch'.read = {}
           /\ fetch.overtaken => mishaps' # {}
           /\ ~({c \in done : Affected(call[c].by)} \subseteq fetch.read) => mishaps \subseteq mishaps'
           /\ done' = done /\ watched' = watched
<1>1. /\ fetch.step = "read" /\ answer'.shows = fetch.read
      /\ call' = Mix(call, {watched}, 0) /\ fetch' = NoFetch
      /\ done' = done /\ watched' = watched
  BY NoAnswerType DEF Land, Answered, NoAnswer
<1>2. /\ fetch.overtaken => mishaps' # {}
      /\ ~({c \in done : Affected(call[c].by)} \subseteq fetch.read) => mishaps \subseteq mishaps'
  BY DEF Land
<1>3. fetch'.step = "idle" /\ fetch'.read = {}
  BY <1>1 DEF NoFetch
<1> QED BY <1>1, <1>2, <1>3, MixDoes

(* An event arrives.                                                        *)
LEMMA DeliverDoes ==
    ASSUME TypeInv, NEW e \in First, Deliver(e)
    PROVE  /\ \E S : /\ Stays(0, S) /\ Goes(S)
                     /\ \A x \in answer'.shows :
                            \/ x \in answer.shows
                            \/ x \in done /\ (~Own(x) \/ watched \in S)
           /\ answer'.has = answer.has /\ answer.shows \subseteq answer'.shows
           /\ done' = done /\ watched' = watched /\ mishaps \subseteq mishaps'
<1>0. /\ answer \in AnswerType /\ fetch \in FetchType /\ call \in CallsType
      /\ watched \in Queries /\ place \in Places
  BY Typed
<1> DEFINE c == e.change
           h == Reacts(At[place].rooms, Does[call[c].by].event)
           new == SetData(answer, h.sets, h.patches, c, call[c].by)
           strayed == IF watched \in h.strays /\ new.has THEN [new EXCEPT !.shows = @ \cup {c}]
                      ELSE new
<1>1. /\ answer' = Invalidate(strayed, h.refreshes)
      /\ fetch' = Refetch(Overtake(fetch, h.sets), h.refreshes)
      /\ call' = Mix(call, h.sets \cup h.refreshes, 0)
      /\ done' = done /\ watched' = watched /\ mishaps \subseteq mishaps'
  BY DEF Deliver
<1>2. c \in done /\ c \in Changes
  BY Typed DEF First
<1>3. call[c].by \in Forms
  BY <1>2, Typed
<1>4. watched \in h.strays => ~Own(c)
  BY <1>0, <1>3, TablesFit DEF Own, Affected
<1> HIDE DEF h, c
<1>5. Stays(0, h.sets \cup h.refreshes)
  BY <1>1, MixDoes
<1>6. /\ answer'.has = answer.has /\ answer.shows \subseteq answer'.shows
      /\ \A x \in answer'.shows : \/ x \in answer.shows
                                  \/ x = c /\ watched \in h.sets \cup h.refreshes
                                  \/ x = c /\ ~Own(x)
  <2>1. new \in AnswerType /\ new.has = answer.has /\ answer.shows \subseteq new.shows
    BY <1>0, <1>2, SetDataType
  <2>2. \A x \in new.shows : x \in answer.shows \/ (x = c /\ watched \in h.sets)
    BY <1>0 DEF SetData, AnswerType
  <2> HIDE DEF new
  <2>3. /\ strayed \in AnswerType /\ strayed.has = new.has /\ new.shows \subseteq strayed.shows
        /\ \A x \in strayed.shows : x \in new.shows \/ (x = c /\ watched \in h.strays)
    <3>1. CASE watched \in h.strays /\ new.has
      BY <1>2, <2>1, <3>1 DEF AnswerType
    <3>2. CASE ~(watched \in h.strays /\ new.has)
      BY <2>1, <3>2
    <3> QED BY <3>1, <3>2
  <2> HIDE DEF strayed
  <2>4. answer'.shows = strayed.shows /\ answer'.has = strayed.has
    BY <1>1, <2>3, InvalidateType
  <2> QED BY <1>4, <2>1, <2>2, <2>3, <2>4
<1>7. Goes(h.sets \cup h.refreshes)
  <2>1. Overtake(fetch, h.sets) \in FetchType
    BY <1>0, FetchTypes
  <2>2. fetch' = Asked \/ fetch' = Overtake(Overtake(fetch, h.sets), h.refreshes)
    BY <1>1 DEF Refetch
  <2>3. CASE fetch' = Asked
    BY <2>3, <1>0, FetchTypes DEF Goes
  <2>4. CASE fetch' = Overtake(Overtake(fetch, h.sets), h.refreshes)
    <3> DEFINE o == Overtake(fetch, h.sets)
    <3>1. /\ o.step = fetch.step /\ o.read = fetch.read
          /\ ~o.overtaken => ~fetch.overtaken /\ (watched \notin h.sets \/ fetch.step = "idle")
      BY <1>0, FetchTypes
    <3>2. /\ fetch'.step = o.step /\ fetch'.read = o.read
          /\ ~fetch'.overtaken => ~o.overtaken /\ (watched \notin h.refreshes \/ o.step = "idle")
      BY <2>1, <2>4, FetchTypes
    <3> HIDE DEF o
    <3> QED BY <3>1, <3>2 DEF Goes
  <2> QED BY <2>2, <2>3, <2>4
<1> QED BY <1>1, <1>2, <1>5, <1>6, <1>7

-----------------------------------------------------------------------------
(* How far a call has come.                                                 *)

(* Every step is one of those, by a form of this client where one is used.  *)
LEMMA NextSteps ==
    ASSUME TypeInv, [Next]_vars
    PROVE  \/ \E c \in Unmade, f \in Forms : \E old \in Opened(f) : Submit(c, f, old)
           \/ \E c \in Unmade, f \in Forms : SubmitFails(c, f) \/ Other(c, f)
           \/ \E c \in Changes : Apply(c) \/ Refuse(c)
           \/ \E c \in Changes : Answer(c)
           \/ \E c \in Changes : Fail(c) \/ GiveUp(c)
           \/ \E p \in At[place].next, aged \in BOOLEAN : Navigate(p, aged)
           \/ \E e \in First : Leave(e)
           \/ \E r \in At[place].rooms : Disconnect(r) \/ Connect(r)
           \/ Poll \/ Lose \/ Read \/ Land
           \/ \E e \in First : Deliver(e)
           \/ UNCHANGED vars
<1>1. At[place].forms \subseteq Forms
  BY Typed, TablesFit
<1> QED BY <1>1, Zenon DEF Next

LEMMA MadeKeeps ==
    ASSUME TypeInv, Made, watched' = watched, NEW c \in Changes \cup {0},
           \A d \in Changes \ {c} : Same(d), done' \subseteq done \cup {c}, done \subseteq done',
           c \in Changes =>
               /\ call'[c].step = "applied" => c \in done' /\ (Own(c)' => c \in call'[c].saw)
               /\ call'[c].step \in {"unused", "sent", "refused", "late", "thrown"} => c \notin done'
    PROVE  Made'
<1> SUFFICES ASSUME NEW d \in Changes \ {c}
             PROVE  /\ call'[d].step = "applied" => d \in done' /\ (Own(d)' => d \in call'[d].saw)
                    /\ call'[d].step \in {"unused", "sent", "refused", "late", "thrown"} => d \notin done'
  BY DEF Made
<1>1. Same(d) /\ (Own(d)' <=> Own(d))
  BY DEF Same, Own, Affected
<1> QED BY <1>1 DEF Made, Same

LEMMA MadeSteps == TypeInv /\ Made /\ [Next]_vars => Made'
<1> SUFFICES ASSUME TypeInv, Made, [Next]_vars PROVE Made'
  OBVIOUS
<1>1. ASSUME NEW c \in Unmade, NEW f \in Forms, NEW old \in Opened(f), Submit(c, f, old)
      PROVE  Made'
  <2>1. /\ c \in Changes /\ call[c].step = "unused" /\ call'[c].step = "sent" /\ done' = done
        /\ watched' = watched /\ Stays(c, Does[f].matches)
    BY <1>1, SubmitDoes
  <2> QED BY <2>1, MadeKeeps DEF Made, Stays
<1>2. ASSUME NEW c \in Unmade, NEW f \in Forms, SubmitFails(c, f) \/ Other(c, f) PROVE Made'
  <2>1. /\ c \in Changes /\ call'[c].step \in {"thrown", "over"} /\ call[c].step = "unused"
        /\ call'[c].step = "thrown" => done' = done
        /\ call'[c].step = "over" => done' = done \cup {c}
        /\ Stays(c, {}) /\ watched' = watched
    BY <1>2, OtherDoes
  <2> QED BY <2>1, MadeKeeps DEF Made, Stays
<1>3. ASSUME NEW c \in Changes, Apply(c) \/ Refuse(c) PROVE Made'
  <2>1. /\ call'[c].step \in {"applied", "refused", "over"} /\ call[c].step \in {"sent", "late"}
        /\ done' = done \cup {c} \/ done' = done
        /\ call'[c].step = "applied" => c \in done' /\ (Own(c)' => c \in call'[c].saw)
        /\ call'[c].step = "refused" => done' = done
        /\ Stays(c, {}) /\ watched' = watched
    BY <1>3, ServerDoes
  <2> QED BY <2>1, MadeKeeps DEF Made, Stays
<1>4. ASSUME NEW c \in Changes, Answer(c) PROVE Made'
  <2>1. /\ call'[c].step = "over" /\ \E S : Stays(c, S)
        /\ done' = done /\ watched' = watched
    BY <1>4, AnswerDoes
  <2> QED BY <2>1, MadeKeeps DEF Stays
<1>5. ASSUME NEW c \in Changes, Fail(c) \/ GiveUp(c) PROVE Made'
  <2>1. /\ call'[c].step \in {"over", "late"} /\ \E S : Stays(c, S)
        /\ call'[c].step = "late" => call[c].step = "sent"
        /\ done' = done /\ watched' = watched
    BY <1>5, FailDoes
  <2> QED BY <2>1, MadeKeeps DEF Made, Stays
<1>6. ASSUME NEW S, Stays(0, S), done' = done, watched' = watched PROVE Made'
  BY <1>6, NotZero, MadeKeeps DEF Stays
<1>7. ASSUME NEW e \in First, Deliver(e) PROVE Made'
  BY <1>6, <1>7, DeliverDoes
<1>8. CASE UNCHANGED vars
  BY <1>6, <1>8, CallsRest DEF vars
<1> QED
  BY <1>1, <1>2, <1>3, <1>4, <1>5, <1>6, <1>7, <1>8, LeaveDoes, ReadDoes, LandDoes, NextSteps
-----------------------------------------------------------------------------
(* Rows are those of calls that were made.                                  *)

(* A call that was made keeps its form.                                     *)
FormsStay == /\ watched' = watched
             /\ \A d \in Changes : call[d].step # "unused" =>
                    call'[d].step # "unused" /\ call'[d].by = call[d].by

LEMMA BegunStays == ASSUME FormsStay, NEW x \in Changes, Begun(x) PROVE Begun(x)'
BY DEF FormsStay, Begun

LEMMA BegunKeeps ==
    ASSUME TypeInv, BegunInv, FormsStay,
           \A x \in answer'.shows : x \in Changes /\ (Begun(x) \/ Begun(x)'),
           \A x \in fetch'.read : x \in Changes /\ Begun(x),
           \A d \in Changes : \A x \in call'[d].before.shows :
               x \in call[d].before.shows \/ x \in answer.shows \/ x \in done
    PROVE  BegunInv'
<1>1. \A x \in answer'.shows : Begun(x)'
  BY BegunStays
<1>2. \A x \in fetch'.read : Begun(x)'
  BY BegunStays
<1>3. \A d \in Changes : \A x \in call'[d].before.shows : Begun(x)'
  <2> SUFFICES ASSUME NEW d \in Changes, NEW x \in call'[d].before.shows PROVE Begun(x)'
    OBVIOUS
  <2>1. answer.shows \subseteq Changes /\ call[d].before.shows \subseteq Changes
    BY Typed DEF CallsType, CallType, AnswerType
  <2>2. x \in Changes /\ Begun(x)
    BY <2>1, Typed DEF BegunInv, Begun
  <2> QED BY <2>2, BegunStays
<1> QED BY <1>1, <1>2, <1>3 DEF BegunInv

LEMMA BegunSteps == TypeInv /\ BegunInv /\ [Next]_vars => BegunInv'
<1> SUFFICES ASSUME TypeInv, BegunInv, [Next]_vars PROVE BegunInv'
  OBVIOUS
<1>0. /\ 0 \notin Changes
      /\ answer.shows \subseteq Changes /\ fetch.read \subseteq Changes /\ done \subseteq Changes
      /\ \A d \in Changes : call[d].before.shows \subseteq Changes
  BY NotZero, Typed DEF CallsType, CallType, AnswerType, FetchType
<1>1. \A x \in answer.shows : x \in Changes /\ Begun(x)
  BY <1>0 DEF BegunInv
<1>2. \A x \in fetch.read : x \in Changes /\ Begun(x)
  BY <1>0 DEF BegunInv
<1>3. \A x \in done : x \in Changes /\ call[x].step # "unused"
  BY Typed
<1>4. ASSUME NEW S, Goes(S) PROVE \A x \in fetch'.read : x \in Changes /\ Begun(x)
  BY <1>2, <1>4 DEF Goes
<1>5. ASSUME NEW c \in Unmade, NEW f \in Forms, NEW old \in Opened(f), Submit(c, f, old)
      PROVE  BegunInv'
  <2>1. /\ c \in Changes /\ call[c].step = "unused" /\ call'[c].step = "sent" /\ call'[c].by = f
        /\ call'[c].before = IF call'[c].set THEN old ELSE NoAnswer
        /\ Stays(c, Does[f].matches) /\ Goes(Does[f].matches) /\ watched' = watched
        /\ \A x \in answer'.shows : x \in old.shows \/ x = c
        /\ old.shows \subseteq answer.shows \cup done
    BY <1>5, SubmitDoes, OpenedType
  <2>2. FormsStay
    BY <2>1 DEF FormsStay, Stays, Same
  <2>3. Begun(c)'
    BY <2>1 DEF Begun
  <2>4. \A x \in answer'.shows : x \in Changes /\ (Begun(x) \/ Begun(x)')
    BY <1>1, <1>3, <2>1, <2>3 DEF Begun
  <2>5. \A d \in Changes : \A x \in call'[d].before.shows :
            x \in call[d].before.shows \/ x \in answer.shows \/ x \in done
    BY <2>1, NoAnswerType DEF Stays, Same
  <2>6. \A x \in fetch'.read : x \in Changes /\ Begun(x)
    BY <1>4, <2>1
  <2> QED BY <2>2, <2>4, <2>5, <2>6, BegunKeeps
<1>6. ASSUME NEW c \in Unmade, NEW f \in Forms, SubmitFails(c, f) \/ Other(c, f) PROVE BegunInv'
  <2>1. /\ c \in Changes /\ call[c].step = "unused"
        /\ call'[c].before = NoAnswer /\ Stays(c, {}) /\ answer' = answer /\ Goes({})
        /\ watched' = watched
    BY <1>6, OtherDoes
  <2>2. FormsStay
    BY <2>1 DEF FormsStay, Stays, Same
  <2>3. \A d \in Changes : \A x \in call'[d].before.shows : x \in call[d].before.shows
    BY <2>1, NoAnswerType DEF Stays, Same
  <2>4. \A x \in fetch'.read : x \in Changes /\ Begun(x)
    BY <1>4, <2>1
  <2> QED BY <1>1, <2>1, <2>2, <2>3, <2>4, BegunKeeps
(* The steps of a call that was made, and those of no call.                 *)
<1>7. ASSUME NEW c \in Changes \cup {0}, NEW S, Stays(c, S), watched' = watched,
             c \in Changes => Moves(c) /\ call'[c].step # "unused",
             \A x \in answer'.shows : x \in Changes /\ Begun(x),
             \A x \in fetch'.read : x \in Changes /\ Begun(x)
      PROVE  BegunInv'
  <2>1. FormsStay
    BY <1>7 DEF FormsStay, Stays, Same, Moves
  <2>2. \A d \in Changes : call'[d].before = call[d].before
    BY <1>7 DEF Stays, Same, Moves
  <2> QED BY <1>7, <2>1, <2>2, BegunKeeps
<1>8. ASSUME NEW c \in Changes, Apply(c) \/ Refuse(c) PROVE BegunInv'
  <2>1. Stays(c, {}) /\ Moves(c) /\ call'[c].step # "unused" /\ watched' = watched
        /\ answer' = answer /\ fetch' = fetch
    BY <1>8, ServerDoes
  <2> QED BY <1>1, <1>2, <1>7, <2>1
<1>9. ASSUME NEW c \in Changes, Answer(c) PROVE BegunInv'
  <2>1. /\ call[c].step = "applied" /\ call'[c].step = "over" /\ Moves(c) /\ watched' = watched
        /\ \E S : /\ Stays(c, S) /\ Goes(S)
                  /\ \A x \in answer'.shows : x \in answer.shows \/ x = c \/ x \in done
    BY <1>9, AnswerDoes
  <2>2. PICK S : /\ Stays(c, S) /\ Goes(S)
                 /\ \A x \in answer'.shows : x \in answer.shows \/ x = c \/ x \in done
    BY <2>1
  <2>3. \A x \in answer'.shows : x \in Changes /\ Begun(x)
    BY <1>1, <1>3, <2>1, <2>2 DEF Begun
  <2>4. \A x \in fetch'.read : x \in Changes /\ Begun(x)
    BY <1>4, <2>2
  <2> QED BY <1>7, <2>1, <2>2, <2>3, <2>4
<1>10. ASSUME NEW c \in Changes, Fail(c) \/ GiveUp(c) PROVE BegunInv'
  <2>1. /\ call'[c].step # "unused" /\ Moves(c) /\ watched' = watched
        /\ \E S : Stays(c, S) /\ Goes(S)
        /\ answer'.shows \subseteq answer.shows \/ answer'.shows = call[c].before.shows
    BY <1>10, FailDoes
  <2>2. PICK S : Stays(c, S) /\ Goes(S)
    BY <2>1
  <2>3. \A x \in answer'.shows : x \in Changes /\ Begun(x)
    BY <1>0, <1>1, <2>1 DEF BegunInv
  <2>4. \A x \in fetch'.read : x \in Changes /\ Begun(x)
    BY <1>4, <2>2
  <2> QED BY <1>7, <2>1, <2>2, <2>3, <2>4
<1>11. ASSUME Stays(0, {}), Goes({}), watched' = watched,
              answer'.shows \subseteq answer.shows
       PROVE  BegunInv'
  <2>1. \A x \in answer'.shows : x \in Changes /\ Begun(x)
    BY <1>1, <1>11
  <2>2. \A x \in fetch'.read : x \in Changes /\ Begun(x)
    BY <1>4, <1>11
  <2> QED BY <1>0, <1>7, <1>11, <2>1, <2>2
<1>12. CASE Read
  <2>1. Stays(0, {}) /\ watched' = watched /\ answer' = answer
        /\ fetch'.read = {c \in done : Affected(call[c].by)}
    BY <1>12, ReadDoes
  <2>2. \A x \in fetch'.read : x \in Changes /\ Begun(x)
    BY <1>3, <2>1 DEF Begun
  <2> QED BY <1>0, <1>1, <1>7, <2>1, <2>2
<1>13. CASE Land
  <2>1. Stays(0, {watched}) /\ watched' = watched /\ answer'.shows = fetch.read /\ fetch'.read = {}
    BY <1>13, LandDoes
  <2> QED BY <1>0, <1>2, <1>7, <2>1
<1>14. ASSUME NEW e \in First, Deliver(e) PROVE BegunInv'
  <2>1. /\ \E S : /\ Stays(0, S) /\ Goes(S)
                  /\ \A x \in answer'.shows : x \in answer.shows \/ x \in done
        /\ watched' = watched
    BY <1>14, DeliverDoes
  <2>2. PICK S : /\ Stays(0, S) /\ Goes(S)
                 /\ \A x \in answer'.shows : x \in answer.shows \/ x \in done
    BY <2>1
  <2>3. \A x \in answer'.shows : x \in Changes /\ Begun(x)
    BY <1>1, <1>3, <2>2 DEF Begun
  <2>4. \A x \in fetch'.read : x \in Changes /\ Begun(x)
    BY <1>4, <2>2
  <2> QED BY <1>0, <1>7, <2>1, <2>2, <2>3, <2>4
<1>15. CASE UNCHANGED vars
  <2>1. Stays(0, {}) /\ watched' = watched /\ answer' = answer /\ fetch' = fetch
    BY <1>15, CallsRest DEF vars
  <2> QED BY <1>0, <1>1, <1>2, <1>7, <2>1
<1>16. ASSUME \/ \E p \in At[place].next, aged \in BOOLEAN : Navigate(p, aged)
              \/ \E e \in First : Leave(e)
              \/ \E r \in At[place].rooms : Disconnect(r) \/ Connect(r)
              \/ Poll \/ Lose
       PROVE  BegunInv'
  <2>1. Stays(0, {}) /\ Goes({}) /\ watched' = watched /\ answer'.shows \subseteq answer.shows
    BY <1>16, LeaveDoes
  <2> QED BY <1>11, <2>1
<1> QED
  BY <1>5, <1>6, <1>8, <1>9, <1>10, <1>12, <1>13, <1>14, <1>15, <1>16, NextSteps

LEMMA BegunInit == ASSUME Init PROVE BegunInv /\ Made
<1>1. answer = NoAnswer \/ answer = Answered
  BY DEF Init
<1>2. answer.shows = {} /\ fetch.read = {} /\ done = {}
  BY <1>1, NoAnswerType DEF Init, NoFetch
<1>3. \A c \in Changes : call[c].step = "unused" /\ call[c].before = NoAnswer
  BY NoCallType DEF Init
<1> QED BY <1>2, <1>3, NoAnswerType DEF BegunInv, Made

-----------------------------------------------------------------------------
(* Nothing is invented.                                                     *)

LEMMA ExcuseStays ==
    ASSUME FormsStay, done \subseteq done', mishaps \subseteq mishaps',
           NEW x \in Changes, call[x].step # "unused", Excusable(x), Pending(x) => Excusable(x)'
    PROVE  Excusable(x)'
BY DEF FormsStay, Excusable, Excused

LEMMA PendingStays ==
    ASSUME FormsStay, NEW x \in Changes, Same(x), Pending(x)
    PROVE  Pending(x)'
BY DEF FormsStay, Pending, Same

(* What a step must do, but for an answer that lands, which mends what      *)
(* happened.                                                                *)
LEMMA ShownKeeps ==
    ASSUME TypeInv, BegunInv, ShownInv, FormsStay, done \subseteq done', mishaps \subseteq mishaps',
           NEW c \in Changes \cup {0}, NEW S, Stays(c, S),
           c \in Changes /\ Pending(c) /\ call[c].step # "unused" /\ watched \notin S => Excusable(c)',
           \A x \in answer'.shows : x \in Changes /\ (Excusable(x)' \/ (x \in answer.shows /\ x # c)
                                                     \/ (x \in answer.shows /\ ~Pending(x))),
           \A d \in Changes : d \notin call'[d].before.shows,
           c \in Changes => \/ ~Restorable(c)'
                            \/ Restorable(c) /\ call'[c].before = call[c].before
                            \/ /\ watched \in S /\ ~Pending(c)
                               /\ call'[c].before.shows \subseteq answer.shows \cup done
    PROVE  ShownInv'
<1>1. answer.shows \subseteq Changes /\ \A d \in Changes : call[d].before.shows \subseteq Changes
  BY Typed DEF CallsType, CallType, AnswerType
<1>2. ASSUME NEW x \in Changes, call[x].step # "unused", Excusable(x), x # c \/ ~Pending(x) PROVE Excusable(x)'
  <2>1. Pending(x) => Excusable(x)'
    BY <1>2, PendingStays DEF Stays, Excusable
  <2> QED BY <1>2, <2>1, ExcuseStays
<1>3. \A x \in answer'.shows : Excusable(x)'
  <2> SUFFICES ASSUME NEW x \in answer'.shows, x \in answer.shows, x # c \/ ~Pending(x) PROVE Excusable(x)'
    OBVIOUS
  <2>1. x \in Changes /\ call[x].step # "unused" /\ Excusable(x)
    BY <1>1 DEF BegunInv, Begun, ShownInv
  <2> QED BY <1>2, <2>1
<1>4. \A d \in Changes : Restorable(d)' => \A x \in call'[d].before.shows : Excusable(x)'
  <2> SUFFICES ASSUME NEW d \in Changes, Restorable(d)', NEW x \in call'[d].before.shows
               PROVE  Excusable(x)'
    OBVIOUS
  <2>1. CASE d # c
    <3>1. Restorable(d) /\ call'[d].before = call[d].before /\ watched \notin S
      BY <2>1 DEF Restorable, InFlight, Stays, Same
    <3>2. x \in Changes /\ call[x].step # "unused" /\ Excusable(x)
      BY <1>1, <3>1 DEF BegunInv, Begun, ShownInv
    <3>3. x = c /\ Pending(c) => Excusable(x)'
      BY <3>1, <3>2
    <3> QED BY <1>2, <3>2, <3>3
  <2>2. CASE d = c /\ Restorable(c) /\ call'[c].before = call[c].before
    <3>1. x \in Changes /\ call[x].step # "unused" /\ Excusable(x) /\ x # c
      BY <1>1, <2>2 DEF BegunInv, Begun, ShownInv
    <3> QED BY <1>2, <3>1
  <2>3. CASE d = c /\ call'[c].before.shows \subseteq answer.shows \cup done /\ ~Pending(c)
    <3>1. x \in Changes /\ call[x].step # "unused" /\ Excusable(x)
      BY <1>1, <2>3, Typed DEF BegunInv, Begun, ShownInv, Excusable
    <3> QED BY <1>2, <2>3, <3>1
  <2> QED BY <2>1, <2>2, <2>3
<1> QED BY <1>3, <1>4 DEF ShownInv

LEMMA ShownSteps == TypeInv /\ Made /\ BegunInv /\ ShownInv /\ [Next]_vars => ShownInv'
<1> SUFFICES ASSUME TypeInv, Made, BegunInv, ShownInv, [Next]_vars PROVE ShownInv'
  OBVIOUS
<1>0. /\ 0 \notin Changes
      /\ answer.shows \subseteq Changes /\ fetch.read \subseteq done /\ done \subseteq Changes
      /\ \A d \in Changes : call[d].before.shows \subseteq Changes
      /\ \A d \in Changes : d \notin call[d].before.shows
  BY NotZero, Typed DEF CallsType, CallType, AnswerType, FetchType, ShownInv
<1>1. ASSUME NEW c \in Unmade, NEW f \in Forms, NEW old \in Opened(f), Submit(c, f, old)
      PROVE  ShownInv'
  <2>1. /\ c \in Changes /\ call[c].step = "unused" /\ call'[c].step = "sent" /\ call'[c].by = f
        /\ call'[c].set = (watched \in Does[f].matches /\ old.has)
        /\ call'[c].before = IF call'[c].set THEN old ELSE NoAnswer
        /\ Stays(c, Does[f].matches)
        /\ \A x \in answer'.shows : \/ x \in old.shows
                                    \/ /\ x = c /\ old.has
                                       /\ watched \in Does[f].matches /\ watched \in Does[f].patches
        /\ old.shows \subseteq answer.shows \cup done
        /\ done' = done /\ watched' = watched /\ mishaps \subseteq mishaps'
    BY <1>1, SubmitDoes, OpenedType
  <2>2. FormsStay
    BY <2>1 DEF FormsStay, Stays, Same
  <2>3. ~Pending(c) /\ c \notin answer.shows /\ c \notin done
    BY <2>1 DEF Pending, BegunInv, Begun, Made
  <2>4. old.has /\ watched \in Does[f].matches /\ watched \in Does[f].patches => Excusable(c)'
    BY <2>1 DEF Excusable, Pending
  <2>5. \A x \in answer'.shows : x \in Changes /\ (Excusable(x)' \/ (x \in answer.shows /\ x # c)
                                                     \/ (x \in answer.shows /\ ~Pending(x)))
    <3>1. \A x \in done : x \in Changes /\ Excusable(x)'
      BY <1>0, <2>1 DEF Excusable
    <3> QED BY <1>0, <2>1, <2>3, <2>4, <3>1
  <2>6. call'[c].before.shows \subseteq answer.shows \cup done
    BY <2>1, NoAnswerType
  <2>7. \A d \in Changes : d \notin call'[d].before.shows
    BY <1>0, <2>1, <2>3, <2>6 DEF Stays, Same
  <2>8. Restorable(c)' => watched \in Does[f].matches
    BY <2>1 DEF Restorable
  <2> QED BY <2>1, <2>2, <2>3, <2>5, <2>6, <2>7, <2>8, ShownKeeps
<1>2. ASSUME NEW c \in Unmade, NEW f \in Forms, SubmitFails(c, f) \/ Other(c, f) PROVE ShownInv'
  <2>1. /\ c \in Changes /\ call[c].step = "unused" /\ call'[c].set = FALSE
        /\ call'[c].before = NoAnswer /\ Stays(c, {}) /\ answer' = answer
        /\ watched' = watched /\ mishaps \subseteq mishaps' /\ done \subseteq done'
    BY <1>2, OtherDoes
  <2>2. FormsStay
    BY <2>1 DEF FormsStay, Stays, Same
  <2>3. ~Pending(c) /\ ~Restorable(c)'
    BY <2>1 DEF Pending, Restorable
  <2>4. \A d \in Changes : d \notin call'[d].before.shows
    BY <1>0, <2>1, NoAnswerType DEF Stays, Same
  <2>5. \A x \in answer'.shows : x \in Changes /\ (Excusable(x)' \/ (x \in answer.shows /\ x # c)
                                                     \/ (x \in answer.shows /\ ~Pending(x)))
    BY <1>0, <2>1, <2>3
  <2> QED BY <2>1, <2>2, <2>3, <2>4, <2>5, ShownKeeps
(* The steps of a call that was made.                                       *)
<1>3. ASSUME NEW c \in Changes, NEW S, Stays(c, S), Moves(c), watched' = watched,
             call[c].step # "unused", call'[c].step # "unused",
             done \subseteq done', mishaps \subseteq mishaps',
             Pending(c) /\ (watched \notin S \/ c \in answer'.shows) => Excusable(c)',
             \A x \in answer'.shows : x \in answer.shows \/ (x \in Changes /\ Excusable(x)'),
             Restorable(c)' => Restorable(c)
      PROVE  ShownInv'
  <2>1. FormsStay
    BY <1>3 DEF FormsStay, Stays, Same, Moves
  <2>2. \A d \in Changes : d \notin call'[d].before.shows
    BY <1>0, <1>3 DEF Stays, Same, Moves
  <2>3. call'[c].before = call[c].before
    BY <1>3 DEF Moves
  <2>4. \A x \in answer'.shows : x \in Changes /\ (Excusable(x)' \/ (x \in answer.shows /\ x # c)
                                                     \/ (x \in answer.shows /\ ~Pending(x)))
    BY <1>0, <1>3
  <2> QED BY <1>3, <2>1, <2>2, <2>3, <2>4, ShownKeeps
<1>4. ASSUME NEW c \in Changes, Apply(c) \/ Refuse(c) PROVE ShownInv'
  <2>1. /\ call[c].step \in {"sent", "late"}
        /\ call'[c].step \in {"applied", "refused", "over"}
        /\ done \subseteq done'
        /\ call'[c].step = "applied" => c \in done'
        /\ call[c].step = "sent" <=> call'[c].step # "over"
        /\ call'[c].step = "refused" => call[c].step = "sent"
        /\ Stays(c, {}) /\ Moves(c)
        /\ answer' = answer /\ watched' = watched /\ mishaps \subseteq mishaps'
    BY <1>4, ServerDoes
  <2>2. Pending(c) => Excusable(c)'
    BY <2>1 DEF Pending, Excusable, Moves
  <2>3. CASE call[c].step = "sent"
    <3>1. Restorable(c)' => Restorable(c)
      BY <2>1, <2>3 DEF Restorable, InFlight, Moves
    <3> QED BY <1>3, <2>1, <2>2, <3>1
  <2>4. CASE call[c].step = "late" /\ call'[c].step = "over"
    <3>1. ~Restorable(c)'
      BY <2>4 DEF Restorable, InFlight
    <3> QED BY <1>3, <2>1, <2>2, <3>1
  <2> QED BY <2>1, <2>3, <2>4
<1>5. ASSUME NEW c \in Changes, Answer(c) PROVE ShownInv'
  <2>1. /\ call[c].step = "applied" /\ call'[c].step = "over" /\ Moves(c)
        /\ \E S : /\ Stays(c, S)
                  /\ \A x \in answer'.shows : x \in answer.shows \/ x = c \/ x \in done
        /\ done' = done /\ watched' = watched /\ mishaps \subseteq mishaps'
    BY <1>5, AnswerDoes
  <2>2. PICK S : /\ Stays(c, S)
                 /\ \A x \in answer'.shows : x \in answer.shows \/ x = c \/ x \in done
    BY <2>1
  <2>3. c \in done' /\ \A x \in done : x \in Changes /\ Excusable(x)'
    BY <1>0, <2>1 DEF Made, Excusable
  <2>4. ~Restorable(c)'
    BY <2>1 DEF Restorable, InFlight
  <2>5. \A x \in answer'.shows : x \in answer.shows \/ (x \in Changes /\ Excusable(x)')
    BY <2>1, <2>2, <2>3
  <2>6. Excusable(c)'
    BY <2>3 DEF Excusable
  <2> QED BY <1>3, <2>1, <2>2, <2>4, <2>5, <2>6
<1>6. ASSUME NEW c \in Changes, Fail(c) \/ GiveUp(c) PROVE ShownInv'
  <2>1. /\ call[c].step \in {"refused", "sent", "applied"} /\ call'[c].step \in {"over", "late"}
        /\ call[c].step = "refused" \/ GiveUp(c)
        /\ Moves(c) /\ done' = done /\ watched' = watched
        /\ mishaps \cup Harm(c) \subseteq mishaps'
        /\ GiveUp(c) /\ (Affected(call[c].by) \/ call[c].set) => "gave up" \in mishaps'
    BY <1>6, FailDoes
  <2>2. ~Restorable(c)'
    BY <2>1 DEF Restorable, InFlight
  <2>3. call[c].set /\ GiveUp(c) => Excused'
    BY <2>1 DEF Excused
  <2>4. CASE ~Undoes(c) /\ answer' = answer /\ Stays(c, {})
    <3>1. Pending(c) => Excusable(c)'
      <4> SUFFICES ASSUME Pending(c), ~GiveUp(c) PROVE Excusable(c)'
        BY <2>3 DEF Pending, Excusable
      <4>1. /\ call[c].set /\ call[c].by \in Forms
            /\ Does[call[c].by].matches \cap Does[call[c].by].patches # {}
        BY Typed DEF Pending
      <4>2. CASE call[c].by \in Forgetful
        BY <2>1, <4>2 DEF Excusable, Moves
      <4>3. CASE Does[call[c].by].lives # "form" /\ Does[call[c].by].undo # "none"
        <5>1. NotUndone(c)
          BY <2>4, <4>1, <4>3 DEF Undoes, NotUndone
        <5>2. "not undone" \in Harm(c)
          BY <5>1 DEF Harm
        <5>3. Excused'
          BY <2>1, <5>2 DEF Excused
        <5> QED BY <5>3 DEF Excusable
      <4> QED BY <4>1, <4>2, <4>3, TablesFit
    <3> QED BY <1>3, <2>1, <2>2, <2>4, <3>1
  <2>5. CASE Undoes(c) /\ Stays(c, {watched}) /\ answer'.shows = answer.shows \ {c}
    <3>1. c \notin answer'.shows
      BY <2>5
    <3> QED BY <1>3, <2>1, <2>2, <2>5, <3>1
  <2>6. CASE /\ Undoes(c) /\ Stays(c, {watched}) /\ ~TakesBack(c)
             /\ answer'.shows = call[c].before.shows
    <3>1. call[c].set /\ c \in InFlight /\ call[c].by \in Forms /\ c \notin answer'.shows
      BY <1>0, <2>1, <2>6, Typed DEF Undoes, InFlight
    <3>2. \A x \in answer'.shows : x \in Changes /\ Excusable(x)'
      <4> SUFFICES ASSUME NEW x \in answer'.shows PROVE Excusable(x)'
        BY <1>0, <2>6
      <4>1. CASE call[c].mixed
        <5>2. "rolled over" \in Harm(c)
          BY <2>6, <4>1 DEF Harm, RolledOver
        <5>3. Excused'
          BY <2>1, <5>2 DEF Excused
        <5> QED BY <5>3 DEF Excusable
      <4>2. CASE ~call[c].mixed
        <5>1. x \in Changes /\ x # c /\ Excusable(x) /\ call[x].step # "unused"
          BY <1>0, <2>6, <3>1, <4>2 DEF Restorable, ShownInv, BegunInv, Begun
        <5>2. FormsStay
          BY <2>1, <2>6 DEF FormsStay, Stays, Same, Moves
        <5>3. Pending(x) => Excusable(x)'
          BY <2>6, <5>1, <5>2, PendingStays DEF Stays, Excusable
        <5> QED BY <2>1, <5>1, <5>2, <5>3, ExcuseStays
      <4> QED BY <4>1, <4>2
    <3> QED BY <1>3, <2>1, <2>2, <2>6, <3>1, <3>2
  <2> QED BY <1>6, <2>4, <2>5, <2>6, FailDoes
(* The steps of no call.                                                    *)
<1>7. ASSUME NEW S, Stays(0, S), watched' = watched, done' = done, mishaps \subseteq mishaps',
             \A x \in answer'.shows : x \in answer.shows \/ x \in done
      PROVE  ShownInv'
  <2>1. FormsStay
    BY <1>0, <1>7 DEF FormsStay, Stays, Same
  <2>2. \A d \in Changes : d \notin call'[d].before.shows
    BY <1>0, <1>7 DEF Stays, Same
  <2>3. \A x \in answer'.shows : x \in Changes /\ (Excusable(x)' \/ (x \in answer.shows /\ x # 0)
                                                     \/ (x \in answer.shows /\ ~Pending(x)))
    BY <1>0, <1>7 DEF Excusable
  <2> QED BY <1>0, <1>7, <2>1, <2>2, <2>3, ShownKeeps
<1>8. ASSUME \/ \E p \in At[place].next, aged \in BOOLEAN : Navigate(p, aged)
             \/ \E e \in First : Leave(e)
             \/ \E r \in At[place].rooms : Disconnect(r) \/ Connect(r)
             \/ Poll \/ Lose
      PROVE  ShownInv'
  <2>1. Stays(0, {}) /\ watched' = watched /\ answer'.shows \subseteq answer.shows
        /\ done' = done /\ mishaps \subseteq mishaps'
    BY <1>8, LeaveDoes
  <2> QED BY <1>7, <2>1
<1>9. CASE Read
  <2>1. Stays(0, {}) /\ watched' = watched /\ answer' = answer
        /\ done' = done /\ mishaps' = mishaps
    BY <1>9, ReadDoes
  <2> QED BY <1>7, <2>1
<1>10. CASE Land
  <2>1. Stays(0, {watched}) /\ watched' = watched /\ answer'.shows = fetch.read /\ done' = done
    BY <1>10, LandDoes
  <2>2. \A x \in answer'.shows : Excusable(x)'
    BY <1>0, <2>1 DEF Excusable
  <2>3. \A d \in Changes : ~Restorable(d)'
    BY <1>0, <2>1 DEF Restorable, InFlight, Stays, Same
  <2>4. \A d \in Changes : d \notin call'[d].before.shows
    BY <1>0, <2>1 DEF Stays, Same
  <2> QED BY <2>2, <2>3, <2>4 DEF ShownInv
<1>11. ASSUME NEW e \in First, Deliver(e) PROVE ShownInv'
  <2>1. /\ \E S : /\ Stays(0, S)
                  /\ \A x \in answer'.shows : x \in answer.shows \/ x \in done
        /\ done' = done /\ watched' = watched /\ mishaps \subseteq mishaps'
    BY <1>11, DeliverDoes
  <2> QED BY <1>7, <2>1
<1>12. CASE UNCHANGED vars
  <2>1. Stays(0, {}) /\ watched' = watched /\ answer' = answer
        /\ done' = done /\ mishaps' = mishaps
    BY <1>12, CallsRest DEF vars
  <2> QED BY <1>7, <2>1
<1> QED
  BY <1>1, <1>2, <1>4, <1>5, <1>6, <1>8, <1>9, <1>10, <1>11, <1>12, NextSteps

(* For any number of calls that overlap, fail or are given up: once nothing *)
(* is under way, no answer shows a change the server does not have, but for *)
(* the reasons NothingInvented names.                                       *)
THEOREM NothingIsInvented == Spec => []NothingInvented
<1> DEFINE IInv == TypeInv /\ Made /\ BegunInv /\ ShownInv
<1>1. Init => IInv
  <2> SUFFICES ASSUME Init PROVE IInv
    OBVIOUS
  <2>1. answer = NoAnswer \/ answer = Answered
    BY DEF Init
  <2>2. \A c \in Changes : call[c].set = FALSE /\ call[c].before = NoAnswer
    BY NoCallType DEF Init
  <2>3. ShownInv
    BY <2>1, <2>2, NoAnswerType DEF ShownInv, Restorable
  <2> QED BY <2>3, InitTypes, BegunInit
<1>2. IInv /\ [Next]_vars => IInv'
  BY StepTypes, MadeSteps, BegunSteps, ShownSteps
<1>3. IInv => NothingInvented
  <2> SUFFICES ASSUME IInv, Quiet, NEW c \in answer.shows \ done
               PROVE  call[c].by \in Forgetful \/ Excused
    BY DEF NothingInvented, Excused
  <2>1. c \in Changes /\ Excusable(c)
    BY Typed DEF ShownInv, AnswerType
  <2>2. ~Pending(c)
    BY <2>1 DEF Quiet, Pending
  <2> QED BY <2>1, <2>2 DEF Excusable
<1> QED BY <1>1, <1>2, <1>3, PTL DEF Spec

-----------------------------------------------------------------------------
(* Nothing is forgotten.                                                    *)

(* What a step must do: a row of its own kind is only added by a write to   *)
(* the answer, and what it does to call c leaves the request right.         *)
LEMMA SeenKeeps ==
    ASSUME TypeInv, BegunInv, SeenInv, FormsStay,
           NEW c \in Changes \cup {0}, NEW S, Stays(c, S), done' \subseteq done \cup {c},
           \A x \in answer'.shows : \/ x \in answer.shows
                                    \/ x \in Changes /\ (Own(x)' => watched \in S),
           Goes(S) \/ fetch' = fetch,
           watched \in S => Goes(S),
           c \in Changes => \/ ~Restorable(c)'
                            \/ Restorable(c) /\ call'[c].before = call[c].before /\ answer' = answer
                            \/ \A x \in answer'.shows \ {c} : x \in call'[c].before.shows,
           c \in answer.shows => \/ call[c].step \in {"sent", "late"}
                                 \/ c \in done
                                 \/ c \notin done' /\ call'[c].step \notin {"sent", "late"}
    PROVE  SeenInv'
<1>0. /\ answer.shows \subseteq Changes
      /\ \A x \in answer.shows : Own(x)' => Own(x)
  <2>1. answer.shows \subseteq Changes
    BY Typed DEF AnswerType
  <2>2. \A x \in answer.shows : call'[x].by = call[x].by
    BY <2>1 DEF BegunInv, Begun, FormsStay
  <2>3. \A x \in answer.shows : Own(x)' => Own(x)
    BY <2>2 DEF FormsStay, Own, Affected
  <2> QED BY <2>1, <2>3
<1>1. ASSUME watched \notin S, NEW x \in answer'.shows, Own(x)'
      PROVE  x \in answer.shows /\ Own(x)
  BY <1>0, <1>1
<1>2. \A d \in Changes : Restorable(d)' =>
          \A x \in answer'.shows \ {d} : Own(x)' => x \in call'[d].before.shows
  <2> SUFFICES ASSUME NEW d \in Changes, Restorable(d)', NEW x \in answer'.shows \ {d}, Own(x)'
               PROVE  x \in call'[d].before.shows
    OBVIOUS
  <2>1. CASE d # c
    <3>1. Restorable(d) /\ call'[d].before = call[d].before /\ watched \notin S
      BY <2>1 DEF Restorable, InFlight, Stays, Same
    <3> QED BY <1>1, <3>1 DEF SeenInv
  <2>2. CASE d = c /\ Restorable(c) /\ call'[c].before = call[c].before /\ answer' = answer
    <3>1. x \in answer.shows /\ Own(x)
      BY <1>0, <2>2
    <3> QED BY <2>2, <3>1 DEF SeenInv
  <2>3. CASE d = c /\ \A y \in answer'.shows \ {c} : y \in call'[c].before.shows
    BY <2>3
  <2> QED BY <2>1, <2>2, <2>3
<1>3. ASSUME fetch'.step = "read", ~fetch'.overtaken,
             NEW x \in answer'.shows, Own(x)'
      PROVE  \/ x \in fetch'.read
             \/ x \notin done' /\ call'[x].step \notin {"sent", "late"}
  <2>1. fetch.step = "read" /\ ~fetch.overtaken /\ fetch'.read = fetch.read /\ watched \notin S
    BY <1>3 DEF Goes
  <2>2. x \in answer.shows /\ Own(x)
    BY <1>1, <1>3, <2>1
  <2>3. x \in fetch.read \/ (x \notin done /\ call[x].step \notin {"sent", "late"})
    BY <2>1, <2>2 DEF SeenInv
  <2>4. CASE x # c
    BY <1>0, <2>1, <2>2, <2>3, <2>4 DEF Stays, Same
  <2>5. CASE x = c
    BY <2>1, <2>2, <2>3, <2>5
  <2> QED BY <2>4, <2>5
<1> QED BY <1>2, <1>3 DEF SeenInv

LEMMA SeenSteps == TypeInv /\ Made /\ BegunInv /\ SeenInv /\ [Next]_vars => SeenInv'
<1> SUFFICES ASSUME TypeInv, Made, BegunInv, SeenInv, [Next]_vars PROVE SeenInv'
  OBVIOUS
<1>0. /\ 0 \notin Changes /\ answer.shows \subseteq Changes /\ done \subseteq Changes
      /\ \A d \in Changes : call[d].before.shows \subseteq Changes
      /\ \A c \in answer.shows : call[c].step # "unused"
  BY NotZero, Typed DEF CallsType, CallType, AnswerType, BegunInv, Begun
<1>1. ASSUME NEW c \in Unmade, NEW f \in Forms, NEW old \in Opened(f), Submit(c, f, old)
      PROVE  SeenInv'
  <2>1. /\ c \in Changes /\ call[c].step = "unused" /\ call'[c].step = "sent"
        /\ call'[c].before = IF call'[c].set THEN old ELSE NoAnswer
        /\ Stays(c, Does[f].matches) /\ Goes(Does[f].matches)
        /\ \A x \in answer'.shows : x \in old.shows \/ (x = c /\ watched \in Does[f].matches)
        /\ old.shows \subseteq answer.shows \cup done
        /\ watched \notin Does[f].matches => old = answer
        /\ done' = done /\ watched' = watched
    BY <1>1, SubmitDoes, OpenedType
  <2>2. FormsStay
    BY <2>1 DEF FormsStay, Stays, Same
  <2>3. Restorable(c)' => \A x \in answer'.shows \ {c} : x \in call'[c].before.shows
    BY <2>1 DEF Restorable
  <2>4. \A x \in answer'.shows : x \in answer.shows \/ (x \in Changes /\ watched \in Does[f].matches)
    BY <1>0, <2>1
  <2> QED BY <1>0, <2>1, <2>2, <2>3, <2>4, SeenKeeps
<1>2. ASSUME NEW c \in Unmade, NEW f \in Forms, SubmitFails(c, f) \/ Other(c, f) PROVE SeenInv'
  <2>1. /\ c \in Changes /\ call[c].step = "unused" /\ call'[c].set = FALSE
        /\ Stays(c, {}) /\ answer' = answer /\ Goes({})
        /\ watched' = watched /\ done' \subseteq done \cup {c}
    BY <1>2, OtherDoes
  <2>2. FormsStay
    BY <2>1 DEF FormsStay, Stays, Same
  <2>3. ~Restorable(c)'
    BY <2>1 DEF Restorable
  <2> QED BY <1>0, <2>1, <2>2, <2>3, SeenKeeps
<1>3. ASSUME NEW c \in Changes, Apply(c) \/ Refuse(c) PROVE SeenInv'
  <2>1. /\ call[c].step \in {"sent", "late"} /\ call'[c].step # "unused"
        /\ call[c].step = "sent" <=> call'[c].step # "over"
        /\ Stays(c, {}) /\ Moves(c) /\ done' \subseteq done \cup {c}
        /\ answer' = answer /\ fetch' = fetch /\ watched' = watched
    BY <1>3, ServerDoes
  <2>2. FormsStay
    BY <2>1 DEF FormsStay, Stays, Same, Moves
  <2>3. Restorable(c)' => Restorable(c) /\ call'[c].before = call[c].before
    BY <2>1 DEF Restorable, InFlight, Moves
  <2> QED BY <2>1, <2>2, <2>3, SeenKeeps
<1>4. ASSUME NEW c \in Changes, Answer(c) PROVE SeenInv'
  <2>1. /\ call[c].step = "applied" /\ call'[c].step = "over" /\ Moves(c)
        /\ \E S : /\ Stays(c, S) /\ Goes(S)
                  /\ \A x \in answer'.shows : x \in answer.shows \/ (x \in Changes /\ watched \in S)
        /\ done' = done /\ watched' = watched
    BY <1>0, <1>4, AnswerDoes
  <2>2. PICK S : /\ Stays(c, S) /\ Goes(S)
                 /\ \A x \in answer'.shows : x \in answer.shows \/ (x \in Changes /\ watched \in S)
    BY <2>1
  <2>3. FormsStay
    BY <2>1, <2>2 DEF FormsStay, Stays, Same, Moves
  <2>4. c \in done /\ ~Restorable(c)'
    BY <2>1 DEF Made, Restorable, InFlight
  <2> QED BY <2>1, <2>2, <2>3, <2>4, SeenKeeps
<1>5. ASSUME NEW c \in Changes, Fail(c) \/ GiveUp(c) PROVE SeenInv'
  <2>1. /\ call[c].step \in {"refused", "sent", "applied"} /\ call'[c].step \in {"over", "late"}
        /\ call'[c].step = "late" => call[c].step = "sent"
        /\ Moves(c) /\ done' = done /\ watched' = watched
    BY <1>5, FailDoes
  <2>2. ~Restorable(c)'
    BY <2>1 DEF Restorable, InFlight
  <2>3. \/ call[c].step \in {"sent", "late"}
        \/ c \in done
        \/ c \notin done' /\ call'[c].step \notin {"sent", "late"}
    BY <2>1
  <2>4. CASE answer' = answer /\ Stays(c, {}) /\ Goes({})
    <3>1. FormsStay
      BY <2>1, <2>4 DEF FormsStay, Stays, Same, Moves
    <3> QED BY <2>1, <2>2, <2>3, <2>4, <3>1, SeenKeeps
  <2>5. CASE Stays(c, {watched}) /\ Goes({watched})
    <3>1. FormsStay
      BY <2>1, <2>5 DEF FormsStay, Stays, Same, Moves
    <3>2. answer'.shows \subseteq Changes
      BY <1>0, <1>5, FailDoes
    <3> QED BY <2>1, <2>2, <2>3, <2>5, <3>1, <3>2, SeenKeeps
  <2> QED BY <1>5, <2>4, <2>5, FailDoes
(* The steps of no call.                                                    *)
<1>6. ASSUME NEW S, Stays(0, S), watched' = watched, done' = done,
             Goes(S) \/ fetch' = fetch, watched \in S => Goes(S),
             \A x \in answer'.shows : \/ x \in answer.shows
                                      \/ x \in done /\ (~Own(x) \/ watched \in S)
      PROVE  SeenInv'
  <2>1. FormsStay
    BY <1>0, <1>6 DEF FormsStay, Stays, Same
  <2>2. ASSUME NEW x \in done, ~Own(x) PROVE ~Own(x)'
    <3>1. call[x].step # "unused" /\ x \in Changes
      BY Typed
    <3> QED BY <2>1, <2>2, <3>1 DEF FormsStay, Own, Affected
  <2>3. \A x \in answer'.shows : \/ x \in answer.shows
                                 \/ x \in Changes /\ (Own(x)' => watched \in S)
    BY <1>0, <1>6, <2>2
  <2> QED BY <1>0, <1>6, <2>1, <2>3, SeenKeeps
<1>7. ASSUME \/ \E p \in At[place].next, aged \in BOOLEAN : Navigate(p, aged)
             \/ \E e \in First : Leave(e)
             \/ \E r \in At[place].rooms : Disconnect(r) \/ Connect(r)
             \/ Poll \/ Lose
      PROVE  SeenInv'
  <2>1. Stays(0, {}) /\ Goes({}) /\ watched' = watched /\ answer'.shows \subseteq answer.shows
        /\ done' = done
    BY <1>7, LeaveDoes
  <2> QED BY <1>6, <2>1
<1>8. CASE Read
  <2>1. /\ Stays(0, {}) /\ call' = call /\ answer' = answer
        /\ fetch'.step = "read" /\ fetch'.read = {c \in done : Affected(call[c].by)}
        /\ ~fetch'.overtaken => \A c \in Changes :
               Affected(call[c].by) => call[c].step \notin {"sent", "late"}
        /\ done' = done /\ watched' = watched
    BY <1>8, ReadDoes
  <2>2. \A x \in Changes : Own(x)' <=> Own(x)
    BY <2>1 DEF Own, Affected
  <2>3. \A d \in Changes : Restorable(d)' => Restorable(d)
    BY <2>1 DEF Restorable, InFlight
  <2> QED BY <1>0, <2>1, <2>2, <2>3 DEF SeenInv, Own
<1>9. CASE Land
  <2>1. Stays(0, {watched}) /\ fetch'.step = "idle"
    BY <1>9, LandDoes
  <2>2. \A d \in Changes : ~Restorable(d)'
    BY <1>0, <2>1 DEF Restorable, InFlight, Stays, Same
  <2> QED BY <2>1, <2>2 DEF SeenInv
<1>10. ASSUME NEW e \in First, Deliver(e) PROVE SeenInv'
  <2>1. /\ \E S : /\ Stays(0, S) /\ Goes(S)
                  /\ \A x \in answer'.shows : \/ x \in answer.shows
                                              \/ x \in done /\ (~Own(x) \/ watched \in S)
        /\ done' = done /\ watched' = watched
    BY <1>10, DeliverDoes
  <2> QED BY <1>6, <2>1
<1>11. CASE UNCHANGED vars
  <2>1. Stays(0, {}) /\ watched' = watched /\ answer' = answer /\ fetch' = fetch /\ done' = done
    BY <1>11, CallsRest DEF vars
  <2> QED BY <1>6, <2>1
<1> QED
  BY <1>1, <1>2, <1>3, <1>4, <1>5, <1>7, <1>8, <1>9, <1>10, <1>11, NextSteps

(* What the user has seen and the server has made, stays in sight.          *)
Seen == {c \in answer.shows \cap done : Affected(call[c].by)}

LEMMA SeenStays ==
    ASSUME TypeInv, Made, SeenInv, ShownInv, [Next]_vars, answer'.has
    PROVE  Seen \subseteq answer'.shows \/ mishaps' # {}
<1>1. ASSUME answer.shows \subseteq answer'.shows PROVE Seen \subseteq answer'.shows
  BY <1>1 DEF Seen
<1>2. ASSUME NEW c \in Changes, Fail(c) \/ GiveUp(c)
      PROVE  Seen \subseteq answer'.shows \/ mishaps' # {}
  <2>1. /\ call[c].step \in {"refused", "sent", "applied"}
        /\ call[c].step = "refused" \/ GiveUp(c)
        /\ mishaps \cup Harm(c) \subseteq mishaps'
        /\ GiveUp(c) /\ (Affected(call[c].by) \/ call[c].set) => "gave up" \in mishaps'
        /\ \/ answer' = answer
           \/ /\ Undoes(c)
              /\ \/ answer'.shows = answer.shows \ {c}
                 \/ ~TakesBack(c) /\ answer'.shows = call[c].before.shows
    BY <1>2, FailDoes
  <2> SUFFICES ASSUME Undoes(c), ~GiveUp(c), mishaps' = {} PROVE Seen \subseteq answer'.shows
    BY <1>1, <2>1 DEF Undoes
  <2>2. c \notin done
    BY <2>1 DEF Made
  <2>3. CASE answer'.shows = answer.shows \ {c}
    BY <2>2, <2>3 DEF Seen
  <2>4. CASE ~TakesBack(c) /\ answer'.shows = call[c].before.shows
    <3>3. ~call[c].mixed
      <4> SUFFICES ASSUME call[c].mixed PROVE FALSE
        OBVIOUS
      <4>1. "rolled over" \in Harm(c)
        BY <2>4 DEF Harm, RolledOver
      <4> QED BY <2>1, <4>1
    <3>4. Restorable(c)
      BY <2>1, <3>3 DEF Restorable, InFlight, Undoes
    <3> QED BY <2>2, <2>4, <3>4 DEF Seen, SeenInv, Own
  <2> QED BY <1>1, <2>1, <2>3, <2>4
<1>3. CASE Land
  BY <1>3, LandDoes DEF Seen, SeenInv, Own
<1>4. ASSUME \/ \E p \in At[place].next, aged \in BOOLEAN : Navigate(p, aged)
             \/ \E e \in First : Leave(e)
             \/ \E r \in At[place].rooms : Disconnect(r) \/ Connect(r)
             \/ Poll \/ Lose
      PROVE  answer.shows \subseteq answer'.shows
  BY <1>4, LeaveDoes
<1>5. CASE UNCHANGED vars
  BY <1>1, <1>5 DEF vars
<1> QED
  BY <1>1, <1>2, <1>3, <1>4, <1>5, NextSteps, SubmitDoes, OtherDoes, ServerDoes, AnswerDoes,
     ReadDoes, DeliverDoes

(* For any number of calls, events and requests, in any order: a change of  *)
(* the answer's own kind that the server has made and the user has seen is  *)
(* only lost with a mark of the reason.                                     *)
THEOREM SeenIsKept == Spec => NeverForgets
<1> DEFINE IInv == TypeInv /\ Made /\ BegunInv /\ ShownInv /\ SeenInv
<1>1. Init => IInv
  <2> SUFFICES ASSUME Init PROVE IInv
    OBVIOUS
  <2>1. answer = NoAnswer \/ answer = Answered
    BY DEF Init
  <2>2. \A c \in Changes : call[c].set = FALSE /\ call[c].before = NoAnswer
    BY NoCallType DEF Init
  <2>3. ShownInv /\ SeenInv
    BY <2>1, <2>2, NoAnswerType DEF ShownInv, SeenInv, Restorable
  <2> QED BY <2>3, InitTypes, BegunInit
<1>2. IInv /\ [Next]_vars => IInv'
  BY StepTypes, MadeSteps, BegunSteps, ShownSteps, SeenSteps
<1>3. IInv /\ [Next]_vars =>
      [answer'.has => \/ {c \in answer.shows \cap done : Affected(call[c].by)} \subseteq answer'.shows
                      \/ mishaps' # {}]_vars
  BY SeenStays DEF Seen
<1> QED BY <1>1, <1>2, <1>3, PTL DEF Spec, NeverForgets

-----------------------------------------------------------------------------
(* What was promised is in sight.                                           *)

(* Nobody can see the answer; or it has the change, and so has what comes   *)
(* for it; or it is fetched again, now or when somebody looks; or the call  *)
(* or the event that brings the change is still on its way.                 *)
Nowhere      == ~answer.has /\ fetch.step # "read"
InView(c)    == /\ answer.has => c \in answer.shows
                /\ fetch.step = "read" /\ ~fetch.overtaken => c \in fetch.read
Coming(c)    == /\ fetch.step # "idle"
                /\ fetch.step = "read" => fetch.overtaken \/ c \in fetch.read
                /\ fetch.overtaken \/ answer.stale \/ ~answer.has
Outdated     == answer.stale /\ ~Mounted(place) /\ fetch.step = "idle"
Answering(c) == /\ call[c].step = "applied"
                /\ watched \in Does[call[c].by].merges \cup Does[call[c].by].refreshes
Signalled(c) == \E e \in feed : e.change = c /\ watched \in Brings(place, call[c].by)
Covered(c)   == Nowhere \/ InView(c) \/ Coming(c) \/ Outdated \/ Answering(c) \/ Signalled(c)

PromisedInv == mishaps = {} => \A c \in done : Own(c) /\ Owed(c) => Covered(c)

(* What a form shows at once is in sight from the start, no request from    *)
(* before it is answered as if it knew, and a snapshot that may be set back *)
(* is one of the answer that is there.                                      *)
Shows(c) == Own(c) /\ watched \in Does[call[c].by].matches
SentInv ==
    /\ mishaps = {} => \A c \in Changes :
           /\ call[c].step = "sent" /\ Shows(c) /\ watched \in Does[call[c].by].patches
           /\ answer.has
           => c \in answer.shows
    /\ \A c \in Changes :
           call[c].step \in {"sent", "late"} /\ Shows(c) /\ fetch.step = "read" => fetch.overtaken
    /\ \A d \in Changes : Restorable(d) => answer.has

(* A write that makes an answer where there was none: it shows all the      *)
(* server has made.                                                         *)
Complete == \A c \in done : Own(c) => c \in answer'.shows
Created  == /\ ~answer.has /\ answer'.has /\ Complete
            /\ fetch'.step = "read" => fetch'.overtaken

(* A write to the answer.  If it makes the answer fresh, a request under    *)
(* way is overtaken, and where there is none the loss of the mark is noted. *)
Rewritten ==
    /\ place' = place /\ watched' = watched
    /\ \/ Created
       \/ /\ answer'.has = answer.has
          /\ \/ fetch' = Asked /\ answer'.stale
             \/ /\ fetch'.step = fetch.step /\ fetch'.read = fetch.read
                /\ fetch.overtaken => fetch'.overtaken
                /\ answer.stale /\ ~answer'.stale => fetch.step = "idle" \/ fetch'.overtaken
          /\ mishaps' = {} /\ Outdated /\ ~answer'.stale /\ answer'.has => Complete

LEMMA WriteRewrites ==
    ASSUME TypeInv, NEW S, NEW R,
           answer'.has = answer.has \/ (watched \in S /\ ~answer.has /\ answer'.has /\ Complete),
           place' = place, watched' = watched,
           watched \in R => answer'.stale, watched \notin S /\ answer.stale => answer'.stale,
           fetch' = Refetch(Overtake(fetch, S), R), Freshened(answer') \subseteq mishaps'
    PROVE  Rewritten
<1> DEFINE o == Overtake(fetch, S)
<1>1. /\ o.step = fetch.step /\ o.read = fetch.read
      /\ fetch.overtaken => o.overtaken
      /\ watched \in S /\ fetch.step # "idle" => o.overtaken
  BY Typed DEF Overtake, FetchType
<1>2. o \in FetchType /\ Asked.step = "asked"
  BY Typed, FetchTypes
<1>3. mishaps' = {} /\ Outdated /\ ~answer'.stale /\ answer'.has => Complete
  BY DEF Freshened, Incomplete, Outdated, Own, Complete
<1>4. CASE watched \in R /\ Mounted(place)
  <2>1. fetch' = Asked
    BY <1>4 DEF Refetch
  <2> QED BY <1>2, <1>3, <1>4, <2>1 DEF Rewritten, Created
<1>5. CASE ~(watched \in R /\ Mounted(place))
  <2>1. fetch' = Overtake(o, R)
    BY <1>5 DEF Refetch
  <2> HIDE DEF o
  <2>2. /\ fetch'.step = o.step /\ fetch'.read = o.read
        /\ o.overtaken => fetch'.overtaken
    BY <1>2, <2>1 DEF Overtake, FetchType
  <2> QED BY <1>1, <1>3, <2>2 DEF Rewritten, Created
<1> QED BY <1>4, <1>5

LEMMA RestRewrites ==
    ASSUME TypeInv, answer' = answer, fetch' = fetch, place' = place, watched' = watched
    PROVE  Rewritten
BY DEF Rewritten, Outdated, Complete

(* Who does not lack a change of its kind has it, or has no answer.         *)
LEMMA NotLacking ==
    ASSUME TypeInv, SeenInv, NEW c \in Changes, Own(c), ~Lacks(c, call[c].by),
           c \in done \/ call[c].step \in {"sent", "late"}
    PROVE  Nowhere \/ InView(c)
BY DEF SeenInv, Lacks, Own, Nowhere, InView

(* A change that is covered before a write is covered after it.             *)
LEMMA CoverStays ==
    ASSUME TypeInv, Rewritten, mishaps' = {}, NEW c \in done, Own(c), Covered(c),
           c \in answer.shows => c \in answer'.shows,
           call'[c].by = call[c].by,
           Answering(c) => call'[c].step = call[c].step \/ Nowhere \/ InView(c) \/ Covered(c)',
           Signalled(c) => Signalled(c)' \/ Nowhere \/ InView(c) \/ Covered(c)'
    PROVE  Covered(c)'
<1>0. CASE Created
  <2>1. InView(c)'
    BY <1>0 DEF Created, Complete, InView
  <2> QED BY <2>1 DEF Covered
<1> SUFFICES ASSUME ~Created PROVE Covered(c)'
  BY <1>0
<1>1. watched' = watched /\ place' = place /\ answer'.has = answer.has
  BY DEF Rewritten
<1>2. CASE Nowhere
  <2>1. Nowhere' \/ Coming(c)'
    BY <1>2, FetchTypes, Typed DEF Rewritten, Nowhere, Coming
  <2> QED BY <2>1 DEF Covered
<1>3. CASE InView(c)
  <2>1. InView(c)' \/ Coming(c)'
    BY <1>3, FetchTypes, Typed DEF Rewritten, InView, Coming
  <2> QED BY <2>1 DEF Covered
<1>4. CASE Coming(c)
  <2>1. Coming(c)'
    BY <1>4, FetchTypes, Typed DEF Rewritten, Coming
  <2> QED BY <2>1 DEF Covered
<1>5. CASE Outdated
  <2>1. CASE fetch' = Asked /\ answer'.stale
    BY <2>1, FetchTypes, Typed DEF Covered, Coming
  <2>2. CASE fetch'.step = fetch.step /\ answer'.stale
    BY <1>1, <1>5, <2>2 DEF Covered, Outdated, Mounted
  <2>3. CASE fetch'.step = fetch.step /\ ~answer'.stale
    <3>1. answer'.has => c \in answer'.shows
      BY <1>5, <2>3 DEF Rewritten, Complete
    <3>2. fetch'.step = "idle"
      BY <1>5, <2>3 DEF Outdated
    <3> QED BY <3>1, <3>2 DEF Covered, InView
  <2> QED BY <2>1, <2>2, <2>3 DEF Rewritten
<1>6. CASE Answering(c)
  BY <1>1, <1>2, <1>3, <1>6 DEF Covered, Answering
<1>7. CASE Signalled(c)
  BY <1>2, <1>3, <1>7 DEF Covered
<1> QED BY <1>2, <1>3, <1>4, <1>5, <1>6, <1>7 DEF Covered

(* A write that shows a change, or has the answer fetched again, covers it. *)
LEMMA WriteBrings ==
    ASSUME TypeInv, NEW S, NEW R, NEW c \in Changes,
           place' = place, watched' = watched,
           fetch' = Refetch(Overtake(fetch, S), R),
           \/ watched \in S /\ (answer'.has => c \in answer'.shows)
           \/ watched \in R /\ answer'.stale
    PROVE  Covered(c)'
<1> DEFINE o == Overtake(fetch, S)
<1>0. fetch \in FetchType
  BY Typed
<1>1. /\ o \in FetchType /\ o.step = fetch.step
      /\ ~o.overtaken => ~fetch.overtaken /\ (watched \notin S \/ fetch.step = "idle")
  BY <1>0, FetchTypes
<1>2. CASE fetch' = Asked
  <2>1. fetch'.step = "asked"
    BY <1>2, <1>1, FetchTypes
  <2> QED BY <2>1 DEF Covered, InView, Coming
<1>3. CASE fetch' = Overtake(o, R) /\ ~(watched \in R /\ Mounted(place))
  <2> HIDE DEF o
  <2>1. /\ fetch'.step = o.step
        /\ ~fetch'.overtaken => ~o.overtaken /\ (watched \notin R \/ o.step = "idle")
    <3>1. o \in FetchType
      BY <1>1
    <3> QED BY <1>3, <3>1, FetchTypes
  <2>2. CASE watched \in S /\ (answer'.has => c \in answer'.shows)
    BY <1>1, <2>1, <2>2 DEF Covered, InView
  <2>3. CASE watched \in R /\ answer'.stale
    BY <1>3, <2>1, <2>3 DEF Covered, Coming, Outdated, Mounted
  <2> QED BY <2>2, <2>3
<1> QED BY <1>2, <1>3 DEF Refetch

(* What the writes to the cache do, where they leave no mark.               *)
LEMMA SubmitWrites ==
    ASSUME TypeInv, NEW c \in Unmade, NEW f \in Forms, NEW old \in Opened(f), Submit(c, f, old),
           mishaps' = {}
    PROVE  /\ Rewritten
           /\ /\ answer'.has /\ Affected(f)
              /\ watched \in Does[f].matches /\ watched \in Does[f].patches
              => c \in answer'.shows
           /\ ~answer.has /\ answer'.has => \A x \in InFlight : Own(x) => x \in answer'.shows
           /\ feed' = feed
<1>0. /\ answer \in AnswerType /\ fetch \in FetchType /\ c \in Changes /\ done \subseteq Changes
      /\ old \in AnswerType /\ (answer.has => old.has)
      /\ watched \notin Does[f].matches => old = answer
  BY Typed, OpenedType DEF Unmade
<1> DEFINE S == Does[f].matches
           a == SetData(old, S, Does[f].patches, c, f)
<1>1. ~Cancels(f) /\ Freshened(answer') \subseteq mishaps' /\ Older(answer') = {} /\ feed' = feed
      /\ place' = place /\ watched' = watched
  BY DEF Submit, Mark
<1>2. fetch' = Refetch(Overtake(fetch, S), {})
  <2>1. fetch' = Overtake(fetch, S)
    BY <1>1 DEF Submit
  <2> QED BY <2>1 DEF Refetch, Overtake
<1>3. /\ a \in AnswerType /\ a.has = old.has
      /\ watched \notin S => a = answer
      /\ old.has /\ Affected(f) /\ watched \in S /\ watched \in Does[f].patches => c \in a.shows
  <2>1. a \in AnswerType /\ a.has = old.has
    BY <1>0, SetDataType
  <2>2. /\ watched \notin S => a = answer
        /\ old.has /\ Affected(f) /\ watched \in S /\ watched \in Does[f].patches => c \in a.shows
    BY <1>0 DEF SetData, AnswerType
  <2> QED BY <2>1, <2>2
<1>4. answer' = Spread(a, Does[f].spreads)
  BY DEF Submit
<1> HIDE DEF S, a
<1>5. answer'.has = a.has /\ answer'.stale = a.stale /\ answer'.shows = a.shows
  BY <1>3, <1>4 DEF Spread, AnswerType
<1>7. ~answer.has => Complete /\ \A x \in InFlight : Own(x) => x \in answer'.shows
  BY <1>0, <1>1 DEF Older, Complete, Own, InFlight
<1>8. answer.has \in BOOLEAN /\ a.has \in BOOLEAN
  BY <1>0, <1>3 DEF AnswerType
<1>9. answer'.has = answer.has \/ (watched \in S /\ ~answer.has /\ answer'.has /\ Complete)
  BY <1>0, <1>3, <1>5, <1>7, <1>8
<1>10. watched \notin S /\ answer.stale => answer'.stale
  BY <1>3, <1>5
<1>6. Rewritten
  BY <1>1, <1>2, <1>9, <1>10, WriteRewrites
<1> QED BY <1>1, <1>3, <1>5, <1>6, <1>7 DEF S

LEMMA AnswerWrites ==
    ASSUME TypeInv, Made, SeenInv, NEW c \in Changes, Answer(c), mishaps' = {}
    PROVE  /\ Rewritten
           /\ Own(c) /\ Answering(c) => Nowhere \/ InView(c) \/ Covered(c)'
           /\ ~answer.has /\ answer'.has => \A x \in InFlight : Own(x) => x \in answer'.shows
           /\ feed' = feed
<1>0. /\ answer \in AnswerType /\ fetch \in FetchType /\ done \subseteq Changes
  BY Typed
<1> DEFINE form == Does[call[c].by]
           merges == IF call[c].heard THEN form.merges ELSE {}
           told   == IF call[c].heard THEN form.refreshes ELSE {}
           a == Merged(c, merges)
<1>1. /\ answer' = Invalidate(a, told)
      /\ fetch' = Refetch(Overtake(fetch, merges), told)
      /\ place' = place /\ watched' = watched /\ feed' = feed
      /\ Freshened(answer') \subseteq mishaps' /\ call[c].step = "applied"
      /\ Older(answer') = {}
      /\ ~(~call[c].heard /\ Lacks(c, call[c].by) /\ watched \in form.merges \cup form.refreshes)
  BY DEF Answer, Mark
<1>7. watched \in form.merges \cup form.refreshes /\ call[c].heard => watched \in merges \cup told
  OBVIOUS
<1> HIDE DEF merges, told
<1>2. /\ a \in AnswerType /\ (answer.has => a.has)
      /\ watched \notin merges => a = answer
      /\ a.has /\ Own(c) /\ watched \in merges => c \in a.shows
  <2>1. Own(c) => c \in call[c].saw
    BY <1>1 DEF Made
  <2> QED BY <2>1, MergedType
<1> HIDE DEF a
<1>3. /\ answer'.has = a.has /\ answer'.shows = a.shows
      /\ a.stale => answer'.stale
      /\ watched \in told => answer'.stale
  BY <1>1, <1>2 DEF Invalidate, AnswerType
<1>8. ~answer.has => Complete /\ \A x \in InFlight : Own(x) => x \in answer'.shows
  BY <1>0, <1>1 DEF Older, Complete, Own, InFlight
<1>9. answer'.has = answer.has \/ (watched \in merges /\ ~answer.has /\ answer'.has /\ Complete)
  <2>1. answer.has \in BOOLEAN /\ a.has \in BOOLEAN
    BY <1>0, <1>2 DEF AnswerType
  <2> QED BY <1>2, <1>3, <1>8, <2>1
<1>10. watched \notin merges /\ answer.stale => answer'.stale
  BY <1>2, <1>3
<1>4. Rewritten
  BY <1>1, <1>3, <1>9, <1>10, WriteRewrites
<1>5. ASSUME ~call[c].heard, Own(c), Answering(c) PROVE Nowhere \/ InView(c)
  <2>1. ~Lacks(c, call[c].by)
    BY <1>1, <1>5 DEF Answering
  <2>2. c \in done
    BY <1>1 DEF Made
  <2> QED BY <1>5, <2>1, <2>2, NotLacking
<1>6. ASSUME call[c].heard, Own(c), Answering(c) PROVE Covered(c)'
  <2>1. watched \in merges \cup told
    BY <1>6, <1>7 DEF Answering
  <2>2. \/ watched \in merges /\ (answer'.has => c \in answer'.shows)
        \/ watched \in told /\ answer'.stale
    BY <1>2, <1>3, <1>6, <2>1
  <2> QED BY <1>1, <2>2, WriteBrings
<1> QED BY <1>1, <1>4, <1>5, <1>6, <1>8

LEMMA FailWrites ==
    ASSUME TypeInv, SeenInv, SentInv, NEW c \in Changes, Fail(c) \/ GiveUp(c), mishaps' = {}
    PROVE  /\ Rewritten /\ answer'.has = answer.has
           /\ \A x \in answer.shows \ {c} : Own(x) => x \in answer'.shows
           /\ GiveUp(c) => ~Own(c)
           /\ feed' = feed
<1>0. answer \in AnswerType /\ fetch \in FetchType
  BY Typed
<1> DEFINE S == IF Undoes(c) THEN {watched} ELSE {}
<1>1. /\ answer' = Undone(c)
      /\ fetch' = IF Undoes(c) THEN Overtake(fetch, {watched}) ELSE fetch
      /\ place' = place /\ watched' = watched /\ feed' = feed
      /\ Freshened(answer') \subseteq mishaps' /\ Harm(c) \subseteq mishaps'
      /\ call[c].step \in {"refused", "sent", "applied"}
      /\ call[c].step = "refused" \/ GiveUp(c)
  BY DEF Fail, GiveUp, Fails
<1>2. GiveUp(c) => ~Own(c) /\ ~call[c].set
  BY DEF GiveUp, Own
<1>3. fetch' = Refetch(Overtake(fetch, S), {})
  BY <1>1 DEF Refetch, Overtake
<1>4. answer'.has = answer.has /\ \A x \in answer.shows \ {c} : Own(x) => x \in answer'.shows
  <2>1. CASE ~Undoes(c) \/ TakesBack(c)
    BY <1>1, <2>1, UndoneType
  <2>2. CASE Undoes(c) /\ ~TakesBack(c)
    <3>1. call[c].set = call[c].before.has
      BY Typed
    <3>3. ~call[c].mixed
      <4> SUFFICES ASSUME call[c].mixed PROVE FALSE
        OBVIOUS
      <4>1. "rolled over" \in Harm(c)
        BY <2>2 DEF Harm, RolledOver
      <4> QED BY <1>1, <4>1
    <3>4. Restorable(c) /\ call[c].set
      BY <1>1, <2>2, <3>3 DEF Restorable, InFlight, Undoes
    <3>5. answer.has /\ call[c].before.has
      BY <3>1, <3>4 DEF SentInv
    <3>6. answer'.has = call[c].before.has /\ answer'.shows = call[c].before.shows
      BY <1>1, <2>2, UndoneType
    <3>7. call[c].before.has \in BOOLEAN /\ answer.has \in BOOLEAN
      BY Typed DEF CallsType, CallType, AnswerType
    <3> QED BY <3>4, <3>5, <3>6, <3>7 DEF SeenInv
  <2> QED BY <2>1, <2>2
<1>5. watched \notin S /\ answer.stale => answer'.stale
  BY <1>1 DEF Undone
<1> HIDE DEF S
<1>6. Rewritten
  BY <1>1, <1>3, <1>4, <1>5, WriteRewrites
<1> QED BY <1>1, <1>2, <1>4, <1>6

LEMMA DeliverWrites ==
    ASSUME TypeInv, NEW e \in First, Deliver(e), mishaps' = {}
    PROVE  /\ Rewritten
           /\ e.change \in Changes /\ Own(e.change) /\ watched \in Brings(place, call[e.change].by)
              => Covered(e.change)'
           /\ feed' = feed \ {e} /\ call' \in CallsType
<1>0. /\ answer \in AnswerType /\ fetch \in FetchType
      /\ e.change \in Changes
  BY Typed DEF First
<1> DEFINE c == e.change
           h == Reacts(At[place].rooms, Does[call[c].by].event)
           new == SetData(answer, h.sets, h.patches, c, call[c].by)
           strayed == IF watched \in h.strays /\ new.has THEN [new EXCEPT !.shows = @ \cup {c}]
                      ELSE new
<1>1. /\ answer' = Invalidate(strayed, h.refreshes)
      /\ fetch' = Refetch(Overtake(fetch, h.sets), h.refreshes)
      /\ call' = Mix(call, h.sets \cup h.refreshes, 0)
      /\ feed' = feed \ {e}
      /\ watched' = watched /\ place' = place
      /\ Freshened(answer') \subseteq mishaps'
  BY DEF Deliver
<1>2. Brings(place, call[c].by) = h.refreshes \cup (h.sets \cap h.patches)
  BY DEF Brings
<1> HIDE DEF h, c
<1>3. /\ new \in AnswerType /\ new.has = answer.has
      /\ watched \notin h.sets /\ answer.stale => new.stale
      /\ answer.has /\ Own(c) /\ watched \in h.sets \cap h.patches => c \in new.shows
  <2>1. new \in AnswerType /\ new.has = answer.has
    <3>1. c \in Changes /\ answer \in AnswerType
      BY <1>0 DEF c
    <3> QED BY <3>1, SetDataType, ZenonT(40)
  <2>2. /\ watched \notin h.sets /\ answer.stale => new.stale
        /\ answer.has /\ Own(c) /\ watched \in h.sets \cap h.patches => c \in new.shows
    BY <1>0 DEF SetData, AnswerType, Own
  <2> QED BY <2>1, <2>2
<1> HIDE DEF new
<1>4. /\ strayed \in AnswerType /\ strayed.has = new.has /\ strayed.stale = new.stale
      /\ new.shows \subseteq strayed.shows
  <2>1. CASE watched \in h.strays /\ new.has
    BY <1>0, <1>3, <2>1 DEF AnswerType, c
  <2>2. CASE ~(watched \in h.strays /\ new.has)
    BY <1>3, <2>2
  <2> QED BY <2>1, <2>2
<1> HIDE DEF strayed
<1>5. /\ answer'.has = strayed.has /\ answer'.shows = strayed.shows
      /\ strayed.stale => answer'.stale
      /\ watched \in h.refreshes => answer'.stale
  BY <1>1, <1>4 DEF Invalidate, AnswerType
<1>6. Rewritten
  BY <1>1, <1>3, <1>4, <1>5, WriteRewrites
<1>7. ASSUME Own(c), watched \in Brings(place, call[c].by) PROVE Covered(c)'
  <2>1. \/ watched \in h.sets /\ (answer'.has => c \in answer'.shows)
        \/ watched \in h.refreshes /\ answer'.stale
    BY <1>2, <1>3, <1>4, <1>5, <1>7
  <2> QED BY <1>0, <1>1, <2>1, WriteBrings DEF c
<1>8. call' \in CallsType
  BY <1>1, Typed, MixType
<1> QED BY <1>0, <1>1, <1>6, <1>7, <1>8 DEF c

-----------------------------------------------------------------------------
(* What a form shows at once.                                               *)

LEMMA ShowsStays ==
    ASSUME watched' = watched, NEW x \in Changes, Same(x)
    PROVE  /\ Shows(x)' <=> Shows(x)
           /\ watched' \in Does[call'[x].by].patches <=> watched \in Does[call[x].by].patches
BY DEF Shows, Own, Affected, Same

(* What a step must do: the call it makes is shown or no request is under   *)
(* way but an overtaken one, and every other stays in sight.                *)
LEMMA SentKeeps ==
    ASSUME TypeInv, SentInv, watched' = watched, mishaps \subseteq mishaps',
           NEW c \in Changes \cup {0}, NEW S, Stays(c, S), Goes(S) \/ fetch' = fetch,
           answer'.has /\ ~answer.has /\ mishaps' = {} =>
               \A x \in InFlight \ {c} : Own(x) => x \in answer'.shows,
           answer.has /\ watched \notin S => answer'.has,
           answer'.has /\ mishaps' = {} => \A x \in answer.shows \ {c} : Own(x) => x \in answer'.shows,
           c \in Changes =>
               \/ call'[c].step \notin {"sent", "late"}
               \/ call'[c].step = "late" /\ call[c].step = "sent" /\ Moves(c)
               \/ /\ watched \in Does[call'[c].by].matches => watched \in S /\ Goes(S)
                  /\ mishaps' = {} /\ Shows(c)' /\ watched \in Does[call'[c].by].patches /\ answer'.has
                     => c \in answer'.shows,
           c \in Changes => (Restorable(c)' => answer'.has)
    PROVE  SentInv'
<1>1. ASSUME mishaps' = {}, NEW x \in Changes, call'[x].step = "sent", Shows(x)',
             watched \in Does[call'[x].by].patches, answer'.has
      PROVE  x \in answer'.shows
  <2>1. CASE x = c
    BY <1>1, <2>1
  <2>2. CASE x # c
    <3>1. Same(x)
      BY <2>2 DEF Stays
    <3>2. mishaps = {} /\ call[x].step = "sent" /\ Shows(x) /\ watched \in Does[call[x].by].patches
      BY <1>1, <3>1, ShowsStays DEF Same
    <3>3. CASE answer.has
      <4>1. x \in answer.shows /\ Own(x)
        BY <1>1, <3>2, <3>3 DEF SentInv, Shows
      <4> QED BY <1>1, <2>2, <4>1
    <3>4. CASE ~answer.has
      <4>1. x \in InFlight \ {c} /\ Own(x)
        BY <2>2, <3>2 DEF InFlight, Shows
      <4> QED BY <1>1, <3>4, <4>1
    <3> QED BY <3>3, <3>4
  <2> QED BY <2>1, <2>2
<1>2. ASSUME NEW x \in Changes, call'[x].step \in {"sent", "late"}, Shows(x)', fetch'.step = "read"
      PROVE  fetch'.overtaken
  <2>1. CASE x # c
    <3>1. Same(x)
      BY <2>1 DEF Stays
    <3>2. call[x].step \in {"sent", "late"} /\ Shows(x)
      BY <1>2, <3>1, ShowsStays DEF Same
    <3> QED BY <1>2, <3>2 DEF SentInv, Goes
  <2>2. CASE x = c /\ call'[c].step = "late" /\ call[c].step = "sent" /\ Moves(c)
    <3>1. Shows(c)
      BY <1>2, <2>2 DEF Shows, Own, Affected, Moves
    <3> QED BY <1>2, <2>2, <3>1 DEF SentInv, Goes
  <2>3. CASE x = c /\ (watched \in Does[call'[c].by].matches => watched \in S /\ Goes(S))
    <3>1. watched \in S /\ Goes(S)
      BY <1>2, <2>3 DEF Shows
    <3> QED BY <1>2, <3>1 DEF Goes
  <2> QED BY <1>2, <2>1, <2>2, <2>3
<1>3. ASSUME NEW d \in Changes, Restorable(d)' PROVE answer'.has
  <2>1. CASE d = c
    BY <1>3, <2>1
  <2>2. CASE d # c
    BY <1>3, <2>2 DEF SentInv, Restorable, InFlight, Stays, Same
  <2> QED BY <2>1, <2>2
<1> QED BY <1>1, <1>2, <1>3 DEF SentInv

LEMMA SentSteps == TypeInv /\ Made /\ BegunInv /\ SeenInv /\ SentInv /\ [Next]_vars => SentInv'
<1> SUFFICES ASSUME TypeInv, Made, BegunInv, SeenInv, SentInv, [Next]_vars PROVE SentInv'
  OBVIOUS
<1>0. 0 \notin Changes /\ (mishaps \subseteq mishaps' /\ mishaps' = {} => mishaps = {})
  BY NotZero
<1>1. ASSUME NEW c \in Unmade, NEW f \in Forms, NEW old \in Opened(f), Submit(c, f, old)
      PROVE  SentInv'
  <2>1. /\ c \in Changes /\ call'[c].step = "sent" /\ call'[c].by = f
        /\ call'[c].set = (watched \in Does[f].matches /\ old.has)
        /\ Stays(c, Does[f].matches) /\ Goes(Does[f].matches)
        /\ answer'.has = old.has /\ (answer.has => old.has)
        /\ mishaps' = {} => answer.shows \subseteq answer'.shows
        /\ watched' = watched /\ mishaps \subseteq mishaps'
    BY <1>1, SubmitDoes, OpenedType
  <2>2. mishaps' = {} /\ Shows(c)' /\ watched \in Does[call'[c].by].patches /\ answer'.has
        => c \in answer'.shows
    BY <1>1, <2>1, SubmitWrites DEF Shows, Own, Affected
  <2>3. Restorable(c)' => answer'.has
    BY <2>1 DEF Restorable
  <2>4. answer'.has /\ ~answer.has /\ mishaps' = {} => \A x \in InFlight : Own(x) => x \in answer'.shows
    BY <1>1, SubmitWrites
  <2> QED BY <2>1, <2>2, <2>3, <2>4, SentKeeps
<1>2. ASSUME NEW c \in Unmade, NEW f \in Forms, SubmitFails(c, f) \/ Other(c, f) PROVE SentInv'
  <2>1. /\ c \in Changes /\ call'[c].step \in {"thrown", "over"}
        /\ Stays(c, {}) /\ answer' = answer /\ Goes({})
        /\ watched' = watched /\ mishaps \subseteq mishaps'
    BY <1>2, OtherDoes
  <2>2. ~Restorable(c)'
    BY <2>1 DEF Restorable, InFlight
  <2> QED BY <2>1, <2>2, SentKeeps
<1>3. ASSUME NEW c \in Changes, Apply(c) \/ Refuse(c) PROVE SentInv'
  <2>1. /\ call[c].step \in {"sent", "late"}
        /\ call'[c].step \in {"applied", "refused", "over"}
        /\ call[c].step = "sent" <=> call'[c].step # "over"
        /\ Stays(c, {}) /\ Moves(c)
        /\ answer' = answer /\ fetch' = fetch /\ watched' = watched /\ mishaps \subseteq mishaps'
    BY <1>3, ServerDoes
  <2>2. Restorable(c)' => Restorable(c)
    BY <2>1 DEF Restorable, InFlight, Moves
  <2>3. Restorable(c) => answer.has
    BY DEF SentInv
  <2> QED BY <2>1, <2>2, <2>3, SentKeeps
<1>4. ASSUME NEW c \in Changes, Answer(c) PROVE SentInv'
  <2>1. /\ call'[c].step = "over"
        /\ answer.has => answer'.has
        /\ mishaps' = {} => answer.shows \subseteq answer'.shows
        /\ watched' = watched /\ mishaps \subseteq mishaps'
        /\ \E S : Stays(c, S) /\ Goes(S)
    BY <1>4, AnswerDoes
  <2>2. PICK S : Stays(c, S) /\ Goes(S)
    BY <2>1
  <2>3. ~Restorable(c)'
    BY <2>1 DEF Restorable, InFlight
  <2>4. answer'.has /\ ~answer.has /\ mishaps' = {} => \A x \in InFlight : Own(x) => x \in answer'.shows
    BY <1>4, AnswerWrites
  <2> QED BY <2>1, <2>2, <2>3, <2>4, SentKeeps
<1>5. ASSUME NEW c \in Changes, Fail(c) \/ GiveUp(c) PROVE SentInv'
  <2>1. /\ call'[c].step \in {"over", "late"}
        /\ call'[c].step = "late" => call[c].step = "sent"
        /\ Moves(c) /\ watched' = watched /\ mishaps \subseteq mishaps'
        /\ \/ Stays(c, {}) /\ Goes({}) /\ answer' = answer
           \/ Stays(c, {watched}) /\ Goes({watched})
    BY <1>5, FailDoes
  <2>2. ~Restorable(c)'
    BY <2>1 DEF Restorable, InFlight
  <2>3. mishaps' = {} => /\ answer'.has = answer.has
                         /\ \A x \in answer.shows \ {c} : Own(x) => x \in answer'.shows
    BY <1>5, FailWrites
  <2>4. CASE Stays(c, {}) /\ Goes({}) /\ answer' = answer
    BY <2>1, <2>2, <2>4, SentKeeps
  <2>5. CASE Stays(c, {watched}) /\ Goes({watched})
    BY <2>1, <2>2, <2>3, <2>5, SentKeeps
  <2> QED BY <2>1, <2>4, <2>5
(* The steps of no call.                                                    *)
<1>6. ASSUME NEW S, Stays(0, S), Goes(S) \/ fetch' = fetch, watched' = watched, mishaps \subseteq mishaps',
             answer'.has => answer.has /\ answer.shows \subseteq answer'.shows,
             answer.has /\ watched \notin S => answer'.has
      PROVE  SentInv'
  BY <1>0, <1>6, SentKeeps
<1>7. ASSUME NEW e \in First, Leave(e) PROVE SentInv'
  <2>1. Stays(0, {watched})
    BY <1>7, LeaveTyped DEF Stays, Same
  <2>2. answer'.has = FALSE /\ fetch'.step # "read" /\ fetch'.read = {}
        /\ watched' = watched /\ mishaps' = mishaps
    BY <1>7, NoAnswerType, FetchTypes, Typed DEF Leave
  <2> QED BY <1>6, <2>1, <2>2 DEF Goes
<1>8. ASSUME NEW p \in At[place].next, NEW aged \in BOOLEAN, Navigate(p, aged) PROVE SentInv'
  <2>1. Stays(0, {}) /\ Goes({}) /\ watched' = watched /\ mishaps \subseteq mishaps'
    BY <1>8, LeaveDoes
  <2>2. answer'.has = answer.has /\ answer'.shows = answer.shows
    BY <1>8, Typed DEF Navigate, AnswerType
  <2> QED BY <1>6, <2>1, <2>2
<1>9. ASSUME (\E r \in At[place].rooms : Disconnect(r) \/ Connect(r)) \/ Poll \/ Lose PROVE SentInv'
  <2>1. Stays(0, {}) /\ Goes({}) /\ watched' = watched /\ mishaps \subseteq mishaps'
    BY <1>9, LeaveDoes
  <2>2. answer' = answer
    BY <1>9 DEF Disconnect, Connect, Poll, Lose
  <2> QED BY <1>6, <2>1, <2>2
<1>10. ASSUME NEW e \in First, Deliver(e) PROVE SentInv'
  <2>1. /\ \E S : Stays(0, S) /\ Goes(S)
        /\ answer'.has = answer.has /\ answer.shows \subseteq answer'.shows
        /\ watched' = watched /\ mishaps \subseteq mishaps'
    BY <1>10, DeliverDoes
  <2> QED BY <1>6, <2>1
<1>11. CASE Read
  <2>1. /\ Stays(0, {}) /\ call' = call /\ answer' = answer /\ watched' = watched /\ mishaps' = mishaps
        /\ ~fetch'.overtaken => \A c \in Changes :
               Affected(call[c].by) => call[c].step \notin {"sent", "late"}
    BY <1>11, ReadDoes
  <2>2. \A x \in Changes : (Shows(x)' <=> Shows(x)) /\ (Restorable(x)' <=> Restorable(x))
    BY <2>1 DEF Shows, Own, Affected, Restorable, InFlight
  <2>3. \A x \in Changes : Shows(x) => Affected(call[x].by)
    BY DEF Shows, Own
  <2> QED BY <2>1, <2>2, <2>3 DEF SentInv
<1>12. CASE Land
  <2>1. /\ fetch.step = "read" /\ Stays(0, {watched}) /\ fetch'.step = "idle"
        /\ fetch.overtaken => mishaps' # {}
        /\ watched' = watched
    BY <1>12, LandDoes
  <2>2. answer'.has = TRUE
    BY <1>12 DEF Land, Answered, NoAnswer
  <2>3. ASSUME mishaps' = {}, NEW x \in Changes, call'[x].step = "sent", Shows(x)' PROVE FALSE
    <3>1. Same(x)
      BY <1>0, <2>1 DEF Stays
    <3>2. call[x].step = "sent" /\ Shows(x)
      BY <2>1, <2>3, <3>1, ShowsStays DEF Same
    <3> QED BY <2>1, <2>3, <3>2 DEF SentInv
  <2> QED BY <2>1, <2>2, <2>3 DEF SentInv
<1>13. CASE UNCHANGED vars
  <2>1. Stays(0, {}) /\ watched' = watched /\ answer' = answer /\ fetch' = fetch /\ mishaps' = mishaps
    BY <1>13, CallsRest DEF vars
  <2> QED BY <1>6, <2>1
<1> QED
  BY <1>1, <1>2, <1>3, <1>4, <1>5, <1>7, <1>8, <1>9, <1>10, <1>11, <1>12, <1>13, NextSteps

-----------------------------------------------------------------------------
(* What is promised.                                                        *)

LEMMA OwedStays ==
    ASSUME watched' = watched, NEW x \in Changes,
           call'[x].by = call[x].by, call'[x].mine = call[x].mine, call'[x].rooms = call[x].rooms
    PROVE  (Own(x)' <=> Own(x)) /\ (Owed(x)' <=> Owed(x))
BY DEF Own, Affected, Owed

(* An event the tab still hears is dealt with wherever the user goes; if it *)
(* is lost without a mark, nobody needs it.                                 *)
LEMMA SignalStays ==
    ASSUME TypeInv, SeenInv, NEW p \in Places, NEW rooms, KeepOnly(rooms), ~Loses(rooms),
           place' = p, watched' = watched, rooms \subseteq At[place].rooms,
           At[p].rooms = At[place].rooms \/ rooms \subseteq At[p].rooms \cap AppRooms,
           NEW d \in done, Own(d), call'[d].by = call[d].by, Signalled(d)
    PROVE  Signalled(d)' \/ Nowhere \/ InView(d)
<1> DEFINE f == call[d].by
<1>1. d \in Changes /\ f \in Forms /\ place \in Places
  BY Typed
<1>2. PICK x \in feed : x.change = d /\ watched \in Brings(place, f)
  BY DEF Signalled
<1>3. CASE Heard(rooms, f)
  <2>1. x \in feed'
    BY <1>2, <1>3 DEF KeepOnly
  <2>2. CASE At[p].rooms = At[place].rooms
    <3>1. Brings(p, f) = Brings(place, f)
      BY <2>2 DEF Brings
    <3> QED BY <1>2, <2>1, <3>1 DEF Signalled, Brings
  <2>3. CASE rooms \subseteq At[p].rooms \cap AppRooms
    <3>1. rooms \in SUBSET (At[place].rooms \cap At[p].rooms \cap AppRooms)
      BY <2>3
    <3> HIDE DEF f
    <3>2. Brings(place, f) \subseteq Brings(p, f)
      BY <1>1, <1>3, <3>1, PromisesAreBacked
    <3> QED BY <1>2, <2>1, <3>2 DEF Signalled, Brings, f
  <2> QED BY <2>2, <2>3
<1>4. CASE ~Heard(rooms, f)
  <2>1. ~Misses(d, f)
    BY <1>2, <1>4 DEF Loses
  <2>2. ~Lacks(d, f)
    BY <1>2, <2>1 DEF Misses, Brings
  <2> QED BY <1>1, <2>2, NotLacking
<1> QED BY <1>3, <1>4

(* What a step that writes to the answer, or rests, must do: what it takes  *)
(* from the answer or from the events is covered otherwise, and so is what  *)
(* the server makes in it.                                                  *)
LEMMA PromisedKeeps ==
    ASSUME TypeInv, PromisedInv, watched' = watched, mishaps \subseteq mishaps',
           mishaps' = {} => Rewritten,
           NEW c \in Changes \cup {0}, \A d \in Changes \ {c} : Same(d), done' \subseteq done \cup {c},
           mishaps' = {} => \A x \in (answer.shows \cap done) \ {c} : Own(x) => x \in answer'.shows,
           mishaps' = {} => \A d \in done \ {c} : Own(d) /\ Signalled(d) =>
               Signalled(d)' \/ Nowhere \/ InView(d) \/ Covered(d)',
           c \in done' /\ mishaps' = {} /\ Own(c)' /\ Owed(c)' => Covered(c)'
    PROVE  PromisedInv'
<1> SUFFICES ASSUME mishaps' = {}, NEW d \in done', Own(d)', Owed(d)' PROVE Covered(d)'
  BY DEF PromisedInv
<1>1. CASE d = c
  BY <1>1
<1>2. CASE d # c
  <2>1. d \in done /\ d \in Changes /\ mishaps = {} /\ Same(d)
    BY <1>2, Typed
  <2>2. Own(d) /\ Owed(d)
    BY <2>1, OwedStays DEF Same
  <2>3. Covered(d)
    BY <2>1, <2>2 DEF PromisedInv
  <2>4. d \in answer.shows => d \in answer'.shows
    BY <1>2, <2>1, <2>2
  <2>5. Signalled(d) => Signalled(d)' \/ Nowhere \/ InView(d) \/ Covered(d)'
    BY <1>2, <2>1, <2>2
  <2>6. call'[d].by = call[d].by /\ call'[d].step = call[d].step
    BY <2>1 DEF Same
  <2> QED BY <2>1, <2>2, <2>3, <2>4, <2>5, <2>6, CoverStays
<1> QED BY <1>1, <1>2

LEMMA EventsRest ==
    ASSUME watched' = watched, place' = place, feed \subseteq feed', NEW d, call'[d].by = call[d].by,
           Signalled(d)
    PROVE  Signalled(d)'
BY DEF Signalled, Brings

(* Nothing is done to the answer.                                           *)
LEMMA RestKeeps ==
    ASSUME TypeInv, PromisedInv, watched' = watched, place' = place, answer' = answer,
           mishaps \subseteq mishaps', mishaps' = {} => fetch' = fetch, feed \subseteq feed',
           NEW c \in Changes \cup {0}, \A d \in Changes \ {c} : Same(d), done' \subseteq done \cup {c},
           c \in done' /\ mishaps' = {} /\ Own(c)' /\ Owed(c)' => Covered(c)'
    PROVE  PromisedInv'
<1>1. mishaps' = {} => Rewritten
  BY RestRewrites
<1>2. \A d \in done \ {c} : Signalled(d) => Signalled(d)'
  <2>1. \A d \in done \ {c} : d \in Changes \ {c}
    BY Typed
  <2> QED BY <2>1, EventsRest DEF Same
<1> QED BY <1>1, <1>2, PromisedKeeps

(* The server makes a change: the form that asked for it, the event or      *)
(* nobody at all covers it.                                                 *)
LEMMA ApplyPromises ==
    ASSUME TypeInv, Made, SeenInv, SentInv, NEW c \in Changes, Apply(c), mishaps' = {}, mishaps = {},
           Own(c)', Owed(c)'
    PROVE  Covered(c)'
<1> DEFINE f == call[c].by
<1>1. /\ call[c].step \in {"sent", "late"} /\ f \in Forms /\ place \in Places
      /\ answer' = answer /\ fetch' = fetch /\ place' = place /\ watched' = watched
      /\ Publish(c, f)
  BY Typed DEF Apply
<1>2. /\ call'[c].by = f /\ call'[c].mine = call[c].mine /\ call'[c].rooms = At[place].rooms
      /\ call'[c].step = IF call[c].step = "sent" THEN "applied" ELSE "over"
  BY ApplyTyped
<1>3. Own(c)
  BY <1>1, <1>2 DEF Own, Affected
<1>4. ASSUME Nowhere \/ InView(c) PROVE Covered(c)'
  BY <1>1, <1>4 DEF Covered, Nowhere, InView
<1>5. CASE call[c].step = "late"
  <2>1. ~Lacks(c, f)
    BY <1>1, <1>5 DEF Publish, Mark
  <2> QED BY <1>1, <1>3, <1>4, <2>1, NotLacking
<1>6. CASE call[c].step = "sent" /\ watched \in Keeps(f)
  <2>1. CASE watched \in Does[f].matches \cap Does[f].patches
    <3>1. Shows(c)
      BY <1>3, <2>1 DEF Shows
    <3>2. InView(c)
      BY <1>6, <2>1, <3>1 DEF SentInv, InView
    <3> QED BY <1>4, <3>2
  <2>2. CASE watched \in Does[f].merges \cup Does[f].refreshes
    BY <1>1, <1>2, <1>6, <2>2 DEF Covered, Answering
  <2> QED BY <1>1, <1>6, <2>1, <2>2, PromisesAreBacked
<1>7. CASE call[c].step = "sent" /\ watched \in Told(At[place].rooms, Does[f].event)
  <2>1. watched \in Brings(place, f)
    <3> HIDE DEF f
    <3> QED BY <1>1, <1>7, PromisesAreBacked
  <2>2. CASE Heard(online, f)
    <3>1. [change |-> c, after |-> done] \in feed'
      BY <1>1, <2>2 DEF Publish
    <3>2. watched' \in Brings(place', call'[c].by)
      BY <1>1, <1>2, <2>1
    <3>3. Signalled(c)'
      BY <3>1, <3>2 DEF Signalled, Brings
    <3> QED BY <3>3 DEF Covered
  <2>3. CASE ~Heard(online, f)
    <3>1. ~Lacks(c, f)
      BY <1>1, <1>7, <2>1, <2>3 DEF Publish, Mark, Misses, Brings
    <3> QED BY <1>1, <1>3, <1>4, <3>1, NotLacking
  <2> QED BY <2>2, <2>3
<1>8. watched \in Keeps(f) \/ watched \in Told(At[place].rooms, Does[f].event)
  BY <1>1, <1>2 DEF Owed
<1> QED BY <1>1, <1>5, <1>6, <1>7, <1>8

LEMMA OtherPromises ==
    ASSUME TypeInv, BegunInv, NEW c \in Unmade, NEW f \in Forms, Other(c, f), mishaps' = {},
           Own(c)', Owed(c)'
    PROVE  Covered(c)'
<1>1. /\ call[c].step = "unused" /\ c \in Changes /\ place \in Places
      /\ answer' = answer /\ fetch' = fetch /\ place' = place /\ watched' = watched
      /\ Publish(c, f)
  BY Typed DEF Other, Unmade
<1> DEFINE over == [NoCall EXCEPT !.step = "over", !.by = f, !.rooms = At[place].rooms]
<1>2. over.by = f /\ over.mine = FALSE /\ over.rooms = At[place].rooms
  BY DEF NoCall
<1>3. call' = [call EXCEPT ![c] = over]
  BY DEF Other
<1> HIDE DEF over
<1>4. call'[c].by = f /\ call'[c].mine = FALSE /\ call'[c].rooms = At[place].rooms
  BY <1>1, <1>2, <1>3, Typed DEF CallsType
<1>5. Affected(f) /\ watched \in Told(At[place].rooms, Does[f].event)
  BY <1>1, <1>4 DEF Own, Affected, Owed
<1>6. watched \in Brings(place, f)
  BY <1>1, <1>5, PromisesAreBacked
<1>7. CASE Heard(online, f)
  <2>1. [change |-> c, after |-> done] \in feed'
    BY <1>1, <1>7 DEF Publish
  <2>2. watched' \in Brings(place', call'[c].by)
    BY <1>1, <1>4, <1>6
  <2>3. Signalled(c)'
    BY <2>1, <2>2 DEF Signalled, Brings
  <2> QED BY <2>3 DEF Covered
<1>8. CASE ~Heard(online, f)
  <2>1. ~Lacks(c, f)
    BY <1>1, <1>6, <1>8 DEF Publish, Mark, Misses, Brings
  <2>2. c \notin answer.shows
    BY <1>1 DEF BegunInv, Begun
  <2>3. Nowhere
    BY <1>5, <2>1, <2>2 DEF Lacks, Nowhere
  <2> QED BY <1>1, <2>3 DEF Covered, Nowhere
<1> QED BY <1>7, <1>8

(* The user goes elsewhere: what was on its way to the answer is dropped    *)
(* with a mark, or the answer is fetched again when somebody looks at it.   *)
LEMMA NavigatePromises ==
    ASSUME TypeInv, SeenInv, NEW p \in At[place].next, NEW aged \in BOOLEAN, Navigate(p, aged),
           mishaps' = {}, NEW d \in done, Own(d), Covered(d)
    PROVE  Covered(d)'
<1> DEFINE dropped == fetch.step # "idle" /\ ~Mounted(p) /\ watched \notin Unsignalled
           same == At[p].page = At[place].page
           open == IF same THEN online ELSE online \cap At[p].rooms \cap AppRooms
           new  == [answer EXCEPT !.stale = @ \/ aged]
           opened == Mounted(p) /\ (~same \/ ~Mounted(place))
<1>0. /\ answer \in AnswerType /\ fetch \in FetchType /\ p \in Places /\ place \in Places
      /\ d \in Changes /\ online \subseteq At[place].rooms
  BY Typed, TablesFit
<1>1. /\ answer'.has = answer.has /\ answer'.shows = answer.shows
      /\ answer'.stale = (answer.stale \/ aged) /\ answer' = new
  BY <1>0 DEF Navigate, AnswerType
<1>2. /\ place' = p /\ watched' = watched /\ done' = done
      /\ KeepOnly(open) /\ ~Loses(open)
      /\ ~(dropped /\ fetch.overtaken /\ ~new.stale /\ Incomplete(new))
      /\ fetch' = IF opened /\ fetch.step = "idle" /\ (~new.has \/ new.stale) THEN Asked
                  ELSE IF dropped THEN NoFetch ELSE fetch
  BY DEF Navigate, Mark
<1>3. call'[d].by = call[d].by /\ call'[d].step = call[d].step
  <2>1. Stays(0, {})
    BY LeaveDoes
  <2> QED BY <1>0, <2>1, NotZero DEF Stays, Same
<1> HIDE DEF new
<1>4. ~(dropped /\ fetch.overtaken /\ ~answer'.stale /\ answer'.has /\ d \notin answer'.shows)
  BY <1>1, <1>2 DEF Incomplete, Own
<1>5. fetch' = IF opened /\ fetch.step = "idle" /\ (~answer'.has \/ answer'.stale) THEN Asked
               ELSE IF dropped THEN NoFetch ELSE fetch
  BY <1>1, <1>2
<1>6. /\ NoFetch.step = "idle" /\ Asked.step = "asked" /\ fetch.step \in {"idle", "asked", "read"}
  BY <1>0, FetchTypes DEF FetchType
<1>7. Mounted(place)' <=> Mounted(p)
  BY <1>2 DEF Mounted
<1> HIDE DEF dropped, open
<1>8. CASE Nowhere
  BY <1>1, <1>5, <1>6, <1>8 DEF Covered, Nowhere
<1>9. CASE InView(d)
  BY <1>1, <1>5, <1>6, <1>9 DEF Covered, InView
<1>10. CASE Coming(d)
  <2>1. CASE ~dropped
    <3>1. fetch' = fetch
      BY <1>5, <1>10, <2>1 DEF Coming
    <3> QED BY <1>1, <1>10, <3>1 DEF Covered, Coming
  <2>2. CASE dropped
    <3>1. fetch'.step = "idle" /\ ~Mounted(p)
      BY <1>5, <1>6, <1>10, <2>2 DEF Coming, dropped
    <3>2. CASE answer'.stale
      BY <1>7, <3>1, <3>2 DEF Covered, Outdated
    <3>3. CASE ~answer'.has
      BY <3>1, <3>3 DEF Covered, Nowhere
    <3>4. CASE ~answer'.stale /\ answer'.has
      <4>1. d \in answer'.shows
        BY <1>1, <1>4, <1>10, <2>2, <3>4 DEF Coming
      <4> QED BY <3>1, <4>1 DEF Covered, InView
    <3> QED BY <3>2, <3>3, <3>4
  <2> QED BY <2>1, <2>2
<1>11. CASE Outdated
  <2>1. answer'.stale /\ fetch.step = "idle" /\ ~Mounted(place)
    BY <1>1, <1>11 DEF Outdated
  <2>2. CASE Mounted(p)
    <3>1. fetch' = Asked
      BY <1>5, <2>1, <2>2
    <3> QED BY <1>6, <2>1, <3>1 DEF Covered, Coming
  <2>3. CASE ~Mounted(p)
    <3>1. fetch'.step = "idle"
      BY <1>5, <1>6, <2>1, <2>3
    <3> QED BY <1>7, <2>1, <2>3, <3>1 DEF Covered, Outdated
  <2> QED BY <2>2, <2>3
<1>12. CASE Answering(d)
  BY <1>2, <1>3, <1>12 DEF Covered, Answering
<1>13. CASE Signalled(d)
  <2>1. open \subseteq At[place].rooms
    BY <1>0 DEF open
  <2>2. At[p].rooms = At[place].rooms \/ open \subseteq At[p].rooms \cap AppRooms
    BY <1>0, TablesFit DEF open
  <2>3. Signalled(d)' \/ Nowhere \/ InView(d)
    BY <1>0, <1>2, <1>3, <1>13, <2>1, <2>2, SignalStays
  <2> QED BY <1>8, <1>9, <2>3 DEF Covered
<1> QED BY <1>8, <1>9, <1>10, <1>11, <1>12, <1>13 DEF Covered

(* The requests.                                                            *)
LEMMA RequestPromises ==
    ASSUME TypeInv, Poll \/ Read \/ Land, mishaps' = {}, NEW d \in done, Own(d),
           mishaps = {} => Covered(d)
    PROVE  Covered(d)'
<1>0. /\ fetch \in FetchType /\ fetch.step \in {"idle", "asked", "read"} /\ d \in Changes
      /\ watched' = watched /\ place' = place /\ feed' = feed
  BY Typed DEF Poll, Read, Land, FetchType
<1>1. call'[d].by = call[d].by /\ call'[d].step = call[d].step
  <2>1. \E S : Stays(0, S)
    BY LeaveDoes, ReadDoes, LandDoes
  <2> QED BY <1>0, <2>1, NotZero DEF Stays, Same
<1>2. (Answering(d) => Answering(d)') /\ (Signalled(d) => Signalled(d)')
  BY <1>0, <1>1, EventsRest DEF Answering
<1>3. CASE Poll
  <2>1. /\ fetch.step = "idle" /\ Mounted(place) /\ fetch'.step = "asked" /\ answer' = answer
        /\ mishaps' = mishaps
    BY <1>3, FetchTypes DEF Poll, Asked
  <2> QED BY <1>2, <2>1 DEF Covered, Nowhere, InView, Coming, Outdated
<1>4. CASE Read
  <2>1. /\ fetch.step = "asked" /\ answer' = answer /\ mishaps' = mishaps
        /\ fetch'.step = "read" /\ d \in fetch'.read
        /\ fetch.overtaken => fetch'.overtaken
    BY <1>4 DEF Read, Own
  <2> QED BY <1>2, <2>1 DEF Covered, Nowhere, InView, Coming, Outdated
<1>5. CASE Land
  <2>1. /\ fetch.step = "read" /\ answer'.shows = fetch.read /\ fetch'.step = "idle"
        /\ ~fetch.overtaken
    BY <1>5, LandDoes
  <2>2. CASE d \in fetch.read
    BY <2>1, <2>2 DEF Covered, InView
  <2>3. CASE d \notin fetch.read
    <3>1. mishaps = {}
      BY <1>5, <2>1, <2>3 DEF Land, Own
    <3>2. Covered(d)
      BY <3>1
    <3> QED BY <1>2, <2>1, <2>3, <3>2 DEF Covered, Nowhere, InView, Coming, Outdated
  <2> QED BY <2>2, <2>3
<1> QED BY <1>3, <1>4, <1>5

LEMMA PromisedSteps ==
    TypeInv /\ Made /\ BegunInv /\ SeenInv /\ SentInv /\ PromisedInv /\ [Next]_vars => PromisedInv'
<1> SUFFICES ASSUME TypeInv, Made, BegunInv, SeenInv, SentInv, PromisedInv, [Next]_vars
             PROVE  PromisedInv'
  OBVIOUS
<1>0. 0 \notin Changes /\ done \subseteq Changes
  BY NotZero, Typed
<1>1. ASSUME NEW c \in Unmade, NEW f \in Forms, NEW old \in Opened(f), Submit(c, f, old)
      PROVE  PromisedInv'
  <2>1. /\ c \in Changes /\ call[c].step = "unused"
        /\ Stays(c, Does[f].matches) /\ (mishaps' = {} => answer.shows \subseteq answer'.shows)
        /\ done' = done /\ watched' = watched /\ mishaps \subseteq mishaps'
    BY <1>1, SubmitDoes
  <2>2. mishaps' = {} => Rewritten /\ feed' = feed /\ place' = place
    BY <1>1, SubmitWrites DEF Rewritten
  <2>3. \A d \in Changes \ {c} : Same(d)
    BY <2>1 DEF Stays
  <2>4. mishaps' = {} => \A d \in done \ {c} : Signalled(d) => Signalled(d)'
    BY <1>0, <2>1, <2>2, <2>3, EventsRest DEF Same
  <2>5. c \notin done'
    BY <2>1 DEF Made
  <2> QED BY <2>1, <2>2, <2>3, <2>4, <2>5, PromisedKeeps
<1>2. ASSUME NEW c \in Unmade, NEW f \in Forms, SubmitFails(c, f) PROVE PromisedInv'
  <2>1. /\ c \in Changes /\ call[c].step = "unused" /\ Stays(c, {})
        /\ answer' = answer /\ watched' = watched /\ mishaps \subseteq mishaps'
    BY <1>2, OtherDoes
  <2>2. /\ mishaps' = {} => fetch' = fetch
        /\ place' = place /\ feed' = feed /\ done' = done
    BY <1>2 DEF SubmitFails, Mark
  <2>3. \A d \in Changes \ {c} : Same(d)
    BY <2>1 DEF Stays
  <2>4. c \notin done'
    BY <2>1, <2>2 DEF Made
  <2> QED BY <2>1, <2>2, <2>3, <2>4, RestKeeps
<1>3. ASSUME NEW c \in Unmade, NEW f \in Forms, Other(c, f) PROVE PromisedInv'
  <2>1. /\ c \in Changes /\ Stays(c, {})
        /\ answer' = answer /\ watched' = watched /\ mishaps \subseteq mishaps'
    BY <1>3, OtherDoes
  <2>2. fetch' = fetch /\ place' = place /\ feed \subseteq feed' /\ done' = done \cup {c}
    BY <1>3 DEF Other, Publish
  <2>3. \A d \in Changes \ {c} : Same(d)
    BY <2>1 DEF Stays
  <2>4. mishaps' = {} /\ Own(c)' /\ Owed(c)' => Covered(c)'
    BY <1>3, OtherPromises
  <2> QED BY <2>1, <2>2, <2>3, <2>4, RestKeeps
<1>4. ASSUME NEW c \in Changes, Apply(c) PROVE PromisedInv'
  <2>1. /\ Stays(c, {})
        /\ answer' = answer /\ fetch' = fetch /\ watched' = watched /\ mishaps \subseteq mishaps'
    BY <1>4, ServerDoes
  <2>2. place' = place /\ feed \subseteq feed' /\ done' = done \cup {c}
    BY <1>4 DEF Apply, Publish
  <2>3. \A d \in Changes \ {c} : Same(d)
    BY <2>1 DEF Stays
  <2>4. mishaps' = {} /\ Own(c)' /\ Owed(c)' => Covered(c)'
    <3>1. mishaps' = {} => mishaps = {}
      BY <2>1
    <3> QED BY <1>4, <3>1, ApplyPromises
  <2> QED BY <2>1, <2>2, <2>3, <2>4, RestKeeps
<1>5. ASSUME NEW c \in Changes, Refuse(c) PROVE PromisedInv'
  <2>1. /\ call[c].step \in {"sent", "late"} /\ Stays(c, {})
        /\ answer' = answer /\ fetch' = fetch /\ watched' = watched /\ mishaps \subseteq mishaps'
    BY <1>5, ServerDoes
  <2>2. place' = place /\ feed' = feed /\ done' = done
    BY <1>5 DEF Refuse
  <2>3. \A d \in Changes \ {c} : Same(d)
    BY <2>1 DEF Stays
  <2>4. c \notin done'
    BY <2>1, <2>2 DEF Made
  <2> QED BY <2>1, <2>2, <2>3, <2>4, RestKeeps
<1>6. ASSUME NEW c \in Changes, Answer(c) PROVE PromisedInv'
  <2>1. /\ call[c].step = "applied" /\ Moves(c) /\ call'[c].rooms = call[c].rooms
        /\ \E S : Stays(c, S)
        /\ mishaps' = {} => answer.shows \subseteq answer'.shows
        /\ done' = done /\ watched' = watched /\ mishaps \subseteq mishaps'
    BY <1>6, AnswerDoes
  <2>2. mishaps' = {} => /\ Rewritten /\ feed' = feed /\ place' = place
                         /\ Own(c) /\ Answering(c) => Nowhere \/ InView(c) \/ Covered(c)'
    BY <1>6, AnswerWrites DEF Rewritten
  <2>3. \A d \in Changes \ {c} : Same(d)
    BY <2>1 DEF Stays
  <2>4. mishaps' = {} => \A d \in done : Signalled(d) => Signalled(d)'
    BY <1>0, <2>1, <2>2, <2>3, EventsRest DEF Same, Moves
  <2>5. ASSUME mishaps' = {}, Own(c)', Owed(c)' PROVE Covered(c)'
    <3>1. Own(c) /\ Owed(c) /\ c \in done
      BY <2>1, <2>5, OwedStays DEF Moves, Made
    <3>2. Covered(c)
      BY <2>1, <2>5, <3>1 DEF PromisedInv
    <3> QED BY <2>1, <2>2, <2>4, <2>5, <3>1, <3>2, CoverStays DEF Moves
  <2> QED BY <2>1, <2>2, <2>3, <2>4, <2>5, PromisedKeeps
<1>7. ASSUME NEW c \in Changes, Fail(c) \/ GiveUp(c) PROVE PromisedInv'
  <2>1. /\ call[c].step = "refused" \/ GiveUp(c)
        /\ Moves(c) /\ \E S : Stays(c, S)
        /\ done' = done /\ watched' = watched /\ mishaps \subseteq mishaps'
    BY <1>7, FailDoes
  <2>2. mishaps' = {} => /\ Rewritten /\ feed' = feed /\ place' = place
                         /\ \A x \in answer.shows \ {c} : Own(x) => x \in answer'.shows
                         /\ GiveUp(c) => ~Own(c)
    BY <1>7, FailWrites DEF Rewritten
  <2>3. \A d \in Changes \ {c} : Same(d)
    BY <2>1 DEF Stays
  <2>4. mishaps' = {} => \A d \in done \ {c} : Signalled(d) => Signalled(d)'
    BY <1>0, <2>1, <2>2, <2>3, EventsRest DEF Same
  <2>5. ~(c \in done' /\ mishaps' = {} /\ Own(c)')
    <3>1. Own(c)' <=> Own(c)
      BY <2>1 DEF Moves, Own, Affected
    <3> QED BY <2>1, <2>2, <3>1 DEF Made
  <2> QED BY <2>1, <2>2, <2>3, <2>4, <2>5, PromisedKeeps
(* The steps of no call.                                                    *)
<1>8. ASSUME NEW S, Stays(0, S), watched' = watched, done' = done,
             NEW d \in done, Own(d)', Owed(d)'
      PROVE  d \in Changes /\ Own(d) /\ Owed(d) /\ (mishaps = {} => Covered(d))
             /\ call'[d].by = call[d].by
  <2>1. d \in Changes /\ Same(d)
    BY <1>0, <1>8 DEF Stays
  <2> QED BY <1>8, <2>1, OwedStays DEF Same, PromisedInv
<1>9. ASSUME NEW p \in At[place].next, NEW aged \in BOOLEAN, Navigate(p, aged) PROVE PromisedInv'
  <2>1. Stays(0, {}) /\ watched' = watched /\ mishaps \subseteq mishaps' /\ done' = done
    BY <1>9, LeaveDoes
  <2> SUFFICES ASSUME mishaps' = {}, NEW d \in done, Own(d)', Owed(d)' PROVE Covered(d)'
    BY <2>1 DEF PromisedInv
  <2>2. mishaps = {} /\ Own(d) /\ Covered(d)
    BY <1>8, <2>1
  <2> QED BY <1>9, <2>2, NavigatePromises
<1>10. ASSUME Poll \/ Read \/ Land PROVE PromisedInv'
  <2>1. /\ \E S : Stays(0, S)
        /\ watched' = watched /\ done' = done
    BY <1>10, LeaveDoes, ReadDoes, LandDoes
  <2> SUFFICES ASSUME mishaps' = {}, NEW d \in done, Own(d)', Owed(d)' PROVE Covered(d)'
    BY <2>1 DEF PromisedInv
  <2>2. Own(d) /\ (mishaps = {} => Covered(d))
    BY <1>8, <2>1
  <2> QED BY <1>10, <2>2, RequestPromises
<1>11. CASE Lose
  BY <1>11 DEF Lose, PromisedInv
<1>12. ASSUME NEW e \in First, Leave(e) PROVE PromisedInv'
  BY <1>12, NoAnswerType, FetchTypes, Typed DEF Leave, PromisedInv, Covered, Nowhere
<1>13. ASSUME NEW r \in At[place].rooms, Disconnect(r) PROVE PromisedInv'
  <2>1. Stays(0, {}) /\ watched' = watched /\ mishaps \subseteq mishaps' /\ done' = done
    BY <1>13, LeaveDoes
  <2>2. /\ answer' = answer /\ fetch' = fetch /\ place' = place
        /\ KeepOnly(online \ {r}) /\ (mishaps' = {} => ~Loses(online \ {r}))
    BY <1>13 DEF Disconnect, Mark
  <2>3. mishaps' = {} => Rewritten
    BY <2>1, <2>2, RestRewrites
  <2>4. \A d \in Changes : Same(d)
    BY <1>0, <2>1 DEF Stays
  <2>5. ASSUME mishaps' = {}, NEW d \in done, Own(d), Signalled(d)
        PROVE  Signalled(d)' \/ Nowhere \/ InView(d)
    <3>1. place \in Places /\ online \ {r} \subseteq At[place].rooms /\ call'[d].by = call[d].by
      BY <1>0, <2>4, Typed DEF Same
    <3> QED BY <2>1, <2>2, <2>5, <3>1, SignalStays
  <2> QED BY <1>0, <2>1, <2>2, <2>3, <2>4, <2>5, PromisedKeeps
<1>14. ASSUME NEW r \in At[place].rooms, Connect(r) PROVE PromisedInv'
  <2>1. Stays(0, {}) /\ watched' = watched /\ done' = done
    BY <1>14, LeaveDoes
  <2>2. /\ answer' = answer /\ fetch' = fetch /\ place' = place /\ feed' = feed /\ mishaps' = mishaps
    BY <1>14 DEF Connect
  <2>3. \A d \in Changes : Same(d)
    BY <1>0, <2>1 DEF Stays
  <2> QED BY <1>0, <2>1, <2>2, <2>3, RestKeeps
<1>15. ASSUME NEW e \in First, Deliver(e) PROVE PromisedInv'
  <2>1. /\ \E S : Stays(0, S)
        /\ answer.shows \subseteq answer'.shows
        /\ done' = done /\ watched' = watched /\ mishaps \subseteq mishaps'
    BY <1>15, DeliverDoes
  <2>2. \A d \in Changes : Same(d)
    BY <1>0, <2>1 DEF Stays
  <2>3. mishaps' = {} =>
            /\ Rewritten /\ feed' = feed \ {e} /\ place' = place
            /\ e.change \in Changes /\ Own(e.change) /\ watched \in Brings(place, call[e.change].by)
               => Covered(e.change)'
    BY <1>15, DeliverWrites DEF Rewritten
  <2>4. ASSUME mishaps' = {}, NEW d \in done, Own(d), Signalled(d)
        PROVE  Signalled(d)' \/ Covered(d)'
    <3>1. PICK x \in feed : x.change = d /\ watched \in Brings(place, call[d].by)
      BY <2>4 DEF Signalled
    <3>2. CASE x = e
      BY <1>0, <2>3, <2>4, <3>1, <3>2
    <3>3. CASE x # e
      <4>1. x \in feed' /\ place' = place /\ call'[d].by = call[d].by
        BY <1>0, <2>2, <2>3, <2>4, <3>3 DEF Same
      <4> QED BY <2>1, <3>1, <4>1 DEF Signalled, Brings
    <3> QED BY <3>2, <3>3
  <2> QED BY <1>0, <2>1, <2>2, <2>3, <2>4, PromisedKeeps
<1>16. CASE UNCHANGED vars
  <2>1. /\ watched' = watched /\ place' = place /\ answer' = answer /\ fetch' = fetch
        /\ call' = call /\ done' = done /\ feed' = feed /\ mishaps' = mishaps
    BY <1>16 DEF vars
  <2>2. ASSUME NEW c \in done PROVE Own(c)' = Own(c) /\ Owed(c)' = Owed(c)
    BY <2>1 DEF Own, Affected, Owed
  <2>3. ASSUME NEW c \in done PROVE InView(c)' = InView(c) /\ Coming(c)' = Coming(c)
    BY <2>1 DEF InView, Coming
  <2>4. ASSUME NEW c \in done PROVE Answering(c)' = Answering(c) /\ Signalled(c)' = Signalled(c)
    BY <2>1 DEF Answering, Signalled
  <2>5. Nowhere' = Nowhere /\ Outdated' = Outdated
    BY <2>1 DEF Nowhere, Outdated, Mounted
  <2> QED BY <2>1, <2>2, <2>3, <2>4, <2>5 DEF PromisedInv, Covered
<1> QED
  BY <1>1, <1>2, <1>3, <1>4, <1>5, <1>6, <1>7, <1>9, <1>10, <1>11, <1>12, <1>13, <1>14, <1>15, <1>16,
     NextSteps

(* For any tables that back what they promise, any number of calls, moves,  *)
(* requests and lost sockets, in any order: once all is quiet, the answer   *)
(* the user looks at shows every change the client undertakes to show,      *)
(* unless a mark says why not.                                              *)
THEOREM PromisesAreKept == Spec => []SettledViewIsTrue
<1> DEFINE IInv == TypeInv /\ Made /\ BegunInv /\ SeenInv /\ SentInv /\ PromisedInv
<1>1. Init => IInv
  <2> SUFFICES ASSUME Init PROVE IInv
    OBVIOUS
  <2>1. (answer = NoAnswer \/ answer = Answered) /\ fetch.step # "read" /\ done = {}
    BY DEF Init, NoFetch
  <2>2. \A c \in Changes : call[c].set = FALSE /\ call[c].before = NoAnswer /\ call[c].step = "unused"
    BY NoCallType DEF Init
  <2>3. SeenInv /\ SentInv /\ PromisedInv
    BY <2>1, <2>2, NoAnswerType DEF SeenInv, SentInv, PromisedInv, Restorable
  <2> QED BY <2>3, InitTypes, BegunInit
<1>2. IInv /\ [Next]_vars => IInv'
  BY StepTypes, MadeSteps, BegunSteps, SeenSteps, SentSteps, PromisedSteps
<1>3. IInv => SettledViewIsTrue
  <2> SUFFICES ASSUME IInv, Quiet, Mounted(place), answer.has, mishaps = {},
                      NEW c \in done, Own(c), Owed(c)
               PROVE  c \in answer.shows
    BY DEF SettledViewIsTrue, Own
  <2>1. Covered(c)
    BY DEF PromisedInv
  <2>2. c \in Changes /\ fetch.step = "idle" /\ feed = {} /\ call[c].step # "applied"
    BY Typed DEF Quiet
  <2> QED BY <2>1, <2>2 DEF Covered, Nowhere, InView, Coming, Outdated, Answering, Signalled
<1> QED BY <1>1, <1>2, <1>3, PTL DEF Spec
=============================================================================
