------------------------------ MODULE ReviewProofs ------------------------------
(* Theorems about the review workspace.                                     *)
EXTENDS ReviewWorkspace, TLAPS

(* So close to a time that a paused video does not seek it.                 *)
Close(f, g) == Distance(f, g) <= PausedWithin

(* How the player stands: it does not believe to play a paused video, and   *)
(* one that it does not believe to play is where the workspace says or so   *)
(* close to it that it does not seek, or the workspace's time was taken for *)
(* an echo, or it has just started over.                                    *)
PlayerStands ==
    /\ player.isPlaying => ~video.paused
    /\ ~Does("play") => video.paused
    /\ setup.loop = <<>> /\ ~player.isPlaying =>
           Close(video.at, time) \/ Echo(player, time) \/ (~video.paused /\ video.at = 0)

(* With a loop, a paused video may be taken back into it without a report:  *)
(* then the workspace's time was an echo already.  Nothing plays on the     *)
(* last frame for long, and it is nobody's comment.                         *)
Looping ==
    /\ setup.loop # <<>> /\ ~May("fast") /\ setup.link = None
    /\ \A c \in Comments : Stamp[c] < Last
StandsInLoop ==
    /\ video.paused => Close(video.at, time) \/ Echo(player, time)
    /\ video.paused /\ event /\ since <= Throttle /\ OutOfLoop(video.at) => Echo(player, time)
    /\ ~video.paused /\ video.at = Last => event /\ Echo(player, time)
    /\ time = Last => \/ Echo(player, time)
                     \/ (video.paused /\ event /\ since > Throttle /\ video.at = Last)
LoopStands == Looping => StandsInLoop

-----------------------------------------------------------------------------
(* The selected frame.                                                      *)

(* The workspace's time is that of comment c, unless the video was just     *)
(* paused elsewhere and the player has yet to deselect it.                  *)
Placed(c) == time = Stamp[c] \/ (Does("play") /\ event /\ video.paused /\ video.at = time)

CallsKnown == \A k \in DOMAIN call : call[k].step = "sent" => Does(k)

(* The answer to call k may select its comment again.                       *)
SelectsAgain(k) ==
    call[k].step = "sent" /\ call[k].was /\ (k = "resolve" \/ May("refusals"))

FrameInv ==
    Steady =>
        /\ active # None => Placed(active)
        /\ \A k \in DOMAIN call :
               SelectsAgain(k) =>
                   /\ ~event /\ call[k].comment \in Comments
                   /\ time = Stamp[call[k].comment]
                   /\ setup.link # None => active = call[k].comment

-----------------------------------------------------------------------------
(* The selection.                                                           *)

OneCall == ~May("overlap") => call["resolve"].step = "no" \/ call["delete"].step = "no"

(* A call that may select again has its comment back, or in the list, and   *)
(* nothing else is selected meanwhile; where a link would do so, nothing    *)
(* takes the selection away from it.                                        *)
WholeInv ==
    ~May("overlap") /\ LinkStandsBack =>
        /\ active \in comments \cup {None} /\ shapes \cap Comments \subseteq {active}
        /\ SelectsAgain("resolve") =>
               /\ call["resolve"].comment \in comments
               /\ active \in {None, call["resolve"].comment}
               /\ setup.link # None => active # None /\ ~event
        /\ SelectsAgain("delete") => active = None

-----------------------------------------------------------------------------
(* New comments.                                                            *)

(* The setting of CommentsAreNear.                                          *)
Orderly == Calm /\ setup.link = None /\ setup.loop = <<>> /\ NoneIsLate

(* The player has reported since comment t was chosen, or has just been     *)
(* moved to it.                                                             *)
Near ==
    LET e == player.echo
    IN  /\ e = -1 => since > Throttle
        /\ video.paused /\ e >= 0 /\ (~event \/ since <= Throttle) =>
               Distance(e, video.at) <= PlayingWithin + Throttle - EchoWithin
        /\ ~video.paused /\ since <= Throttle =>
               \/ /\ e <= video.at /\ video.at - e <= since
                  /\ time >= e - PlayingWithin /\ (time = e \/ time + Throttle < Last)
               \/ /\ time # e /\ time <= video.at /\ video.at - time <= since
                  /\ time + Throttle < Last
        /\ ~video.paused /\ since <= Throttle /\ ~player.isPlaying => time = e /\ video.at = e
        /\ ~video.paused /\ since > Throttle /\ ~event /\ time = e =>
               Distance(e, video.at) <= PlayingWithin + Throttle

NearInv == Orderly =>
    /\ Near
    /\ Distance(sending.time, sending.shown) <= PlayingWithin + Throttle
-----------------------------------------------------------------------------
(* Types.                                                                   *)

Players == [isPlaying : BOOLEAN, scrub : Frames, echo : Frames \cup {-1}]
Videos  == [at : Frames, paused : BOOLEAN]

ClockOK == /\ video \in Videos /\ player \in Players
           /\ since \in 0..(Throttle + 1) /\ event \in BOOLEAN /\ time \in Frames

LEMMA NoneIsNoComment == None \notin Comments /\ "mine" \notin Comments
BY PlayerAssumption

LEMMA FramesAreIntegers == Frames \subseteq Int /\ 0 \in Frames /\ Last \in Frames
BY PlayerAssumption DEF Frames

LEMMA LastIsNumber == Last \in Nat /\ Frames = 0..Last
BY PlayerAssumption DEF Frames

LEMMA StampsAreFrames == ASSUME NEW c \in Comments PROVE Stamp[c] \in Frames
BY PlayerAssumption

LEMMA SafeTimes == ASSUME NEW f \in Int PROVE safeTime(f) \in Frames
BY PlayerAssumption DEF safeTime, Frames

(* The step of the clocks that ends in Becomes is typed.                    *)
LEMMA BecomesTypes ==
    ASSUME NEW p \in Players, NEW v \in Videos, NEW t \in Frames, NEW ev \in BOOLEAN,
           Becomes(p, v, t, ev)
    PROVE  video' \in Videos /\ player' \in Players /\ event' \in BOOLEAN /\ time' \in Frames
BY DEF Becomes, Players, Videos

LEMMA LoopTypes ==
    ASSUME setup \in Setups, NEW v \in Videos
    PROVE  LoopOf(v) \in Videos
<1>1. setup.loop # <<>> => setup.loop[1] \in Frames
  BY PlayerAssumption
<1> QED BY <1>1 DEF LoopOf, OutOfLoop, Videos

LEMMA TicksTypes ==
    ASSUME setup \in Setups, time \in Frames, since \in 0..(Throttle + 1),
           NEW p \in Players, NEW v \in Videos, NEW n \in 0..(Throttle + 1), NEW ev \in BOOLEAN,
           Ticks(p, v, n, ev)
    PROVE  /\ video' \in Videos /\ player' \in Players /\ event' \in BOOLEAN /\ time' \in Frames
           /\ since' \in 0..(Throttle + 1)
<1>1. LoopOf(v) \in Videos
  BY LoopTypes
<1>2. OutOfLoop(v.at) \in BOOLEAN
  BY DEF OutOfLoop
<1>3. v.at \in Frames /\ [p EXCEPT !.echo = v.at] \in Players
  BY DEF Players, Videos
<1>4. since' \in 0..(Throttle + 1)
  BY PlayerAssumption DEF Ticks
<1>5. CASE Reported(n)
  <2>1. Becomes([p EXCEPT !.echo = v.at], LoopOf(v), v.at, ev \/ OutOfLoop(v.at))
    BY <1>5 DEF Ticks
  <2> QED BY <2>1, <1>1, <1>2, <1>3, <1>4, BecomesTypes
<1>6. CASE ~Reported(n)
  <2>1. Becomes(p, LoopOf(v), time, ev \/ OutOfLoop(v.at))
    BY <1>6 DEF Ticks
  <2> QED BY <2>1, <1>1, <1>2, <1>3, <1>4, BecomesTypes
<1> QED BY <1>5, <1>6

(* Setting the time of the player.                                          *)
LEMMA SeekTypes ==
    ASSUME ClockOK, NEW p \in Players, NEW v \in Videos, NEW f \in Int, seekTo(v, p, f)
    PROVE  video' \in Videos /\ player' \in Players /\ event' \in BOOLEAN /\ time' \in Frames
<1>1. safeTime(f) \in Frames
  BY SafeTimes
<1>2. /\ [p EXCEPT !.scrub = safeTime(f), !.echo = safeTime(f)] \in Players
      /\ [v EXCEPT !.at = safeTime(f)] \in Videos
  BY <1>1 DEF Players, Videos
<1> QED BY <1>1, <1>2, BecomesTypes DEF seekTo

LEMMA SelectTypes ==
    ASSUME ClockOK, NEW c \in Comments, Select(c)
    PROVE  /\ video' \in Videos /\ player' \in Players /\ event' \in BOOLEAN /\ time' \in Frames
           /\ active' \in Comments \cup {None} /\ shapes' \subseteq Comments
<1>1. Chosen(c) \in Comments \cup {None}
  BY DEF Chosen
<1>2. (IF Chosen(c) = None THEN time ELSE Stamp[c]) \in Frames
  BY StampsAreFrames DEF ClockOK
<1> QED BY <1>1, <1>2, BecomesTypes DEF Select, ClockOK

(* Every clock stays on the video, whoever acts.                            *)
LEMMA ClocksKept ==
    ASSUME setup \in Setups, ClockOK, comments \subseteq Comments, Next
    PROVE  ClockOK'
<1> USE DEF ClockOK
<1>0. /\ video.at \in Frames /\ video.paused \in BOOLEAN /\ player.isPlaying \in BOOLEAN
      /\ [player EXCEPT !.scrub = video.at] \in Players
  BY DEF Players, Videos
<1>1. ASSUME Frame PROVE ClockOK'
  <2> DEFINE v == [video EXCEPT !.at = @ + 1]
             n == IF Reported(since) THEN since ELSE since + 1
  <2>1. v \in Videos /\ v.at \in Frames
    BY <1>1, PlayerAssumption DEF Frame, Videos, Frames
  <2>2. n \in 0..(Throttle + 1)
    BY PlayerAssumption DEF Reported
  <2>3. [player EXCEPT !.scrub = v.at] \in Players
    BY <2>1 DEF Players
  <2>4. Ticks([player EXCEPT !.scrub = v.at], v, n, event)
    BY <1>1 DEF Frame
  <2> QED BY <2>1, <2>2, <2>3, <2>4, TicksTypes
<1>2. ASSUME Ended PROVE ClockOK'
  <2>1. /\ [player EXCEPT !.isPlaying = FALSE] \in Players
        /\ [video EXCEPT !.paused = TRUE] \in Videos
    BY DEF Players, Videos
  <2> QED BY <1>2, <2>1, BecomesTypes DEF Ended
<1>3. ASSUME TimeUpdate PROVE ClockOK'
  <2>1. (IF player.isPlaying THEN player ELSE [player EXCEPT !.scrub = video.at]) \in Players
    BY <1>0
  <2> QED BY <1>3, <2>1, TicksTypes DEF TimeUpdate
<1>4. ASSUME PlayEvent PROVE ClockOK'
  <2>1. [player EXCEPT !.isPlaying = ~video.paused] \in Players
    BY DEF Players
  <2> QED BY <1>4, <2>1, BecomesTypes DEF PlayEvent
<1>5. ASSUME Elapse PROVE ClockOK'
  BY <1>5, PlayerAssumption DEF Elapse
<1>6. ASSUME Play PROVE ClockOK'
  BY <1>6, <1>0, FramesAreIntegers DEF Play, Videos
<1>7. ASSUME Pause PROVE ClockOK'
  <2>1. /\ [player EXCEPT !.isPlaying = FALSE, !.echo = video.at] \in Players
        /\ [video EXCEPT !.paused = TRUE] \in Videos
    BY DEF Players, Videos
  <2> QED BY <1>7, <1>0, <2>1, BecomesTypes DEF Pause
<1>8. ASSUME NEW f \in Frames, Scrub(f) PROVE ClockOK'
  BY <1>8, FramesAreIntegers, SeekTypes DEF Scrub
<1>9. ASSUME NEW n \in {-1, 1}, stepFrame(n) PROVE ClockOK'
  <2>1. /\ [player EXCEPT !.isPlaying = FALSE] \in Players
        /\ [video EXCEPT !.paused = TRUE] \in Videos
    BY DEF Players, Videos
  <2>2. video.at \in Int
    BY <1>0, FramesAreIntegers
  <2> QED BY <1>9, <2>1, <2>2, SeekTypes DEF stepFrame
<1>10. ASSUME NEW n \in {-1, 1}, jumpSeconds(n) PROVE ClockOK'
  <2>1. video.at + n * JumpBy \in Int
    BY <1>0, FramesAreIntegers, PlayerAssumption
  <2> QED BY <1>10, <2>1, SeekTypes DEF jumpSeconds
<1>11. ASSUME NEW c \in comments, Click(c) \/ Pin(c) PROVE ClockOK'
  <2>1. CASE Click(c)
    BY <2>1, SelectTypes DEF Click
  <2>2. CASE Pin(c)
    <3>1. /\ [player EXCEPT !.scrub = Stamp[c], !.echo = Stamp[c]] \in Players
          /\ [video EXCEPT !.at = Stamp[c]] \in Videos /\ Stamp[c] \in Frames
      BY StampsAreFrames DEF Players, Videos
    <3> QED BY <1>0, <2>2, <3>1, BecomesTypes DEF Pin, ClockOK
  <2> QED BY <1>11, <2>1, <2>2
<1>12. ASSUME Link PROVE ClockOK'
  BY <1>12, SelectTypes DEF Link
<1>13. ASSUME UNCHANGED clock PROVE ClockOK'
  BY <1>13 DEF clock
<1> QED
  BY <1>1, <1>2, <1>3, <1>4, <1>5, <1>6, <1>7, <1>8, <1>9, <1>10, <1>11, <1>12, <1>13
  DEF Next, Watches, Comes, Runs, Draw, Clear, Submit, Undo, Resolve, Delete, Posted, Resolved,
      Deleted, onCommentDeleted

TypesApart ==
    /\ active \in Comments \cup {None} /\ comments \subseteq Comments
    /\ shapes \subseteq Comments \cup {"mine"}
    /\ sending \in [step : {"no", "sent"}, time : Frames, shown : Frames]
    /\ call \in [{"resolve", "delete"} -> [step : {"no", "sent"},
                                           comment : Comments \cup {None}, was : BOOLEAN]]
    /\ \A k \in {"resolve", "delete"} : call[k].step = "sent" => call[k].comment \in Comments

(* Types, and that a call under way is about a comment.                     *)
TypeInv == setup \in Setups /\ ClockOK /\ TypesApart

LEMMA TypesAre == TypeInv => TypeOK
BY DEF TypeInv, TypeOK, ClockOK, TypesApart, Players, Videos

LEMMA TypesInit == WorkspaceInit => TypeInv
<1> SUFFICES ASSUME WorkspaceInit PROVE TypeInv
  OBVIOUS
<1>1. video \in Videos /\ player \in Players
  BY FramesAreIntegers DEF WorkspaceInit, Init, Players, Videos
<1>2. since \in 0..(Throttle + 1)
  BY PlayerAssumption DEF WorkspaceInit, Init
<1>3. ClockOK
  BY <1>1, <1>2, FramesAreIntegers DEF WorkspaceInit, Init, ClockOK
<1>4. TypesApart
  BY FramesAreIntegers DEF WorkspaceInit, Init, TypesApart, NoCall, NoSending
<1> QED BY <1>3, <1>4 DEF WorkspaceInit, Init, TypeInv

(* A call that is made, or answered.                                        *)
LEMMA CallTypes ==
    ASSUME TypesApart, NEW k \in {"resolve", "delete"}, NEW c \in Comments, NEW w \in BOOLEAN
    PROVE  /\ [call EXCEPT ![k] = [step |-> "sent", comment |-> c, was |-> w]] \in
                 [{"resolve", "delete"} -> [step : {"no", "sent"}, comment : Comments \cup {None}, was : BOOLEAN]]
           /\ [call EXCEPT ![k] = NoCall] \in
                 [{"resolve", "delete"} -> [step : {"no", "sent"}, comment : Comments \cup {None}, was : BOOLEAN]]
BY DEF TypesApart, NoCall

LEMMA ChoicesKept ==
    ASSUME setup \in Setups, ClockOK, TypesApart, Next
    PROVE  TypesApart'
<1> USE DEF TypesApart
<1>1. ASSUME Frame \/ TimeUpdate \/ Play \/ (\E f \in Frames : Scrub(f))
                   \/ (\E n \in {-1, 1} : stepFrame(n) \/ jumpSeconds(n))
      PROVE  TypesApart'
  BY <1>1 DEF Frame, TimeUpdate, Play, Scrub, stepFrame, jumpSeconds, seekTo, DeselectWhen, Deselect,
      selection
<1>2. ASSUME Ended \/ PlayEvent \/ Elapse \/ Pause PROVE TypesApart'
  BY <1>2 DEF Ended, PlayEvent, Elapse, Pause, selection
<1>3. ASSUME NEW c \in comments, Click(c) \/ Pin(c) PROVE TypesApart'
  BY <1>3, SelectTypes DEF Click, Pin
<1>4. ASSUME Link PROVE TypesApart'
  BY <1>4, SelectTypes DEF Link
<1>5. ASSUME Draw \/ Clear \/ Posted \/ \E s \in shapes : Undo(s) PROVE TypesApart'
  BY <1>5, FramesAreIntegers DEF Draw, Clear, Posted, Undo, NoSending
<1>6. ASSUME Submit PROVE TypesApart'
  BY <1>6 DEF Submit, selection, ClockOK, Videos
<1>7. ASSUME NEW c \in comments, Resolve(c) PROVE TypesApart'
  <2>1. (active = c) \in BOOLEAN
    OBVIOUS
  <2> QED BY <1>7, <2>1, CallTypes DEF Resolve, selection
<1>8. ASSUME NEW c \in comments, Delete(c) PROVE TypesApart'
  <2>1. (active = c) \in BOOLEAN
    OBVIOUS
  <2>2. active' \in Comments \cup {None} /\ shapes' \subseteq Comments \cup {"mine"}
    BY <1>8 DEF Delete, DeselectWhen, Deselect, selection
  <2> QED BY <1>8, <2>1, <2>2, CallTypes DEF Delete
<1>9. ASSUME NEW c \in comments, onCommentDeleted(c) PROVE TypesApart'
  BY <1>9 DEF onCommentDeleted, DeselectWhen, Deselect, selection
<1>10. ASSUME Resolved PROVE TypesApart'
  BY <1>10 DEF Resolved, NoCall
<1>11. ASSUME Deleted PROVE TypesApart'
  <2>1. call["delete"].comment \in Comments
    BY <1>11 DEF Deleted
  <2> QED BY <1>11, <2>1 DEF Deleted, NoCall
<1> QED
  BY <1>1, <1>2, <1>3, <1>4, <1>5, <1>6, <1>7, <1>8, <1>9, <1>10, <1>11
  DEF Next, Watches, Comes, Runs

(* A new player: after a comparison, or on the page of another version.     *)
LEMMA TypesOfNew ==
    ASSUME TypeInv, OpenCompare \/ OtherPage
    PROVE  TypeInv'
<1> USE DEF TypeInv
<1>0. Throttle + 1 \in 0..(Throttle + 1)
  BY PlayerAssumption
<1>1. ASSUME OpenCompare PROVE TypeInv'
  <2>1. time \in Frames
    BY DEF ClockOK
  <2>2. video' \in Videos /\ player' \in Players /\ event' \in BOOLEAN
    BY <1>1, <2>1 DEF OpenCompare, Remounted, Videos, Players
  <2>3. since' = Throttle + 1 /\ time' = time /\ setup' = setup
    BY <1>1 DEF OpenCompare, Remounted
  <2>4. ClockOK'
    BY <1>0, <2>1, <2>2, <2>3 DEF ClockOK
  <2>5. TypesApart'
    BY <1>1 DEF OpenCompare, TypesApart, selection
  <2> QED BY <2>3, <2>4, <2>5
<1>2. ASSUME OtherPage PROVE TypeInv'
  <2>1. video' \in Videos /\ player' \in Players /\ event' \in BOOLEAN /\ time' \in Frames
    BY <1>2, FramesAreIntegers DEF OtherPage, Videos, Players
  <2>2. since' = Throttle + 1 /\ setup' = setup
    BY <1>2 DEF OtherPage
  <2>3. ClockOK'
    BY <1>0, <2>1, <2>2 DEF ClockOK
  <2>4. sending' = NoSending /\ active' = None /\ shapes' = {} /\ comments' = Comments
    BY <1>2 DEF OtherPage
  <2>5. call' = [k \in {"resolve", "delete"} |-> NoCall]
    BY <1>2 DEF OtherPage, TypesApart
  <2>6. TypesApart'
    BY <2>4, <2>5, FramesAreIntegers DEF TypesApart, NoCall, NoSending
  <2> QED BY <2>2, <2>3, <2>6
<1> QED BY <1>1, <1>2

(* The steps of the workspace, as far as the player's own state goes.       *)
LEMMA WorkspaceSteps ==
    ASSUME [WorkspaceNext]_everything
    PROVE  Next \/ OpenCompare \/ OtherPage \/ UNCHANGED vars
BY DEF WorkspaceNext, PlayersRun, Next, Watches, Comes, CloseCompare, everything

LEMMA SetupKept ==
    ASSUME [WorkspaceNext]_everything
    PROVE  setup' = setup
<1>1. Next => setup' = setup
  BY DEF Next, Watches, Comes, Runs, Frame, Ended, TimeUpdate, PlayEvent, Elapse, Play, Pause,
     Scrub, stepFrame, jumpSeconds, Draw, Clear, Submit, Undo, Click, Pin, Resolve, Delete, Link, Posted,
     Resolved, Deleted, onCommentDeleted
<1> QED BY <1>1, WorkspaceSteps DEF OpenCompare, OtherPage, vars

LEMMA TypesKept ==
    ASSUME TypeInv, [WorkspaceNext]_everything
    PROVE  TypeInv'
<1>1. ASSUME Next PROVE TypeInv'
  BY <1>1, SetupKept, ClocksKept, ChoicesKept DEF TypeInv, TypesApart
<1>2. ASSUME UNCHANGED vars PROVE TypeInv'
  BY <1>2 DEF vars, TypeInv, ClockOK, TypesApart
<1> QED BY <1>1, <1>2, TypesOfNew, WorkspaceSteps

(* Every reachable state of the workspace is typed, with the clocks of the  *)
(* player, of its element and of the workspace on the video.                *)
THEOREM ReviewTypes == WorkspaceSpec => []TypeOK
<1>1. TypeInv /\ [WorkspaceNext]_everything => TypeInv'
  BY TypesKept
<1>2. WorkspaceSpec => []TypeInv
  BY <1>1, TypesInit, PTL DEF WorkspaceSpec
<1> QED BY <1>2, TypesAre, PTL

-----------------------------------------------------------------------------
(* How the player stands.                                                   *)

LEMMA Thresholds ==
    /\ PausedWithin \in Nat /\ EchoWithin \in Nat /\ PlayingWithin \in Nat
    /\ PausedWithin <= EchoWithin /\ EchoWithin <= PlayingWithin
BY PlayerAssumption

LEMMA CloseToItself == ASSUME NEW f \in Frames PROVE Close(f, f)
BY FramesAreIntegers, Thresholds DEF Close, Distance

(* What Becomes does: the new time, and a player and an element that may    *)
(* have been moved to it, which a paused element is if it was not close and *)
(* the time is no echo.                                                     *)
LEMMA Moved ==
    ASSUME ClockOK, NEW p \in Players, NEW v \in Videos, NEW t \in Frames, NEW ev \in BOOLEAN,
           Becomes(p, v, t, ev)
    PROVE  /\ time' = t /\ video'.paused = v.paused
           /\ player'.isPlaying = p.isPlaying /\ player'.echo = p.echo
           /\ video'.at \in {v.at, t} /\ (ev => event')
           /\ (video'.at # v.at \/ event' # ev) => event' /\ video'.at = t /\ ~Echo(p, t)
           /\ (t # time \/ p.isPlaying # player.isPlaying) /\ ~p.isPlaying =>
                  Close(video'.at, t) \/ Echo(p, t)
           /\ (t # time \/ p.isPlaying # player.isPlaying) =>
                  Echo(p, t) \/ Distance(video'.at, t) <= PlayingWithin
           /\ t = time /\ p.isPlaying = player.isPlaying => video' = v /\ player' = p /\ event' = ev
           /\ Echo(p, t) => video' = v /\ player' = p /\ event' = ev
<1>1. /\ t \in Int /\ v.at \in Int /\ PlayingWithin \in Nat /\ PausedWithin \in Nat
      /\ PausedWithin <= PlayingWithin
  <2>1. t \in Int /\ v.at \in Int
    BY FramesAreIntegers DEF Videos
  <2> QED BY <2>1, Thresholds
<1>3. Distance(t, t) = 0 /\ Close(t, t)
  BY <1>1 DEF Distance, Close
<1>4. Distance(v.at, t) \in Int
  BY <1>1 DEF Distance
<1> DEFINE seeks == (t # time \/ p.isPlaying # player.isPlaying) /\ Seeks(p, v, t)
<1>5. CASE seeks
  <2>1. time' = t /\ player' = [p EXCEPT !.scrub = t] /\ video' = [v EXCEPT !.at = t] /\ event' = TRUE
    BY <1>5 DEF Becomes
  <2>2. ~Echo(p, t)
    BY <1>5 DEF Seeks
  <2>3. /\ video'.at = t /\ video'.paused = v.paused
        /\ player'.isPlaying = p.isPlaying /\ player'.echo = p.echo
    BY <2>1 DEF Players, Videos
  <2>4. Distance(video'.at, t) <= PlayingWithin /\ Close(video'.at, t)
    BY <1>1, <1>3, <2>3
  <2>5. t # time \/ p.isPlaying # player.isPlaying
    BY <1>5
  <2> QED BY <2>1, <2>2, <2>3, <2>4, <2>5
<1>6. CASE ~seeks
  <2>1. time' = t /\ player' = p /\ video' = v /\ event' = ev
    BY <1>6 DEF Becomes
  <2>2. (t # time \/ p.isPlaying # player.isPlaying) => Echo(p, t) \/ ~(Distance(v.at, t) > IF p.isPlaying THEN PlayingWithin ELSE PausedWithin)
    BY <1>6 DEF Seeks
  <2>3. p.isPlaying \in BOOLEAN
    BY DEF Players
  <2>4. (t # time \/ p.isPlaying # player.isPlaying) /\ ~p.isPlaying =>
            Close(video'.at, t) \/ Echo(p, t)
    BY <1>1, <1>4, <2>1, <2>2 DEF Close
  <2> QED BY <1>1, <1>4, <2>1, <2>2, <2>3, <2>4
<1> QED BY <1>5, <1>6

(* A time that the player itself reports is an echo.                        *)
LEMMA OwnEcho ==
    ASSUME NEW p \in Players, NEW t \in Frames, p.echo = t
    PROVE  Echo(p, t)
BY PlayerAssumption DEF Echo, Distance, Frames, Players

(* No tick plays or pauses.                                                 *)
LEMMA TickPlays ==
    ASSUME setup \in Setups, ClockOK, NEW p \in Players, NEW v \in Videos,
           NEW n \in 0..(Throttle + 1), NEW ev \in BOOLEAN, Ticks(p, v, n, ev)
    PROVE  video'.paused = v.paused /\ player'.isPlaying = p.isPlaying
<1>1. LoopOf(v) \in Videos /\ OutOfLoop(v.at) \in BOOLEAN /\ v.at \in Frames /\ time \in Frames
  BY LoopTypes DEF OutOfLoop, Videos, ClockOK
<1>2. LoopOf(v).paused = v.paused
  BY DEF LoopOf, Videos
<1>3. CASE Reported(n)
  <2> DEFINE q == [p EXCEPT !.echo = v.at]
  <2>1. q \in Players /\ q.isPlaying = p.isPlaying
    BY <1>1 DEF Players
  <2>2. Becomes(q, LoopOf(v), v.at, ev \/ OutOfLoop(v.at))
    BY <1>3 DEF Ticks
  <2> QED BY <1>1, <1>2, <2>1, <2>2, Moved
<1>4. CASE ~Reported(n)
  <2>1. Becomes(p, LoopOf(v), time, ev \/ OutOfLoop(v.at))
    BY <1>4 DEF Ticks
  <2> QED BY <1>1, <1>2, <2>1, Moved
<1> QED BY <1>3, <1>4

(* A tick reports where the element is, or does not, and takes it back into *)
(* the loop.                                                                *)
LEMMA TickReports ==
    ASSUME setup \in Setups, ClockOK, NEW p \in Players, NEW v \in Videos,
           NEW n \in 0..(Throttle + 1), NEW ev \in BOOLEAN,
           p.isPlaying = player.isPlaying, p.echo = player.echo, Ticks(p, v, n, ev)
    PROVE  /\ video' = LoopOf(v) /\ event' = (ev \/ OutOfLoop(v.at))
           /\ player'.isPlaying = p.isPlaying
           /\ n > Throttle => since' = 0 /\ time' = v.at /\ player'.echo = v.at
           /\ ~(n > Throttle) => since' = n /\ time' = time /\ player'.echo = p.echo
<1> DEFINE w == LoopOf(v)
           e == ev \/ OutOfLoop(v.at)
<1>1. w \in Videos /\ e \in BOOLEAN
  BY LoopTypes DEF OutOfLoop
<1>2. v.at \in Frames
  BY DEF Videos
<1>3. CASE Reported(n)
  <2> DEFINE q == [p EXCEPT !.echo = v.at]
  <2>1. q \in Players /\ q.echo = v.at /\ q.isPlaying = p.isPlaying
    BY <1>2 DEF Players
  <2>2. Becomes(q, w, v.at, e)
    BY <1>3 DEF Ticks
  <2>3. Echo(q, v.at)
    BY <2>1, <1>2, OwnEcho
  <2> HIDE DEF w, e
  <2>4. video' = w /\ player' = q /\ event' = e /\ time' = v.at
    BY <1>1, <2>1, <2>2, <2>3, <1>2, Moved
  <2> QED BY <2>1, <2>4, <1>3 DEF Ticks, Reported, w, e
<1>4. CASE ~Reported(n)
  <2>1. Becomes(p, w, time, e)
    BY <1>4 DEF Ticks
  <2> HIDE DEF w, e
  <2>2. video' = w /\ player' = p /\ event' = e /\ time' = time
    BY <1>1, <2>1, Moved DEF ClockOK
  <2> QED BY <2>2, <1>4 DEF Ticks, Reported, w, e
<1> QED BY <1>3, <1>4

(* Without a loop a tick moves nothing.                                     *)
LEMMA TickMoves ==
    ASSUME setup \in Setups, ClockOK, setup.loop = <<>>, NEW p \in Players, NEW v \in Videos,
           NEW n \in 0..(Throttle + 1), NEW ev \in BOOLEAN,
           p.isPlaying = player.isPlaying, p.echo = player.echo, Ticks(p, v, n, ev)
    PROVE  /\ video' = v /\ event' = ev /\ player'.isPlaying = p.isPlaying
           /\ n > Throttle => since' = 0 /\ time' = v.at /\ player'.echo = v.at
           /\ ~(n > Throttle) => since' = n /\ time' = time /\ player'.echo = p.echo
<1>1. ~OutOfLoop(v.at) /\ LoopOf(v) = v
  BY DEF OutOfLoop, LoopOf
<1> QED BY <1>1, TickReports

(* With a loop no tick leaves the element out of it, nor on the last frame. *)
LEMMA TickStaysInside ==
    ASSUME setup \in Setups, setup.loop # <<>>, NEW v \in Videos
    PROVE  /\ LoopOf(v).at \in Frames /\ LoopOf(v).paused = v.paused
           /\ ~OutOfLoop(LoopOf(v).at) /\ LoopOf(v).at # Last
           /\ ~OutOfLoop(v.at) => LoopOf(v) = v
<1>1. /\ setup.loop[1] \in Frames /\ setup.loop[2] \in Frames /\ setup.loop[1] < setup.loop[2]
  BY PlayerAssumption
<1>2. v.at \in Frames
  BY DEF Videos
<1>3. CASE OutOfLoop(v.at)
  <2>1. LoopOf(v) = [v EXCEPT !.at = setup.loop[1]]
    BY <1>3 DEF LoopOf
  <2>2. LoopOf(v).at = setup.loop[1] /\ LoopOf(v).paused = v.paused
    BY <2>1 DEF Videos
  <2> QED BY <1>1, <1>3, <2>2, PlayerAssumption DEF OutOfLoop, Frames
<1>4. CASE ~OutOfLoop(v.at)
  <2>1. LoopOf(v) = v
    BY <1>4 DEF LoopOf
  <2> QED BY <1>1, <1>2, <1>4, <2>1, PlayerAssumption DEF OutOfLoop, Frames
<1> QED BY <1>3, <1>4

(* After a seek of the player everything is where it was sent.              *)
LEMMA SeekMoves ==
    ASSUME ClockOK, NEW p \in Players, NEW v \in Videos, NEW f \in Int, seekTo(v, p, f)
    PROVE  \E x \in Frames :
               /\ x = safeTime(f)
               /\ time' = x /\ video'.at = x /\ player'.echo = x /\ event' = TRUE
               /\ video'.paused = v.paused /\ player'.isPlaying = p.isPlaying
               /\ DeselectWhen(Away(x))
<1> DEFINE x == safeTime(f)
           q == [p EXCEPT !.scrub = x, !.echo = x]
           w == [v EXCEPT !.at = x]
<1>1. x \in Frames
  BY SafeTimes
<1>2. q \in Players /\ w \in Videos /\ q.echo = x /\ w.at = x /\ w.paused = v.paused /\ q.isPlaying = p.isPlaying
  BY <1>1 DEF Players, Videos
<1>3. Becomes(q, w, x, TRUE) /\ DeselectWhen(Away(x))
  BY DEF seekTo
<1>4. Echo(q, x)
  BY <1>1, <1>2, OwnEcho
<1>5. video' = w /\ player' = q /\ event' = TRUE /\ time' = x
  BY <1>1, <1>2, <1>3, <1>4, Moved
<1> QED BY <1>1, <1>2, <1>3, <1>5

(* After a selection the time is that of the comment, if one is selected.   *)
LEMMA SelectMoves ==
    ASSUME ClockOK, NEW c \in Comments, active \in Comments \cup {None}, Select(c)
    PROVE  /\ \/ active' = None /\ time' = time /\ video' = video /\ event' = event /\ player' = player
              \/ active' = c /\ time' = Stamp[c] /\ active # c
           /\ Becomes(player, video, time', event)
           /\ shapes' = {active'} \ {None}
<1>1. c # None /\ Stamp[c] \in Frames
  BY NoneIsNoComment, StampsAreFrames
<1>2. CASE c = active
  <2>1. Chosen(c) = None
    BY <1>2 DEF Chosen
  <2>2. active' = None /\ shapes' = {active'} \ {None} /\ Becomes(player, video, time, event)
    BY <2>1 DEF Select
  <2>3. time' = time /\ video' = video /\ event' = event /\ player' = player
    BY <2>2, Moved DEF ClockOK
  <2> QED BY <2>2, <2>3
<1>3. CASE c # active
  <2>1. Chosen(c) = c
    BY <1>3 DEF Chosen
  <2>2. active' = c /\ shapes' = {active'} \ {None} /\ Becomes(player, video, Stamp[c], event)
    BY <1>1, <2>1 DEF Select
  <2> QED BY <1>1, <1>3, <2>2, Moved DEF ClockOK
<1> QED BY <1>2, <1>3

(* A pin leaves the element, the player and the workspace at the comment.   *)
LEMMA PinMoves ==
    ASSUME ClockOK, NEW c \in Comments, Pin(c)
    PROVE  /\ video' \in Videos /\ player' \in Players /\ time' = Stamp[c] /\ event' = TRUE
           /\ video'.at = Stamp[c] /\ video'.paused = video.paused
           /\ player'.echo = Stamp[c] /\ player'.isPlaying = player.isPlaying
           /\ active' = c /\ shapes' = {c}
           /\ UNCHANGED <<setup, since, comments, sending, call>>
<1> DEFINE p == [player EXCEPT !.scrub = Stamp[c], !.echo = Stamp[c]]
           v == [video EXCEPT !.at = Stamp[c]]
<1>1. /\ p \in Players /\ v \in Videos /\ p.echo = Stamp[c] /\ v.at = Stamp[c]
      /\ v.paused = video.paused /\ p.isPlaying = player.isPlaying /\ Stamp[c] \in Frames
  BY StampsAreFrames DEF ClockOK, Players, Videos
<1>2. Becomes(p, v, Stamp[c], TRUE)
  BY DEF Pin
<1>3. Echo(p, Stamp[c])
  BY <1>1, OwnEcho
<1> HIDE DEF p, v
<1>4. video' = v /\ player' = p /\ event' = TRUE /\ time' = Stamp[c]
  BY <1>1, <1>2, <1>3, Moved
<1> QED BY <1>1, <1>4 DEF Pin

LEMMA StandsInit == WorkspaceInit => PlayerStands
BY CloseToItself, FramesAreIntegers DEF WorkspaceInit, Init, PlayerStands

LEMMA StandsKept ==
    ASSUME TypeInv, PlayerStands, [WorkspaceNext]_everything
    PROVE  PlayerStands'
<1> USE DEF PlayerStands, Echo
<1>0. /\ ClockOK /\ setup \in Setups /\ active \in Comments \cup {None}
      /\ video \in Videos /\ player \in Players /\ time \in Frames /\ event \in BOOLEAN
      /\ video.at \in Frames /\ video.paused \in BOOLEAN /\ player.isPlaying \in BOOLEAN
      /\ comments \subseteq Comments
  BY DEF TypeInv, ClockOK, TypesApart, Videos, Players
<1>1. ASSUME Frame PROVE PlayerStands'
  <2> DEFINE v == [video EXCEPT !.at = @ + 1]
             n == IF Reported(since) THEN since ELSE since + 1
             p == [player EXCEPT !.scrub = v.at]
  <2>1. v \in Videos /\ v.at \in Frames /\ v.paused = video.paused
    BY <1>0, <1>1, LastIsNumber DEF Frame, Videos
  <2>2. n \in 0..(Throttle + 1)
    BY PlayerAssumption DEF Reported, TypeInv, ClockOK
  <2>3. p \in Players
    BY <1>0, <2>1 DEF Players
  <2>4. Ticks(p, v, n, event) /\ setup' = setup /\ player.isPlaying /\ ~video.paused
    BY <1>1 DEF Frame
  <2>5. p.isPlaying = player.isPlaying
    BY <1>0 DEF Players
  <2>6. video'.paused = v.paused /\ player'.isPlaying = p.isPlaying
    BY <1>0, <2>1, <2>2, <2>3, <2>4, TickPlays
  <2> HIDE DEF v, n, p
  <2> QED BY <2>1, <2>4, <2>5, <2>6 DEF Does
<1>2. ASSUME Ended PROVE PlayerStands'
  <2> DEFINE p == [player EXCEPT !.isPlaying = FALSE]
             v == [video EXCEPT !.paused = TRUE]
  <2>1. /\ p \in Players /\ v \in Videos /\ v.paused /\ ~p.isPlaying /\ p.echo = player.echo
        /\ v.at = video.at
    BY <1>0 DEF Players, Videos
  <2>2. Becomes(p, v, time, TRUE) /\ setup' = setup /\ ~video.paused
    BY <1>2 DEF Ended
  <2>3. /\ time' = time /\ video'.paused /\ ~player'.isPlaying /\ player'.echo = p.echo
        /\ p.isPlaying # player.isPlaying => Close(video'.at, time) \/ Echo(p, time)
        /\ p.isPlaying = player.isPlaying => video' = v
    BY <1>0, <2>1, <2>2, Moved
  <2>4. video.at = 0 => Close(video.at, time)
    <3>1. video.at = 0 => video.at = time
      BY <1>0, <1>2, PlayerAssumption DEF Ended, Frames
    <3> QED BY <1>0, <3>1, CloseToItself
  <2>5. Echo(p, time) <=> Echo(player, time)
    BY <2>1
  <2>6. setup.loop = <<>> => Close(video'.at, time) \/ Echo(p, time)
    BY <1>0, <2>1, <2>3, <2>4, <2>5
  <2> HIDE DEF p, v
  <2> QED BY <1>0, <2>1, <2>2, <2>3, <2>6 DEF Does
<1>3. ASSUME TimeUpdate PROVE PlayerStands'
  <2> DEFINE p == IF player.isPlaying THEN player ELSE [player EXCEPT !.scrub = video.at]
  <2>1. p \in Players /\ p.isPlaying = player.isPlaying /\ p.echo = player.echo
    BY <1>0 DEF Players
  <2>2. Ticks(p, video, since, FALSE) /\ setup' = setup
    BY <1>3 DEF TimeUpdate
  <2>3. since \in 0..(Throttle + 1)
    BY <1>0 DEF ClockOK
  <2>4. video'.paused = video.paused /\ player'.isPlaying = player.isPlaying
    BY <1>0, <2>1, <2>2, <2>3, TickPlays
  <2>5. setup.loop = <<>> => /\ video' = video
                             /\ \/ time' = video.at
                                \/ time' = time /\ player'.echo = player.echo
    BY <1>0, <2>1, <2>2, <2>3, TickMoves
  <2>6. Close(video.at, video.at)
    BY <1>0, CloseToItself
  <2> HIDE DEF p
  <2> QED BY <1>0, <2>2, <2>4, <2>5, <2>6 DEF Does
<1>4. ASSUME PlayEvent PROVE PlayerStands'
  <2> DEFINE p == [player EXCEPT !.isPlaying = ~video.paused]
  <2>1. p \in Players /\ p.isPlaying = ~video.paused
    BY <1>0 DEF Players
  <2>2. Becomes(p, video, time, event) /\ setup' = setup /\ ~video.paused
    BY <1>0, <1>4 DEF PlayEvent
  <2> HIDE DEF p
  <2>3. video'.paused = video.paused /\ player'.isPlaying = p.isPlaying
    BY <1>0, <2>1, <2>2, Moved
  <2> QED BY <1>0, <2>1, <2>2, <2>3 DEF Does
<1>5. ASSUME Play PROVE PlayerStands'
  <2>1. setup' = setup /\ player' = player /\ time' = time /\ Does("play")
    BY <1>5 DEF Play, Acts
  <2>2. ~video'.paused /\ video'.at \in {video.at, 0} /\ video.paused
    BY <1>5 DEF Play
  <2> QED BY <1>0, <2>1, <2>2 DEF Does
<1>6. ASSUME Pause PROVE PlayerStands'
  <2> DEFINE p == [player EXCEPT !.isPlaying = FALSE, !.echo = video.at]
             v == [video EXCEPT !.paused = TRUE]
  <2>1. /\ p \in Players /\ v \in Videos /\ v.paused /\ ~p.isPlaying /\ p.echo = video.at
        /\ v.at = video.at
    BY <1>0 DEF Players, Videos
  <2>2. Becomes(p, v, video.at, TRUE) /\ setup' = setup
    BY <1>6 DEF Pause
  <2>3. Echo(p, video.at)
    BY <1>0, <2>1, OwnEcho
  <2>4. time' = video.at /\ video' = v /\ player' = p
    BY <1>0, <2>1, <2>2, <2>3, Moved
  <2>5. Close(video.at, video.at)
    BY <1>0, CloseToItself
  <2> HIDE DEF p, v
  <2> QED BY <2>1, <2>2, <2>4, <2>5 DEF Does
<1>7. ASSUME NEW p \in Players, NEW v \in Videos, NEW f \in Int, seekTo(v, p, f),
             p.isPlaying => ~v.paused, ~Does("play") => v.paused, setup' = setup
      PROVE  PlayerStands'
  <2>1. /\ video'.paused = v.paused /\ player'.isPlaying = p.isPlaying
        /\ time' = video'.at /\ video'.at \in Frames
    BY <1>0, <1>7, SeekMoves
  <2>2. Close(video'.at, time')
    BY <2>1, CloseToItself
  <2> QED BY <1>7, <2>1, <2>2 DEF Does
<1>8. ASSUME NEW f \in Frames, Scrub(f) PROVE PlayerStands'
  <2>1. seekTo(video, player, f) /\ setup' = setup
    BY <1>8 DEF Scrub
  <2> QED BY <1>0, <1>7, <2>1, FramesAreIntegers
<1>9. ASSUME NEW n \in {-1, 1}, stepFrame(n) PROVE PlayerStands'
  <2> DEFINE p == [player EXCEPT !.isPlaying = FALSE]
             v == [video EXCEPT !.paused = TRUE]
  <2>1. p \in Players /\ v \in Videos /\ v.paused /\ ~p.isPlaying
    BY <1>0 DEF Players, Videos
  <2>2. video.at \in Int
    BY <1>0, FramesAreIntegers
  <2>3. seekTo(v, p, video.at + n) /\ setup' = setup
    BY <1>9 DEF stepFrame
  <2>4. video.at + n \in Int
    BY <2>2
  <2> QED BY <1>7, <2>1, <2>3, <2>4
<1>10. ASSUME NEW n \in {-1, 1}, jumpSeconds(n) PROVE PlayerStands'
  <2>1. video.at + n * JumpBy \in Int
    BY <1>0, FramesAreIntegers, PlayerAssumption
  <2>2. seekTo(video, player, video.at + n * JumpBy) /\ setup' = setup
    BY <1>10 DEF jumpSeconds
  <2> QED BY <1>0, <1>7, <2>1, <2>2
<1>11. ASSUME NEW c \in Comments, Select(c), setup' = setup PROVE PlayerStands'
  <2>1. time' \in Frames
    BY <1>0, <1>11, SelectTypes
  <2>2. Becomes(player, video, time', event)
    BY <1>0, <1>11, SelectMoves
  <2>3. /\ video'.paused = video.paused
        /\ player'.isPlaying = player.isPlaying /\ player'.echo = player.echo
        /\ time' # time /\ ~player.isPlaying => Close(video'.at, time') \/ Echo(player, time')
        /\ time' = time => video' = video /\ player' = player
    BY <1>0, <2>1, <2>2, Moved
  <2> QED BY <1>0, <1>11, <2>3 DEF Does
<1>12. ASSUME NEW c \in comments, Click(c) \/ Pin(c) PROVE PlayerStands'
  <2>1. CASE Click(c)
    BY <1>0, <1>11, <2>1 DEF Click
  <2>2. CASE Pin(c)
    <3>1. /\ setup' = setup /\ time' = video'.at /\ video'.at \in Frames
          /\ video'.paused = video.paused /\ player'.isPlaying = player.isPlaying
      BY <1>0, <2>2, PinMoves, StampsAreFrames
    <3>2. Close(video'.at, time')
      BY <3>1, CloseToItself
    <3> QED BY <1>0, <3>1, <3>2 DEF Does
  <2> QED BY <1>12, <2>1, <2>2
<1>13. ASSUME Link PROVE PlayerStands'
  BY <1>0, <1>11, <1>13 DEF Link
<1>14. ASSUME UNCHANGED <<setup, video, player, time>> PROVE PlayerStands'
  BY <1>14 DEF Does
<1>15. ASSUME OpenCompare \/ OtherPage PROVE PlayerStands'
  <2>1. /\ setup' = setup /\ video'.at = time' /\ time' \in {time, 0}
        /\ video'.paused /\ ~player'.isPlaying
    BY <1>15 DEF OpenCompare, OtherPage, Remounted
  <2>2. Close(video'.at, time')
    BY <1>0, <2>1, CloseToItself, FramesAreIntegers
  <2> QED BY <2>1, <2>2 DEF Does
<1>16. ASSUME Next PROVE PlayerStands'
  BY <1>1, <1>2, <1>3, <1>4, <1>5, <1>6, <1>8, <1>9, <1>10, <1>12, <1>13, <1>14, <1>16
  DEF Next, Watches, Comes, Runs, Elapse, Draw, Clear, Submit, Undo, Resolve, Delete, Posted,
      Resolved, Deleted, onCommentDeleted, clock
<1>17. ASSUME UNCHANGED vars PROVE PlayerStands'
  BY <1>14, <1>17 DEF vars
<1> QED BY <1>15, <1>16, <1>17, WorkspaceSteps

-----------------------------------------------------------------------------
(* With a loop.                                                             *)

LEMMA LoopInit == WorkspaceInit => LoopStands
<1> SUFFICES ASSUME WorkspaceInit, Looping PROVE LoopStands
  BY DEF LoopStands
<1>1. setup.loop[1] \in Frames /\ setup.loop[2] \in Frames /\ setup.loop[1] < setup.loop[2]
  BY PlayerAssumption DEF Looping, WorkspaceInit, Init
<1>2. Last # 0
  BY <1>1, PlayerAssumption DEF Frames
<1> QED BY <1>2, CloseToItself, FramesAreIntegers DEF WorkspaceInit, Init, LoopStands, StandsInLoop

(* The steps of the player.                                                 *)
LEMMA LoopRuns ==
    ASSUME TypeInv, PlayerStands, Looping, StandsInLoop, Runs
    PROVE  StandsInLoop'
<1> USE DEF StandsInLoop
<1>0. /\ ClockOK /\ setup \in Setups /\ setup.loop # <<>>
      /\ video \in Videos /\ player \in Players /\ time \in Frames /\ event \in BOOLEAN
      /\ video.at \in Frames /\ video.paused \in BOOLEAN /\ player.isPlaying \in BOOLEAN
      /\ since \in 0..(Throttle + 1) /\ Throttle \in Nat
  BY PlayerAssumption DEF TypeInv, ClockOK, TypesApart, Videos, Players, Looping
<1>1. CASE Frame
  <2> DEFINE v == [video EXCEPT !.at = @ + 1]
             n == IF Reported(since) THEN since ELSE since + 1
             p == [player EXCEPT !.scrub = v.at]
  <2>1. v \in Videos /\ v.at \in Frames /\ ~v.paused
    BY <1>0, <1>1, PlayerAssumption, SMTT(30) DEF Frame, Videos, Frames
  <2>2. n \in 0..(Throttle + 1)
    BY <1>0 DEF Reported
  <2>3. p \in Players /\ p.isPlaying = player.isPlaying /\ p.echo = player.echo
    BY <1>0, <2>1 DEF Players
  <2>4. Ticks(p, v, n, event) /\ ~video.paused
    BY <1>1 DEF Frame
  <2> HIDE DEF v, n, p
  <2>5. /\ video' = LoopOf(v)
        /\ n > Throttle => time' = v.at /\ player'.echo = v.at
        /\ ~(n > Throttle) => time' = time /\ player'.echo = p.echo
    BY <1>0, <2>1, <2>2, <2>3, <2>4, TickReports
  <2>6. ~video'.paused /\ video'.at # Last
    BY <1>0, <2>1, <2>5, TickStaysInside
  <2>7. n > Throttle => Echo(player, time)'
    BY <2>1, <2>5, PlayerAssumption DEF Echo, Distance, Frames
  <2>8. ~(n > Throttle) => (Echo(player, time)' <=> Echo(player, time)) /\ time' = time
    BY <2>3, <2>5 DEF Echo
  <2> QED BY <2>4, <2>6, <2>7, <2>8
<1>2. CASE Ended
  <2> DEFINE p == [player EXCEPT !.isPlaying = FALSE]
             v == [video EXCEPT !.paused = TRUE]
  <2>1. p \in Players /\ v \in Videos /\ v.paused /\ p.echo = player.echo
    BY <1>0 DEF Players, Videos
  <2>2. Becomes(p, v, time, TRUE) /\ ~video.paused /\ video.at = Last
    BY <1>2 DEF Ended
  <2>3. Echo(player, time)
    BY <2>2
  <2>4. time' = time /\ player'.echo = p.echo
    BY <1>0, <2>1, <2>2, Moved
  <2>5. Echo(player, time)'
    BY <2>1, <2>3, <2>4 DEF Echo
  <2> QED BY <1>0, <2>5, <2>2, <2>1, Moved
<1>3. CASE TimeUpdate
  <2> DEFINE p == IF player.isPlaying THEN player ELSE [player EXCEPT !.scrub = video.at]
  <2>1. p \in Players /\ p.isPlaying = player.isPlaying /\ p.echo = player.echo
    BY <1>0 DEF Players
  <2>2. Ticks(p, video, since, FALSE) /\ event
    BY <1>3 DEF TimeUpdate
  <2> HIDE DEF p
  <2>3. /\ video' = LoopOf(video) /\ event' = (FALSE \/ OutOfLoop(video.at))
        /\ since > Throttle => time' = video.at /\ player'.echo = video.at
        /\ ~(since > Throttle) => since' = since /\ time' = time /\ player'.echo = p.echo
    BY <1>0, <2>1, <2>2, TickReports
  <2>4. /\ video'.paused = video.paused /\ ~OutOfLoop(video.at)' /\ video'.at # Last
        /\ ~OutOfLoop(video.at) => video' = video
    <3>1. setup' = setup
      BY <1>3 DEF TimeUpdate
    <3> QED BY <1>0, <2>3, <3>1, TickStaysInside DEF OutOfLoop
  <2>5. CASE since > Throttle
    <3>1. Echo(player, time)'
      BY <1>0, <2>3, <2>5, PlayerAssumption DEF Echo, Distance, Frames
    <3> QED BY <2>4, <3>1
  <2>6. CASE ~(since > Throttle)
    <3>1. time' = time /\ (Echo(player, time)' <=> Echo(player, time)) /\ since <= Throttle
      BY <1>0, <2>1, <2>3, <2>6 DEF Echo
    <3> QED BY <1>0, <2>2, <2>4, <3>1
  <2> QED BY <2>5, <2>6
<1>4. CASE PlayEvent
  <2> DEFINE p == [player EXCEPT !.isPlaying = ~video.paused]
  <2>1. p \in Players /\ p.echo = player.echo
    BY <1>0 DEF Players
  <2>2. Becomes(p, video, time, event) /\ ~video.paused
    BY <1>0, <1>4 DEF PlayEvent, PlayerStands
  <2> HIDE DEF p
  <2>3. /\ time' = time /\ video'.paused = video.paused /\ player'.echo = p.echo
        /\ video'.at \in {video.at, time} /\ (event => event')
        /\ video'.at # video.at => ~Echo(p, time) /\ video'.at = time
    BY <1>0, <2>1, <2>2, Moved
  <2>4. (Echo(player, time)' <=> Echo(player, time)) /\ (Echo(p, time) <=> Echo(player, time))
    BY <2>1, <2>3 DEF Echo
  <2> QED BY <1>0, <2>2, <2>3, <2>4
<1> QED BY <1>1, <1>2, <1>3, <1>4 DEF Runs

LEMMA LoopSeek ==
    ASSUME ClockOK, NEW p \in Players, NEW v \in Videos, NEW f \in Int, seekTo(v, p, f)
    PROVE  StandsInLoop'
<1>1. PICK x \in Frames : time' = x /\ video'.at = x /\ player'.echo = x /\ event' = TRUE
  BY SeekMoves
<1>2. Echo(player, time)'
  BY <1>1, PlayerAssumption DEF Echo, Distance, Frames
<1> QED BY <1>1, <1>2 DEF StandsInLoop

LEMMA LoopPin ==
    ASSUME ClockOK, NEW c \in Comments, Pin(c)
    PROVE  StandsInLoop'
<1>1. Stamp[c] \in Frames /\ time' = Stamp[c] /\ video'.at = Stamp[c]
      /\ player'.echo = Stamp[c] /\ event' = TRUE
  BY PinMoves, StampsAreFrames
<1>2. Echo(player, time)'
  BY <1>1, PlayerAssumption DEF Echo, Distance, Frames
<1> QED BY <1>1, <1>2 DEF StandsInLoop

(* The acts of a user who is not fast, and the player that is mounted again. *)
LEMMA LoopActs ==
    ASSUME TypeInv, PlayerStands, Looping, StandsInLoop, Next \/ OpenCompare \/ OtherPage, ~Runs
    PROVE  StandsInLoop'
<1> USE DEF StandsInLoop
<1>0. /\ ClockOK /\ setup \in Setups /\ setup.link = None /\ comments \subseteq Comments
      /\ active \in Comments \cup {None}
      /\ video \in Videos /\ player \in Players /\ time \in Frames /\ event \in BOOLEAN
      /\ video.at \in Frames /\ video.paused \in BOOLEAN /\ player.isPlaying \in BOOLEAN
      /\ since \in 0..(Throttle + 1) /\ Throttle \in Nat
  BY PlayerAssumption DEF TypeInv, ClockOK, TypesApart, Videos, Players, Looping
<1>1. \A act : Acts(act) => ~event /\ (video.paused => since > Throttle)
  BY <1>0 DEF Acts, Unhurried, Looping, Settled, PlayerStands
<1>2. CASE Play
  <2>1. /\ player' = player /\ time' = time /\ ~video'.paused /\ ~event
        /\ video'.at # Last \/ Last = 0
    BY <1>0, <1>1, <1>2 DEF Play, Videos
  <2>2. Last # 0
    <3>1. setup.loop[1] \in Frames /\ setup.loop[2] \in Frames /\ setup.loop[1] < setup.loop[2]
      BY <1>0, PlayerAssumption DEF Looping
    <3> QED BY <3>1, PlayerAssumption DEF Frames
  <2> QED BY <2>1, <2>2 DEF Echo
<1>3. CASE Pause
  <2> DEFINE p == [player EXCEPT !.isPlaying = FALSE, !.echo = video.at]
             v == [video EXCEPT !.paused = TRUE]
  <2>1. p \in Players /\ v \in Videos /\ p.echo = video.at /\ v.paused
    BY <1>0 DEF Players, Videos
  <2>2. Becomes(p, v, video.at, TRUE)
    BY <1>3 DEF Pause
  <2>3. time' = video.at /\ player'.echo = p.echo /\ video'.paused = v.paused
    BY <1>0, <2>1, <2>2, Moved
  <2>4. Echo(player, time)'
    BY <1>0, <2>1, <2>3, PlayerAssumption DEF Echo, Distance, Frames
  <2> QED BY <2>1, <2>3, <2>4
<1>4. CASE \E f \in Frames : Scrub(f)
  <2>1. PICK f \in Frames : seekTo(video, player, f)
    BY <1>4 DEF Scrub
  <2> QED BY <1>0, <2>1, LoopSeek, FramesAreIntegers
<1>5. CASE \E n \in {-1, 1} : stepFrame(n)
  <2> DEFINE p == [player EXCEPT !.isPlaying = FALSE]
             v == [video EXCEPT !.paused = TRUE]
  <2>1. p \in Players /\ v \in Videos
    BY <1>0 DEF Players, Videos
  <2>2. PICK n \in {-1, 1} : seekTo(v, p, video.at + n)
    BY <1>5 DEF stepFrame
  <2>3. video.at \in Int
    BY <1>0, FramesAreIntegers
  <2>4. video.at + n \in Int
    BY <2>3
  <2> QED BY <1>0, <2>1, <2>2, <2>4, LoopSeek
<1>6. CASE \E n \in {-1, 1} : jumpSeconds(n)
  <2>1. PICK n \in {-1, 1} : seekTo(video, player, video.at + n * JumpBy)
    BY <1>6 DEF jumpSeconds
  <2>2. video.at \in Int
    BY <1>0, FramesAreIntegers
  <2>3. n * JumpBy \in Int
    BY PlayerAssumption
  <2>4. video.at + n * JumpBy \in Int
    BY <2>2, <2>3
  <2> QED BY <1>0, <2>1, <2>4, LoopSeek
<1>7. CASE \E c \in comments : Click(c)
  <2>1. PICK c \in Comments : Select(c) /\ ~event /\ (video.paused => since > Throttle) /\ since' = since
    BY <1>0, <1>1, <1>7 DEF Click
  <2>2. CASE time' = time /\ video' = video /\ event' = event /\ player' = player
    BY <2>1, <2>2
  <2>3. CASE time' = Stamp[c]
    <3>1. Stamp[c] \in Frames /\ Stamp[c] # Last
      BY StampsAreFrames, PlayerAssumption DEF Looping, Frames
    <3>2. Becomes(player, video, Stamp[c], event)
      BY <1>0, <2>1, <2>3, SelectMoves
    <3>3. /\ video'.paused = video.paused /\ player'.echo = player.echo
          /\ video'.at \in {video.at, Stamp[c]}
          /\ Stamp[c] # time /\ ~player.isPlaying => Close(video'.at, Stamp[c]) \/ Echo(player, Stamp[c])
          /\ Stamp[c] = time => video' = video /\ player' = player /\ event' = event
      BY <1>0, <3>1, <3>2, Moved
    <3>4. Echo(player, time)' <=> Echo(player, Stamp[c])
      BY <2>3, <3>3 DEF Echo
    <3>5. video.paused => ~player.isPlaying
      BY DEF PlayerStands
    <3>6. CASE Stamp[c] = time
      BY <2>1, <2>3, <3>3, <3>6
    <3>7. CASE Stamp[c] # time
      BY <1>0, <2>1, <2>3, <3>1, <3>3, <3>4, <3>5, <3>7
    <3> QED BY <3>6, <3>7
  <2> QED BY <1>0, <2>1, <2>2, <2>3, SelectMoves
<1>8. CASE Link \/ \E c \in comments : Pin(c)
  <2>1. PICK c \in Comments : Pin(c)
    BY <1>0, <1>8, NoneIsNoComment DEF Link
  <2> QED BY <1>0, <2>1, LoopPin
<1>9. CASE Elapse
  <2>1. since' > Throttle /\ ~(since' <= Throttle) /\ UNCHANGED <<video, player, event, time>>
    BY <1>0, <1>9 DEF Elapse, Reported
  <2> QED BY <2>1 DEF Echo
<1>10. CASE OpenCompare
  <2>1. /\ video'.at = time /\ video'.paused /\ time' = time /\ event' = (time # 0)
        /\ since' = Throttle + 1
    BY <1>10 DEF OpenCompare, Remounted
  <2>2. Last # 0
    <3>1. setup.loop[1] \in Frames /\ setup.loop[2] \in Frames /\ setup.loop[1] < setup.loop[2]
      BY <1>0, PlayerAssumption DEF Looping
    <3> QED BY <3>1, PlayerAssumption DEF Frames
  <2>3. since' > Throttle /\ ~(since' <= Throttle)
    BY <1>0, <2>1
  <2>4. Close(time, time)
    BY <1>0, CloseToItself
  <2> QED BY <2>1, <2>2, <2>3, <2>4
<1>11. CASE OtherPage
  <2>1. /\ video'.at = 0 /\ video'.paused /\ time' = 0 /\ event' = FALSE
    BY <1>11 DEF OtherPage
  <2>2. Last # 0
    <3>1. setup.loop[1] \in Frames /\ setup.loop[2] \in Frames /\ setup.loop[1] < setup.loop[2]
      BY <1>0, PlayerAssumption DEF Looping
    <3> QED BY <3>1, PlayerAssumption DEF Frames
  <2>3. Close(0, 0)
    BY CloseToItself, FramesAreIntegers
  <2> QED BY <2>1, <2>2, <2>3
<1>12. CASE UNCHANGED <<setup, clock>>
  BY <1>12 DEF clock, Echo, OutOfLoop
<1> QED
  BY <1>2, <1>3, <1>4, <1>5, <1>6, <1>7, <1>8, <1>9, <1>10, <1>11, <1>12
  DEF Next, Watches, Comes, Draw, Clear, Submit, Undo, Resolve, Delete, Posted, Resolved,
      Deleted, onCommentDeleted

LEMMA LoopKept ==
    ASSUME TypeInv, PlayerStands, LoopStands, [WorkspaceNext]_everything
    PROVE  LoopStands'
<1>1. setup' = setup
  BY SetupKept
<1>2. SUFFICES ASSUME Looping PROVE StandsInLoop'
  BY <1>1 DEF LoopStands, Looping, May
<1>3. StandsInLoop
  BY <1>2 DEF LoopStands
<1>4. CASE UNCHANGED vars
  BY <1>1, <1>3, <1>4 DEF vars, StandsInLoop, OutOfLoop, Echo
<1> QED BY <1>2, <1>3, <1>4, LoopRuns, LoopActs, WorkspaceSteps

-----------------------------------------------------------------------------
(* The selected frame.                                                      *)

(* Who stays selected is on the frame x.                                    *)
LEMMA StaysSelected ==
    ASSUME NEW x \in Frames, DeselectWhen(Away(x)), active' # None
    PROVE  active' = active /\ x = Stamp[active]
BY DEF DeselectWhen, Deselect, selection, Away, isSameFrameTime

(* No step of the player and no act of the user leaves a comment selected   *)
(* that the workspace's time is not of.                                     *)
LEMMA PlacedKept ==
    ASSUME TypeInv, PlayerStands, active # None => Placed(active),
           Does("play") /\ Does("compare") => ~May("fast"), active' # None,
           setup' = setup, Next \/ OpenCompare \/ OtherPage, ~Resolved, ~Deleted
    PROVE  Placed(active)'
<1> USE DEF Placed
<1>0. /\ ClockOK /\ setup \in Setups /\ active \in Comments \cup {None}
      /\ video \in Videos /\ player \in Players /\ time \in Frames /\ event \in BOOLEAN
      /\ video.at \in Frames /\ video.paused \in BOOLEAN /\ player.isPlaying \in BOOLEAN
      /\ comments \subseteq Comments /\ (Does("play")' <=> Does("play"))
  BY DEF TypeInv, ClockOK, TypesApart, Videos, Players, Does
<1>1. CASE Frame
  <2> DEFINE v == [video EXCEPT !.at = @ + 1]
             n == IF Reported(since) THEN since ELSE since + 1
             p == [player EXCEPT !.scrub = v.at]
  <2>1. v \in Videos /\ v.at \in Frames
    BY <1>0, <1>1, LastIsNumber DEF Frame, Videos
  <2>2. n \in 0..(Throttle + 1)
    BY PlayerAssumption DEF Reported, TypeInv, ClockOK
  <2>3. p \in Players /\ p.isPlaying = player.isPlaying /\ p.echo = player.echo
    BY <1>0, <2>1 DEF Players
  <2>4. Ticks(p, v, n, event) /\ DeselectWhen(Away(v.at)) /\ ~video.paused
    BY <1>1 DEF Frame
  <2>5. time' \in {v.at, time}
    BY <1>0, <2>1, <2>2, <2>3, <2>4, TickReports
  <2>6. active' = active /\ v.at = Stamp[active]
    BY <2>1, <2>4, StaysSelected
  <2> HIDE DEF v
  <2> QED BY <2>4, <2>5, <2>6
<1>2. CASE Ended
  <2> DEFINE p == [player EXCEPT !.isPlaying = FALSE]
             v == [video EXCEPT !.paused = TRUE]
  <2>1. p \in Players /\ v \in Videos
    BY <1>0 DEF Players, Videos
  <2>2. Becomes(p, v, time, TRUE) /\ ~video.paused /\ active' = active
    BY <1>2 DEF Ended, selection
  <2>3. time' = time
    BY <2>2 DEF Becomes
  <2> QED BY <2>2, <2>3
<1>3. CASE TimeUpdate
  <2> DEFINE p == IF player.isPlaying THEN player ELSE [player EXCEPT !.scrub = video.at]
  <2>1. p \in Players /\ p.isPlaying = player.isPlaying /\ p.echo = player.echo
    BY <1>0 DEF Players
  <2>2. Ticks(p, video, since, FALSE) /\ DeselectWhen(Away(video.at))
    BY <1>3 DEF TimeUpdate
  <2>3. since \in 0..(Throttle + 1)
    BY <1>0 DEF ClockOK
  <2>4. time' \in {video.at, time}
    BY <1>0, <2>1, <2>2, <2>3, TickReports
  <2>5. active' = active /\ video.at = Stamp[active]
    BY <1>0, <2>2, StaysSelected
  <2> QED BY <2>4, <2>5
<1>4. CASE PlayEvent
  <2> DEFINE p == [player EXCEPT !.isPlaying = ~video.paused]
  <2>1. p \in Players
    BY <1>0 DEF Players
  <2>2. Becomes(p, video, time, event) /\ active' = active /\ ~video.paused
    BY <1>0, <1>4 DEF PlayEvent, selection, PlayerStands
  <2>3. time' = time
    BY <2>2 DEF Becomes
  <2> QED BY <2>2, <2>3
<1>5. CASE Play
  BY <1>5 DEF Play, DeselectWhen, Deselect, selection
<1>6. CASE Pause
  <2> DEFINE p == [player EXCEPT !.isPlaying = FALSE, !.echo = video.at]
             v == [video EXCEPT !.paused = TRUE]
  <2>1. p \in Players /\ v \in Videos /\ v.paused /\ p.echo = video.at /\ v.at = video.at
    BY <1>0 DEF Players, Videos
  <2>2. Becomes(p, v, video.at, TRUE)
    BY <1>6 DEF Pause
  <2>3. Echo(p, video.at)
    BY <1>0, <2>1, OwnEcho
  <2>4. time' = video.at /\ video' = v /\ event' = TRUE
    BY <1>0, <2>1, <2>2, <2>3, Moved
  <2>5. Does("play")
    BY <1>6 DEF Pause, Acts
  <2> QED BY <1>0, <2>1, <2>4, <2>5
<1>7. ASSUME NEW p \in Players, NEW v \in Videos, NEW f \in Int, seekTo(v, p, f)
      PROVE  Placed(active)'
  BY <1>0, <1>7, SeekMoves, StaysSelected
<1>8. CASE \E f \in Frames : Scrub(f)
  <2>1. PICK f \in Frames : seekTo(video, player, f)
    BY <1>8 DEF Scrub
  <2> QED BY <1>0, <1>7, <2>1, FramesAreIntegers
<1>9. CASE \E n \in {-1, 1} : stepFrame(n)
  <2> DEFINE p == [player EXCEPT !.isPlaying = FALSE]
             v == [video EXCEPT !.paused = TRUE]
  <2>1. p \in Players /\ v \in Videos
    BY <1>0 DEF Players, Videos
  <2>2. PICK n \in {-1, 1} : seekTo(v, p, video.at + n)
    BY <1>9 DEF stepFrame
  <2>3. video.at \in Int
    BY <1>0, FramesAreIntegers
  <2>4. video.at + n \in Int
    BY <2>3
  <2> QED BY <1>7, <2>1, <2>2, <2>4
<1>10. CASE \E n \in {-1, 1} : jumpSeconds(n)
  <2>1. PICK n \in {-1, 1} : seekTo(video, player, video.at + n * JumpBy)
    BY <1>10 DEF jumpSeconds
  <2>2. video.at \in Int
    BY <1>0, FramesAreIntegers
  <2>3. n * JumpBy \in Int
    BY PlayerAssumption
  <2>4. video.at + n * JumpBy \in Int
    BY <2>2, <2>3
  <2> QED BY <1>0, <1>7, <2>1, <2>4
<1>11. CASE Link \/ \E c \in comments : Click(c) \/ Pin(c)
  <2>1. PICK c \in Comments : Select(c) \/ Pin(c)
    BY <1>0, <1>11 DEF Link, Click
  <2> QED BY <1>0, <2>1, SelectMoves, PinMoves
<1>12. CASE OpenCompare
  <2>1. /\ active' = active /\ time' = time /\ Does("compare")
        /\ ~May("fast") => ~event
    BY <1>12 DEF OpenCompare, Acts, Unhurried, Settled, selection
  <2> QED BY <2>1
<1>13. CASE OtherPage
  BY <1>13 DEF OtherPage
<1>14. ASSUME UNCHANGED <<video, event, time>>, active' = active PROVE Placed(active)'
  BY <1>0, <1>14
<1>15. CASE \E c \in comments : Delete(c) \/ onCommentDeleted(c)
  <2>1. active' = active /\ UNCHANGED clock
    BY <1>15 DEF Delete, onCommentDeleted, DeselectWhen, Deselect, selection
  <2> QED BY <1>14, <2>1 DEF clock
<1>16. CASE Elapse \/ Draw \/ Clear \/ Submit \/ Posted \/ (\E x \in shapes : Undo(x))
            \/ \E c \in comments : Resolve(c)
  <2>1. active' = active /\ UNCHANGED <<video, event, time>>
    BY <1>16 DEF Elapse, Draw, Clear, Submit, Posted, Undo, Resolve, selection, clock
  <2> QED BY <1>14, <2>1
<1> QED
  BY <1>1, <1>2, <1>3, <1>4, <1>5, <1>6, <1>8, <1>9, <1>10, <1>11, <1>12, <1>13, <1>15, <1>16
  DEF Next, Watches, Comes, Runs

LEMMA FrameInit == WorkspaceInit => FrameInv /\ CallsKnown
BY DEF WorkspaceInit, Init, FrameInv, CallsKnown, SelectsAgain, NoCall

LEMMA CallsStayKnown ==
    ASSUME TypeInv, CallsKnown, [WorkspaceNext]_everything
    PROVE  CallsKnown'
<1> USE DEF CallsKnown, TypeInv, TypesApart
<1>1. setup' = setup
  BY SetupKept
<1>2. ASSUME NEW c \in comments, Resolve(c) \/ Delete(c) PROVE CallsKnown'
  BY <1>1, <1>2 DEF Resolve, Delete, Acts, Does
<1>3. ASSUME Resolved \/ Deleted \/ OtherPage PROVE CallsKnown'
  BY <1>1, <1>3 DEF Resolved, Deleted, OtherPage, NoCall, Does
<1>4. ASSUME UNCHANGED call PROVE CallsKnown'
  BY <1>1, <1>4 DEF Does
<1> QED
  BY <1>2, <1>3, <1>4, WorkspaceSteps
  DEF Next, Watches, Comes, Runs, Frame, Ended, TimeUpdate, PlayEvent, Elapse, Play, Pause,
      Scrub, stepFrame, jumpSeconds, Draw, Clear, Submit, Undo, Click, Pin, Link, Posted,
      onCommentDeleted, OpenCompare, vars

LEMMA OneCallInit == WorkspaceInit => OneCall
BY DEF WorkspaceInit, Init, OneCall, NoCall

LEMMA OneCallKept ==
    ASSUME TypeInv, OneCall, [WorkspaceNext]_everything
    PROVE  OneCall'
<1> USE DEF OneCall, TypeInv, TypesApart
<1>1. setup' = setup
  BY SetupKept
<1>2. ASSUME NEW c \in comments, Resolve(c) \/ Delete(c) PROVE OneCall'
  BY <1>1, <1>2 DEF Resolve, Delete, Acts, Alone, May
<1>3. ASSUME Resolved \/ Deleted \/ OtherPage PROVE OneCall'
  BY <1>1, <1>3 DEF Resolved, Deleted, OtherPage, NoCall, May
<1>4. ASSUME UNCHANGED call PROVE OneCall'
  BY <1>1, <1>4 DEF May
<1> QED
  BY <1>2, <1>3, <1>4, WorkspaceSteps
  DEF Next, Watches, Comes, Runs, Frame, Ended, TimeUpdate, PlayEvent, Elapse, Play, Pause,
      Scrub, stepFrame, jumpSeconds, Draw, Clear, Submit, Undo, Click, Pin, Link, Posted,
      onCommentDeleted, OpenCompare, vars

(* While an answer is awaited and nothing overlaps, nobody acts.            *)
LEMMA NobodyActs ==
    ASSUME ~May("overlap"), NEW k \in DOMAIN call, call[k].step # "no", Next
    PROVE  Runs \/ Elapse \/ Link \/ Posted \/ Resolved \/ Deleted
<1>1. ~Alone
  BY DEF Alone
<1> QED
  BY <1>1 DEF Next, Watches, Comes, Acts, Play, Pause, Scrub, stepFrame, jumpSeconds, Draw, Clear,
     Submit, Undo, Click, Pin, Resolve, Delete, onCommentDeleted

LEMMA FrameKept ==
    ASSUME TypeInv, PlayerStands, CallsKnown, OneCall, FrameInv, [WorkspaceNext]_everything
    PROVE  FrameInv'
<1> DEFINE Awaited(k) == /\ ~event /\ call[k].comment \in Comments
                         /\ time = Stamp[call[k].comment]
                         /\ setup.link # None => active = call[k].comment
<1>0. /\ setup' = setup /\ active \in Comments \cup {None} /\ comments \subseteq Comments
      /\ DOMAIN call = {"resolve", "delete"}
      /\ call \in [{"resolve", "delete"} -> [step : {"no", "sent"},
                                             comment : Comments \cup {None}, was : BOOLEAN]]
      /\ \A k \in {"resolve", "delete"} : call[k].step = "sent" => call[k].comment \in Comments
  BY SetupKept DEF TypeInv, TypesApart
<1>1. SUFFICES ASSUME Steady
               PROVE  /\ active' # None => Placed(active)'
                      /\ \A k \in DOMAIN call' : SelectsAgain(k)' => Awaited(k)'
  BY <1>0 DEF FrameInv, Steady, Reselects, Does, May
<1>2. /\ ~May("overlap") /\ (active # None => Placed(active))
      /\ Does("play") /\ Does("compare") => ~May("fast")
      /\ Reselects => ~May("fast") /\ ~Does("play")
      /\ Does("delete") /\ May("refusals") => setup.link = None
  BY <1>1 DEF FrameInv, Steady
<1>3. \A k \in {"resolve", "delete"} : SelectsAgain(k) => Awaited(k)
  BY <1>0, <1>1 DEF FrameInv
<1>4. \A k \in {"resolve", "delete"} : SelectsAgain(k) => Reselects
  BY <1>0 DEF SelectsAgain, CallsKnown, Reselects
<1>5. May("refusals")' <=> May("refusals")
  BY <1>0 DEF May
<1>6. CASE UNCHANGED vars
  BY <1>0, <1>2, <1>3, <1>5, <1>6 DEF vars, Placed, SelectsAgain, Does
<1>7. CASE OpenCompare \/ OtherPage
  <2>1. OpenCompare => ~Resolved /\ ~Deleted
    BY <1>0 DEF OpenCompare, Resolved, Deleted, NoCall
  <2>2. active' # None => Placed(active)'
    BY <1>0, <1>2, <1>7, <2>1, PlacedKept DEF OtherPage
  <2>3. ASSUME NEW k \in DOMAIN call' PROVE call'[k].step = "no"
    BY <1>0, <1>2, <1>7, <2>3 DEF OpenCompare, OtherPage, Acts, Alone, NoCall
  <2> QED BY <2>2, <2>3 DEF SelectsAgain
<1>8. CASE Resolved \/ Deleted
  <2>1. UNCHANGED <<video, time, event>>
    BY <1>8 DEF Resolved, Deleted, clock
  <2>2. \/ active' = active
        \/ \E k \in {"resolve", "delete"} : SelectsAgain(k) /\ active' = call[k].comment
    BY <1>0, <1>8 DEF Resolved, Deleted, SelectsAgain
  <2>3. active' # None => Placed(active)'
    BY <1>0, <1>2, <1>3, <2>1, <2>2 DEF Placed, Does
  <2>4. call["resolve"].step = "no" \/ call["delete"].step = "no"
    BY <1>2 DEF OneCall
  <2>5. \A k \in {"resolve", "delete"} : call'[k].step = "no"
    BY <1>0, <1>8, <2>4 DEF Resolved, Deleted, NoCall
  <2> QED BY <1>0, <1>8, <2>3, <2>5 DEF Resolved, Deleted, SelectsAgain
<1>9. CASE Next /\ ~Resolved /\ ~Deleted
  <2>1. active' # None => Placed(active)'
    BY <1>0, <1>2, <1>9, PlacedKept
  <2>2. ASSUME NEW k \in {"resolve", "delete"}, SelectsAgain(k)
        PROVE  UNCHANGED <<event, time, active, call>>
    <3>1. Runs \/ Elapse \/ Link \/ Posted
      BY <1>0, <1>2, <1>9, <2>2, NobodyActs DEF SelectsAgain
    <3>2. ~event /\ player.isPlaying = FALSE /\ video.paused = TRUE
      BY <1>2, <1>3, <1>4, <2>2 DEF PlayerStands, TypeInv, ClockOK, Players, Videos
    <3>3. ~Runs
      BY <3>2 DEF Runs, Frame, Ended, TimeUpdate, PlayEvent
    <3>4. ~Link
      BY <1>0, <1>3, <2>2, NoneIsNoComment DEF Link
    <3> QED BY <3>1, <3>3, <3>4 DEF Elapse, Posted, clock, selection
  <2>3. ASSUME NEW c \in comments, Resolve(c) \/ Delete(c),
               NEW k \in {"resolve", "delete"}, SelectsAgain(k)'
        PROVE  Awaited(k)'
    <3>1. Alone /\ UNCHANGED <<event, time>>
      BY <2>3 DEF Resolve, Delete, Acts, clock
    <3>2. call[k].step = "no"
      BY <1>0, <1>2, <3>1 DEF Alone
    <3>3. call'[k] = [step |-> "sent", comment |-> c, was |-> active = c]
      BY <1>0, <2>3, <3>2 DEF Resolve, Delete, SelectsAgain
    <3>4. call'[k].comment = c /\ call'[k].was = (active = c)
      BY <3>3
    <3>5. active = c
      BY <2>3, <3>4 DEF SelectsAgain
    <3>6. \/ k = "resolve" /\ Resolve(c)
          \/ k = "delete" /\ Delete(c)
      BY <1>0, <2>3, <3>2, <3>3 DEF Resolve, Delete
    <3>7. Reselects /\ (k = "delete" => Does("delete") /\ May("refusals"))
      BY <1>5, <2>3, <3>6 DEF Resolve, Delete, Acts, Reselects, SelectsAgain
    <3>8. ~event
      BY <1>2, <2>3, <3>7 DEF Resolve, Delete, Acts, Unhurried, Settled
    <3>9. time = Stamp[c] /\ c \in Comments
      BY <1>0, <1>2, <3>5, <3>8, NoneIsNoComment DEF Placed
    <3>10. setup.link # None => active' = active
      BY <1>2, <3>6, <3>7 DEF Resolve, selection
    <3> QED BY <1>0, <3>1, <3>4, <3>5, <3>8, <3>9, <3>10
  <2>4. ASSUME ~\E c \in comments : Resolve(c) \/ Delete(c) PROVE call' = call
    BY <1>9, <2>4 DEF Next, Watches, Comes, Runs, Frame, Ended, TimeUpdate, PlayEvent, Elapse, Play,
       Pause, Scrub, stepFrame, jumpSeconds, Draw, Clear, Submit, Undo, Click, Pin, Link, Posted,
       onCommentDeleted
  <2>5. DOMAIN call' = {"resolve", "delete"}
    BY <1>0, <2>4 DEF Resolve, Delete
  <2>6. ASSUME NEW k \in {"resolve", "delete"}, SelectsAgain(k)' PROVE Awaited(k)'
    <3>1. CASE \E c \in comments : Resolve(c) \/ Delete(c)
      BY <2>3, <2>6, <3>1
    <3>2. CASE ~\E c \in comments : Resolve(c) \/ Delete(c)
      <4>1. SelectsAgain(k)
        BY <1>5, <2>4, <2>6, <3>2 DEF SelectsAgain
      <4> QED BY <1>0, <1>3, <2>2, <4>1
    <3> QED BY <3>1, <3>2
  <2> QED BY <2>1, <2>5, <2>6
<1> QED BY <1>6, <1>7, <1>8, <1>9, WorkspaceSteps

(* Where nothing moves the video away from a comment that stays selected or *)
(* is about to be selected again, a video at rest shows the frame of the    *)
(* selected comment or one within 0.04 s of it, or the comment was taken    *)
(* for an echo: with or without a loop, for every length and rate of the    *)
(* video and every set of comments.                                         *)
THEOREM SelectionIsShown == WorkspaceSpec => []SelectedFrameIsShown
<1> DEFINE Inv == TypeInv /\ PlayerStands /\ LoopStands /\ CallsKnown /\ OneCall /\ FrameInv
<1>1. WorkspaceInit => Inv
  BY TypesInit, StandsInit, LoopInit, FrameInit, OneCallInit
<1>2. Inv /\ [WorkspaceNext]_everything => Inv'
  BY TypesKept, StandsKept, LoopKept, CallsStayKnown, OneCallKept, FrameKept
<1>3. Inv => SelectedFrameIsShown
  <2> SUFFICES ASSUME Inv, Steady, AtRest, active # None
               PROVE  Distance(video.at, Stamp[active]) <= PausedWithin \/ Echo(player, Stamp[active])
    BY DEF SelectedFrameIsShown
  <2>1. time = Stamp[active]
    BY DEF FrameInv, Placed, AtRest
  <2>2. Close(video.at, time) \/ Echo(player, time)
    BY DEF PlayerStands, LoopStands, StandsInLoop, Looping, AtRest, Steady
  <2> QED BY <2>1, <2>2 DEF Close
<1> QED BY <1>1, <1>2, <1>3, PTL DEF WorkspaceSpec

-----------------------------------------------------------------------------
(* The selection as a whole.                                                *)

LEMMA WholeInit == WorkspaceInit => WholeInv
BY NoneIsNoComment DEF WorkspaceInit, Init, WholeInv, SelectsAgain, NoCall

LEMMA WholeKept ==
    ASSUME TypeInv, PlayerStands, CallsKnown, OneCall, WholeInv, [WorkspaceNext]_everything
    PROVE  WholeInv'
<1>0. /\ setup' = setup /\ ClockOK /\ active \in Comments \cup {None} /\ comments \subseteq Comments
      /\ DOMAIN call = {"resolve", "delete"}
      /\ call \in [{"resolve", "delete"} -> [step : {"no", "sent"},
                                             comment : Comments \cup {None}, was : BOOLEAN]]
      /\ \A k \in {"resolve", "delete"} : call[k].step = "sent" => call[k].comment \in Comments
  BY SetupKept DEF TypeInv, TypesApart
<1> DEFINE Selected == active \in comments \cup {None} /\ shapes \cap Comments \subseteq {active}
           Resolving == SelectsAgain("resolve") =>
                            /\ call["resolve"].comment \in comments
                            /\ active \in {None, call["resolve"].comment}
                            /\ setup.link # None => active # None /\ ~event
           Deleting == SelectsAgain("delete") => active = None
<1> USE DEF SelectsAgain
<1>1. SUFFICES ASSUME ~May("overlap"), LinkStandsBack
               PROVE  Selected' /\ Resolving' /\ Deleting'
  BY <1>0 DEF WholeInv, LinkStandsBack, Reselects, Does, May
<1>2. Selected /\ Resolving /\ Deleting
  BY <1>1 DEF WholeInv
<1>3. May("refusals")' <=> May("refusals")
  BY <1>0 DEF May
<1>4. None \notin Comments /\ "mine" \notin Comments
  BY NoneIsNoComment
<1>5. ASSUME DeselectWhen(TRUE) \/ UNCHANGED selection, UNCHANGED <<comments, call>>,
             SelectsAgain("resolve") /\ setup.link # None => UNCHANGED <<event, selection>>
      PROVE  Selected' /\ Resolving' /\ Deleting'
  BY <1>0, <1>2, <1>3, <1>5 DEF DeselectWhen, Deselect, selection
<1>6. ASSUME SelectsAgain("resolve"), setup.link # None, Next, ~Resolved, ~Deleted
      PROVE  UNCHANGED <<event, active, comments, call>> /\ (shapes' = shapes \/ shapes' = {})
  <2>1. Does("resolve") /\ Reselects
    BY <1>0, <1>6 DEF CallsKnown, Reselects
  <2>2. ~event /\ video.paused = TRUE /\ player.isPlaying = FALSE /\ active # None
    BY <1>0, <1>1, <1>2, <1>6, <2>1 DEF LinkStandsBack, PlayerStands, ClockOK, Players, Videos
  <2>3. ~Runs /\ ~Link
    BY <2>2 DEF Runs, Frame, Ended, TimeUpdate, PlayEvent, Link
  <2>4. Elapse \/ Posted
    BY <1>0, <1>1, <1>6, <2>3, NobodyActs
  <2> QED BY <2>4 DEF Elapse, Posted, clock, selection
<1>7. CASE Runs \/ Play \/ (\E f \in Frames : Scrub(f)) \/ (\E n \in {-1, 1} : stepFrame(n) \/ jumpSeconds(n))
                \/ Elapse \/ Pause \/ Submit
  <2>1. (DeselectWhen(TRUE) \/ UNCHANGED selection) /\ UNCHANGED <<comments, call>>
    BY <1>7 DEF Runs, Frame, Ended, TimeUpdate, PlayEvent, Play, Scrub, stepFrame, jumpSeconds, seekTo,
       DeselectWhen, Elapse, Pause, Submit
  <2>2. ~Resolved /\ ~Deleted
    BY <1>0, <2>1 DEF Resolved, Deleted, NoCall
  <2>3. CASE SelectsAgain("resolve") /\ setup.link # None
    <3>1. UNCHANGED <<event, active, comments, call>> /\ (shapes' = shapes \/ shapes' = {})
      BY <1>6, <1>7, <2>2, <2>3 DEF Next, Watches
    <3> QED BY <1>0, <1>2, <1>3, <3>1
  <2> QED BY <1>5, <2>1, <2>3
<1>8. CASE Draw \/ Clear \/ Posted \/ \E x \in shapes : Undo(x)
  BY <1>0, <1>2, <1>3, <1>4, <1>8 DEF Draw, Clear, Posted, Undo, clock
<1>9. ASSUME NEW c \in comments, Select(c), UNCHANGED <<comments, call>>,
             \A k \in {"resolve", "delete"} : ~SelectsAgain(k)
      PROVE  Selected' /\ Resolving' /\ Deleting'
  <2>1. active' \in {None, c} /\ shapes' = {active'} \ {None}
    BY <1>0, <1>9, SelectMoves
  <2> QED BY <1>3, <1>4, <1>9, <2>1
<1>10. CASE \E c \in comments : Click(c) \/ Pin(c)
  <2>1. PICK c \in comments : Click(c) \/ Pin(c)
    BY <1>10
  <2>2. UNCHANGED <<comments, call>> /\ \A k \in {"resolve", "delete"} : ~SelectsAgain(k)
    BY <1>0, <1>1, <2>1 DEF Click, Pin, Acts, Alone
  <2>3. CASE Pin(c)
    BY <1>0, <1>3, <1>4, <2>2, <2>3 DEF Pin
  <2> QED BY <1>9, <2>1, <2>2, <2>3 DEF Click
<1>11. CASE Link
  <2>1. setup.link # None /\ active = None /\ setup.link \in comments /\ Select(setup.link)
        /\ UNCHANGED <<comments, call>>
    BY <1>0, <1>4, <1>11 DEF Link
  <2>2. ~SelectsAgain("resolve")
    BY <1>2, <2>1
  <2>3. ~SelectsAgain("delete")
    BY <1>0, <1>1, <2>1 DEF CallsKnown, LinkStandsBack, Reselects
  <2> QED BY <1>9, <2>1, <2>2, <2>3
<1>12. CASE \E c \in comments : Resolve(c)
  <2>1. PICK c \in comments : Resolve(c)
    BY <1>12
  <2>2. call["delete"].step # "sent"
    BY <1>0, <1>1, <2>1 DEF Resolve, Acts, Alone
  <2>3. /\ call'["resolve"] = [step |-> "sent", comment |-> c, was |-> active = c]
        /\ call'["delete"] = call["delete"]
        /\ UNCHANGED <<active, shapes, comments>>
    BY <1>0, <2>1 DEF Resolve, selection
  <2>4. call'["resolve"].comment = c /\ call'["resolve"].was = (active = c)
    BY <2>3
  <2>5. setup.link # None => ~event'
    BY <1>1, <2>1 DEF LinkStandsBack, Reselects, Resolve, Acts, Unhurried, Settled, clock
  <2> QED BY <1>0, <1>2, <1>4, <2>2, <2>3, <2>4, <2>5
<1>13. CASE \E c \in comments : Delete(c)
  <2>1. PICK c \in comments : Delete(c)
    BY <1>13
  <2>2. call["resolve"].step # "sent"
    BY <1>0, <1>1, <2>1 DEF Delete, Acts, Alone
  <2>3. /\ call'["delete"] = [step |-> "sent", comment |-> c, was |-> active = c]
        /\ call'["resolve"] = call["resolve"] /\ comments' = comments \ {c}
    BY <1>0, <2>1 DEF Delete
  <2>4. IF active = c THEN active' = None /\ shapes' = {} ELSE UNCHANGED <<active, shapes>>
    BY <2>1 DEF Delete, DeselectWhen, Deselect, selection
  <2>5. call'["delete"].was = (active = c)
    BY <2>3
  <2> QED BY <1>2, <1>3, <2>2, <2>3, <2>4, <2>5
<1>14. CASE \E c \in comments : onCommentDeleted(c)
  <2>1. PICK c \in comments : onCommentDeleted(c)
    BY <1>14
  <2>2. \A k \in {"resolve", "delete"} : call[k].step # "sent"
    BY <1>0, <1>1, <2>1 DEF onCommentDeleted, Alone
  <2>3. call' = call /\ comments' = comments \ {c}
    BY <2>1 DEF onCommentDeleted
  <2>4. IF active = c THEN active' = None /\ shapes' = {} ELSE UNCHANGED <<active, shapes>>
    BY <2>1 DEF onCommentDeleted, DeselectWhen, Deselect, selection
  <2>5. ~SelectsAgain("resolve")' /\ ~SelectsAgain("delete")'
    BY <2>2, <2>3
  <2> QED BY <1>2, <2>3, <2>4, <2>5
<1>15. CASE Resolved
  <2>1. /\ call["resolve"].step = "sent" /\ UNCHANGED <<shapes, comments>>
        /\ active' = IF call["resolve"].was THEN call["resolve"].comment ELSE active
    BY <1>15 DEF Resolved
  <2>2. call'["resolve"].step = "no" /\ call'["delete"].step = "no"
    BY <1>0, <1>1, <1>15 DEF Resolved, OneCall, NoCall
  <2> QED BY <1>2, <1>4, <2>1, <2>2
<1>16. CASE Deleted
  <2>1. /\ call["delete"].step = "sent" /\ UNCHANGED shapes
        /\ \/ UNCHANGED <<comments, active>>
           \/ /\ May("refusals") /\ comments' = comments \cup {call["delete"].comment}
              /\ active' = IF call["delete"].was THEN call["delete"].comment ELSE active
    BY <1>16 DEF Deleted
  <2>2. call'["resolve"].step = "no" /\ call'["delete"].step = "no"
    BY <1>0, <1>1, <1>16 DEF Deleted, OneCall, NoCall
  <2> QED BY <1>2, <1>4, <2>1, <2>2
<1>17. CASE OpenCompare
  <2>1. call["resolve"].step = "no"
    BY <1>0, <1>1, <1>17 DEF OpenCompare, Acts, Alone
  <2> QED BY <1>5, <1>17, <2>1 DEF OpenCompare
<1>18. CASE OtherPage
  BY <1>0, <1>18 DEF OtherPage, NoCall
<1>19. CASE UNCHANGED vars
  BY <1>5, <1>19 DEF vars, selection
<1> QED
  BY <1>6, <1>7, <1>8, <1>10, <1>11, <1>12, <1>13, <1>14, <1>15, <1>16, <1>17, <1>18, <1>19,
     WorkspaceSteps DEF Next, Watches, Comes

(* Where nothing overlaps, and no link selects a comment while an answer is *)
(* about to, the selected comment is in the list and the drawing is its     *)
(* own: for any number of comments, and whatever is deleted by others.      *)
THEOREM SelectionStaysWhole == WorkspaceSpec => []SelectionIsWhole
<1> DEFINE Inv == TypeInv /\ PlayerStands /\ CallsKnown /\ OneCall /\ WholeInv
<1>1. WorkspaceInit => Inv
  BY TypesInit, StandsInit, FrameInit, OneCallInit, WholeInit
<1>2. Inv /\ [WorkspaceNext]_everything => Inv'
  BY TypesKept, StandsKept, CallsStayKnown, OneCallKept, WholeKept
<1>3. Inv => SelectionIsWhole
  BY DEF WholeInv, SelectionIsWhole
<1> QED BY <1>1, <1>2, <1>3, PTL DEF WorkspaceSpec

-----------------------------------------------------------------------------
(* New comments.                                                            *)

(* The numbers the player moves among.                                      *)
LEMMA Numbers ==
    ASSUME ClockOK
    PROVE  /\ video.at \in 0..Last /\ time \in 0..Last /\ player.echo \in -1..Last
           /\ since \in 0..(Throttle + 1) /\ Last \in Nat /\ Throttle \in Nat
           /\ PlayingWithin \in Nat /\ EchoWithin \in Nat /\ EchoWithin <= PlayingWithin
           /\ EchoWithin <= Throttle
           /\ video.paused \in BOOLEAN /\ player.isPlaying \in BOOLEAN /\ event \in BOOLEAN
BY PlayerAssumption DEF ClockOK, Players, Videos, Frames

LEMMA NearInit == WorkspaceInit => NearInv
BY PlayerAssumption DEF WorkspaceInit, Init, NearInv, Near, NoSending, Distance

(* The player reports, or just goes on.                                     *)
LEMMA NearFrame ==
    ASSUME TypeInv, PlayerStands, Orderly, Near, Frame
    PROVE  Near'
<1> DEFINE v == [video EXCEPT !.at = @ + 1]
           n == IF Reported(since) THEN since ELSE since + 1
           p == [player EXCEPT !.scrub = v.at]
<1>0. setup \in Setups /\ ClockOK /\ setup.loop = <<>>
  BY DEF TypeInv, Orderly
<1>1. v \in Videos /\ v.at = video.at + 1 /\ ~v.paused /\ ~video.paused /\ player.isPlaying
  BY <1>0, PlayerAssumption DEF Frame, ClockOK, Videos, Frames
<1>2. n \in 0..(Throttle + 1)
  BY <1>0, Numbers DEF Reported
<1>3. p \in Players /\ p.isPlaying = player.isPlaying /\ p.echo = player.echo
  BY <1>0, <1>1 DEF ClockOK, Players, Videos
<1>4. Ticks(p, v, n, event)
  BY DEF Frame
<1> HIDE DEF v, n, p
<1>5. /\ video' = v /\ event' = event /\ player'.isPlaying = p.isPlaying
      /\ n > Throttle => since' = 0 /\ time' = v.at /\ player'.echo = v.at
      /\ ~(n > Throttle) => since' = n /\ time' = time /\ player'.echo = p.echo
  BY <1>0, <1>1, <1>2, <1>3, <1>4, TickMoves DEF ClockOK
<1>6. video'.at = video.at + 1 /\ ~video'.paused /\ player'.isPlaying
  BY <1>1, <1>3, <1>5
<1>7. CASE n > Throttle
  <2>1. /\ since' = 0 /\ time' = video'.at /\ player'.echo = video'.at
        /\ video'.paused # TRUE /\ player'.isPlaying
    BY <1>1, <1>5, <1>6, <1>7
  <2>2. video'.at \in Int /\ video'.at # -1
    BY <1>0, <1>6, Numbers
  <2>3. PlayingWithin \in Nat /\ Throttle \in Nat
    BY <1>0, Numbers
  <2>4. since' <= Throttle
    BY <2>1, <2>3
  <2> QED BY <1>6, <2>1, <2>2, <2>3, <2>4 DEF Near
<1>8. CASE ~(n > Throttle)
  <2>1. /\ since <= Throttle /\ since' = since + 1 /\ since' <= Throttle
        /\ time' = time /\ player'.echo = player.echo
    BY <1>0, <1>2, <1>3, <1>5, <1>8, Numbers DEF Reported, n
  <2>2. /\ player.echo # -1
        /\ \/ /\ player.echo <= video.at /\ video.at - player.echo <= since
              /\ time >= player.echo - PlayingWithin
              /\ (time = player.echo \/ time + Throttle < Last)
           \/ /\ time # player.echo /\ time <= video.at /\ video.at - time <= since
              /\ time + Throttle < Last
    BY <1>0, <1>1, <2>1, Numbers DEF Near
  <2>3. \/ /\ player'.echo <= video'.at /\ video'.at - player'.echo <= since'
           /\ time' >= player'.echo - PlayingWithin
           /\ (time' = player'.echo \/ time' + Throttle < Last)
        \/ /\ time' # player'.echo /\ time' <= video'.at /\ video'.at - time' <= since'
           /\ time' + Throttle < Last
    <3>1. /\ video.at \in Int /\ time \in Int /\ player.echo \in Int /\ since \in Int
          /\ PlayingWithin \in Int /\ Throttle \in Int /\ Last \in Int
      BY <1>0, Numbers
    <3>2. CASE time = player.echo \/ player.echo <= video.at
      BY <1>6, <2>1, <2>2, <3>1, <3>2
    <3>3. CASE time # player.echo /\ time <= video.at
      BY <1>6, <2>1, <2>2, <3>1, <3>3
    <3> QED BY <2>2, <3>2, <3>3
  <2>4. ~(since' > Throttle)
    BY <1>0, <2>1, Numbers
  <2> QED BY <1>6, <2>1, <2>2, <2>3, <2>4 DEF Near
<1> QED BY <1>7, <1>8

LEMMA NearTimeUpdate ==
    ASSUME TypeInv, PlayerStands, Orderly, Near, TimeUpdate
    PROVE  Near'
<1> DEFINE p == IF player.isPlaying THEN player ELSE [player EXCEPT !.scrub = video.at]
<1>0. setup \in Setups /\ ClockOK /\ setup.loop = <<>>
  BY DEF TypeInv, Orderly
<1>1. p \in Players /\ p.isPlaying = player.isPlaying /\ p.echo = player.echo
  BY <1>0 DEF ClockOK, Players, Videos
<1>2. Ticks(p, video, since, FALSE) /\ event
  BY DEF TimeUpdate
<1>3. /\ video' = video /\ event' = FALSE /\ player'.isPlaying = player.isPlaying
      /\ since > Throttle => since' = 0 /\ time' = video.at /\ player'.echo = video.at
      /\ ~(since > Throttle) => since' = since /\ time' = time /\ player'.echo = player.echo
  BY <1>0, <1>1, <1>2, TickMoves DEF ClockOK
<1>4. CASE since > Throttle
  BY <1>0, <1>3, <1>4, Numbers, SMTT(30) DEF Near, Distance
<1>5. CASE ~(since > Throttle)
  BY <1>0, <1>2, <1>3, <1>5, Numbers DEF Near
<1> QED BY <1>4, <1>5

(* The end of the video: it reports nothing, and moves back to a comment    *)
(* that was chosen since the last report.                                   *)
LEMMA NearEnded ==
    ASSUME TypeInv, PlayerStands, Orderly, Near, Ended
    PROVE  Near'
<1> DEFINE p == [player EXCEPT !.isPlaying = FALSE]
           v == [video EXCEPT !.paused = TRUE]
<1>0. ClockOK
  BY DEF TypeInv
<1>1. /\ p \in Players /\ v \in Videos /\ v.paused /\ ~p.isPlaying /\ p.echo = player.echo
      /\ v.at = Last /\ video.at = Last
  BY <1>0 DEF Ended, ClockOK, Players, Videos
<1>2. Becomes(p, v, time, TRUE) /\ ~video.paused /\ since' = since
  BY DEF Ended
<1>3. /\ time' = time /\ video'.paused = v.paused /\ player'.echo = p.echo /\ video'.at \in {v.at, time}
      /\ (TRUE => event')
  BY <1>0, <1>1, <1>2, Moved DEF ClockOK
<1>4. video'.at \in {Last, time} /\ video'.paused /\ player'.echo = player.echo /\ event'
  BY <1>1, <1>3
<1> HIDE DEF p, v
<1> QED BY <1>0, <1>1, <1>2, <1>3, <1>4, Numbers DEF Near, Distance

LEMMA NearPlayEvent ==
    ASSUME TypeInv, PlayerStands, Orderly, Near, PlayEvent
    PROVE  Near'
<1> DEFINE p == [player EXCEPT !.isPlaying = ~video.paused]
<1>0. setup \in Setups /\ ClockOK /\ setup.loop = <<>>
  BY DEF TypeInv, Orderly
<1>1. ~video.paused /\ ~player.isPlaying
  BY <1>0, Numbers DEF PlayEvent, PlayerStands
<1>2. p \in Players /\ p.isPlaying /\ p.echo = player.echo
  BY <1>0, <1>1 DEF ClockOK, Players, Videos
<1>3. Becomes(p, video, time, event) /\ since' = since
  BY DEF PlayEvent
<1> HIDE DEF p
<1>4. /\ time' = time /\ video'.paused = video.paused /\ player'.isPlaying = p.isPlaying
      /\ player'.echo = p.echo /\ (event => event')
      /\ (video'.at # video.at \/ event' # event) => event' /\ video'.at = time /\ ~Echo(p, time)
  BY <1>0, <1>2, <1>3, Moved DEF ClockOK
<1>5. time = player.echo => Echo(p, time)
  BY <1>0, <1>2, OwnEcho DEF ClockOK
<1> QED BY <1>0, <1>1, <1>2, <1>3, <1>4, <1>5, Numbers DEF Near

(* What a user who is not fast does.                                        *)
LEMMA NearPlay ==
    ASSUME TypeInv, PlayerStands, Orderly, Near, Play
    PROVE  Near'
<1>0. ClockOK /\ Settled /\ video.paused
  BY DEF TypeInv, Orderly, Calm, Play, Acts, Unhurried, May
<1>1. since > Throttle /\ ~event
  BY <1>0, Numbers DEF Settled
<1>2. /\ player' = player /\ time' = time /\ since' = since /\ ~video'.paused
      /\ \/ video'.at = video.at /\ event' = event
         \/ event'
  BY <1>0 DEF Play, ClockOK, Videos
<1> QED BY <1>0, <1>1, <1>2, Numbers DEF Near, Distance

LEMMA NearPause ==
    ASSUME TypeInv, PlayerStands, Orderly, Near, Pause
    PROVE  Near'
<1> DEFINE p == [player EXCEPT !.isPlaying = FALSE, !.echo = video.at]
           v == [video EXCEPT !.paused = TRUE]
<1>0. ClockOK
  BY DEF TypeInv
<1>1. /\ p \in Players /\ v \in Videos /\ v.paused /\ p.echo = video.at /\ v.at = video.at
      /\ video.at \in Frames
  BY <1>0 DEF ClockOK, Players, Videos
<1>2. Becomes(p, v, video.at, TRUE) /\ since' = since
  BY DEF Pause
<1>3. Echo(p, video.at)
  BY <1>1, OwnEcho
<1>4. time' = video.at /\ video' = v /\ player' = p
  BY <1>0, <1>1, <1>2, <1>3, Moved
<1>5. video'.paused /\ video'.at = video.at /\ player'.echo = video.at
  BY <1>1, <1>4
<1> HIDE DEF p, v
<1> QED BY <1>0, <1>2, <1>4, <1>5, Numbers DEF Near, Distance

LEMMA NearSeek ==
    ASSUME ClockOK, Near, since' = since,
           NEW p \in Players, NEW v \in Videos, NEW f \in Int, seekTo(v, p, f),
           v.paused \/ (v.paused = video.paused /\ p.isPlaying = player.isPlaying)
    PROVE  Near'
<1>1. PICK x \in Frames :
          /\ time' = x /\ video'.at = x /\ player'.echo = x /\ event' = TRUE
          /\ video'.paused = v.paused /\ player'.isPlaying = p.isPlaying
  BY SeekMoves
<1> QED BY <1>1, Numbers DEF Near, Distance, Frames

LEMMA NearPin ==
    ASSUME ClockOK, Orderly, Near, NEW c \in Comments, Pin(c)
    PROVE  Near'
<1>1. /\ time' = Stamp[c] /\ video'.at = Stamp[c] /\ player'.echo = Stamp[c] /\ event' = TRUE
      /\ video'.paused = video.paused /\ player'.isPlaying = player.isPlaying /\ since' = since
      /\ Stamp[c] \in Frames
  BY PinMoves, StampsAreFrames
<1> QED BY <1>1, Numbers DEF Near, Distance, Frames

LEMMA NearSelect ==
    ASSUME TypeInv, PlayerStands, Orderly, Near, NEW c \in Comments, Select(c), Settled,
           since' = since
    PROVE  Near'
<1>0. ClockOK /\ setup.loop = <<>> /\ active \in Comments \cup {None}
  BY DEF TypeInv, Orderly, TypesApart
<1>1. CASE time' = time /\ video' = video /\ event' = event /\ player' = player
  BY <1>1 DEF Near
<1>2. CASE time' = Stamp[c]
  <2>1. Stamp[c] \in Frames /\ Stamp[c] + Throttle < Last
    BY StampsAreFrames DEF Orderly, NoneIsLate
  <2>2. Becomes(player, video, Stamp[c], event)
    BY <1>0, <1>2, SelectMoves
  <2>3. /\ video'.paused = video.paused
        /\ player'.isPlaying = player.isPlaying /\ player'.echo = player.echo
        /\ video'.at \in {video.at, Stamp[c]} /\ (event => event')
        /\ (video'.at # video.at \/ event' # event) => event' /\ video'.at = Stamp[c] /\ ~Echo(player, Stamp[c])
        /\ Stamp[c] # time => Echo(player, Stamp[c]) \/ Distance(video'.at, Stamp[c]) <= PlayingWithin
        /\ Stamp[c] = time => video' = video /\ player' = player /\ event' = event
    BY <1>0, <2>1, <2>2, Moved DEF ClockOK
  <2>4. CASE Stamp[c] = time
    BY <1>2, <2>3, <2>4 DEF Near
  <2>5. CASE Stamp[c] # time /\ video.paused
    <3>1. since > Throttle /\ ~event
      BY <1>0, <2>5, Numbers DEF Settled
    <3> QED BY <1>0, <1>2, <2>3, <2>5, <3>1, Numbers DEF Near, Distance
  <2>6. CASE Stamp[c] # time /\ ~video.paused
    <3>1. player.isPlaying /\ time = player.echo /\ ~event
      BY <1>0, <2>6, Numbers DEF Settled
    <3>2. Echo(player, Stamp[c]) <=> Distance(Stamp[c], player.echo) <= EchoWithin
      BY <1>0, <3>1, Numbers DEF Echo
    <3>3. Distance(Stamp[c], player.echo) <= EchoWithin =>
              Stamp[c] - player.echo <= EchoWithin /\ player.echo - Stamp[c] <= EchoWithin
      BY <1>0, <2>1, Numbers DEF Distance, Frames
    <3>4. Distance(video'.at, Stamp[c]) <= PlayingWithin =>
              Stamp[c] - video'.at <= PlayingWithin /\ video'.at - Stamp[c] <= PlayingWithin
      BY <1>0, <2>1, <2>3, Numbers, SMTT(30) DEF Distance, Frames
    <3>5. ~Echo(player, Stamp[c]) => Stamp[c] # player.echo
      BY <1>0, <2>1, <3>2, Numbers DEF Distance, Frames
    <3>6. Stamp[c] \in Int /\ video'.paused = video.paused /\ player'.isPlaying /\ player'.echo = player.echo
      BY <2>1, <2>3, <3>1, FramesAreIntegers
    <3>7. CASE since > Throttle
      BY <1>0, <1>2, <2>6, <3>1, <3>6, <3>7, Numbers DEF Near
    <3>8. CASE since <= Throttle /\ video'.at = video.at
      <4>1. player.echo # -1 /\ player.echo <= video.at /\ video.at - player.echo <= since
        BY <1>0, <2>6, <3>1, <3>8, Numbers DEF Near
      <4>2. Stamp[c] >= player.echo - PlayingWithin
        <5>1. CASE Echo(player, Stamp[c])
          BY <1>0, <3>2, <3>3, <3>6, <5>1, Numbers, SMTT(30)
        <5>2. CASE ~Echo(player, Stamp[c])
          <6>1. video.at - Stamp[c] <= PlayingWithin
            BY <2>3, <2>6, <3>4, <3>8, <5>2
          <6>2. video.at \in Int /\ player.echo \in Int /\ PlayingWithin \in Int
            BY <1>0, Numbers
          <6> QED BY <3>6, <4>1, <6>1, <6>2
        <5> QED BY <5>1, <5>2
      <4>3. /\ player'.echo <= video'.at /\ video'.at - player'.echo <= since'
            /\ time' >= player'.echo - PlayingWithin /\ time' + Throttle < Last
        BY <1>2, <2>1, <3>6, <3>8, <4>1, <4>2
      <4>4. since' <= Throttle /\ ~(since' > Throttle) /\ ~video'.paused
        BY <1>0, <2>6, <3>6, <3>8, Numbers
      <4> QED BY <3>6, <4>1, <4>3, <4>4 DEF Near
    <3>9. CASE since <= Throttle /\ video'.at # video.at
      <4>1. player.echo # -1
        BY <1>0, <3>9, Numbers DEF Near
      <4>2. video'.at = Stamp[c] /\ Stamp[c] # player.echo
        BY <2>3, <3>5, <3>9
      <4>3. since' <= Throttle /\ ~(since' > Throttle) /\ ~video'.paused /\ 0 <= since'
        BY <1>0, <2>6, <3>6, <3>9, Numbers
      <4>4. time' # player'.echo /\ time' <= video'.at /\ video'.at - time' <= since'
        BY <1>2, <3>6, <4>2, <4>3
      <4> QED BY <1>2, <2>1, <3>6, <4>1, <4>3, <4>4 DEF Near
    <3> QED BY <1>0, <3>7, <3>8, <3>9, Numbers
  <2> QED BY <2>4, <2>5, <2>6
<1> QED BY <1>0, <1>1, <1>2, SelectMoves

LEMMA NearKept ==
    ASSUME TypeInv, PlayerStands, Orderly, Near, Next \/ OpenCompare \/ OtherPage
    PROVE  Near'
<1>0. /\ ClockOK /\ setup.loop = <<>> /\ setup.link = None /\ comments \subseteq Comments
      /\ video \in Videos /\ player \in Players
  BY DEF TypeInv, Orderly, TypesApart, ClockOK
<1>1. \A act : Acts(act) => Settled
  BY DEF Orderly, Calm, Acts, Unhurried, May
<1>2. CASE \E f \in Frames : Scrub(f)
  <2>1. PICK f \in Frames : seekTo(video, player, f) /\ since' = since
    BY <1>2 DEF Scrub
  <2> QED BY <1>0, <2>1, NearSeek, FramesAreIntegers
<1>3. CASE \E n \in {-1, 1} : stepFrame(n)
  <2> DEFINE p == [player EXCEPT !.isPlaying = FALSE]
             v == [video EXCEPT !.paused = TRUE]
  <2>1. p \in Players /\ v \in Videos /\ v.paused
    BY <1>0 DEF Players, Videos
  <2>2. PICK n \in {-1, 1} : seekTo(v, p, video.at + n) /\ since' = since
    BY <1>3 DEF stepFrame
  <2>3. video.at \in Int
    BY <1>0, Numbers
  <2>4. video.at + n \in Int
    BY <2>3
  <2> QED BY <1>0, <2>1, <2>2, <2>4, NearSeek
<1>4. CASE \E n \in {-1, 1} : jumpSeconds(n)
  <2>1. PICK n \in {-1, 1} : seekTo(video, player, video.at + n * JumpBy) /\ since' = since
    BY <1>4 DEF jumpSeconds
  <2>2. video.at \in Int
    BY <1>0, Numbers
  <2>3. n * JumpBy \in Int
    BY PlayerAssumption
  <2>4. video.at + n * JumpBy \in Int
    BY <2>2, <2>3
  <2> QED BY <1>0, <2>1, <2>4, NearSeek
<1>5. CASE \E c \in comments : Click(c) \/ Pin(c)
  BY <1>0, <1>1, <1>5, NearSelect, NearPin DEF Click
<1>6. CASE Link
  BY <1>0, <1>6, NoneIsNoComment DEF Link
<1>7. CASE Elapse
  <2>1. since' > Throttle /\ since <= Throttle /\ UNCHANGED <<video, player, event, time>>
    BY <1>0, <1>7, Numbers DEF Elapse, Reported
  <2>2. ASSUME ~video.paused, time = player.echo
        PROVE  Distance(player.echo, video.at) <= PlayingWithin + Throttle
    <3>1. player.echo <= video.at /\ video.at - player.echo <= since
      BY <1>0, <2>1, <2>2 DEF Near
    <3> QED BY <1>0, <2>1, <3>1, Numbers DEF Distance
  <2>3. ~(since' <= Throttle)
    BY <1>0, <1>7, Numbers DEF Elapse
  <2> QED BY <2>1, <2>2, <2>3 DEF Near
<1>8. CASE OpenCompare \/ OtherPage
  <2>1. since' > Throttle /\ video'.paused /\ player'.echo = -1
    BY <1>8, PlayerAssumption DEF OpenCompare, OtherPage, Remounted
  <2> QED BY <2>1 DEF Near
<1>9. CASE UNCHANGED clock
  BY <1>9 DEF clock, Near
<1> QED
  BY <1>2, <1>3, <1>4, <1>5, <1>6, <1>7, <1>8, <1>9, NearFrame, NearTimeUpdate, NearEnded,
     NearPlayEvent, NearPlay, NearPause
  DEF Next, Watches, Comes, Runs, Draw, Clear, Submit, Undo, Resolve, Delete, Posted, Resolved,
      Deleted, onCommentDeleted

(* What a new comment takes is near what is shown when its author sends it. *)
LEMMA NearWhenSent ==
    ASSUME TypeInv, PlayerStands, Orderly, Near, Settled
    PROVE  Distance(time, video.at) <= PlayingWithin + Throttle
<1>0. setup \in Setups /\ ClockOK /\ setup.loop = <<>>
  BY DEF TypeInv, Orderly
<1>1. CASE video.paused
  <2>1. ~player.isPlaying /\ ~event
    BY <1>1 DEF PlayerStands, Settled
  <2>2. Close(video.at, time) \/ Echo(player, time)
    BY <1>0, <1>1, <2>1 DEF PlayerStands
  <2>3. CASE Close(video.at, time)
    BY <1>0, <2>3, PlayerAssumption, Numbers DEF Close, Distance
  <2>4. CASE Echo(player, time)
    <3>1. player.echo >= 0 /\ Distance(time, player.echo) <= EchoWithin
      BY <2>4 DEF Echo
    <3>2. Distance(player.echo, video.at) <= PlayingWithin + Throttle - EchoWithin
      BY <1>1, <2>1, <3>1 DEF Near
    <3>3. time - player.echo <= EchoWithin /\ player.echo - time <= EchoWithin
      BY <1>0, <3>1, Numbers DEF Distance
    <3>4. /\ player.echo - video.at <= PlayingWithin + Throttle - EchoWithin
          /\ video.at - player.echo <= PlayingWithin + Throttle - EchoWithin
      BY <1>0, <3>2, Numbers DEF Distance
    <3>5. time - video.at <= PlayingWithin + Throttle /\ video.at - time <= PlayingWithin + Throttle
      <4>1. /\ time \in Int /\ player.echo \in Int /\ video.at \in Int
            /\ PlayingWithin \in Int /\ Throttle \in Int /\ EchoWithin \in Int
        BY <1>0, Numbers
      <4> QED BY <4>1, <3>3, <3>4
    <3> QED BY <3>5 DEF Distance
  <2> QED BY <2>2, <2>3, <2>4
<1>2. CASE ~video.paused
  <2>1. player.isPlaying /\ time = player.echo /\ ~event
    BY <1>0, <1>2, Numbers DEF Settled
  <2>2. CASE since <= Throttle
    BY <1>0, <1>2, <2>1, <2>2, Numbers DEF Near, Distance
  <2>3. CASE since > Throttle
    BY <1>0, <1>2, <2>1, <2>3, Numbers DEF Near
  <2> QED BY <1>0, <2>2, <2>3, Numbers
<1> QED BY <1>1, <1>2

LEMMA NearInvKept ==
    ASSUME TypeInv, PlayerStands, NearInv, [WorkspaceNext]_everything
    PROVE  NearInv'
<1>1. setup' = setup /\ ClockOK
  BY SetupKept DEF TypeInv
<1>2. SUFFICES ASSUME Orderly
               PROVE  Near' /\ Distance(sending'.time, sending'.shown) <= PlayingWithin + Throttle
  BY <1>1 DEF NearInv, Orderly, Calm
<1>3. Near /\ Distance(sending.time, sending.shown) <= PlayingWithin + Throttle
  BY <1>2 DEF NearInv
<1>4. Near'
  <2>1. CASE UNCHANGED vars
    BY <1>3, <2>1 DEF vars, Near
  <2> QED BY <1>2, <1>3, <2>1, NearKept, WorkspaceSteps
<1>5. CASE Submit
  <2>1. Settled
    BY <1>2, <1>5 DEF Submit, Acts, Unhurried, Orderly, Calm, May
  <2>2. sending'.time = time /\ sending'.shown = video.at
    BY <1>5 DEF Submit
  <2> QED BY <1>2, <1>3, <1>4, <2>1, <2>2, NearWhenSent
<1>6. CASE sending' = NoSending
  <2>1. Distance(0, 0) <= PlayingWithin + Throttle
    BY PlayerAssumption DEF Distance
  <2> QED BY <1>4, <1>6, <2>1 DEF NoSending
<1>7. CASE sending' = sending
  BY <1>3, <1>4, <1>7
<1> QED
  BY <1>5, <1>6, <1>7, WorkspaceSteps
  DEF Next, Watches, Comes, Runs, Frame, Ended, TimeUpdate, PlayEvent, Elapse, Play, Pause,
      Scrub, stepFrame, jumpSeconds, Draw, Clear, Undo, Click, Pin, Resolve, Delete, Link, Posted,
      Resolved, Deleted, onCommentDeleted, OpenCompare, OtherPage, vars

(* A comment is about a frame near the one its author saw, for every length *)
(* of the video, every jump and all thresholds in the order of the code's.  *)
THEOREM NewCommentsAreNear == WorkspaceSpec => []CommentsAreNear
<1> DEFINE Inv == TypeInv /\ PlayerStands /\ NearInv
<1>1. WorkspaceInit => Inv
  BY TypesInit, StandsInit, NearInit
<1>2. Inv /\ [WorkspaceNext]_everything => Inv'
  BY TypesKept, StandsKept, NearInvKept
<1>3. Inv => CommentsAreNear
  BY DEF NearInv, CommentsAreNear, Orderly
<1> QED BY <1>1, <1>2, <1>3, PTL DEF WorkspaceSpec
=============================================================================
