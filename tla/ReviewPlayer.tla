----------------------------- MODULE ReviewPlayer -----------------------------
(***************************************************************************)
(* The review workspace: the video element, the player around it, and the   *)
(* workspace that holds the selected comment, the drawing and the time that *)
(* a new comment gets.                                                      *)
(*                                                                         *)
(* There are three clocks: the element's own, the player's scrubber and the *)
(* workspace's currentTime.  The player reports its time to the workspace   *)
(* at most every 200 ms; the workspace moves the player by setting its time *)
(* (a selected comment), and the player takes a time close to what it last  *)
(* reported for an echo of its own.  Time is counted in frames.             *)
(***************************************************************************)
EXTENDS Integers, FiniteSets

CONSTANTS
    Last,          \* the last frame of the video
    Comments,
    Stamp,         \* Stamp[c]: the frame comment c is about
    EchoWithin,    \* frames in the 0.08 s within which a time is an echo
    PlayingWithin, \* frames in the 0.4 s below which no jump is made while playing
    PausedWithin,  \* and in the 0.04 s when paused: 0 at 24 frames a second, 1 at 30
    Throttle,      \* frames in the 200 ms between two reports
    JumpBy,        \* frames in the 5 s of a jump
    Setups         \* acts: what the user does; link: the comment in the URL;
                   \* loop: the in and out points, if looping; faults: "fast" users,
                   \* "overlap" of calls and of what else happens, "refusals"

None == "none"
Frames == 0..Last

ASSUME PlayerAssumption ==
    /\ Last \in Nat /\ EchoWithin \in Nat /\ PlayingWithin \in Nat /\ PausedWithin \in Nat
    /\ Throttle \in Nat /\ JumpBy \in Nat
    /\ None \notin Comments /\ Stamp \in [Comments -> Frames]
    /\ "mine" \notin Comments /\ PausedWithin <= EchoWithin
    /\ EchoWithin <= PlayingWithin /\ EchoWithin <= Throttle
    /\ \A s \in Setups :
           /\ s.link \in Comments \cup {None}
           /\ s.loop # <<>> => s.loop \in Frames \X Frames /\ s.loop[1] < s.loop[2]

VARIABLES
    setup,
    video,     \* the element: at, paused
    player,    \* isPlaying, scrub (its currentTime), echo (lastDispatchedValueRef, or -1)
    since,     \* frames since the last report, Throttle + 1 when the next may come
    event,     \* a timeupdate of the element is to be handled
    time,      \* currentTime of the workspace
    active,    \* activeComment
    comments,  \* the comments listed
    shapes,    \* drawingShapes: "mine", and those of comments
    sending,   \* the comment on its way: its time, and the frame that was shown
    call       \* the resolve and the delete under way

vars == <<setup, video, player, since, event, time, active, comments, shapes, sending, call>>
clock     == <<video, player, since, event, time>>
selection == <<active, shapes>>

Does(act)  == act \in setup.acts
May(fault) == fault \in setup.faults

NoCall    == [step |-> "no", comment |-> None, was |-> FALSE]
NoSending == [step |-> "no", time |-> 0, shown |-> 0]

Init ==
    /\ setup \in Setups
    /\ video = [at |-> 0, paused |-> TRUE]
    /\ player = [isPlaying |-> FALSE, scrub |-> 0, echo |-> -1]
    /\ since = Throttle + 1 /\ event = FALSE /\ time = 0
    /\ active = None /\ comments = Comments /\ shapes = {}
    /\ sending = NoSending
    /\ call = [k \in {"resolve", "delete"} |-> NoCall]

Distance(a, b) == IF a < b THEN b - a ELSE a - b
(* 0.75 of a frame.                                                         *)
isSameFrameTime(a, b) == a = b
Away(f) == active # None /\ ~isSameFrameTime(f, Stamp[active])
safeTime(f) == IF f < 0 THEN 0 ELSE IF f > Last THEN Last ELSE f

(* A user who is not fast acts when the player has come to rest, or plays   *)
(* and has reported since the last act.                                     *)
(* Without overlap nothing happens between a call and its answer.           *)
Settled ==
    /\ ~event /\ player.isPlaying = ~video.paused
    /\ IF player.isPlaying THEN time = player.echo ELSE since > Throttle
Unhurried == May("fast") \/ Settled
Alone == May("overlap") \/ \A k \in DOMAIN call : call[k].step = "no"
Acts(act) == Does(act) /\ Unhurried /\ Alone

-----------------------------------------------------------------------------
(* The player after the workspace's time became t, p, at v before: an echo  *)
(* is ignored, as is a small difference.                                    *)
Echo(p, t) == p.echo >= 0 /\ Distance(t, p.echo) <= EchoWithin
(* Mutant: a paused video follows as loosely as one that plays.             *)
SeeksLoosely(p, v, t) == ~Echo(p, t) /\ Distance(v.at, t) > PlayingWithin
Seeks(p, v, t) ==
    ~Echo(p, t) /\ Distance(v.at, t) > IF p.isPlaying THEN PlayingWithin ELSE PausedWithin

(* The new time t, the player p and the element v, with the effect that     *)
(* runs when the time or isPlaying has changed.                             *)
Becomes(p, v, t, ev) ==
    LET seeks == (t # time \/ p.isPlaying # player.isPlaying) /\ Seeks(p, v, t)
    IN  /\ time' = t
        /\ player' = IF seeks THEN [p EXCEPT !.scrub = t] ELSE p
        /\ video' = IF seeks THEN [v EXCEPT !.at = t] ELSE v
        /\ event' = (ev \/ seeks)

(* handleSelectComment: the selected comment once more, or none, deselects. *)
Chosen(c) == IF c = active THEN None ELSE c
Select(c) ==
    /\ active' = Chosen(c)
    /\ shapes' = {Chosen(c)} \ {None}
    /\ Becomes(player, video, IF Chosen(c) = None THEN time ELSE Stamp[c], event)

Deselect == active' = None /\ shapes' = {}
DeselectWhen(away) == IF away THEN Deselect ELSE UNCHANGED selection

-----------------------------------------------------------------------------
(* Playing.                                                                 *)

(* Playback that starts deselects; after the end it starts over.            *)
Play ==
    /\ Acts("play") /\ video.paused
    /\ DeselectWhen(active # None)
    /\ video' = [at |-> IF video.at = Last THEN 0 ELSE video.at, paused |-> FALSE]
    /\ event' = (event \/ video.at = Last)
    /\ UNCHANGED <<setup, player, since, time, comments, sending, call>>

Pause ==
    /\ Acts("play") /\ ~video.paused
    /\ Becomes([player EXCEPT !.isPlaying = FALSE, !.echo = video.at],
               [video EXCEPT !.paused = TRUE], video.at, TRUE)
    /\ UNCHANGED <<setup, since, selection, comments, sending, call>>

(* The promise of play() and the events play and pause.                     *)
PlayEvent ==
    /\ player.isPlaying # ~video.paused
    /\ Becomes([player EXCEPT !.isPlaying = ~video.paused], video, time, event)
    /\ UNCHANGED <<setup, since, selection, comments, sending, call>>

(* The time is reported when 200 ms have passed, and a loop starts over.    *)
Reported(n) == n > Throttle
OutOfLoop(f) == setup.loop # <<>> /\ (f >= setup.loop[2] \/ f < setup.loop[1])
LoopOf(v) == IF OutOfLoop(v.at) THEN [v EXCEPT !.at = setup.loop[1]] ELSE v
Ticks(p, v, n, ev) ==
    /\ since' = IF Reported(n) THEN 0 ELSE n
    /\ IF Reported(n) THEN Becomes([p EXCEPT !.echo = v.at], LoopOf(v), v.at, ev \/ OutOfLoop(v.at))
       ELSE Becomes(p, LoopOf(v), time, ev \/ OutOfLoop(v.at))

(* Mutant: playing away leaves the comment selected.                        *)
FrameOnly ==
    LET v == [video EXCEPT !.at = @ + 1]
    IN  /\ player.isPlaying /\ ~video.paused /\ video.at < Last
        /\ UNCHANGED selection
        /\ Ticks([player EXCEPT !.scrub = v.at], v, IF Reported(since) THEN since ELSE since + 1, event)
        /\ UNCHANGED <<setup, comments, sending, call>>
(* updateLoop, once for each frame.                                         *)
Frame ==
    LET v == [video EXCEPT !.at = @ + 1]
    IN  /\ player.isPlaying /\ ~video.paused /\ video.at < Last
        /\ DeselectWhen(Away(v.at))
        /\ Ticks([player EXCEPT !.scrub = v.at], v, IF Reported(since) THEN since ELSE since + 1, event)
        /\ UNCHANGED <<setup, comments, sending, call>>

Ended ==
    /\ ~video.paused /\ video.at = Last
    /\ Becomes([player EXCEPT !.isPlaying = FALSE], [video EXCEPT !.paused = TRUE], time, TRUE)
    /\ UNCHANGED <<setup, since, selection, comments, sending, call>>

(* handleTimeUpdate.                                                        *)
TimeUpdate ==
    /\ event
    /\ DeselectWhen(Away(video.at))
    /\ Ticks(IF player.isPlaying THEN player ELSE [player EXCEPT !.scrub = video.at],
             video, since, FALSE)
    /\ UNCHANGED <<setup, comments, sending, call>>

Elapse ==
    /\ ~Reported(since) /\ since' = Throttle + 1
    /\ UNCHANGED <<setup, video, player, event, time, selection, comments, sending, call>>

(* Mutant: the workspace is not told.                                       *)
seekToAlone(v, p, f) ==
    LET safe == safeTime(f)
    IN  /\ DeselectWhen(Away(safe))
        /\ Becomes([p EXCEPT !.scrub = safe, !.echo = safe], [v EXCEPT !.at = safe], time, TRUE)
seekTo(v, p, f) ==
    LET safe == safeTime(f)
    IN  /\ DeselectWhen(Away(safe))
        /\ Becomes([p EXCEPT !.scrub = safe, !.echo = safe], [v EXCEPT !.at = safe], safe, TRUE)

Scrub(f) ==
    /\ Acts("seek") /\ seekTo(video, player, f)
    /\ UNCHANGED <<setup, since, comments, sending, call>>
stepFrame(n) ==
    /\ Acts("seek")
    /\ seekTo([video EXCEPT !.paused = TRUE], [player EXCEPT !.isPlaying = FALSE], video.at + n)
    /\ UNCHANGED <<setup, since, comments, sending, call>>
jumpSeconds(n) ==
    /\ Acts("seek") /\ seekTo(video, player, video.at + n * JumpBy)
    /\ UNCHANGED <<setup, since, comments, sending, call>>

-----------------------------------------------------------------------------
(* Comments.                                                                *)

Click(c) ==
    /\ Acts("select") /\ Select(c)
    /\ UNCHANGED <<setup, since, comments, sending, call>>

(* The pin of a comment on the scrubber seeks first, and then selects.      *)
Pin(c) ==
    /\ Acts("select") /\ active # c
    /\ active' = c /\ shapes' = {c}
    /\ Becomes([player EXCEPT !.scrub = Stamp[c], !.echo = Stamp[c]],
               [video EXCEPT !.at = Stamp[c]], Stamp[c], TRUE)
    /\ UNCHANGED <<setup, since, comments, sending, call>>

(* The effect of a link to a comment: selected whenever none is.            *)
Link ==
    /\ setup.link \in comments /\ active = None
    /\ Select(setup.link)
    /\ UNCHANGED <<setup, since, comments, sending, call>>

(* Drawing is on top of what is drawn, the annotation of a comment too.     *)
Draw ==
    /\ Acts("draw") /\ ~player.isPlaying
    /\ shapes' = shapes \cup {"mine"}
    /\ UNCHANGED <<setup, clock, active, comments, sending, call>>
Undo(s) ==
    /\ Acts("draw") /\ ~player.isPlaying /\ shapes' = shapes \ {s}
    /\ UNCHANGED <<setup, clock, active, comments, sending, call>>
Clear ==
    /\ Acts("draw") /\ ~player.isPlaying /\ shapes' = {}
    /\ UNCHANGED <<setup, clock, active, comments, sending, call>>

(* A comment gets the workspace's time and what is drawn.                   *)
Submit ==
    /\ Acts("post") /\ sending.step = "no"
    /\ sending' = [step |-> "sent", time |-> time, shown |-> video.at]
    /\ UNCHANGED <<setup, clock, selection, comments, call>>

(* The drawing is cleared, and so are the text and the drawing of a comment *)
(* that was refused: the error does not reach the composer.                 *)
Posted ==
    /\ sending.step = "sent" /\ sending' = NoSending
    /\ shapes' = {}
    /\ UNCHANGED <<setup, clock, active, comments, call>>

Resolve(c) ==
    /\ Acts("resolve") /\ call["resolve"].step = "no"
    /\ call' = [call EXCEPT !["resolve"] = [step |-> "sent", comment |-> c, was |-> active = c]]
    /\ UNCHANGED <<setup, clock, selection, comments, sending>>

(* Answer or error: the comment that was active when it was asked is active *)
(* again.                                                                   *)
Resolved ==
    /\ call["resolve"].step = "sent"
    /\ active' = IF call["resolve"].was THEN call["resolve"].comment ELSE active
    /\ call' = [call EXCEPT !["resolve"] = NoCall]
    /\ UNCHANGED <<setup, clock, shapes, comments, sending>>

Delete(c) ==
    /\ Acts("delete") /\ call["delete"].step = "no"
    /\ call' = [call EXCEPT !["delete"] = [step |-> "sent", comment |-> c, was |-> active = c]]
    /\ comments' = comments \ {c}
    /\ DeselectWhen(active = c)
    /\ UNCHANGED <<setup, clock, sending>>

(* The error puts the comment back, and selects it without a seek.          *)
Deleted ==
    /\ call["delete"].step = "sent"
    /\ \/ UNCHANGED <<comments, active>>
       \/ /\ May("refusals") /\ comments' = comments \cup {call["delete"].comment}
          /\ active' = IF call["delete"].was THEN call["delete"].comment ELSE active
    /\ call' = [call EXCEPT !["delete"] = NoCall]
    /\ UNCHANGED <<setup, clock, shapes, sending>>

(* Mutant: the selection is left alone.                                     *)
onCommentDeletedOnly(c) ==
    /\ Does("others") /\ Alone
    /\ comments' = comments \ {c}
    /\ UNCHANGED selection
    /\ UNCHANGED <<setup, clock, sending, call>>
(* Somebody else deletes a comment.                                         *)
onCommentDeleted(c) ==
    /\ Does("others") /\ Alone
    /\ comments' = comments \ {c}
    /\ DeselectWhen(active = c)
    /\ UNCHANGED <<setup, clock, sending, call>>

-----------------------------------------------------------------------------
(* What the player does by itself, what the user does with it, and what     *)
(* comes from elsewhere.                                                    *)
Runs == Frame \/ Ended \/ TimeUpdate \/ PlayEvent

Watches ==
    \/ Runs \/ Elapse
    \/ Play \/ Pause
    \/ \E f \in Frames : Scrub(f)
    \/ \E n \in {-1, 1} : stepFrame(n) \/ jumpSeconds(n)
    \/ Draw \/ Clear \/ Submit
    \/ \E s \in shapes : Undo(s)
    \/ \E c \in comments : Click(c) \/ Pin(c) \/ Resolve(c) \/ Delete(c)

Comes == Link \/ Posted \/ Resolved \/ Deleted \/ \E c \in comments : onCommentDeleted(c)

Next == Watches \/ Comes

Spec == Init /\ [][Next]_vars /\ WF_vars(Runs)
-----------------------------------------------------------------------------
(* Every clock is on the video.                                             *)
TypeOK ==
    /\ setup \in Setups
    /\ video \in [at : Frames, paused : BOOLEAN]
    /\ player \in [isPlaying : BOOLEAN, scrub : Frames, echo : Frames \cup {-1}]
    /\ since \in 0..(Throttle + 1) /\ event \in BOOLEAN /\ time \in Frames
    /\ active \in Comments \cup {None} /\ comments \subseteq Comments
    /\ shapes \subseteq Comments \cup {"mine"}
    /\ sending \in [step : {"no", "sent"}, time : Frames, shown : Frames]
    /\ call \in [{"resolve", "delete"} -> [step : {"no", "sent"},
                                           comment : Comments \cup {None}, was : BOOLEAN]]

Calm   == setup.faults = {}
AtRest == video.paused /\ ~player.isPlaying /\ ~event

(* The calls whose answers may select a comment.                            *)
Reselects == Does("resolve") \/ (Does("delete") /\ May("refusals"))

(* Nothing moves the video away from a comment that is still selected, or   *)
(* about to be selected again.                                              *)
Steady ==
    /\ ~May("overlap")
    /\ Does("play") /\ Does("compare") => ~May("fast")
    /\ Reselects => ~May("fast") /\ ~Does("play")
    /\ Does("delete") /\ May("refusals") => setup.link = None
    /\ setup.loop # <<>> => /\ ~May("fast") /\ setup.link = None
                           /\ \A c \in Comments : Stamp[c] < Last

(* A video at rest is on the frame of the selected comment, whose           *)
(* annotation lies over it, or within 0.04 s of it, which is the frame next *)
(* to it in a video of 25 to 49 frames a second; but for a time taken for   *)
(* an echo.  Mostly for fast users too.                                     *)
SelectedFrameIsShown ==
    Steady /\ AtRest /\ active # None =>
        \/ Distance(video.at, Stamp[active]) <= PausedWithin
        \/ Echo(player, Stamp[active])

(* Where nothing overlaps, the selected comment is one of the list, and no  *)
(* annotation of another is in the drawing, to be posted with the next.  An *)
(* answer that selects again must not come after the link's comment.        *)
LinkStandsBack ==
    setup.link # None /\ Reselects =>
        ~May("fast") /\ ~Does("play") /\ ~(Does("delete") /\ May("refusals"))
SelectionIsWhole ==
    ~May("overlap") /\ LinkStandsBack =>
        active \in comments \cup {None} /\ shapes \cap Comments \subseteq {active}

(* Where moreover nobody is fast, without a loop or a link, a new comment   *)
(* is about a frame near the one that was shown.  A comment within 200 ms   *)
(* of the end can leave an echo behind: the video ends before it reports.   *)
NoneIsLate == \A c \in Comments : Stamp[c] + Throttle < Last
CommentsAreNear ==
    Calm /\ setup.link = None /\ setup.loop = <<>> /\ NoneIsLate =>
        Distance(sending.time, sending.shown) <= PlayingWithin + Throttle

(* "Auto-deselect comment ... when playing away from comment frame", but    *)
(* for the comment of a link.                                               *)
LeavesTheComment == []<>(setup.link # None \/ ~(player.isPlaying /\ Away(video.at)))

(* docs/PHASE_8A_PLAN.md:228: "Clicking comment seeks video to exact frame  *)
(* and restores annotation canvas."                                         *)
ClickSeeksToTheFrame ==
    Calm /\ AtRest /\ active # None => isSameFrameTime(video.at, Stamp[active])
=============================================================================
