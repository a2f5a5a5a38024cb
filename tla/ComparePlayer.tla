----------------------------- MODULE ComparePlayer -----------------------------
(***************************************************************************)
(* Two versions side by side: version A is the clock, and a loop that runs  *)
(* on every animation frame makes version B follow it, by play and pause,   *)
(* by its speed, and by a jump when it is far off.  Time is counted in      *)
(* frames; no version starts later than the other (frameOffset is never     *)
(* set).                                                                   *)
(***************************************************************************)
EXTENDS Integers

CONSTANTS
    Versions,
    Length,     \* Length[v]: the last frame of version v
    HardSeek,   \* frames in the 0.5 s above which B jumps while it plays
    Cooldown    \* frames in the 500 ms between two such jumps

VARIABLES
    shown,     \* the versions compared, <<>> when none are
    a,         \* the element of A: at, paused
    b,         \* the element of B: at, paused, seeking, rate (compared with A's)
    button,    \* isPlaying, and "starting" while the promise of play() is open
    cool       \* frames until B may jump again

vars == <<shown, a, b, button, cool>>

IsOpen == shown # <<>>
LastA == Length[shown[1]]
LastB == Length[shown[2]]
Clamp(t, last) == IF t < 0 THEN 0 ELSE IF t > last THEN last ELSE t
Drift == IF a.at < b.at THEN b.at - a.at ELSE a.at - b.at

Element == [at |-> 0, paused |-> TRUE, seeking |-> FALSE, rate |-> "same"]
Fresh(pair) ==
    /\ shown' = pair
    /\ a' = [at |-> 0, paused |-> TRUE] /\ b' = Element
    /\ button' = "paused" /\ cool' = 0

Init ==
    /\ shown = <<>>
    /\ a = [at |-> 0, paused |-> TRUE] /\ b = Element
    /\ button = "paused" /\ cool = 0

(* play() of an element that has ended starts over.                         *)
Played(e, last) == [e EXCEPT !.at = IF @ = last THEN 0 ELSE @, !.paused = FALSE]
Jumped(e, t, last) == [e EXCEPT !.at = Clamp(t, last), !.seeking = TRUE]

-----------------------------------------------------------------------------
(* The elements by themselves.                                              *)

(* A frame: who plays plays on or ends, B at its speed; B also stalls.      *)
Pace == CASE b.rate = "slow" -> {0, 1} [] b.rate = "same" -> {0, 1} [] b.rate = "fast" -> {0, 1, 2}
Frame ==
    /\ IsOpen /\ ~(a.paused /\ b.paused)
    /\ a' = IF a.paused THEN a
            ELSE IF a.at < LastA THEN [a EXCEPT !.at = @ + 1] ELSE [a EXCEPT !.paused = TRUE]
    /\ IF b.paused \/ b.seeking THEN UNCHANGED b
       ELSE IF b.at = LastB THEN b' = [b EXCEPT !.paused = TRUE]
       ELSE \E n \in Pace : b' = [b EXCEPT !.at = Clamp(@ + n, LastB)]
    /\ cool' = IF cool = 0 THEN 0 ELSE cool - 1
    /\ UNCHANGED <<shown, button>>

Sought ==
    /\ b.seeking /\ b' = [b EXCEPT !.seeking = FALSE]
    /\ UNCHANGED <<shown, a, button, cool>>

(* syncLoop.  B, which plays and pauses with A, ...                         *)
Aligned ==
    IF a.paused THEN [b EXCEPT !.paused = TRUE]
    ELSE IF b.paused THEN [Played(b, LastB) EXCEPT !.seeking = @ \/ b.at = LastB] ELSE b
(* ... and its speed: 5% more when it is behind, less when it is ahead.     *)
Rate(e, drift) == IF drift = 0 THEN "same" ELSE IF e.at < a.at THEN "fast" ELSE "slow"
SyncPlaying ==
    /\ IsOpen /\ ~a.paused
    /\ LET far == Drift > HardSeek /\ ~Aligned.seeking /\ cool = 0
       IN  /\ b' = IF far THEN [Jumped(Aligned, a.at, LastB) EXCEPT !.rate = "same"]
                   ELSE [Aligned EXCEPT !.rate = Rate(Aligned, Drift)]
           /\ cool' = IF far THEN Cooldown ELSE cool
    /\ UNCHANGED <<shown, a, button>>
(* Mutant: a jump is the last of the loop's looks.                          *)
SyncPausedOnce ==
    /\ IsOpen /\ a.paused
    /\ b' = [Aligned EXCEPT !.rate = "same"]
    /\ UNCHANGED <<shown, a, button, cool>>
SyncPaused ==
    /\ IsOpen /\ a.paused
    /\ b' = [IF Drift > 1 /\ ~b.seeking THEN Jumped(Aligned, a.at, LastB) ELSE Aligned
                EXCEPT !.rate = "same"]
    /\ UNCHANGED <<shown, a, button, cool>>

-----------------------------------------------------------------------------
(* The user.                                                                *)

togglePlay ==
    /\ IsOpen
    /\ IF a.paused THEN a' = Played(a, LastA) /\ button' = "starting" /\ UNCHANGED b
       ELSE a' = [a EXCEPT !.paused = TRUE] /\ b' = [b EXCEPT !.paused = TRUE] /\ button' = "paused"
    /\ UNCHANGED <<shown, cool>>

(* The promise of A's play().                                               *)
Started ==
    /\ button = "starting" /\ button' = "playing"
    /\ b' = [Played(Jumped(b, a.at, LastB), LastB) EXCEPT !.rate = "same"]
    /\ UNCHANGED <<shown, a, cool>>

(* The longer of the two bounds a seek.                                     *)
Total == IF LastA < LastB THEN LastB ELSE LastA
Seek(t) ==
    LET clamped == Clamp(t, Total)
    IN  a' = [a EXCEPT !.at = Clamp(clamped, LastA)] /\ b' = Jumped(b, clamped, LastB)
seek(t) == IsOpen /\ Seek(t) /\ UNCHANGED <<shown, button, cool>>

stepFrame(n) ==
    LET clamped == Clamp(a.at + n, Total)
    IN  /\ IsOpen
        /\ a' = [at |-> Clamp(clamped, LastA), paused |-> TRUE]
        /\ b' = [Jumped(b, clamped, LastB) EXCEPT !.paused = TRUE]
        /\ button' = "paused" /\ UNCHANGED <<shown, cool>>

(* Another version B: its element loads anew.                               *)
handleSelectB(v) ==
    /\ IsOpen /\ v # shown[2]
    /\ shown' = <<shown[1], v>> /\ b' = Element
    /\ UNCHANGED <<a, button, cool>>

(* Another version A: the page of that version, compared with the same B.   *)
handleSelectA(v) == IsOpen /\ v # shown[1] /\ Fresh(<<v, shown[2]>>)
(* The page of B, and what the URL names to compare with is B as well.      *)
handleSwapVersions == IsOpen /\ Fresh(<<shown[2], shown[2]>>)

Open(v, w) == ~IsOpen /\ Fresh(<<v, w>>)
onCloseCompare == IsOpen /\ Fresh(<<>>)

Watches ==
    \/ togglePlay
    \/ \E v \in Versions : handleSelectB(v)
    \/ IsOpen /\ \E t \in 0..Total : seek(t)
    \/ \E n \in {-1, 1} : stepFrame(n)
Runs == Frame \/ Sought \/ Started \/ SyncPlaying \/ SyncPaused

PairTypeOK ==
    /\ shown \in {<<>>} \cup (Versions \X Versions)
    /\ IsOpen => a.at \in 0..LastA /\ b.at \in 0..LastB
    /\ {a.paused, b.paused, b.seeking} \subseteq BOOLEAN
    /\ b.rate \in {"slow", "same", "fast"} /\ button \in {"paused", "starting", "playing"}
    /\ cool \in 0..Cooldown

(* "Paused mode: Match targetB directly": while A rests, B comes to rest    *)
(* within a frame of it, unless it is too short.                            *)
RestsTogether == IsOpen /\ a.paused => b.paused /\ (Drift <= 1 \/ a.at > LastB)
=============================================================================
