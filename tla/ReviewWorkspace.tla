----------------------------- MODULE ReviewWorkspace ----------------------------
(***************************************************************************)
(* The review workspace and the comparison of two versions that takes the   *)
(* place of its player.  The player is unmounted meanwhile; what the        *)
(* workspace keeps (the time, the selected comment, the drawing) outlives   *)
(* it, and answers and events still arrive.                                 *)
(***************************************************************************)
EXTENDS ReviewPlayer

CONSTANTS Versions, Length, HardSeek, Cooldown

ASSUME CompareAssumption ==
    /\ Length \in [Versions -> Nat] /\ HardSeek \in Nat /\ Cooldown \in Nat

VARIABLES shown, a, b, button, cool
Compare == INSTANCE ComparePlayer

pair == <<shown, a, b, button, cool>>
everything == <<vars, pair>>

WorkspaceInit == Init /\ Compare!Init

(* The player that will be mounted: it starts with the workspace's time,    *)
(* seeks to it, and has reported nothing.                                   *)
Remounted ==
    /\ video' = [at |-> time, paused |-> TRUE]
    /\ player' = [isPlaying |-> FALSE, scrub |-> time, echo |-> -1]
    /\ since' = Throttle + 1 /\ event' = (time # 0)

OpenCompare ==
    /\ Acts("compare")
    /\ \E v, w \in Versions : v # w /\ Compare!Open(v, w)
    /\ Remounted
    /\ UNCHANGED <<setup, time, selection, comments, sending, call>>

CloseCompare == Compare!onCloseCompare /\ UNCHANGED vars

(* The page of another version has a workspace of its own.                  *)
OtherPage ==
    /\ \/ Compare!handleSwapVersions
       \/ \E v \in Versions : Compare!handleSelectA(v)
    /\ video' = [at |-> 0, paused |-> TRUE]
    /\ player' = [isPlaying |-> FALSE, scrub |-> 0, echo |-> -1]
    /\ since' = Throttle + 1 /\ event' = FALSE /\ time' = 0
    /\ active' = None /\ shapes' = {} /\ comments' = Comments
    /\ sending' = NoSending /\ call' = [k \in DOMAIN call |-> NoCall]
    /\ UNCHANGED setup

PlayersRun ==
    \/ ~Compare!IsOpen /\ Runs /\ UNCHANGED pair
    \/ Compare!Runs /\ UNCHANGED vars

WorkspaceNext ==
    \/ PlayersRun
    \/ ~Compare!IsOpen /\ Watches /\ UNCHANGED pair
    \/ Comes /\ UNCHANGED pair
    \/ OpenCompare \/ CloseCompare \/ OtherPage
    \/ Compare!Watches /\ UNCHANGED vars

(* The loop runs on every animation frame: nobody is faster for ever.       *)
WorkspaceSpec ==
    /\ WorkspaceInit /\ [][WorkspaceNext]_everything
    /\ WF_everything(PlayersRun)
    /\ SF_everything(Compare!SyncPaused /\ UNCHANGED vars)
-----------------------------------------------------------------------------
WorkspaceTypeOK == TypeOK /\ Compare!PairTypeOK

(* While A rests, B comes to rest within a frame of it.                     *)
VersionsRestTogether == []<>Compare!RestsTogether
=============================================================================
