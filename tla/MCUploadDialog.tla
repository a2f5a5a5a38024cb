---------------------------- MODULE MCUploadDialog ----------------------------
(* One large file of two parts, or two small ones, for TLC.                 *)
EXTENDS UploadDialog

(* Two runs side by side with one worker each, a pool of which one worker   *)
(* fails while the other goes on, and one pool that pauses; then two small  *)
(* uploads of one dialog and of the other.                                  *)
MCSetups == {
    [size |-> "large", dialog |-> "media",   workers |-> 1, retries |-> 2, runs |-> 2,
     files |-> 1, user |-> {"pause", "reload"}],
    [size |-> "large", dialog |-> "version", workers |-> 2, retries |-> 1, runs |-> 2,
     files |-> 1, user |-> {}],
    [size |-> "large", dialog |-> "version", workers |-> 2, retries |-> 2, runs |-> 1,
     files |-> 1, user |-> {"pause", "reload"}],
    [size |-> "small", dialog |-> "media",   workers |-> 1, retries |-> 1, runs |-> 2,
     files |-> 2, user |-> {}],
    [size |-> "small", dialog |-> "version", workers |-> 1, retries |-> 1, runs |-> 2,
     files |-> 1, user |-> {"reload"}]}
=============================================================================
