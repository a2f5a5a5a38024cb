----------------------------- MODULE UploadDialog -----------------------------
(***************************************************************************)
(* The upload dialogs as a whole: a file is chosen, its metadata and a      *)
(* thumbnail are read from it in the browser, and it is sent by the         *)
(* multipart uploader of UploadSession if it is large and with one PUT if   *)
(* it is small.  This module adds the choice, the reading and the PUT.      *)
(*                                                                         *)
(* Nothing ties the answers of one upload, or of one reading, to the file   *)
(* the dialog shows by then: after it was closed and opened again they land *)
(* on the next file.                                                        *)
(***************************************************************************)
EXTENDS UploadSession

CONSTANT MaxFiles   \* bound on the files that are chosen one after the other

ASSUME DialogAssumption ==
    /\ MaxFiles \in Nat \ {0}
    /\ \A s \in Setups : s.size \in {"small", "large"} /\ s.files \in 1..MaxFiles

Files == 1..MaxFiles

VARIABLES
    chosen, \* the file chosen last; the files are numbered in that order
    meta,   \* the file whose metadata the dialog holds
    look,   \* look[f]: the reading of file f
    put,    \* put[r]: an upload in one PUT
    xhr,    \* the upload whose transfer a close would cut off
    media   \* media[r]: the media row of upload r

dialogVars == <<chosen, meta, look, put, xhr, media>>
allVars    == <<vars, dialogVars>>

(* What the small uploads leave alone in UploadSession.                     *)
pool == <<setup, current, aborted, run, worker, cache, asset, store, ending>>

NoLook == [kind |-> "none", step |-> "none"]
NoPut  == [step |-> "unused", of |-> None, meta |-> None]
NoRow  == [status |-> "none", of |-> None, meta |-> None, stored |-> FALSE]

DialogInit ==
    /\ Init
    /\ chosen = 0 /\ meta = None /\ xhr = None
    /\ look = [f \in Files |-> NoLook]
    /\ put = [r \in Runs |-> NoPut]
    /\ media = [r \in Runs |-> NoRow]

Sending == {"presigning", "presigned", "thumbnail", "sending", "stored",
            "completing", "completed", "stacking"}

-----------------------------------------------------------------------------
(* Reading a file: once it has settled, nothing more comes of it.           *)

Kinds == {"video", "image", "svg"}

ChooseFile ==
    /\ ~file /\ chosen < setup.files
    /\ file' = TRUE /\ chosen' = chosen + 1
    /\ \E k \in Kinds : look' = [look EXCEPT ![chosen + 1] = [kind |-> k, step |-> "loading"]]
    /\ UNCHANGED <<pool, status, late, timers, meta, put, xhr, media>>

(* The reading of f ends with metadata or without, and the dialog takes     *)
(* them, whatever file it shows by now.                                     *)
Settle(f, found) ==
    /\ look' = [look EXCEPT ![f].step = "settled"]
    /\ meta' = IF found THEN f ELSE None

Reads(f, step) ==
    /\ look' = [look EXCEPT ![f].step = step]
    /\ UNCHANGED meta

(* An image has loaded, which stops the clock: a vector image and one that  *)
(* cannot be drawn are their own thumbnails.                                *)
ImageLoaded(f) ==
    /\ look[f].kind \in {"image", "svg"} /\ look[f].step = "loading"
    /\ \/ Settle(f, TRUE)
       \/ look[f].kind = "image" /\ Reads(f, "drawing")
    /\ UNCHANGED <<vars, chosen, put, xhr, media>>

(* A video knows its length and is sent to a frame.                         *)
VideoLoaded(f) ==
    /\ look[f].kind = "video" /\ look[f].step = "loading"
    /\ Reads(f, "seeking")
    /\ UNCHANGED <<vars, chosen, put, xhr, media>>

(* The frame is there; it may be impossible to draw it.                     *)
VideoSeeked(f) ==
    /\ look[f].step = "seeking"
    /\ Reads(f, "drawing") \/ Settle(f, TRUE)
    /\ UNCHANGED <<vars, chosen, put, xhr, media>>

Drawn(f) ==
    /\ look[f].step = "drawing"
    /\ Settle(f, TRUE)
    /\ UNCHANGED <<vars, chosen, put, xhr, media>>

(* The file cannot be read.                                                 *)
Unreadable(f) ==
    /\ look[f].step \in {"loading", "seeking"}
    /\ Settle(f, FALSE)
    /\ UNCHANGED <<vars, chosen, put, xhr, media>>

(* Mutant: the clock is stopped when a video knows its length.              *)
ReadingStalls(f) ==
    /\ look[f].step = "loading"
    /\ Settle(f, FALSE)
    /\ UNCHANGED <<vars, chosen, put, xhr, media>>
(* Eight seconds after the choice.                                          *)
ReadingTimesOut(f) ==
    /\ \/ look[f].step = "loading"
       \/ look[f].kind = "video" /\ look[f].step \in {"seeking", "drawing"}
    /\ Settle(f, FALSE)
    /\ UNCHANGED <<vars, chosen, put, xhr, media>>

-----------------------------------------------------------------------------
(* Sending a small file.                                                    *)

(* Nobody waits for the reading: the metadata are those the dialog holds    *)
(* when the button is pressed.                                              *)
StartPut(r) ==
    /\ file /\ status \in {"idle", "error"}
    /\ r <= setup.runs /\ put[r].step = "unused" /\ \A q \in 1..(r - 1) : put[q].step # "unused"
    /\ put' = [put EXCEPT ![r] = [step |-> "presigning", of |-> chosen, meta |-> meta]]
    /\ status' = "presigning"
    /\ UNCHANGED <<pool, file, late, timers, chosen, meta, look, xhr, media>>

(* Mutant: the request is filled in from what the dialog holds by then.     *)
PresignedByNow(r) ==
    /\ put[r].step = "presigning"
    /\ media' = [media EXCEPT ![r] = [status |-> "uploading", of |-> put[r].of,
                                      meta |-> meta, stored |-> FALSE]]
    /\ put' = [put EXCEPT ![r].step = "presigned"]
    /\ UNCHANGED <<pool, file, status, late, timers, chosen, meta, look, xhr>>
(* The server makes the row and signs the URLs.                             *)
PresignPut(r) ==
    /\ put[r].step = "presigning"
    /\ media' = [media EXCEPT ![r] = [status |-> "uploading", of |-> put[r].of,
                                      meta |-> put[r].meta, stored |-> FALSE]]
    /\ put' = [put EXCEPT ![r].step = "presigned"]
    /\ UNCHANGED <<pool, file, status, late, timers, chosen, meta, look, xhr>>

Send(r) ==
    /\ put' = [put EXCEPT ![r].step = "sending"]
    /\ xhr' = r /\ status' = "uploading"

(* A thumbnail goes first if there is one.                                  *)
PutPresigned(r) ==
    /\ put[r].step = "presigned"
    /\ IF put[r].meta # None
       THEN put' = [put EXCEPT ![r].step = "thumbnail"] /\ UNCHANGED <<xhr, status>>
       ELSE Send(r)
    /\ UNCHANGED <<pool, file, late, timers, chosen, meta, look, media>>

(* It was stored, or was not: either is good enough.                        *)
ThumbnailTried(r) ==
    /\ put[r].step = "thumbnail"
    /\ Send(r)
    /\ UNCHANGED <<pool, file, late, timers, chosen, meta, look, media>>

StoreFile(r) ==
    /\ put[r].step = "sending"
    /\ put' = [put EXCEPT ![r].step = "stored"]
    /\ media' = [media EXCEPT ![r].stored = TRUE]
    /\ UNCHANGED <<pool, file, status, late, timers, chosen, meta, look, xhr>>

(* Whichever transfer has ended, none is left for a close to cut off.       *)
FileStored(r) ==
    /\ put[r].step = "stored"
    /\ put' = [put EXCEPT ![r].step = "completing"]
    /\ xhr' = None /\ status' = "completing"
    /\ UNCHANGED <<pool, file, late, timers, chosen, meta, look, media>>

(* Mutant: the status of the answer to the PUT is not looked at.            *)
PutFailsUnseen(r) ==
    /\ put[r].step \in {"presigning", "presigned", "sending", "stored"}
    /\ IF put[r].step = "sending"
       THEN put' = [put EXCEPT ![r].step = "completing"] /\ status' = "completing"
       ELSE put' = [put EXCEPT ![r].step = "failed"] /\ status' = "error"
    /\ xhr' = IF put[r].step \in {"sending", "stored"} THEN None ELSE xhr
    /\ UNCHANGED <<pool, file, late, timers, chosen, meta, look, media>>
(* No URL, a refusal of the store, or a broken connection.                  *)
PutFails(r) ==
    /\ put[r].step \in {"presigning", "presigned", "sending", "stored"}
    /\ put' = [put EXCEPT ![r].step = "failed"] /\ status' = "error"
    /\ xhr' = IF put[r].step \in {"sending", "stored"} THEN None ELSE xhr
    /\ UNCHANGED <<pool, file, late, timers, chosen, meta, look, media>>

(* The server takes the client's word that the file is there.               *)
CompletePut(r) ==
    /\ put[r].step = "completing"
    /\ put' = [put EXCEPT ![r].step = "completed"]
    /\ media' = [media EXCEPT ![r].status = "ready"]
    /\ UNCHANGED <<pool, file, status, late, timers, chosen, meta, look, xhr>>

PutCompleted(r) ==
    /\ put[r].step = "completed"
    /\ IF setup.dialog = "version"
       THEN /\ put' = [put EXCEPT ![r].step = "stacking"]
            /\ UNCHANGED <<status, timers>>
       ELSE /\ put' = [put EXCEPT ![r].step = "over"]
            /\ status' = "success" /\ timers' = timers + 1
    /\ UNCHANGED <<pool, file, late, chosen, meta, look, xhr, media>>

CompletePutFails(r) ==
    /\ put[r].step \in {"completing", "completed"}
    /\ put' = [put EXCEPT ![r].step = "failed"] /\ status' = "error"
    /\ late' = IF put[r].step = "completing" THEN late \cup {r} ELSE late
    /\ UNCHANGED <<pool, file, timers, chosen, meta, look, xhr, media>>

CompletePutLate(r) ==
    /\ r \in late /\ late' = late \ {r}
    /\ media' = [media EXCEPT ![r].status = "ready"]
    /\ UNCHANGED <<pool, file, status, timers, chosen, meta, look, put, xhr>>

PutStacked(r) ==
    /\ put[r].step = "stacking"
    /\ \/ /\ put' = [put EXCEPT ![r].step = "over"]
          /\ status' = "success" /\ timers' = timers + 1
       \/ /\ put' = [put EXCEPT ![r].step = "failed"]
          /\ status' = "error" /\ UNCHANGED timers
    /\ UNCHANGED <<pool, file, late, chosen, meta, look, xhr, media>>

-----------------------------------------------------------------------------
(* Closing.                                                                 *)

(* The transfer the dialog refers to is cut off.  Any other upload goes on, *)
(* and so does the reading.                                                 *)
ResetPut ==
    /\ file' = FALSE /\ meta' = None /\ xhr' = None
    /\ IF xhr # None /\ put[xhr].step \in {"sending", "stored"}
       THEN put' = [put EXCEPT ![xhr].step = "failed"] /\ status' = "error"
       ELSE status' = "idle" /\ UNCHANGED put

ClosePut ==
    /\ file \/ xhr # None
    /\ setup.dialog = "version" => status \notin Working \ {"uploading"}
    /\ ResetPut
    /\ UNCHANGED <<pool, late, timers, chosen, look, media>>

ClosePutItself ==
    /\ timers > 0 /\ timers' = timers - 1
    /\ ResetPut
    /\ UNCHANGED <<pool, late, chosen, look, media>>

ReloadPut ==
    /\ "reload" \in setup.user /\ \E r \in Runs : put[r].step \in Sending
    /\ file' = FALSE /\ meta' = None /\ xhr' = None /\ status' = "idle" /\ timers' = 0
    /\ look' = [f \in Files |-> NoLook]
    /\ put' = [r \in Runs |-> IF put[r].step \in Sending THEN [put[r] EXCEPT !.step = "gone"]
                              ELSE put[r]]
    /\ late' = late \cup {r \in Runs : put[r].step = "completing"}
    /\ UNCHANGED <<pool, chosen, media>>

-----------------------------------------------------------------------------
(* A picture or a video that is being decoded may never answer, the clock   *)
(* and the drawing do, and so does a transfer or a request in some way.     *)
PutGoes ==
    \/ ClosePutItself
    \/ \E f \in Files : Drawn(f) \/ ReadingTimesOut(f)
    \/ \E r \in Runs : \/ PresignPut(r) \/ PutPresigned(r) \/ ThumbnailTried(r) \/ StoreFile(r)
                       \/ FileStored(r) \/ PutFails(r) \/ CompletePut(r) \/ PutCompleted(r)
                       \/ CompletePutFails(r) \/ PutStacked(r)

SmallNext ==
    \/ ChooseFile \/ ClosePut \/ ReloadPut
    \/ \E f \in Files : ImageLoaded(f) \/ VideoLoaded(f) \/ VideoSeeked(f) \/ Unreadable(f)
    \/ \E r \in Runs : StartPut(r) \/ CompletePutLate(r)
    \/ PutGoes

Large(A) == setup.size = "large" /\ A /\ UNCHANGED dialogVars
Small(A) == setup.size = "small" /\ A

DialogNext == Large(Next) \/ Small(SmallNext)

DialogFairness == WF_allVars(\/ Large(CloseItself \/ \E r \in Runs : Goes(r))
                             \/ Small(PutGoes))

DialogSpec == DialogInit /\ [][DialogNext]_allVars /\ DialogFairness
-----------------------------------------------------------------------------
DialogTypeOK ==
    /\ TypeOK
    /\ chosen \in 0..MaxFiles /\ meta \in 0..chosen /\ (file /\ setup.size = "small" => chosen # 0)
    /\ \A f \in Files : look[f].step \in {"none", "loading", "seeking", "drawing", "settled"}
    /\ \A r \in Runs : put[r].step \in Sending \cup {"unused", "failed", "over", "gone"}
    /\ xhr # None => put[xhr].step \in Sending

(* The server does not look whether the file of a small upload is there     *)
(* when it is told so: only the order of the calls makes it true.           *)
CompletedIsStored == \A r \in Runs : media[r].status = "ready" => media[r].stored

(* An upload carries the metadata of its file or, if the dialog was closed  *)
(* while an earlier file was being read, of that one; never of one that was *)
(* chosen after it was started.                                             *)
MetaIsNotLater == \A r \in Runs : media[r].meta <= media[r].of

(* The dialog shows that it is working only while some upload is under way. *)
WorkIsGoingOn ==
    status \in Working => \E r \in Runs : run[r].step \in Active \/ put[r].step \in Sending

(* However often parts fail, whatever is paused, closed or cut off, every   *)
(* upload and every reading ends: again and again there is none.            *)
DialogSettles == []<>(/\ \A r \in Runs : run[r].step \notin Active /\ put[r].step \notin Sending
                      /\ \A f \in Files : look[f].step \in {"none", "settled"})
=============================================================================
