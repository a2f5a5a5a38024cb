---------------------------- MODULE MediaPipeline ----------------------------
(***************************************************************************)
(* The life of a media asset between the API, the object store, the        *)
(* RabbitMQ queue "media.transcode" and the transcode workers.             *)
(*                                                                         *)
(* Three kinds of actors share a database row per media and the objects    *)
(* stored under the media's prefix:                                        *)
(*   - clients, who send the bytes straight to the object store;           *)
(*   - API requests (complete, complete multipart, abort, retry, delete),  *)
(*     each a short sequence of commits and calls to storage and broker;   *)
(*   - workers, who take a job, transcode, purge the original and save.    *)
(* Every repository call is its own transaction; nothing locks across      *)
(* calls, so the steps of different actors interleave freely.              *)
(***************************************************************************)
EXTENDS Naturals, FiniteSets

CONSTANTS
    Media,          \* media assets
    NoMedia,        \* "no media", held by idle requests and workers
    Requests,       \* concurrent API request handlers
    Workers,        \* transcode worker processes
    Kind,           \* Kind[m]: what the mime type of m says it is
    MaxRequests,    \* bound: API requests started in a behaviour
    MaxCrashes      \* bound: worker crashes and stops in a behaviour

Kinds == {"video", "image", "audio", "svg"}

ASSUME PipelineAssumption ==
    /\ NoMedia \notin Media
    /\ Kind \in [Media -> Kinds]
    /\ MaxRequests \in Nat
    /\ MaxCrashes \in Nat

VARIABLES
    status,       \* status[m] column, "absent" before the row exists
    deleted,      \* deleted[m]: the deleted_at column is set
    named,        \* named[m]: which object the client's file name makes of the upload
    key,          \* key[m]: which object the storage_key column names
    store,        \* store[m]: objects present under the media's prefix
    upload,       \* upload[m]: the client's transfer, as the store sees it
    jobs,         \* jobs[m][k]: messages waiting in the queue
    reprocessed,  \* media a job was published for that names the derived object
    lost,         \* media whose job was dropped without a result, and not asked for again
    req,          \* req[r]: the API request r is running
    worker,       \* worker[w]: the job worker w is running
    started, crashes  \* counters for the two bounds

row  == <<status, deleted, named, key>>
vars == <<status, deleted, named, key, store, upload, jobs, reprocessed, lost,
          req, worker, started, crashes>>

Statuses == {"absent", "uploading", "processing", "ready", "failed"}

(* "derived" is the fixed name the transcoder gives its main output:        *)
(* dirname(storage_key)/proxy.mp4 for a video, .../optimized.webp for an   *)
(* image; "orig" is any other name.  The key of an upload ends with the    *)
(* file name the client gave, so that it may be either.                    *)
Keys == {"orig", "derived"}

Transfers == {"none", "put", "stored", "open", "sent", "assembled", "aborted"}

IdleRequest == [pc |-> "idle", media |-> NoMedia, key |-> "orig"]

RequestStates ==
    [pc : {"idle", "assembling", "completing", "retrying", "publishing",
           "aborting", "deleting"},
     media : Media \cup {NoMedia}, key : Keys]

IdleWorker == [pc |-> "idle", media |-> NoMedia, src |-> "orig", new |-> "none"]

WorkerStates ==
    [pc : {"idle", "received", "marked", "downloaded", "derived", "saving",
           "failing", "acking"},
     media : Media \cup {NoMedia}, src : Keys, new : {"none", "derived"}]

(* The filter deleted_at IS NULL of every repository query.                 *)
LiveIgnoringDeletion(m) == status[m] # "absent"
Live(m) == status[m] # "absent" /\ ~deleted[m]

(* svg files are served as they are; everything else goes to a worker.      *)
NeedsProcessing(m) == Kind[m] # "svg"

(* The kinds whose transcode has an output that replaces the original.      *)
Replaceable(m) == Kind[m] # "audio"

-----------------------------------------------------------------------------
Init ==
    /\ status = [m \in Media |-> "absent"]
    /\ deleted = [m \in Media |-> FALSE]
    /\ named = [m \in Media |-> "orig"]
    /\ key = [m \in Media |-> "orig"]
    /\ store = [m \in Media |-> {}]
    /\ upload = [m \in Media |-> "none"]
    /\ jobs = [m \in Media |-> [k \in Keys |-> 0]]
    /\ reprocessed = {}
    /\ lost = {}
    /\ req = [r \in Requests |-> IdleRequest]
    /\ worker = [w \in Workers |-> IdleWorker]
    /\ started = 0
    /\ crashes = 0

-----------------------------------------------------------------------------
(* Creating the row and sending the bytes.                                  *)

Create(m, name, transfer) ==
    /\ status[m] = "absent"
    /\ status' = [status EXCEPT ![m] = "uploading"]
    /\ named' = [named EXCEPT ![m] = name]
    /\ key' = [key EXCEPT ![m] = name]
    /\ upload' = [upload EXCEPT ![m] = transfer]
    /\ UNCHANGED <<deleted, store, jobs, reprocessed, lost, req, worker,
                   started, crashes>>

(* Presign a single PUT and insert the row.                                 *)
PresignUpload(m, name) == Create(m, name, "put")

(* Open a multipart session in the store, then insert the row.              *)
InitiateMultipart(m, name) == Create(m, name, "open")

(* The client PUTs the whole file; the URL stays valid whatever has become  *)
(* of the row, so the PUT may come late or be repeated.                     *)
ClientPut(m) ==
    /\ upload[m] \in {"put", "stored"}
    /\ upload' = [upload EXCEPT ![m] = "stored"]
    /\ store' = [store EXCEPT ![m] = @ \cup {named[m]}]
    /\ UNCHANGED <<row, jobs, reprocessed, lost, req, worker, started, crashes>>

(* The client has sent the last part of an open multipart session.          *)
ClientSendsParts(m) ==
    /\ upload[m] = "open"
    /\ upload' = [upload EXCEPT ![m] = "sent"]
    /\ UNCHANGED <<row, store, jobs, reprocessed, lost, req, worker, started,
                   crashes>>

-----------------------------------------------------------------------------
(* API requests.  A request reads the row with get_by_id (404 unless live), *)
(* keeps what it read, and acts on it in later transactions.                *)

Start(r, m, pc) ==
    /\ req[r].pc = "idle"
    /\ Live(m)
    /\ started < MaxRequests
    /\ started' = started + 1
    /\ req' = [req EXCEPT ![r] = [pc |-> pc, media |-> m, key |-> key[m]]]
    /\ UNCHANGED <<row, store, upload, jobs, reprocessed, lost, worker, crashes>>

Goto(r, pc) == req' = [req EXCEPT ![r].pc = pc]
Finish(r)   == req' = [req EXCEPT ![r] = IdleRequest]

(* complete: a ready or processing row is returned as it is.                *)
StartComplete(r, m) ==
    /\ status[m] \notin {"ready", "processing"}
    /\ Start(r, m, "completing")

(* complete multipart: whatever the status, the store decides.              *)
StartCompleteMultipart(r, m) == Start(r, m, "assembling")

StartAbort(r, m) == Start(r, m, "aborting")

(* retry-transcode: no condition on the status.                             *)
StartRetry(r, m) == Start(r, m, "retrying")

(* The store joins the parts and closes the session, or refuses: the        *)
(* session is gone or parts are missing, and the request ends in error.     *)
Assemble(r) ==
    LET m == req[r].media IN
    /\ req[r].pc = "assembling"
    /\ \/ /\ upload[m] = "sent"
          /\ upload' = [upload EXCEPT ![m] = "assembled"]
          /\ store' = [store EXCEPT ![m] = @ \cup {named[m]}]
          /\ Goto(r, "completing")
       \/ /\ upload[m] # "sent"
          /\ Finish(r)
          /\ UNCHANGED <<upload, store>>
    /\ UNCHANGED <<row, jobs, reprocessed, lost, worker, started, crashes>>

(* The row is shown as processing, for a job that is published next.        *)
Accepted(m) ==
    /\ status' = [status EXCEPT ![m] = "processing"]
    /\ lost' = lost \ {m}

(* update_status of a complete request: it raises when the row has been     *)
(* deleted since it was read, and does not look at the status again.        *)
CompleteStatus(r) ==
    LET m == req[r].media IN
    /\ req[r].pc = "completing"
    /\ \/ /\ Live(m) /\ NeedsProcessing(m)
          /\ Accepted(m)
          /\ Goto(r, "publishing")
       \/ /\ Live(m) /\ ~NeedsProcessing(m)
          /\ status' = [status EXCEPT ![m] = "ready"]
          /\ Finish(r)
          /\ UNCHANGED lost
       \/ /\ ~Live(m)
          /\ Finish(r)
          /\ UNCHANGED <<status, lost>>
    /\ UNCHANGED <<deleted, named, key, store, upload, jobs, reprocessed,
                   worker, started, crashes>>

(* update_status of a retry request.                                        *)
RetryStatus(r) ==
    LET m == req[r].media IN
    /\ req[r].pc = "retrying"
    /\ \/ /\ Live(m)
          /\ Accepted(m)
          /\ Goto(r, "publishing")
       \/ /\ ~Live(m)
          /\ Finish(r)
          /\ UNCHANGED <<status, lost>>
    /\ UNCHANGED <<deleted, named, key, store, upload, jobs, reprocessed,
                   worker, started, crashes>>

(* The job carries the storage_key the request read at its start.           *)
Publish(r) ==
    LET m == req[r].media IN
    /\ req[r].pc = "publishing"
    /\ jobs' = [jobs EXCEPT ![m][req[r].key] = @ + 1]
    /\ reprocessed' = IF req[r].key = "derived" THEN reprocessed \cup {m}
                                                ELSE reprocessed
    /\ Finish(r)
    /\ UNCHANGED <<row, store, upload, lost, worker, started, crashes>>

(* The broker refuses and the publisher swallows the exception, or the API  *)
(* process dies between the commit and the publish: no job, no error.       *)
PublishLost(r) ==
    /\ req[r].pc = "publishing"
    /\ lost' = lost \cup {req[r].media}
    /\ Finish(r)
    /\ UNCHANGED <<row, store, upload, jobs, reprocessed, worker, started,
                   crashes>>

(* The API process dies at any earlier point of a request.                  *)
RequestDies(r) ==
    /\ req[r].pc \notin {"idle", "publishing"}
    /\ Finish(r)
    /\ UNCHANGED <<row, store, upload, jobs, reprocessed, lost, worker,
                   started, crashes>>

(* Abort the session in the store; an unknown session is not an error.      *)
AbortSession(r) ==
    LET m == req[r].media IN
    /\ req[r].pc = "aborting"
    /\ upload' = IF upload[m] \in {"open", "sent"}
                 THEN [upload EXCEPT ![m] = "aborted"] ELSE upload
    /\ Goto(r, "deleting")
    /\ UNCHANGED <<row, store, jobs, reprocessed, lost, worker, started, crashes>>

(* soft_delete raises when the row is already deleted: nothing changes.     *)
SoftDelete(m) == deleted' = [deleted EXCEPT ![m] = deleted[m] \/ Live(m)]

AbortDelete(r) ==
    /\ req[r].pc = "deleting"
    /\ SoftDelete(req[r].media)
    /\ Finish(r)
    /\ UNCHANGED <<status, named, key, store, upload, jobs, reprocessed, lost, worker,
                   started, crashes>>

DeleteMedia(m) ==
    /\ Live(m)
    /\ SoftDelete(m)
    /\ UNCHANGED <<status, named, key, store, upload, jobs, reprocessed, lost, req,
                   worker, started, crashes>>

-----------------------------------------------------------------------------
(* Workers.  A message stays unacknowledged while it is processed.          *)

WaitingJob(m, k) == jobs[m][k] > 0

(* One message of m is taken off the queue.                                 *)
Receive(w, m, k) ==
    /\ worker[w].pc = "idle"
    /\ WaitingJob(m, k)
    /\ jobs' = [jobs EXCEPT ![m][k] = @ - 1]
    /\ worker' = [worker EXCEPT ![w] =
                    [pc |-> "received", media |-> m, src |-> k, new |-> "none"]]
    /\ UNCHANGED <<row, store, upload, reprocessed, lost, req, started, crashes>>

WGoto(w, pc) == worker' = [worker EXCEPT ![w].pc = pc]
WDone(w)     == worker' = [worker EXCEPT ![w] = IdleWorker]
WRepoint(w)  == worker' = [worker EXCEPT ![w].pc = "saving", ![w].new = "derived"]

(* Mark the row as processing; a deleted row raises, and the exception is   *)
(* swallowed by process_message, which acknowledges.                        *)
MarkProcessing(w) ==
    LET m == worker[w].media IN
    /\ worker[w].pc = "received"
    /\ \/ /\ Live(m)
          /\ status' = [status EXCEPT ![m] = "processing"]
          /\ WGoto(w, "marked")
       \/ /\ ~Live(m)
          /\ WDone(w)
          /\ UNCHANGED status
    /\ UNCHANGED <<deleted, named, key, store, upload, jobs, reprocessed, lost,
                   req, started, crashes>>

(* Download the object the job names; a missing object fails the job.       *)
Download(w) ==
    LET m == worker[w].media IN
    /\ worker[w].pc = "marked"
    /\ WGoto(w, IF worker[w].src \in store[m] THEN "downloaded" ELSE "failing")
    /\ UNCHANGED <<row, store, upload, jobs, reprocessed, lost, req, started,
                   crashes>>

(* ffmpeg: the output is uploaded under the derived key, or it could not be *)
(* made and the original is kept, or the job fails; an upload error after   *)
(* the output was stored fails the job too.                                 *)
Transcode(w) ==
    LET m == worker[w].media IN
    /\ worker[w].pc = "downloaded"
    /\ \/ /\ Replaceable(m)
          /\ store' = [store EXCEPT ![m] = @ \cup {"derived"}]
          /\ \E pc \in {"derived", "failing"} : WGoto(w, pc)
       \/ /\ \E pc \in {"saving", "failing"} : WGoto(w, pc)
          /\ UNCHANGED store
    /\ UNCHANGED <<row, upload, jobs, reprocessed, lost, req, started, crashes>>

(* Only a job with an output goes on to the purge.                          *)
MayPurgeAlways(w) == worker[w].pc \in {"derived", "saving"}
MayPurge(w)       == worker[w].pc = "derived"

(* An image that already is its own derived object is not deleted.          *)
DeletesAnySource(m, src) == TRUE
DeletesSource(m, src)    == Kind[m] = "video" \/ src # "derived"

(* Delete the object the job was made from and repoint to the derived one.  *)
(* The store's own errors are suppressed, so the row is repointed even if   *)
(* nothing was deleted; any other error keeps the key.                      *)
Purge(w) ==
    LET m == worker[w].media
        src == worker[w].src IN
    /\ MayPurge(w)
    /\ \/ /\ WRepoint(w)
          /\ \/ /\ DeletesSource(m, src)
                /\ store' = [store EXCEPT ![m] = @ \ {src}]
             \/ UNCHANGED store
       \/ /\ WGoto(w, "saving")
          /\ UNCHANGED store
    /\ UNCHANGED <<row, upload, jobs, reprocessed, lost, req, started, crashes>>

(* The key column is written only where the job has a new key for it.       *)
AnyNewKey(w) == worker[w].new
NewKey(w)    == IF worker[w].new = "derived" THEN "derived" ELSE key[worker[w].media]

(* update_transcode_result(ready).  On a deleted row it raises, and so does *)
(* the attempt to record the failure: the message is acknowledged.  A       *)
(* database error leads to that attempt as well.                            *)
SaveReady(w) ==
    LET m == worker[w].media IN
    /\ worker[w].pc = "saving"
    /\ \/ /\ Live(m)
          /\ status' = [status EXCEPT ![m] = "ready"]
          /\ key' = [key EXCEPT ![m] = NewKey(w)]
          /\ WGoto(w, "acking")
       \/ /\ WGoto(w, "failing")
          /\ UNCHANGED <<status, key>>
    /\ UNCHANGED <<deleted, named, store, upload, jobs, reprocessed, lost,
                   req, started, crashes>>

FailsUnrecorded(m) == UNCHANGED status
Fails(m)           == status' = [status EXCEPT ![m] = "failed"]

(* update_transcode_result(failed): the key columns are left as they are.   *)
SaveFailed(w) ==
    LET m == worker[w].media IN
    /\ worker[w].pc = "failing"
    /\ \/ /\ Live(m)
          /\ Fails(m)
          /\ WGoto(w, "acking")
       \/ /\ ~Live(m)
          /\ WDone(w)
          /\ UNCHANGED status
    /\ UNCHANGED <<deleted, named, key, store, upload, jobs, reprocessed, lost,
                   req, started, crashes>>

(* A database error outside the try block, or while recording the failure:  *)
(* process_message swallows it and acknowledges the message.                *)
SwallowError(w) ==
    /\ worker[w].pc \in {"received", "failing"}
    /\ lost' = lost \cup {worker[w].media}
    /\ WDone(w)
    /\ UNCHANGED <<row, store, upload, jobs, reprocessed, req, started, crashes>>

Acknowledge(w) ==
    /\ worker[w].pc = "acking"
    /\ WDone(w)
    /\ UNCHANGED <<row, store, upload, jobs, reprocessed, lost, req, started,
                   crashes>>

AckedOnReceipt(w) == UNCHANGED jobs
Requeue(w) == jobs' = [jobs EXCEPT ![worker[w].media][worker[w].src] = @ + 1]

(* The worker dies, or its connection does: the broker requeues the         *)
(* unacknowledged message with the same body.                               *)
Crash(w) ==
    /\ worker[w].pc # "idle"
    /\ crashes < MaxCrashes
    /\ crashes' = crashes + 1
    /\ Requeue(w)
    /\ WDone(w)
    /\ UNCHANGED <<row, store, upload, reprocessed, lost, req, started>>

(* The worker is told to stop and cancels its consumer: no handler catches  *)
(* that, and the message is rejected and not requeued.  Unless the result   *)
(* is already saved the job is gone without one.                            *)
Stop(w) ==
    /\ worker[w].pc # "idle"
    /\ crashes < MaxCrashes
    /\ crashes' = crashes + 1
    /\ lost' = IF worker[w].pc = "acking" THEN lost ELSE lost \cup {worker[w].media}
    /\ WDone(w)
    /\ UNCHANGED <<row, store, upload, jobs, reprocessed, req, started>>

-----------------------------------------------------------------------------
ClientNext ==
    \E m \in Media :
        \/ \E name \in Keys : PresignUpload(m, name) \/ InitiateMultipart(m, name)
        \/ ClientPut(m) \/ ClientSendsParts(m)
        \/ DeleteMedia(m)

RequestArrives ==
    \E r \in Requests, m \in Media :
        \/ StartComplete(r, m) \/ StartCompleteMultipart(r, m)
        \/ StartAbort(r, m) \/ StartRetry(r, m)

RequestStep(r) ==
    \/ Assemble(r) \/ CompleteStatus(r) \/ RetryStatus(r)
    \/ Publish(r) \/ PublishLost(r)
    \/ AbortSession(r) \/ AbortDelete(r)

WorkerStep(w) ==
    \/ \E m \in Media, k \in Keys : Receive(w, m, k)
    \/ MarkProcessing(w) \/ Download(w) \/ Transcode(w) \/ Purge(w)
    \/ SaveReady(w) \/ SaveFailed(w) \/ SwallowError(w) \/ Acknowledge(w)

Next ==
    \/ ClientNext
    \/ RequestArrives
    \/ \E r \in Requests : RequestStep(r) \/ RequestDies(r)
    \/ \E w \in Workers : WorkerStep(w) \/ Crash(w) \/ Stop(w)

Spec == Init /\ [][Next]_vars

(* A request that was accepted runs to its end or dies, and a worker that   *)
(* is up keeps consuming: its loop reconnects after every error.            *)
Fairness ==
    /\ \A r \in Requests : WF_vars(RequestStep(r))
    /\ \A w \in Workers : WF_vars(WorkerStep(w))

FairSpec == Spec /\ Fairness

-----------------------------------------------------------------------------
TypeOK ==
    /\ status \in [Media -> Statuses]
    /\ deleted \in [Media -> BOOLEAN]
    /\ named \in [Media -> Keys]
    /\ key \in [Media -> Keys]
    /\ store \in [Media -> SUBSET Keys]
    /\ upload \in [Media -> Transfers]
    /\ jobs \in [Media -> [Keys -> Nat]]
    /\ reprocessed \subseteq Media
    /\ lost \subseteq Media
    /\ req \in [Requests -> RequestStates]
    /\ worker \in [Workers -> WorkerStates]
    /\ started \in 0..MaxRequests
    /\ crashes \in 0..MaxCrashes

HasJob(m) ==
    \/ \E k \in Keys : jobs[m][k] > 0
    \/ \E w \in Workers : worker[w].media = m /\ worker[w].pc \notin {"idle", "acking"}

Publishing(m) == \E r \in Requests : req[r].media = m /\ req[r].pc = "publishing"

(* A live row shown as "processing" is backed by a queued or running job,   *)
(* or by a request about to publish one.  The only exceptions are media     *)
(* whose job was dropped, and that were not retried since: by a swallowed   *)
(* error (rabbitmq_job_publisher.py and the except clause of                *)
(* process_message) or by the stop of a worker with the job in hand.        *)
(* Crashes, redeliveries, retries and concurrent completions never strand a *)
(* row, and a retry makes up for every loss before it.                      *)
StrandedOnlyAfterLoss ==
    \A m \in Media :
        Live(m) /\ status[m] = "processing" =>
            HasJob(m) \/ Publishing(m) \/ m \in lost

Stored(m) == upload[m] \in {"stored", "assembled"}
Repointed(m) == key[m] = "derived" /\ (named[m] = "orig" \/ Stored(m))

(* Once the client's bytes are in the store, the original or its transcode  *)
(* is there, at every step of every worker, crash and duplicate job: the    *)
(* purge of the original never comes before the derived object.  This is    *)
(* what process_media_transcode.py promises as long as no job was published *)
(* that names the derived object itself: neither a retry of a row that is   *)
(* repointed already, nor the first job of an upload whose file name is     *)
(* that of the transcoder's output (proxy.mp4).                             *)
ContentSurvives ==
    \A m \in Media : Stored(m) /\ m \notin reprocessed => store[m] # {}

(* A row repointed to the derived object keeps pointing at an object that   *)
(* exists, on the same condition: a viewer of the row can always play it.   *)
(* An upload of that name is there once the client has sent it.             *)
RepointedIsStored ==
    \A m \in Media :
        Repointed(m) /\ m \notin reprocessed => "derived" \in store[m]

(* Reprocessing is harmless for everything but videos: a retried image      *)
(* keeps its content even when the job reads the optimised object, or was   *)
(* uploaded under its name.                                                 *)
OthersSurviveReprocessing ==
    \A m \in Media :
        Kind[m] # "video" =>
            /\ Stored(m) => store[m] # {}
            /\ Repointed(m) => "derived" \in store[m]

(* The same without the condition, as the comment "Purge original raw video *)
(* and point to proxy" (process_media_transcode.py) has it.                 *)
PointsAtStoredObject ==
    \A m \in Media :
        status[m] = "ready" /\ key[m] = "derived" => "derived" \in store[m]

(* A soft-deleted row is final: late requests, jobs in flight, redelivered  *)
(* messages and late transcode results neither revive nor change it.        *)
DeletedIsFinal ==
    [][\A m \in Media : deleted[m] => UNCHANGED <<status[m], deleted[m], key[m]>>]_vars

(* Something about m is under way: a job that is queued or in the hands of  *)
(* a worker, acknowledged or not, or a request about to publish one.        *)
Owed(m) ==
    \/ \E k \in Keys : jobs[m][k] > 0
    \/ \E w \in Workers : worker[w].pc # "idle" /\ worker[w].media = m
    \/ Publishing(m)

Life == INSTANCE MediaLife WITH owed <- {m \in Media : Owed(m)}

(* With all its requests, jobs, redeliveries and crashes the pipeline shows *)
(* nothing but the life of a media asset: rows only change by a result that *)
(* is owed, and what is owed to a waiting row is settled or marked as lost. *)
LifeIsKept == Life!Spec

(* Every row in "processing" leaves that status or is deleted, unless its   *)
(* job is dropped by a swallowed error or the stop of the worker that has   *)
(* it in hand.                                                              *)
ProcessingSettles ==
    \A m \in Media :
        status[m] = "processing" ~>
            (status[m] # "processing" \/ deleted[m] \/ m \in lost)
=============================================================================
