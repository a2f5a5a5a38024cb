---------------------------- MODULE UploadSession ----------------------------
(***************************************************************************)
(* The upload dialogs of the web client and the multipart uploader under    *)
(* them: one large file of one tab, sent in parts by a pool of workers.     *)
(*                                                                         *)
(* Every start or resumption is a run with a pool and a list of parts of    *)
(* its own; all runs write the same entry of localStorage, from which a     *)
(* later run takes the session and the parts it need not send again.  Runs  *)
(* belong to uploaders: an upload started anew has a new uploader, a        *)
(* resumed one keeps it, and closing the dialog aborts only the uploader it *)
(* refers to.  The server and the object store are modelled as far as the   *)
(* uploader calls them.                                                     *)
(***************************************************************************)
EXTENDS Naturals, FiniteSets

CONSTANTS
    N,       \* parts of the file
    MaxRuns, \* bound on starts and resumptions, and on sessions
    Setups   \* the dialog ("version" stacks the asset then), the workers of a
             \* pool, the attempts at a part (retries), and bounds: the runs, and
             \* what else the user does

ASSUME UploadAssumption ==
    /\ N \in Nat \ {0} /\ MaxRuns \in Nat \ {0}
    /\ \A s \in Setups :
        /\ s.dialog \in {"media", "version"}
        /\ s.workers \in Nat \ {0} /\ s.retries \in Nat \ {0}

Parts == 1..N
Runs == 1..MaxRuns
Sessions == 1..MaxRuns
None == 0

VARIABLES
    setup,    \* one of the setups, from start to end
    file,     \* the dialog has a file
    status,   \* what the dialog shows
    current,  \* the uploader it refers to
    aborted,  \* aborted[u]: isAborted of uploader u
    run,      \* run[r]: a call of start
    worker,   \* worker[r][w]: a worker of its pool
    cache,    \* the entry of localStorage: a session and its parts
    asset,    \* asset[s]: the media row of session s
    store,    \* store[s]: the session in the object store
    ending,   \* ending[u]: the request of abort of uploader u
    late,     \* runs whose completion was given up and may yet be made
    timers    \* dialogs that close themselves after a success

vars == <<setup, file, status, current, aborted, run, worker, cache, asset, store,
          ending, late, timers>>

NoRun    == [step |-> "unused", of |-> None, session |-> None, parts |-> {}, todo |-> {}]
NoWorker == [step |-> "done", part |-> None, attempt |-> 0]
NoCache  == [session |-> None, parts |-> {}]
NoAbort  == [step |-> "none", session |-> None]
Dropped  == [step |-> "gone", parts |-> {}]

Workers == 1..setup.workers

Init ==
    /\ setup \in Setups
    /\ file = FALSE /\ status = "idle" /\ current = None
    /\ aborted = [u \in Runs |-> FALSE]
    /\ run = [r \in Runs |-> NoRun]
    /\ worker = [r \in Runs |-> [w \in Workers |-> NoWorker]]
    /\ cache = NoCache
    /\ asset = [s \in Sessions |-> "none"]
    /\ store = [s \in Sessions |-> [step |-> "none", parts |-> {}]]
    /\ ending = [u \in Runs |-> NoAbort]
    /\ late = {} /\ timers = 0

Working == {"presigning", "uploading", "completing"}
Active  == {"initiating", "initiated", "pool", "completing", "completed", "refused", "stacking"}

-----------------------------------------------------------------------------
(* The pool.                                                                *)

(* A worker takes the next part, and stops where there is none.             *)
Next1(todo) == CHOOSE p \in todo : \A q \in todo : p <= q
Took(todo) == IF todo = {} THEN NoWorker
              ELSE [step |-> "presigning", part |-> Next1(todo), attempt |-> 1]

(* The first parts are taken by the workers in order.                       *)
Taken(todo) == [w \in Workers |->
    LET rest == {p \in todo : Cardinality({q \in todo : q < p}) >= w - 1}
    IN  Took(rest)]
Left(todo) == {p \in todo : Cardinality({q \in todo : q < p}) >= setup.workers}

(* Mutant: the pool is done when no worker is at work any more.             *)
PooledWhenIdle(r, parts, ws, isAborted) ==
    IF \E w \in Workers : ws[w].step \notin {"done", "failed"} THEN "pool" ELSE "completing"

(* What becomes of the pool of run r once its workers are ws: the first     *)
(* failure rejects the run, and leaves the other workers at work.           *)
Pooled(r, parts, ws, isAborted) ==
    IF \E w \in Workers : ws[w].step = "failed" THEN "failed"
    ELSE IF \E w \in Workers : ws[w].step # "done" THEN "pool"
    ELSE IF isAborted \/ parts # Parts THEN "failed" ELSE "completing"

(* Mutant: the dialog does not catch the rejection.                         *)
ShownUnlessRejected(before, after) ==
    IF before = "pool" /\ after = "completing" THEN "completing" ELSE status

(* The run goes on as its pool says, and the dialog shows it.               *)
Shown(before, after) ==
    IF before = "pool" /\ after = "completing" THEN "completing"
    ELSE IF before = "pool" /\ after = "failed" THEN "error" ELSE status

Progress(r, parts, todo, ws) ==
    LET step == IF run[r].step = "pool" THEN Pooled(r, parts, ws, aborted[run[r].of]) ELSE run[r].step
    IN  /\ run' = [run EXCEPT ![r].step = step, ![r].parts = parts, ![r].todo = todo]
        /\ worker' = [worker EXCEPT ![r] = ws]
        /\ status' = Shown(run[r].step, step)

(* A part that was not sent: again after a pause, unless the upload was     *)
(* aborted or this was the last attempt.                                    *)
Failed(job, isAborted) ==
    [job EXCEPT !.step = IF isAborted \/ job.attempt >= setup.retries THEN "failed" ELSE "backoff"]

(* The run with its session and the parts it need not send.                 *)
Opened(r, u, s, parts) ==
    LET todo == Parts \ parts
    IN  [step |-> IF todo = {} THEN "completing" ELSE "pool", of |-> u, session |-> s,
         parts |-> parts, todo |-> Left(todo)]

-----------------------------------------------------------------------------
(* The dialog.                                                              *)

Choose ==
    /\ ~file /\ file' = TRUE
    /\ UNCHANGED <<setup, status, current, aborted, run, worker, cache, asset, store, ending,
                   late, timers>>

(* start(): a kept session is used again, otherwise a new one is asked for. *)
Begin(r, u) ==
    /\ r <= setup.runs /\ run[r].step = "unused" /\ \A q \in 1..(r - 1) : run[q].step # "unused"
    /\ IF cache.session # None
       THEN /\ run' = [run EXCEPT ![r] = Opened(r, u, cache.session, cache.parts)]
            /\ worker' = [worker EXCEPT ![r] = Taken(Parts \ cache.parts)]
            /\ status' = IF cache.parts = Parts THEN "completing" ELSE "uploading"
       ELSE /\ run' = [run EXCEPT ![r] = [NoRun EXCEPT !.step = "initiating", !.of = u]]
            /\ status' = "presigning" /\ UNCHANGED worker

(* The button starts an upload, repeats a failed one, or starts a second    *)
(* one beside one that is paused.                                           *)
Start(r) ==
    /\ file /\ status \in {"idle", "paused", "error"}
    /\ Begin(r, r)
    /\ current' = r
    /\ UNCHANGED <<setup, file, aborted, cache, asset, store, ending, late, timers>>

Resume(r) ==
    /\ status = "paused" /\ current # None
    /\ Begin(r, current)
    /\ aborted' = [aborted EXCEPT ![current] = FALSE]
    /\ UNCHANGED <<setup, file, current, cache, asset, store, ending, late, timers>>

(* The transfers of uploader u are cut off: each counts as a failed attempt. *)
Cut(u, isAborted) == [r \in Runs |-> [w \in Workers |->
    IF run[r].of = u /\ worker[r][w].step \in {"putting", "stored"}
    THEN Failed(worker[r][w], isAborted) ELSE worker[r][w]]]
Stops(u, isAborted) == {r \in Runs : /\ run[r].of = u /\ run[r].step = "pool"
                                     /\ Pooled(r, run[r].parts, Cut(u, isAborted)[r], isAborted)
                                            = "failed"}
CutOff(u, isAborted, shown) ==
    /\ worker' = Cut(u, isAborted)
    /\ run' = [r \in Runs |-> IF r \in Stops(u, isAborted) THEN [run[r] EXCEPT !.step = "failed"]
                              ELSE run[r]]
    /\ status' = IF Stops(u, isAborted) # {} THEN "error" ELSE shown

(* pause() cuts the transfers off and does not stop the workers.            *)
Pause ==
    /\ "pause" \in setup.user /\ status = "uploading" /\ current # None
    /\ CutOff(current, aborted[current], "paused")
    /\ UNCHANGED <<setup, file, current, aborted, cache, asset, store, ending, late, timers>>

(* resetState(): the uploader is aborted, with a request for what           *)
(* localStorage names and without one if it names nothing.                  *)
Reset ==
    /\ file' = FALSE /\ current' = None
    /\ IF current = None
       THEN status' = "idle" /\ UNCHANGED <<aborted, run, worker, ending>>
       ELSE /\ aborted' = [aborted EXCEPT ![current] = TRUE]
            /\ CutOff(current, TRUE, "idle")
            /\ ending' = IF cache.session = None THEN ending
                         ELSE [ending EXCEPT ![current] = [step |-> "sent", session |-> cache.session]]

(* The dialog of a version does not close while the uploader cannot be      *)
(* interrupted.                                                             *)
Close ==
    /\ file \/ current # None
    /\ setup.dialog = "version" => status \notin Working \ {"uploading"}
    /\ Reset
    /\ UNCHANGED <<setup, cache, asset, store, late, timers>>

(* One second after a success.                                              *)
CloseItself ==
    /\ timers > 0 /\ timers' = timers - 1
    /\ Reset
    /\ UNCHANGED <<setup, cache, asset, store, late>>

(* The page is reloaded, or the browser dies.                               *)
Reload ==
    /\ "reload" \in setup.user /\ \E r \in Runs : run[r].step \in Active
    /\ file' = FALSE /\ status' = "idle" /\ current' = None /\ timers' = 0
    /\ aborted' = [u \in Runs |-> FALSE]
    /\ run' = [r \in Runs |-> IF run[r].step = "unused" THEN NoRun ELSE [run[r] EXCEPT !.step = "gone"]]
    /\ worker' = [r \in Runs |-> [w \in Workers |-> NoWorker]]
    /\ ending' = [u \in Runs |-> IF ending[u].step = "sent" THEN [ending[u] EXCEPT !.step = "late"]
                                 ELSE NoAbort]
    /\ late' = late \cup {r \in Runs : run[r].step = "completing"}
    /\ UNCHANGED <<setup, cache, asset, store>>

(* The entry of localStorage is older than a day.                           *)
Expire ==
    /\ cache # NoCache /\ \A r \in Runs : run[r].step \notin Active
    /\ cache' = NoCache
    /\ UNCHANGED <<setup, file, status, current, aborted, run, worker, asset, store, ending,
                   late, timers>>

-----------------------------------------------------------------------------
(* Opening a session.                                                       *)

Initiate(r) ==
    /\ run[r].step = "initiating"
    /\ LET s == r
       IN  /\ asset' = [asset EXCEPT ![s] = "draft"]
           /\ store' = [store EXCEPT ![s].step = "open"]
           /\ run' = [run EXCEPT ![r].step = "initiated", ![r].session = s]
    /\ UNCHANGED <<setup, file, status, current, aborted, worker, cache, ending, late, timers>>

(* The session is kept before isAborted is looked at.                       *)
Initiated(r) ==
    /\ run[r].step = "initiated"
    /\ cache' = [session |-> run[r].session, parts |-> {}]
    /\ IF aborted[run[r].of]
       THEN /\ run' = [run EXCEPT ![r].step = "failed"]
            /\ status' = "error" /\ UNCHANGED worker
       ELSE /\ run' = [run EXCEPT ![r] = Opened(r, run[r].of, run[r].session, {})]
            /\ worker' = [worker EXCEPT ![r] = Taken(Parts)]
            /\ status' = "uploading"
    /\ UNCHANGED <<setup, file, current, aborted, asset, store, ending, late, timers>>

InitiateFails(r) ==
    /\ run[r].step \in {"initiating", "initiated"}
    /\ run' = [run EXCEPT ![r].step = "failed"] /\ status' = "error"
    /\ UNCHANGED <<setup, file, current, aborted, worker, cache, asset, store, ending, late, timers>>

-----------------------------------------------------------------------------
(* Sending a part.                                                          *)

(* The URL is signed for an asset that is there; isAborted is not looked at *)
(* again before the transfer.                                               *)
Presign(r, w) ==
    /\ worker[r][w].step = "presigning" /\ asset[run[r].session] \in {"draft", "ready"}
    /\ worker' = [worker EXCEPT ![r][w].step = "putting"]
    /\ UNCHANGED <<setup, file, status, current, aborted, run, cache, asset, store, ending,
                   late, timers>>

StorePart(r, w) ==
    /\ worker[r][w].step = "putting" /\ store[run[r].session].step = "open"
    /\ store' = [store EXCEPT ![run[r].session].parts = @ \cup {worker[r][w].part}]
    /\ worker' = [worker EXCEPT ![r][w].step = "stored"]
    /\ UNCHANGED <<setup, file, status, current, aborted, run, cache, asset, ending, late, timers>>

(* Mutant: the part is counted when it is sent.                             *)
PartSent(r, w) ==
    LET parts == run[r].parts \cup {worker[r][w].part}
        todo  == run[r].todo
        next  == IF aborted[run[r].of] THEN NoWorker ELSE Took(todo)
    IN  /\ worker[r][w].step \in {"putting", "stored"}
        /\ cache' = [session |-> run[r].session, parts |-> parts]
        /\ Progress(r, parts, todo \ {next.part}, [worker[r] EXCEPT ![w] = next])
        /\ UNCHANGED <<setup, file, current, aborted, asset, store, ending, late, timers>>
(* The part is counted and kept, and the worker takes the next one.         *)
PartDone(r, w) ==
    LET parts == run[r].parts \cup {worker[r][w].part}
        todo  == run[r].todo
        next  == IF aborted[run[r].of] THEN NoWorker ELSE Took(todo)
    IN  /\ worker[r][w].step = "stored"
        /\ cache' = [session |-> run[r].session, parts |-> parts]
        /\ Progress(r, parts, todo \ {next.part}, [worker[r] EXCEPT ![w] = next])
        /\ UNCHANGED <<setup, file, current, aborted, asset, store, ending, late, timers>>

(* No URL, no ETag, a refusal or a broken connection.                       *)
PartFails(r, w) ==
    /\ worker[r][w].step \in {"presigning", "putting", "stored"}
    /\ Progress(r, run[r].parts, run[r].todo,
                [worker[r] EXCEPT ![w] = Failed(@, aborted[run[r].of])])
    /\ UNCHANGED <<setup, file, current, aborted, cache, asset, store, ending, late, timers>>

(* Mutant: the attempts are not counted.                                    *)
RetryUncounted(r, w) ==
    /\ worker[r][w].step = "backoff"
    /\ Progress(r, run[r].parts, run[r].todo,
                [worker[r] EXCEPT ![w] = IF aborted[run[r].of] THEN [@ EXCEPT !.step = "failed"]
                                         ELSE [@ EXCEPT !.step = "presigning"]])
    /\ UNCHANGED <<setup, file, current, aborted, cache, asset, store, ending, late, timers>>
Retry(r, w) ==
    /\ worker[r][w].step = "backoff"
    /\ Progress(r, run[r].parts, run[r].todo,
                [worker[r] EXCEPT ![w] = IF aborted[run[r].of] THEN [@ EXCEPT !.step = "failed"]
                                         ELSE [@ EXCEPT !.step = "presigning",
                                                        !.attempt = worker[r][w].attempt + 1]])
    /\ UNCHANGED <<setup, file, current, aborted, cache, asset, store, ending, late, timers>>

-----------------------------------------------------------------------------
(* Completing the upload.                                                   *)

Join(s, parts) ==
    /\ asset[s] \in {"draft", "ready"} /\ store[s].step = "open" /\ parts \subseteq store[s].parts
    /\ store' = [store EXCEPT ![s].step = "joined"]
    /\ asset' = [asset EXCEPT ![s] = "ready"]
Joinable(s, parts) ==
    asset[s] \in {"draft", "ready"} /\ store[s].step = "open" /\ parts \subseteq store[s].parts

Complete(r) ==
    /\ run[r].step = "completing"
    /\ IF Joinable(run[r].session, run[r].parts)
       THEN /\ Join(run[r].session, run[r].parts)
            /\ run' = [run EXCEPT ![r].step = "completed"]
       ELSE /\ run' = [run EXCEPT ![r].step = "refused"]
            /\ UNCHANGED <<asset, store>>
    /\ UNCHANGED <<setup, file, status, current, aborted, worker, cache, ending, late, timers>>

(* The entry of localStorage is forgotten; a version is stacked then.       *)
Completed(r) ==
    /\ run[r].step = "completed"
    /\ cache' = NoCache
    /\ IF setup.dialog = "version"
       THEN /\ run' = [run EXCEPT ![r].step = "stacking"]
            /\ status' = "completing" /\ UNCHANGED timers
       ELSE /\ run' = [run EXCEPT ![r].step = "over"]
            /\ status' = "success" /\ timers' = timers + 1
    /\ UNCHANGED <<setup, file, current, aborted, worker, asset, store, ending, late>>

(* A refusal, or no answer in time: the request may still be on its way.    *)
CompleteFails(r) ==
    /\ run[r].step \in {"completing", "completed", "refused"}
    /\ run' = [run EXCEPT ![r].step = "failed"] /\ status' = "error"
    /\ late' = IF run[r].step = "completing" THEN late \cup {r} ELSE late
    /\ UNCHANGED <<setup, file, current, aborted, worker, cache, asset, store, ending, timers>>

CompleteLate(r) ==
    /\ r \in late /\ late' = late \ {r}
    /\ IF Joinable(run[r].session, run[r].parts) THEN Join(run[r].session, run[r].parts)
       ELSE UNCHANGED <<asset, store>>
    /\ UNCHANGED <<setup, file, status, current, aborted, run, worker, cache, ending, timers>>

Stacked(r) ==
    /\ run[r].step = "stacking"
    /\ \/ /\ run' = [run EXCEPT ![r].step = "over"]
          /\ status' = "success" /\ timers' = timers + 1
       \/ /\ run' = [run EXCEPT ![r].step = "failed"]
          /\ status' = "error" /\ UNCHANGED timers
    /\ UNCHANGED <<setup, file, current, aborted, worker, cache, asset, store, ending, late>>

-----------------------------------------------------------------------------
(* Aborting.                                                                *)

(* The session is dropped with its parts, and the asset deleted, whatever   *)
(* its status.                                                              *)
AbortArrives(u) ==
    LET s == ending[u].session
    IN  /\ ending[u].step \in {"sent", "late"}
        /\ IF asset[s] \in {"draft", "ready"}
           THEN /\ store' = [store EXCEPT ![s] = IF @.step = "open" THEN Dropped ELSE @]
                /\ asset' = [asset EXCEPT ![s] = "deleted"]
           ELSE UNCHANGED <<store, asset>>
        /\ ending' = [ending EXCEPT ![u] = IF @.step = "sent" THEN [@ EXCEPT !.step = "answered"]
                                           ELSE NoAbort]
        /\ UNCHANGED <<setup, file, status, current, aborted, run, worker, cache, late, timers>>

(* The answer, or none: the entry of localStorage is forgotten.             *)
AbortAnswered(u) ==
    /\ ending[u].step \in {"sent", "answered"}
    /\ ending' = [ending EXCEPT ![u] = IF @.step = "sent" THEN [@ EXCEPT !.step = "late"] ELSE NoAbort]
    /\ cache' = NoCache
    /\ status' = "error"
    /\ UNCHANGED <<setup, file, current, aborted, run, worker, asset, store, late, timers>>

-----------------------------------------------------------------------------
(* What the user does not decide: timers fire, a request or a transfer ends *)
(* in one way or another (the client has a timeout and the network an       *)
(* error), and a worker goes on.                                            *)
Goes(r) ==
    \/ Initiate(r) \/ Initiated(r) \/ InitiateFails(r)
    \/ \E w \in Workers : \/ Presign(r, w) \/ StorePart(r, w) \/ PartDone(r, w)
                          \/ PartFails(r, w) \/ Retry(r, w)
    \/ Complete(r) \/ Completed(r) \/ CompleteFails(r) \/ Stacked(r)
    \/ AbortAnswered(r)

Next ==
    \/ Choose \/ Pause \/ Close \/ CloseItself \/ Reload \/ Expire
    \/ \E r \in Runs : \/ Start(r) \/ Resume(r)
                      \/ CompleteLate(r) \/ AbortArrives(r)
                      \/ Goes(r)

Spec == Init /\ [][Next]_vars
-----------------------------------------------------------------------------
TypeOK ==
    /\ setup \in Setups /\ file \in BOOLEAN
    /\ status \in Working \cup {"idle", "paused", "success", "error"}
    /\ current \in Runs \cup {None}
    /\ aborted \in [Runs -> BOOLEAN]
    /\ \A r \in Runs : run[r].step \in Active \cup {"unused", "failed", "over", "gone"}
    /\ cache \in [session : Sessions \cup {None}, parts : SUBSET Parts]
    /\ asset \in [Sessions -> {"none", "draft", "ready", "deleted"}]
    /\ late \subseteq Runs /\ timers \in 0..MaxRuns

(* Every part a run counts, and every part localStorage names, is in the    *)
(* object store, whatever was retried, paused, resumed or reloaded, unless  *)
(* an abort has dropped the whole session: runs and localStorage may name   *)
(* one after that.                                                          *)
CountedIsStored ==
    LET Stored(s, parts) == store[s].step = "gone" \/ parts \subseteq store[s].parts
    IN  /\ \A r \in Runs : run[r].session # None => Stored(run[r].session, run[r].parts)
        /\ cache.session # None => Stored(cache.session, cache.parts)

(* An upload is only completed with all of the file.                        *)
WholeAssets == \A s \in Sessions : store[s].step = "joined" => store[s].parts = Parts

(* "Soft delete the draft media asset": an abort deletes drafts only.       *)
OnlyDraftsDeleted == [][\A s \in Sessions :
    asset[s] = "ready" => asset'[s] # "deleted"]_vars
=============================================================================
