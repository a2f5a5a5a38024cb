------------------------- MODULE MediaPipelineProofs -------------------------
(***************************************************************************)
(* Proofs about MediaPipeline, for any media, requests, workers, kinds and *)
(* bounds.                                                                 *)
(***************************************************************************)
EXTENDS MediaPipeline, TLAPS

(* A busy request or worker is busy with a media asset.                     *)
RequestsOK ==
    /\ req \in [Requests -> RequestStates]
    /\ \A r \in Requests : req[r].pc # "idle" => req[r].media \in Media

WorkersOK ==
    /\ worker \in [Workers -> WorkerStates]
    /\ \A w \in Workers : worker[w].pc # "idle" => worker[w].media \in Media

TypeInv == TypeOK /\ RequestsOK /\ WorkersOK

(* What keeps the content of a media safe until it is reprocessed: every    *)
(* job about it, queued or running, names the original, and the derived     *)
(* object is there before anything depends on it.                           *)
SafeMedia(m) ==
    /\ jobs[m]["derived"] = 0
    /\ \A w \in Workers : worker[w].media = m =>
         /\ worker[w].src = "orig"
         /\ (worker[w].pc = "derived" \/ worker[w].new = "derived")
              => "derived" \in store[m]
    /\ Repointed(m) => "derived" \in store[m]
    /\ Stored(m) => store[m] # {}

ContentInv == \A m \in Media : m \notin reprocessed => SafeMedia(m)

-----------------------------------------------------------------------------
USE DEF Statuses, Keys, Transfers, Kinds

LEMMA TypeInvInit == Init => TypeInv
  BY PipelineAssumption
  DEF Init, TypeInv, TypeOK, RequestsOK, WorkersOK, RequestStates, WorkerStates,
      IdleRequest, IdleWorker

LEMMA FinishOK ==
  ASSUME RequestsOK, NEW r \in Requests, Finish(r)
  PROVE  RequestsOK'
  BY DEF RequestsOK, Finish, RequestStates, IdleRequest

LEMMA GotoOK ==
  ASSUME RequestsOK, NEW r \in Requests, req[r].pc # "idle",
         NEW pc \in {"completing", "publishing", "deleting"}, Goto(r, pc)
  PROVE  RequestsOK'
  BY DEF RequestsOK, Goto, RequestStates

LEMMA WDoneOK ==
  ASSUME WorkersOK, NEW w \in Workers, WDone(w)
  PROVE  WorkersOK'
  BY DEF WorkersOK, WDone, WorkerStates, IdleWorker

LEMMA WGotoOK ==
  ASSUME WorkersOK, NEW w \in Workers, worker[w].pc # "idle",
         NEW pc \in {"marked", "downloaded", "derived", "saving", "failing",
                     "acking"},
         WGoto(w, pc)
  PROVE  WorkersOK'
  BY DEF WorkersOK, WGoto, WorkerStates

LEMMA WRepointOK ==
  ASSUME WorkersOK, NEW w \in Workers, worker[w].pc # "idle", WRepoint(w)
  PROVE  WorkersOK'
  <1>1. worker'[w] = [worker[w] EXCEPT !.pc = "saving", !.new = "derived"]
    BY DEF WRepoint, WorkersOK
  <1>2. worker[w] \in WorkerStates /\ worker[w].media \in Media
    BY DEF WorkersOK
  <1>3. worker'[w] \in WorkerStates /\ worker'[w].media \in Media
    BY <1>1, <1>2 DEF WorkerStates
  <1> QED
    BY <1>3 DEF WRepoint, WorkersOK

(* Every step preserves the types, and busy actors keep a media asset.      *)
LEMMA TypeInvStep == TypeInv /\ [Next]_vars => TypeInv'
  <1> SUFFICES ASSUME TypeInv, [Next]_vars PROVE TypeInv'
    OBVIOUS
  <1> USE PipelineAssumption DEF TypeInv, TypeOK, row
  <1>r. (RequestsOK' => (req \in [Requests -> RequestStates])')
        /\ (WorkersOK' => (worker \in [Workers -> WorkerStates])')
        /\ (UNCHANGED req => RequestsOK') /\ (UNCHANGED worker => WorkersOK')
    BY DEF RequestsOK, WorkersOK
  <1>m. /\ \A r \in Requests : req[r].pc # "idle" => req[r].media \in Media
        /\ \A w \in Workers : worker[w].pc # "idle" => worker[w].media \in Media
    BY DEF RequestsOK, WorkersOK
  <1>1. ASSUME NEW m \in Media, NEW k \in Keys, NEW t \in {"put", "open"}, Create(m, k, t)
        PROVE  TypeInv'
    BY <1>1, <1>r DEF Create
  <1>2. ASSUME NEW m \in Media, ClientPut(m) PROVE TypeInv'
    BY <1>2, <1>r DEF ClientPut
  <1>3. ASSUME NEW m \in Media, ClientSendsParts(m) PROVE TypeInv'
    BY <1>3, <1>r DEF ClientSendsParts
  <1>4. ASSUME NEW m \in Media, DeleteMedia(m) PROVE TypeInv'
    BY <1>4, <1>r DEF DeleteMedia, SoftDelete, Live
  <1>5. ASSUME NEW r \in Requests, NEW m \in Media,
               NEW pc \in {"assembling", "completing", "retrying", "aborting"},
               Start(r, m, pc)
        PROVE  TypeInv'
    BY <1>5, <1>r DEF Start, RequestsOK, RequestStates
  <1>6. ASSUME NEW r \in Requests, Assemble(r) PROVE TypeInv'
    <2>1. RequestsOK'
      BY <1>6, FinishOK, GotoOK DEF Assemble
    <2>2. store' \in [Media -> SUBSET Keys] /\ upload' \in [Media -> Transfers]
      BY <1>6, SMTT(30) DEF Assemble
    <2> QED
      BY <1>6, <1>r, <2>1, <2>2 DEF Assemble
  <1>7. ASSUME NEW r \in Requests, CompleteStatus(r) PROVE TypeInv'
    <2>1. RequestsOK'
      BY <1>7, FinishOK, GotoOK DEF CompleteStatus
    <2> QED
      BY <1>7, <1>r, <2>1 DEF CompleteStatus, Accepted
  <1>8. ASSUME NEW r \in Requests, RetryStatus(r) PROVE TypeInv'
    <2>1. RequestsOK'
      BY <1>8, FinishOK, GotoOK DEF RetryStatus
    <2> QED
      BY <1>8, <1>r, <2>1 DEF RetryStatus, Accepted
  <1>9. ASSUME NEW r \in Requests, Publish(r) PROVE TypeInv'
    <2>1. RequestsOK'
      BY <1>9, FinishOK DEF Publish
    <2>2. req[r].media \in Media /\ req[r].key \in Keys
      BY <1>9, <1>m DEF Publish, RequestStates
    <2> QED
      BY <1>9, <1>r, <2>1, <2>2 DEF Publish
  <1>10. ASSUME NEW r \in Requests, PublishLost(r) PROVE TypeInv'
    BY <1>10, <1>r, <1>m, FinishOK DEF PublishLost
  <1>11. ASSUME NEW r \in Requests, AbortSession(r) PROVE TypeInv'
    <2>1. RequestsOK'
      BY <1>11, GotoOK DEF AbortSession
    <2> QED
      BY <1>11, <1>r, <2>1 DEF AbortSession
  <1>12. ASSUME NEW r \in Requests, AbortDelete(r) PROVE TypeInv'
    BY <1>12, <1>r, FinishOK DEF AbortDelete, SoftDelete, Live
  <1>13. ASSUME NEW r \in Requests, RequestDies(r) PROVE TypeInv'
    BY <1>13, <1>r, FinishOK DEF RequestDies
  <1>14. ASSUME NEW w \in Workers, NEW m \in Media, NEW k \in Keys,
                Receive(w, m, k)
         PROVE  TypeInv'
    BY <1>14, <1>r DEF Receive, WaitingJob, WorkersOK, WorkerStates
  <1>15. ASSUME NEW w \in Workers, MarkProcessing(w) PROVE TypeInv'
    <2>1. WorkersOK'
      BY <1>15, WDoneOK, WGotoOK DEF MarkProcessing
    <2> QED
      BY <1>15, <1>r, <2>1 DEF MarkProcessing
  <1>16. ASSUME NEW w \in Workers, Download(w) PROVE TypeInv'
    <2>1. WorkersOK'
      BY <1>16, WGotoOK DEF Download
    <2> QED
      BY <1>16, <1>r, <2>1 DEF Download
  <1>17. ASSUME NEW w \in Workers, Transcode(w) PROVE TypeInv'
    <2>1. WorkersOK'
      BY <1>17, WGotoOK DEF Transcode
    <2> QED
      BY <1>17, <1>r, <2>1 DEF Transcode
  <1>18. ASSUME NEW w \in Workers, Purge(w) PROVE TypeInv'
    <2>1. WorkersOK'
      <3>1. CASE WRepoint(w)
        BY <1>18, <3>1, WRepointOK DEF Purge, MayPurge
      <3>2. CASE WGoto(w, "saving")
        BY <1>18, <3>2, WGotoOK DEF Purge, MayPurge
      <3> QED
        BY <1>18, <3>1, <3>2 DEF Purge, MayPurge
    <2>2. store' \in [Media -> SUBSET Keys]
      BY <1>18 DEF Purge, MayPurge
    <2> QED
      BY <1>18, <1>r, <2>1, <2>2 DEF Purge, MayPurge
  <1>19. ASSUME NEW w \in Workers, SaveReady(w) PROVE TypeInv'
    <2>1. WorkersOK'
      BY <1>19, WGotoOK DEF SaveReady
    <2> QED
      BY <1>19, <1>r, <1>m, <2>1 DEF SaveReady, NewKey
  <1>20. ASSUME NEW w \in Workers, SaveFailed(w) PROVE TypeInv'
    <2>1. WorkersOK'
      BY <1>20, WDoneOK, WGotoOK DEF SaveFailed
    <2> QED
      BY <1>20, <1>r, <2>1 DEF SaveFailed, Fails
  <1>21. ASSUME NEW w \in Workers, SwallowError(w) PROVE TypeInv'
    BY <1>21, <1>r, <1>m, WDoneOK DEF SwallowError
  <1>22. ASSUME NEW w \in Workers, Acknowledge(w) PROVE TypeInv'
    BY <1>22, <1>r, WDoneOK DEF Acknowledge
  <1>23. ASSUME NEW w \in Workers, Crash(w) PROVE TypeInv'
    <2>1. WorkersOK'
      BY <1>23, WDoneOK DEF Crash, Requeue
    <2>2. worker[w].media \in Media /\ worker[w].src \in Keys
      BY <1>23, <1>m DEF Crash, Requeue, WorkerStates
    <2> QED
      BY <1>23, <1>r, <2>1, <2>2 DEF Crash, Requeue
  <1>24. ASSUME NEW w \in Workers, Stop(w) PROVE TypeInv'
    <2>1. WorkersOK'
      BY <1>24, WDoneOK DEF Stop
    <2> QED
      BY <1>24, <1>r, <1>m, <2>1 DEF Stop
  <1>25. CASE UNCHANGED vars
    BY <1>25, <1>r DEF vars
  <1> QED
    BY <1>1, <1>2, <1>3, <1>4, <1>5, <1>6, <1>7, <1>8, <1>9, <1>10, <1>11,
       <1>12, <1>13, <1>14, <1>15, <1>16, <1>17, <1>18, <1>19, <1>20, <1>21,
       <1>22, <1>23, <1>24, <1>25
    DEF Next, ClientNext, RequestArrives, RequestStep, WorkerStep,
        PresignUpload, InitiateMultipart, StartComplete,
        StartCompleteMultipart, StartAbort, StartRetry

(* The variables keep their types, and a busy request or worker always      *)
(* names a media asset (never the idle placeholder).                        *)
THEOREM PipelineTypes == Spec => [](TypeOK /\ TypeInv)
  <1>1. TypeInv => TypeOK
    BY DEF TypeInv
  <1> QED
    BY <1>1, TypeInvInit, TypeInvStep, PTL DEF Spec

-----------------------------------------------------------------------------
(* Why a row may be shown as processing.                                    *)
Accounted(m) == HasJob(m) \/ Publishing(m) \/ m \in lost

LEMMA StrandedInit == Init => StrandedOnlyAfterLoss
  BY DEF Init, StrandedOnlyAfterLoss, Live

(* A step that leaves jobs and workers alone and does not end a publishing  *)
(* request takes no reason away.                                            *)
LEMMA AccountedKept ==
  ASSUME NEW m \in Media, Accounted(m), UNCHANGED <<jobs, worker>>, m \in lost => m \in lost',
         \A r \in Requests : req[r].pc = "publishing" => req'[r] = req[r]
  PROVE  Accounted(m)'
  BY DEF Accounted, HasJob, Publishing

LEMMA StrandedStep ==
  TypeInv /\ StrandedOnlyAfterLoss /\ [Next]_vars => StrandedOnlyAfterLoss'
  <1> SUFFICES ASSUME TypeInv, StrandedOnlyAfterLoss, [Next]_vars,
                      NEW m \in Media, Live(m)', status'[m] = "processing"
               PROVE  Accounted(m)'
    BY DEF StrandedOnlyAfterLoss, Accounted
  <1>t. /\ status \in [Media -> Statuses] /\ deleted \in [Media -> BOOLEAN]
        /\ jobs \in [Media -> [Keys -> Nat]]
        /\ req \in [Requests -> RequestStates]
        /\ worker \in [Workers -> WorkerStates]
        /\ \A r \in Requests : req[r].pc # "idle" => req[r].media \in Media
        /\ \A w \in Workers : worker[w].pc # "idle" => worker[w].media \in Media
    BY DEF TypeInv, TypeOK, RequestsOK, WorkersOK
  <1>a. Live(m) /\ status[m] = "processing" => Accounted(m)
    BY DEF StrandedOnlyAfterLoss, Accounted
  <1>1. ASSUME NEW n \in Media, NEW k \in Keys, NEW t \in {"put", "open"}, Create(n, k, t)
        PROVE  Accounted(m)'
    BY <1>1, <1>t, <1>a, AccountedKept DEF Create, Live
  <1>2. ASSUME NEW n \in Media, ClientPut(n) PROVE Accounted(m)'
    BY <1>2, <1>a, AccountedKept DEF ClientPut, Live, row
  <1>3. ASSUME NEW n \in Media, ClientSendsParts(n) PROVE Accounted(m)'
    BY <1>3, <1>a, AccountedKept DEF ClientSendsParts, Live, row
  <1>4. ASSUME NEW n \in Media, DeleteMedia(n) PROVE Accounted(m)'
    BY <1>4, <1>t, <1>a, AccountedKept DEF DeleteMedia, SoftDelete, Live
  <1>5. ASSUME NEW r \in Requests, NEW n \in Media,
               NEW pc \in {"assembling", "completing", "retrying", "aborting"},
               Start(r, n, pc)
        PROVE  Accounted(m)'
    BY <1>5, <1>t, <1>a, AccountedKept DEF Start, Live, row
  <1>6. ASSUME NEW r \in Requests, Assemble(r) PROVE Accounted(m)'
    BY <1>6, <1>t, <1>a, AccountedKept DEF Assemble, Goto, Finish, Live, row
  <1>7. ASSUME NEW r \in Requests, NEW n \in Media, n = req[r].media,
               req[r].pc \in {"completing", "retrying"},
               Accepted(n), Goto(r, "publishing"), UNCHANGED <<deleted, jobs, worker>>
        PROVE  Accounted(m)'
    <2>1. CASE m = n
      BY <1>7, <1>t, <2>1 DEF Goto, Accounted, Publishing
    <2>2. CASE m # n
      BY <1>7, <1>t, <1>a, <2>2, AccountedKept DEF Goto, Live, Accepted
    <2> QED
      BY <2>1, <2>2
  <1>8. ASSUME NEW r \in Requests, CompleteStatus(r) PROVE Accounted(m)'
    <2> DEFINE n == req[r].media
    <2>1. n \in Media
      BY <1>8, <1>t DEF CompleteStatus
    <2>2. CASE Accepted(n) /\ Goto(r, "publishing")
      BY <1>7, <1>8, <2>1, <2>2 DEF CompleteStatus
    <2>3. CASE status' = [status EXCEPT ![n] = "ready"] /\ Finish(r) /\ UNCHANGED lost
      BY <1>8, <1>t, <1>a, <2>1, <2>3, AccountedKept DEF CompleteStatus, Finish, Live
    <2>4. CASE UNCHANGED <<status, lost>> /\ Finish(r)
      BY <1>8, <1>t, <1>a, <2>4, AccountedKept DEF CompleteStatus, Finish, Live
    <2> QED
      BY <1>8, <2>2, <2>3, <2>4 DEF CompleteStatus
  <1>9. ASSUME NEW r \in Requests, RetryStatus(r) PROVE Accounted(m)'
    <2> DEFINE n == req[r].media
    <2>1. n \in Media
      BY <1>9, <1>t DEF RetryStatus
    <2>2. CASE Accepted(n) /\ Goto(r, "publishing")
      BY <1>7, <1>9, <2>1, <2>2 DEF RetryStatus
    <2>3. CASE UNCHANGED <<status, lost>> /\ Finish(r)
      BY <1>9, <1>t, <1>a, <2>3, AccountedKept DEF RetryStatus, Finish, Live
    <2> QED
      BY <1>9, <2>2, <2>3 DEF RetryStatus
  <1>10. ASSUME NEW r \in Requests, Publish(r) PROVE Accounted(m)'
    <2>1. req[r].media \in Media /\ req[r].key \in Keys
      BY <1>10, <1>t DEF Publish, RequestStates
    <2>2. CASE m = req[r].media
      BY <1>10, <1>t, <2>1, <2>2 DEF Publish, Accounted, HasJob
    <2>3. CASE m # req[r].media
      BY <1>10, <1>t, <1>a, <2>1, <2>3
      DEF Publish, Finish, Accounted, HasJob, Publishing, Live, row
    <2> QED
      BY <2>2, <2>3
  <1>11. ASSUME NEW r \in Requests, PublishLost(r) PROVE Accounted(m)'
    BY <1>11, <1>t, <1>a
    DEF PublishLost, Finish, Accounted, HasJob, Publishing, Live, row
  <1>12. ASSUME NEW r \in Requests, AbortSession(r) PROVE Accounted(m)'
    BY <1>12, <1>t, <1>a, AccountedKept DEF AbortSession, Goto, Live, row
  <1>13. ASSUME NEW r \in Requests, AbortDelete(r) PROVE Accounted(m)'
    BY <1>13, <1>t, <1>a, AccountedKept DEF AbortDelete, SoftDelete, Finish, Live
  <1>14. ASSUME NEW r \in Requests, RequestDies(r) PROVE Accounted(m)'
    BY <1>14, <1>t, <1>a, AccountedKept DEF RequestDies, Finish, Live, row
  <1>15. ASSUME NEW w \in Workers, NEW n \in Media, NEW k \in Keys,
                Receive(w, n, k)
         PROVE  Accounted(m)'
    <2>1. CASE m = n
      BY <1>15, <1>t, <2>1 DEF Receive, WaitingJob, Accounted, HasJob
    <2>2. CASE m # n
      BY <1>15, <1>t, <1>a, <2>2
      DEF Receive, WaitingJob, Accounted, HasJob, Publishing, Live, row
    <2> QED
      BY <2>1, <2>2
  <1>16. ASSUME NEW w \in Workers, NEW pc \in {"marked", "downloaded", "derived",
                                               "saving", "failing"},
                worker[w].pc # "idle", worker[w].media = m,
                WGoto(w, pc) \/ WRepoint(w)
         PROVE  Accounted(m)'
    <2>1. worker'[w].media = m /\ worker'[w].pc \in {pc, "saving"}
      <3>1. CASE WGoto(w, pc)
        BY <1>16, <1>t, <3>1 DEF WGoto, WorkerStates
      <3>2. CASE WRepoint(w)
        BY <1>16, <1>t, <3>2 DEF WRepoint, WorkerStates
      <3> QED
        BY <1>16, <3>1, <3>2
    <2> QED
      BY <1>16, <2>1 DEF Accounted, HasJob
  <1>17. ASSUME NEW w \in Workers, worker[w].pc # "idle", worker[w].media # m,
                \A v \in Workers : v # w => worker'[v] = worker[v],
                UNCHANGED <<jobs, req>>, lost \subseteq lost', Accounted(m)
         PROVE  Accounted(m)'
    BY <1>17, <1>t DEF Accounted, HasJob, Publishing
  <1>18. ASSUME NEW w \in Workers, MarkProcessing(w) PROVE Accounted(m)'
    <2>1. CASE worker[w].media = m
      BY <1>16, <1>18, <1>t, <2>1 DEF MarkProcessing, Live
    <2>2. CASE worker[w].media # m
      BY <1>17, <1>18, <1>t, <1>a, <2>2 DEF MarkProcessing, Live, WGoto, WDone
    <2> QED
      BY <2>1, <2>2
  <1>19. ASSUME NEW w \in Workers, Download(w) \/ Transcode(w) \/ Purge(w)
         PROVE  Accounted(m)'
    <2>1. CASE worker[w].media = m
      BY <1>16, <1>19, <1>t, <2>1 DEF Download, Transcode, Purge, MayPurge
    <2>2. CASE worker[w].media # m
      BY <1>17, <1>19, <1>t, <1>a, <2>2
      DEF Download, Transcode, Purge, MayPurge, Live, WGoto, WRepoint, row
    <2> QED
      BY <2>1, <2>2
  <1>20. ASSUME NEW w \in Workers, SaveReady(w) PROVE Accounted(m)'
    <2>1. CASE worker[w].media = m
      BY <1>16, <1>20, <1>t, <2>1 DEF SaveReady
    <2>2. CASE worker[w].media # m
      BY <1>17, <1>20, <1>t, <1>a, <2>2 DEF SaveReady, Live, WGoto
    <2> QED
      BY <2>1, <2>2
  <1>21. ASSUME NEW w \in Workers, SaveFailed(w) PROVE Accounted(m)'
    <2>1. CASE worker[w].media = m
      BY <1>21, <1>t, <2>1 DEF SaveFailed, Live, Fails
    <2>2. CASE worker[w].media # m
      BY <1>17, <1>21, <1>t, <1>a, <2>2 DEF SaveFailed, Live, WGoto, WDone, Fails
    <2> QED
      BY <2>1, <2>2
  <1>22. ASSUME NEW w \in Workers, SwallowError(w) PROVE Accounted(m)'
    <2>1. CASE worker[w].media = m
      BY <1>22, <2>1 DEF SwallowError, Accounted
    <2>2. CASE worker[w].media # m
      BY <1>17, <1>22, <1>t, <1>a, <2>2 DEF SwallowError, Live, WDone, row
    <2> QED
      BY <2>1, <2>2
  <1>23. ASSUME NEW w \in Workers, Acknowledge(w) PROVE Accounted(m)'
    BY <1>23, <1>t, <1>a
    DEF Acknowledge, WDone, IdleWorker, Accounted, HasJob, Publishing, Live, row
  <1>24. ASSUME NEW w \in Workers, Crash(w) PROVE Accounted(m)'
    <2>1. worker[w].media \in Media /\ worker[w].src \in Keys
      BY <1>24, <1>t DEF Crash, Requeue, WorkerStates
    <2>2. CASE worker[w].media = m
      BY <1>24, <1>t, <2>1, <2>2 DEF Crash, Requeue, Accounted, HasJob
    <2>3. CASE worker[w].media # m
      BY <1>24, <1>t, <1>a, <2>1, <2>3
      DEF Crash, Requeue, WDone, IdleWorker, Accounted, HasJob, Publishing, Live, row
    <2> QED
      BY <2>2, <2>3
  <1>25. ASSUME NEW w \in Workers, Stop(w) PROVE Accounted(m)'
    <2>1. CASE worker[w].media = m /\ worker[w].pc # "acking"
      BY <1>25, <2>1 DEF Stop, Accounted
    <2>2. CASE worker[w].media # m
      BY <1>17, <1>25, <1>t, <1>a, <2>2 DEF Stop, Live, WDone, row
    <2>3. CASE worker[w].pc = "acking"
      BY <1>25, <1>t, <1>a, <2>3
      DEF Stop, WDone, IdleWorker, Accounted, HasJob, Publishing, Live, row
    <2> QED
      BY <2>1, <2>2, <2>3
  <1>26. CASE UNCHANGED vars
    BY <1>26, <1>a, AccountedKept DEF vars, Live
  <1> QED
    BY <1>1, <1>2, <1>3, <1>4, <1>5, <1>6, <1>8, <1>9, <1>10, <1>11, <1>12,
       <1>13, <1>14, <1>15, <1>18, <1>19, <1>20, <1>21, <1>22, <1>23, <1>24,
       <1>25, <1>26
    DEF Next, ClientNext, RequestArrives, RequestStep, WorkerStep,
        PresignUpload, InitiateMultipart, StartComplete,
        StartCompleteMultipart, StartAbort, StartRetry

(* A row shown as processing is stranded only when a swallowed error or the *)
(* stop of a worker dropped its job and nobody retried since; crashes,      *)
(* redeliveries, retries and duplicate completions never strand one.        *)
THEOREM NoStrandedRows == Spec => []StrandedOnlyAfterLoss
  <1>1. Init => TypeInv /\ StrandedOnlyAfterLoss
    BY TypeInvInit, StrandedInit
  <1>2. TypeInv /\ StrandedOnlyAfterLoss /\ [Next]_vars
          => (TypeInv /\ StrandedOnlyAfterLoss)'
    BY TypeInvStep, StrandedStep
  <1> QED
    BY <1>1, <1>2, PTL DEF Spec

-----------------------------------------------------------------------------
LEMMA ContentInit == Init => ContentInv
  BY DEF Init, ContentInv, SafeMedia, IdleWorker, Stored, Repointed

(* A step that touches neither the row, the jobs, the workers nor what is   *)
(* stored for m leaves m safe.                                              *)
LEMMA SafeKept ==
  ASSUME NEW m \in Media, SafeMedia(m), UNCHANGED worker,
         jobs'[m] = jobs[m], store[m] \subseteq store'[m],
         Stored(m)' => Stored(m), Repointed(m)' => Repointed(m)
  PROVE  SafeMedia(m)'
  BY DEF SafeMedia

(* The same for a worker's step: what the worker carries afterwards has to  *)
(* be safe, the other workers keep what they have.                          *)
LEMMA SafeWorkerStep ==
  ASSUME NEW m \in Media, SafeMedia(m), NEW w \in Workers,
         jobs'[m]["derived"] = 0, UNCHANGED upload,
         \A v \in Workers : v # w => worker'[v] = worker[v],
         worker'[w].media = m =>
           /\ worker'[w].src = "orig"
           /\ (worker'[w].pc = "derived" \/ worker'[w].new = "derived")
                => "derived" \in store'[m],
         Repointed(m)' => "derived" \in store'[m],
         "derived" \in store[m] => "derived" \in store'[m],
         store[m] # {} => store'[m] # {}
  PROVE  SafeMedia(m)'
  BY DEF SafeMedia, Stored

LEMMA ContentStep == TypeInv /\ ContentInv /\ [Next]_vars => ContentInv'
  <1> SUFFICES ASSUME TypeInv, ContentInv, [Next]_vars,
                      NEW m \in Media, m \notin reprocessed'
               PROVE  SafeMedia(m)'
    BY DEF ContentInv
  <1>t. /\ named \in [Media -> Keys]
        /\ key \in [Media -> Keys] /\ store \in [Media -> SUBSET Keys]
        /\ upload \in [Media -> Transfers]
        /\ jobs \in [Media -> [Keys -> Nat]]
        /\ req \in [Requests -> RequestStates]
        /\ worker \in [Workers -> WorkerStates]
        /\ \A r \in Requests : req[r].pc # "idle" => req[r].media \in Media
        /\ \A w \in Workers : worker[w].pc # "idle" => worker[w].media \in Media
    BY DEF TypeInv, TypeOK, RequestsOK, WorkersOK
  <1>a. m \notin reprocessed => SafeMedia(m)
    BY DEF ContentInv
  <1>b. UNCHANGED reprocessed => SafeMedia(m)
    BY <1>a
  <1>1. ASSUME NEW n \in Media, NEW k \in Keys, NEW t \in {"put", "open"}, Create(n, k, t)
        PROVE  SafeMedia(m)'
    BY <1>1, <1>t, <1>b, SafeKept DEF Create, Stored, Repointed
  <1>2. ASSUME NEW n \in Media, ClientPut(n) PROVE SafeMedia(m)'
    <2>1. CASE m = n
      <3>1. store'[m] = store[m] \cup {named[m]}
        BY <1>2, <1>t, <2>1 DEF ClientPut
      <3> QED
        BY <1>2, <1>b, <1>t, <2>1, <3>1 DEF ClientPut, SafeMedia, Repointed, row
    <2>2. CASE m # n
      BY <1>2, <1>t, <1>b, <2>2, SafeKept DEF ClientPut, Stored, Repointed, row
    <2> QED
      BY <2>1, <2>2
  <1>3. ASSUME NEW n \in Media, ClientSendsParts(n) PROVE SafeMedia(m)'
    BY <1>3, <1>t, <1>b, SafeKept DEF ClientSendsParts, Stored, Repointed, row
  <1>4. ASSUME UNCHANGED <<named, key, store, upload, jobs, reprocessed, worker>>
        PROVE  SafeMedia(m)'
    BY <1>4, <1>b, SafeKept DEF Stored, Repointed
  <1>5. ASSUME NEW r \in Requests, Assemble(r) PROVE SafeMedia(m)'
    <2> DEFINE n == req[r].media
    <2>1. n \in Media
      BY <1>5, <1>t DEF Assemble
    <2>2. CASE upload[n] = "sent" /\ m = n
      <3>1. store'[m] = store[m] \cup {named[m]}
        BY <1>5, <1>t, <2>2 DEF Assemble
      <3> QED
        BY <1>5, <1>b, <1>t, <2>2, <3>1 DEF Assemble, SafeMedia, Repointed, row
    <2>3. CASE upload[n] = "sent" /\ m # n
      BY <1>5, <1>t, <1>b, <2>3, SafeKept DEF Assemble, Stored, Repointed, row
    <2>4. CASE upload[n] # "sent"
      BY <1>5, <1>4, <2>4 DEF Assemble, row
    <2> QED
      BY <2>2, <2>3, <2>4
  <1>6. ASSUME NEW r \in Requests, Publish(r) PROVE SafeMedia(m)'
    <2> DEFINE n == req[r].media
    <2>1. n \in Media /\ req[r].key \in Keys
      BY <1>6, <1>t DEF Publish, RequestStates
    <2>2. SafeMedia(m) /\ (m = n => req[r].key = "orig")
      BY <1>6, <1>a, <2>1 DEF Publish
    <2>3. jobs'[m]["derived"] = 0
      BY <1>6, <1>t, <2>1, <2>2 DEF Publish, SafeMedia
    <2> QED
      BY <1>6, <2>2, <2>3 DEF Publish, SafeMedia, Stored, Repointed, row
  <1>7. ASSUME NEW r \in Requests, AbortSession(r) PROVE SafeMedia(m)'
    BY <1>7, <1>t, <1>b, SafeKept DEF AbortSession, Stored, Repointed, row
  <1>8. ASSUME NEW w \in Workers, NEW n \in Media, NEW k \in Keys,
               Receive(w, n, k)
        PROVE  SafeMedia(m)'
    <2>1. SafeMedia(m) /\ UNCHANGED <<named, key, store, upload>>
      BY <1>8, <1>b DEF Receive, WaitingJob, row
    <2>2. jobs'[m]["derived"] = 0 /\ (m = n => k = "orig")
      BY <1>8, <1>t, <2>1 DEF Receive, WaitingJob, SafeMedia
    <2>3. worker'[w] = [pc |-> "received", media |-> n, src |-> k, new |-> "none"]
          /\ \A v \in Workers : v # w => worker'[v] = worker[v]
      BY <1>8, <1>t DEF Receive, WaitingJob
    <2> QED
      BY <2>1, <2>2, <2>3, SafeWorkerStep DEF SafeMedia, Repointed, Stored
  <1>9. ASSUME NEW w \in Workers, WDone(w), worker[w].pc # "idle",
               UNCHANGED <<named, key, store, upload, reprocessed>>,
               jobs'[m]["derived"] = 0
        PROVE  SafeMedia(m)'
    <2>1. worker'[w] = IdleWorker
          /\ \A v \in Workers : v # w => worker'[v] = worker[v]
      BY <1>9, <1>t DEF WDone
    <2> QED
      BY <1>9, <1>b, <2>1, SafeWorkerStep DEF SafeMedia, IdleWorker, Repointed, Stored
  <1>10. ASSUME NEW w \in Workers, NEW pc, WGoto(w, pc), pc # "derived",
                UNCHANGED <<jobs, upload, reprocessed>>,
                Repointed(m)' => "derived" \in store'[m],
                store[m] \subseteq store'[m]
         PROVE  SafeMedia(m)'
    <2>1. /\ worker'[w].pc = pc /\ worker'[w].media = worker[w].media
          /\ worker'[w].src = worker[w].src /\ worker'[w].new = worker[w].new
          /\ \A v \in Workers : v # w => worker'[v] = worker[v]
      BY <1>10, <1>t DEF WGoto, WorkerStates
    <2> QED
      BY <1>10, <1>b, <2>1, SafeWorkerStep DEF SafeMedia
  <1>11. ASSUME NEW w \in Workers, MarkProcessing(w) PROVE SafeMedia(m)'
    <2>1. UNCHANGED <<named, key, store, upload, jobs, reprocessed>>
      BY <1>11 DEF MarkProcessing
    <2>2. CASE WGoto(w, "marked")
      BY <1>10, <1>b, <2>1, <2>2 DEF SafeMedia, Repointed, Stored
    <2>3. CASE WDone(w)
      BY <1>9, <1>11, <1>b, <2>1, <2>3 DEF SafeMedia, MarkProcessing
    <2> QED
      BY <1>11, <2>2, <2>3 DEF MarkProcessing
  <1>12. ASSUME NEW w \in Workers, Download(w) PROVE SafeMedia(m)'
    BY <1>10, <1>12, <1>b DEF Download, SafeMedia, Repointed, Stored, row
  <1>13. ASSUME NEW w \in Workers, Transcode(w) PROVE SafeMedia(m)'
    <2> DEFINE n == worker[w].media
    <2>1. SafeMedia(m) /\ UNCHANGED <<named, key, upload, jobs, reprocessed>>
      BY <1>13, <1>b DEF Transcode, row
    <2>2. store[m] \subseteq store'[m]
      BY <1>13, <1>t DEF Transcode
    <2>3. CASE WGoto(w, "derived") /\ store' = [store EXCEPT ![n] = @ \cup {"derived"}]
      <3>1. /\ worker'[w].media = n
            /\ worker'[w].src = worker[w].src
            /\ \A v \in Workers : v # w => worker'[v] = worker[v]
        BY <1>t, <2>3 DEF WGoto, WorkerStates
      <3>2. n = m => "derived" \in store'[m]
        BY <1>t, <2>3
      <3> QED
        BY <2>1, <2>2, <3>1, <3>2, SafeWorkerStep DEF SafeMedia, Repointed, Stored
    <2>4. CASE \E pc \in {"saving", "failing"} : WGoto(w, pc)
      BY <1>10, <2>1, <2>2, <2>4 DEF SafeMedia, Repointed, Stored
    <2> QED
      BY <1>13, <2>3, <2>4 DEF Transcode
  <1>14. ASSUME NEW w \in Workers, Purge(w) PROVE SafeMedia(m)'
    <2> DEFINE n == worker[w].media
    <2>1. SafeMedia(m) /\ UNCHANGED <<named, key, upload, jobs, reprocessed>>
      BY <1>14, <1>b DEF Purge, MayPurge, row
    <2>2. CASE WGoto(w, "saving") /\ UNCHANGED store
      BY <1>10, <2>1, <2>2 DEF SafeMedia, Repointed, Stored
    <2>3. CASE WRepoint(w)
      <3>1. /\ worker'[w].media = n
            /\ worker'[w].src = worker[w].src
            /\ \A v \in Workers : v # w => worker'[v] = worker[v]
        BY <1>t, <2>3 DEF WRepoint, WorkerStates
      <3>2. n # m => store'[m] = store[m]
        BY <1>14, <1>t DEF Purge, MayPurge
      <3>3. n = m => "derived" \in store[m] /\ worker[w].src = "orig"
        BY <1>14, <2>1 DEF Purge, MayPurge, SafeMedia
      <3>4. "derived" \in store[m] => "derived" \in store'[m]
        BY <1>14, <1>t, <3>2, <3>3 DEF Purge, MayPurge
      <3> QED
        BY <2>1, <3>1, <3>2, <3>3, <3>4, SafeWorkerStep DEF SafeMedia, Repointed, Stored
    <2> QED
      BY <1>14, <2>2, <2>3 DEF Purge, MayPurge
  <1>15. ASSUME NEW w \in Workers, SaveReady(w) PROVE SafeMedia(m)'
    <2>1. SafeMedia(m) /\ UNCHANGED <<named, store, upload, jobs, reprocessed>>
      BY <1>15, <1>b DEF SaveReady
    <2>2. Repointed(m)' => "derived" \in store'[m]
      <3>1. CASE key'[m] = key[m]
        BY <2>1, <3>1 DEF SafeMedia, Repointed, Stored
      <3>2. CASE key'[m] # key[m]
        BY <1>15, <1>t, <2>1, <3>2 DEF SaveReady, SafeMedia, NewKey
      <3> QED
        BY <3>1, <3>2
    <2> QED
      BY <1>10, <1>15, <2>1, <2>2 DEF SaveReady
  <1>16. ASSUME NEW w \in Workers, SaveFailed(w) PROVE SafeMedia(m)'
    <2>1. UNCHANGED <<named, key, store, upload, jobs, reprocessed>>
      BY <1>16 DEF SaveFailed
    <2>2. CASE WGoto(w, "acking")
      BY <1>10, <1>b, <2>1, <2>2 DEF SafeMedia, Repointed, Stored
    <2>3. CASE WDone(w)
      BY <1>9, <1>16, <1>b, <2>1, <2>3 DEF SafeMedia, SaveFailed
    <2> QED
      BY <1>16, <2>2, <2>3 DEF SaveFailed
  <1>17. ASSUME NEW w \in Workers, SwallowError(w) \/ Acknowledge(w) \/ Stop(w)
         PROVE  SafeMedia(m)'
    BY <1>9, <1>17, <1>b DEF SwallowError, Acknowledge, Stop, SafeMedia, row
  <1>18. ASSUME NEW w \in Workers, Crash(w) PROVE SafeMedia(m)'
    <2>1. SafeMedia(m)
      BY <1>18, <1>b DEF Crash, Requeue
    <2>2. jobs'[m]["derived"] = 0
      <3>1. CASE worker[w].media = m
        BY <1>18, <1>t, <2>1, <3>1 DEF Crash, Requeue, SafeMedia
      <3>2. CASE worker[w].media # m
        BY <1>18, <1>t, <2>1, <3>2 DEF Crash, Requeue, SafeMedia
      <3> QED
        BY <3>1, <3>2
    <2> QED
      BY <1>9, <1>18, <2>2 DEF Crash, Requeue, row
  <1>19. CASE UNCHANGED vars
    BY <1>4, <1>19 DEF vars
  <1> QED
    BY <1>1, <1>2, <1>3, <1>4, <1>5, <1>6, <1>7, <1>8, <1>11, <1>12, <1>13,
       <1>14, <1>15, <1>16, <1>17, <1>18, <1>19
    DEF Next, ClientNext, RequestArrives, RequestStep, WorkerStep,
        PresignUpload, InitiateMultipart, StartComplete,
        StartCompleteMultipart, StartAbort, StartRetry, Start, DeleteMedia,
        CompleteStatus, RetryStatus, PublishLost, AbortDelete, RequestDies, row

LEMMA ContentAlways == Spec => []ContentInv
  <1>1. Init => TypeInv /\ ContentInv
    BY TypeInvInit, ContentInit
  <1>2. TypeInv /\ ContentInv /\ [Next]_vars => (TypeInv /\ ContentInv)'
    BY TypeInvStep, ContentStep
  <1> QED
    BY <1>1, <1>2, PTL DEF Spec

(* For media no job was published for that names the derived object, as a   *)
(* retry after repointing does and the first job of an upload that was      *)
(* given that very name, the client's content                               *)
(* survives every interleaving of workers, crashes and duplicate jobs: the  *)
(* original is not purged before its transcode is stored.                   *)
THEOREM ContentIsSafe == Spec => []ContentSurvives
  <1>1. ContentInv => ContentSurvives
    BY DEF ContentInv, SafeMedia, ContentSurvives
  <1> QED
    BY <1>1, ContentAlways, PTL

(* On the same condition a row repointed to the derived object points at an *)
(* object that exists, whichever of several workers repointed it.           *)
THEOREM RepointedRowsPlay == Spec => []RepointedIsStored
  <1>1. ContentInv => RepointedIsStored
    BY DEF ContentInv, SafeMedia, RepointedIsStored
  <1> QED
    BY <1>1, ContentAlways, PTL

-----------------------------------------------------------------------------
(* The same for a media that is no video, without the condition: no purge   *)
(* of its ever deletes the derived object, whatever the job was made from.  *)
PlayableMedia(m) ==
    /\ \A w \in Workers : worker[w].media = m =>
         ((worker[w].pc = "derived" \/ worker[w].new = "derived") => "derived" \in store[m])
    /\ Repointed(m) => "derived" \in store[m]
    /\ Stored(m) => store[m] # {}

OthersInv == \A m \in Media : Kind[m] # "video" => PlayableMedia(m)

LEMMA OthersInit == Init => OthersInv
  BY DEF Init, OthersInv, PlayableMedia, IdleWorker, Stored, Repointed

LEMMA PlayableKept ==
  ASSUME NEW m \in Media, PlayableMedia(m), UNCHANGED worker,
         store[m] \subseteq store'[m], Stored(m)' => store'[m] # {},
         Repointed(m)' => Repointed(m) \/ "derived" \in store'[m]
  PROVE  PlayableMedia(m)'
  BY DEF PlayableMedia

LEMMA PlayableWorkerStep ==
  ASSUME NEW m \in Media, PlayableMedia(m), NEW w \in Workers, UNCHANGED upload,
         \A v \in Workers : v # w => worker'[v] = worker[v],
         worker'[w].media = m =>
           ((worker'[w].pc = "derived" \/ worker'[w].new = "derived") => "derived" \in store'[m]),
         Repointed(m)' => "derived" \in store'[m],
         "derived" \in store[m] => "derived" \in store'[m],
         store[m] # {} => store'[m] # {}
  PROVE  PlayableMedia(m)'
  BY DEF PlayableMedia, Stored

LEMMA OthersStep == TypeInv /\ OthersInv /\ [Next]_vars => OthersInv'
  <1> SUFFICES ASSUME TypeInv, OthersInv, [Next]_vars, NEW m \in Media, Kind[m] # "video"
               PROVE  PlayableMedia(m)'
    BY DEF OthersInv
  <1>t. /\ named \in [Media -> Keys]
        /\ key \in [Media -> Keys] /\ store \in [Media -> SUBSET Keys]
        /\ upload \in [Media -> Transfers]
        /\ req \in [Requests -> RequestStates]
        /\ worker \in [Workers -> WorkerStates]
        /\ \A r \in Requests : req[r].pc # "idle" => req[r].media \in Media
        /\ \A w \in Workers : worker[w].pc # "idle" => worker[w].media \in Media
    BY DEF TypeInv, TypeOK, RequestsOK, WorkersOK
  <1>a. PlayableMedia(m)
    BY DEF OthersInv
  <1>1. ASSUME NEW n \in Media, NEW k \in Keys, NEW t \in {"put", "open"}, Create(n, k, t)
        PROVE  PlayableMedia(m)'
    <2>1. Stored(m)' => store'[m] # {}
      BY <1>1, <1>t, <1>a DEF Create, Stored, PlayableMedia
    <2> QED
      BY <1>1, <1>t, <1>a, <2>1, PlayableKept DEF Create, Repointed, Stored
  <1>2. ASSUME NEW n \in Media, upload[n] # "none", store' = [store EXCEPT ![n] = @ \cup {named[n]}],
               \E u \in {"stored", "assembled"} : upload' = [upload EXCEPT ![n] = u],
               UNCHANGED <<named, key, worker>>
        PROVE  PlayableMedia(m)'
    <2>1. /\ store[m] \subseteq store'[m] /\ (Stored(m)' => store'[m] # {})
          /\ Repointed(m)' => Repointed(m) \/ "derived" \in store'[m]
      <3>1. CASE m = n
        BY <1>2, <1>t, <3>1 DEF Repointed
      <3>2. CASE m # n
        BY <1>2, <1>t, <1>a, <3>2 DEF Stored, PlayableMedia, Repointed
      <3> QED
        BY <3>1, <3>2
    <2> QED
      BY <1>2, <1>a, <2>1, PlayableKept
  <1>3. ASSUME UNCHANGED <<named, key, store, upload, worker>> PROVE PlayableMedia(m)'
    BY <1>3, <1>a, PlayableKept DEF Stored, PlayableMedia, Repointed
  <1>4. ASSUME NEW n \in Media, NEW u \in {"sent", "aborted"}, upload' = [upload EXCEPT ![n] = u],
               UNCHANGED <<named, key, store, worker>>
        PROVE  PlayableMedia(m)'
    <2>1. (Stored(m)' => Stored(m)) /\ (Repointed(m)' => Repointed(m))
      BY <1>4, <1>t DEF Stored, Repointed
    <2> QED
      BY <1>4, <1>a, <2>1, PlayableKept DEF PlayableMedia
  <1>5. ASSUME NEW r \in Requests, Assemble(r) PROVE PlayableMedia(m)'
    <2>1. CASE upload[req[r].media] = "sent"
      BY <1>2, <1>5, <1>t, <2>1 DEF Assemble, row
    <2>2. CASE upload[req[r].media] # "sent"
      BY <1>3, <1>5, <2>2 DEF Assemble, row
    <2> QED
      BY <2>1, <2>2
  <1>6. ASSUME NEW r \in Requests, AbortSession(r) PROVE PlayableMedia(m)'
    BY <1>3, <1>4, <1>6, <1>t DEF AbortSession, row
  <1>7. ASSUME NEW w \in Workers, NEW n \in Media, NEW k \in Keys, Receive(w, n, k)
        PROVE  PlayableMedia(m)'
    <2>1. worker'[w] = [pc |-> "received", media |-> n, src |-> k, new |-> "none"]
          /\ \A v \in Workers : v # w => worker'[v] = worker[v]
      BY <1>7, <1>t DEF Receive
    <2> QED
      BY <1>7, <1>a, <2>1, PlayableWorkerStep DEF Receive, PlayableMedia, Repointed, Stored, row
  <1>8. ASSUME NEW w \in Workers, WDone(w), UNCHANGED <<named, key, store, upload>>
        PROVE  PlayableMedia(m)'
    <2>1. worker'[w] = IdleWorker
          /\ \A v \in Workers : v # w => worker'[v] = worker[v]
      BY <1>8, <1>t DEF WDone
    <2> QED
      BY <1>8, <1>a, <2>1, PlayableWorkerStep DEF PlayableMedia, IdleWorker, Repointed, Stored
  <1>9. ASSUME NEW w \in Workers, NEW pc, WGoto(w, pc), UNCHANGED upload,
               Repointed(m)' => "derived" \in store'[m],
               store[m] \subseteq store'[m],
               worker[w].media = m /\ pc = "derived" => "derived" \in store'[m]
        PROVE  PlayableMedia(m)'
    <2>1. /\ worker'[w].pc = pc /\ worker'[w].media = worker[w].media
          /\ worker'[w].new = worker[w].new
          /\ \A v \in Workers : v # w => worker'[v] = worker[v]
      BY <1>9, <1>t DEF WGoto, WorkerStates
    <2>2. /\ worker'[w].media = m =>
               ((worker'[w].pc = "derived" \/ worker'[w].new = "derived") => "derived" \in store'[m])
          /\ "derived" \in store[m] => "derived" \in store'[m]
          /\ store[m] # {} => store'[m] # {}
      BY <1>9, <1>a, <2>1 DEF PlayableMedia
    <2> QED
      BY <1>9, <1>a, <2>1, <2>2, PlayableWorkerStep
  <1>10. ASSUME NEW w \in Workers, MarkProcessing(w) \/ SaveFailed(w) PROVE PlayableMedia(m)'
    <2>1. UNCHANGED <<named, key, store, upload>>
      BY <1>10 DEF MarkProcessing, SaveFailed
    <2>2. WDone(w) \/ \E pc \in {"marked", "acking"} : WGoto(w, pc)
      BY <1>10 DEF MarkProcessing, SaveFailed
    <2> QED
      BY <1>8, <1>9, <1>a, <2>1, <2>2 DEF PlayableMedia, Repointed, Stored
  <1>11. ASSUME NEW w \in Workers, Download(w) PROVE PlayableMedia(m)'
    <2>1. UNCHANGED <<named, key, store, upload>>
      BY <1>11 DEF Download, row
    <2>2. \E pc \in {"downloaded", "failing"} : WGoto(w, pc)
      BY <1>11 DEF Download
    <2> QED
      BY <1>9, <1>a, <2>1, <2>2 DEF PlayableMedia, Repointed, Stored
  <1>12. ASSUME NEW w \in Workers, Transcode(w) PROVE PlayableMedia(m)'
    <2>1. UNCHANGED <<named, key, upload>> /\ store[m] \subseteq store'[m]
      BY <1>12, <1>t DEF Transcode, row
    <2>2. /\ \E pc \in {"derived", "failing", "saving"} :
                 /\ WGoto(w, pc)
                 /\ pc = "derived" /\ worker[w].media = m => "derived" \in store'[m]
      BY <1>12, <1>t DEF Transcode
    <2> QED
      BY <1>9, <1>a, <2>1, <2>2 DEF PlayableMedia, Repointed, Stored
  <1>13. ASSUME NEW w \in Workers, Purge(w) PROVE PlayableMedia(m)'
    <2> DEFINE n == worker[w].media
    <2>1. UNCHANGED <<named, key, upload>> /\ worker[w].pc = "derived"
      BY <1>13 DEF Purge, MayPurge, row
    <2>2. CASE WGoto(w, "saving") /\ UNCHANGED store
      BY <1>9, <1>a, <2>1, <2>2 DEF PlayableMedia, Repointed, Stored
    <2>3. CASE WRepoint(w)
      <3>1. worker'[w].media = n /\ \A v \in Workers : v # w => worker'[v] = worker[v]
        BY <1>t, <2>3 DEF WRepoint, WorkerStates
      <3>2. n = m => "derived" \in store[m]
        BY <1>a, <2>1 DEF PlayableMedia
      <3>3. "derived" \in store[m] => "derived" \in store'[m]
        BY <1>13, <1>t DEF Purge, MayPurge, DeletesSource
      <3>4. store[m] # {} => store'[m] # {}
        BY <1>13, <1>t, <3>2, <3>3 DEF Purge, MayPurge
      <3> QED
        BY <1>a, <2>1, <3>1, <3>2, <3>3, <3>4, PlayableWorkerStep DEF PlayableMedia, Repointed, Stored
    <2> QED
      BY <1>13, <2>2, <2>3 DEF Purge, MayPurge
  <1>14. ASSUME NEW w \in Workers, SaveReady(w) PROVE PlayableMedia(m)'
    <2>1. UNCHANGED <<named, store, upload>> /\ \E pc \in {"acking", "failing"} : WGoto(w, pc)
      BY <1>14 DEF SaveReady
    <2>2. Repointed(m)' => "derived" \in store'[m]
      BY <1>14, <1>t, <1>a, <2>1 DEF SaveReady, PlayableMedia, NewKey, Repointed, Stored
    <2> QED
      BY <1>9, <2>1, <2>2
  <1>15. ASSUME NEW w \in Workers, SwallowError(w) \/ Acknowledge(w) \/ Crash(w) \/ Stop(w)
         PROVE  PlayableMedia(m)'
    BY <1>8, <1>15 DEF SwallowError, Acknowledge, Crash, Stop, row
  <1>16. CASE UNCHANGED vars
    BY <1>3, <1>16 DEF vars
  <1>17. ASSUME NEW n \in Media, ClientPut(n) PROVE PlayableMedia(m)'
    BY <1>2, <1>17 DEF ClientPut, row
  <1>18. ASSUME NEW n \in Media, ClientSendsParts(n) PROVE PlayableMedia(m)'
    BY <1>4, <1>18 DEF ClientSendsParts, row
  <1> QED
    BY <1>1, <1>3, <1>5, <1>6, <1>7, <1>10, <1>11, <1>12, <1>13, <1>14, <1>15, <1>16,
       <1>17, <1>18
    DEF Next, ClientNext, RequestArrives, RequestStep, WorkerStep,
        PresignUpload, InitiateMultipart, StartComplete,
        StartCompleteMultipart, StartAbort, StartRetry, Start, DeleteMedia,
        CompleteStatus, RetryStatus, Publish, PublishLost, AbortDelete, RequestDies, row

(* An image or an audio file keeps its content even when it is reprocessed  *)
(* from the optimised object, and a repointed row keeps its object.         *)
THEOREM OthersMayBeReprocessed == Spec => []OthersSurviveReprocessing
  <1>1. OthersInv => OthersSurviveReprocessing
    BY DEF OthersInv, PlayableMedia, OthersSurviveReprocessing
  <1> QED
    BY <1>1, TypeInvInit, TypeInvStep, OthersInit, OthersStep, PTL DEF Spec

-----------------------------------------------------------------------------
(* Only rows that exist are ever deleted.                                   *)
DeletedExists == \A m \in Media : deleted[m] => status[m] # "absent"

LEMMA DeletedExistsStep == TypeInv /\ DeletedExists /\ [Next]_vars => DeletedExists'
  <1> SUFFICES ASSUME TypeInv, DeletedExists, [Next]_vars,
                      NEW m \in Media, deleted'[m]
               PROVE  status'[m] # "absent"
    BY DEF DeletedExists
  <1>1. status \in [Media -> Statuses] /\ deleted \in [Media -> BOOLEAN]
    BY DEF TypeInv, TypeOK
  <1>2. status[m] # "absent" => status'[m] # "absent"
    BY <1>1, ZenonT(40)
    DEF Next, ClientNext, RequestArrives, RequestStep, WorkerStep,
        PresignUpload, InitiateMultipart, Create, ClientPut, ClientSendsParts,
        DeleteMedia, StartComplete, StartCompleteMultipart, StartAbort,
        StartRetry, Start, Assemble, CompleteStatus, RetryStatus, Publish,
        PublishLost, AbortSession, AbortDelete, RequestDies, Receive,
        MarkProcessing, Download, Transcode, Purge, MayPurge, SaveReady, SaveFailed,
        SwallowError, Acknowledge, Crash, Stop, Accepted, Fails, row, vars
  <1>3. deleted[m] \/ Live(m)
    BY <1>1, ZenonT(40)
    DEF Next, ClientNext, RequestArrives, RequestStep, WorkerStep,
        PresignUpload, InitiateMultipart, Create, ClientPut, ClientSendsParts,
        DeleteMedia, StartComplete, StartCompleteMultipart, StartAbort,
        StartRetry, Start, Assemble, CompleteStatus, RetryStatus, Publish,
        PublishLost, AbortSession, AbortDelete, RequestDies, Receive,
        MarkProcessing, Download, Transcode, Purge, MayPurge, SaveReady, SaveFailed,
        SwallowError, Acknowledge, Crash, Stop, Accepted, Fails, NewKey, SoftDelete, row, vars
  <1> QED
    BY <1>2, <1>3 DEF DeletedExists, Live

LEMMA DeletedRowStep ==
  ASSUME TypeInv, DeletedExists, Next, NEW m \in Media, deleted[m]
  PROVE  UNCHANGED <<status[m], deleted[m], key[m]>>
  <1>1. /\ status \in [Media -> Statuses] /\ deleted \in [Media -> BOOLEAN]
        /\ key \in [Media -> Keys] /\ status[m] # "absent" /\ ~Live(m)
    BY DEF TypeInv, TypeOK, DeletedExists, Live
  <1> QED
    BY <1>1, ZenonT(40)
    DEF Next, ClientNext, RequestArrives, RequestStep, WorkerStep,
        PresignUpload, InitiateMultipart, Create, ClientPut, ClientSendsParts,
        DeleteMedia, StartComplete, StartCompleteMultipart, StartAbort,
        StartRetry, Start, Assemble, CompleteStatus, RetryStatus, Publish,
        PublishLost, AbortSession, AbortDelete, RequestDies, Receive,
        MarkProcessing, Download, Transcode, Purge, MayPurge, SaveReady, SaveFailed,
        SwallowError, Acknowledge, Crash, Stop, Accepted, Fails, NewKey, SoftDelete, row

(* No step of a late request, a job in flight or a redelivered message      *)
(* changes the row of a deleted media.                                      *)
THEOREM DeletedStaysDeleted == Spec => DeletedIsFinal
  <1>1. Init => TypeInv /\ DeletedExists
    BY TypeInvInit DEF Init, DeletedExists
  <1>2. TypeInv /\ DeletedExists /\ [Next]_vars => (TypeInv /\ DeletedExists)'
    BY TypeInvStep, DeletedExistsStep
  <1>3. TypeInv /\ DeletedExists /\ [Next]_vars
          => [\A m \in Media : deleted[m] =>
                 UNCHANGED <<status[m], deleted[m], key[m]>>]_vars
    BY DeletedRowStep
  <1> QED
    BY <1>1, <1>2, <1>3, PTL DEF Spec, DeletedIsFinal

-----------------------------------------------------------------------------
(* The pipeline implements the life of a media asset: every step is a step  *)
(* of MediaLife or leaves its variables alone.                              *)
Out == {m \in Media : Owed(m)}

(* A request that neither was publishing nor is leaves what is owed alone.  *)
LEMMA RequestMoves ==
  ASSUME TypeInv, NEW r \in Requests, UNCHANGED <<jobs, worker>>,
         \A q \in Requests : q # r => req'[q] = req[q],
         req[r].pc # "publishing", req'[r].pc # "publishing"
  PROVE  Out' = Out
  <1>1. \A m \in Media : Owed(m)' <=> Owed(m)
    BY DEF Owed, Publishing
  <1> QED
    BY <1>1 DEF Out

(* Nor does a worker that goes on with its job.                             *)
LEMMA WorkerMoves ==
  ASSUME TypeInv, NEW w \in Workers, UNCHANGED <<jobs, req>>,
         \A v \in Workers : v # w => worker'[v] = worker[v],
         worker[w].pc # "idle", worker'[w].pc # "idle",
         worker'[w].media = worker[w].media
  PROVE  Out' = Out /\ worker[w].media \in Out
  <1>1. worker[w].media \in Media /\ Owed(worker[w].media)
    BY DEF TypeInv, WorkersOK, Owed
  <1>2. \A m \in Media : Owed(m)' <=> Owed(m)
    BY DEF Owed, Publishing
  <1> QED
    BY <1>1, <1>2 DEF Out

(* A worker that ends its job may end what is owed for it, nothing else.    *)
LEMMA WorkerEnds ==
  ASSUME TypeInv, NEW w \in Workers, UNCHANGED <<jobs, req>>,
         worker[w].pc # "idle", WDone(w)
  PROVE  /\ worker[w].media \in Media /\ worker[w].media \in Out
         /\ Out' = Out \/ Out' = Out \ {worker[w].media}
  <1> DEFINE n == worker[w].media
  <1>1. n \in Media /\ Owed(n)
    BY DEF TypeInv, WorkersOK, Owed
  <1>2. /\ worker'[w].pc = "idle"
        /\ \A v \in Workers : v # w => worker'[v] = worker[v]
    BY DEF TypeInv, WorkersOK, WDone, IdleWorker
  <1>3. \A m \in Media : m # n => (Owed(m)' <=> Owed(m))
    BY <1>2 DEF Owed, Publishing
  <1> QED
    BY <1>1, <1>3 DEF Out

(* The step of a worker that keeps its job.                                 *)
LEMMA WorkerGoesOn ==
  ASSUME TypeInv, NEW w \in Workers, UNCHANGED <<jobs, req>>, worker[w].pc # "idle",
         \/ \E pc \in {"marked", "downloaded", "derived", "saving", "failing", "acking"} :
              WGoto(w, pc)
         \/ WRepoint(w)
  PROVE  Out' = Out /\ worker[w].media \in Out /\ worker[w].media \in Media
  <1>1. worker \in [Workers -> WorkerStates] /\ worker[w].media \in Media
    BY DEF TypeInv, WorkersOK
  <1>2. /\ worker'[w].pc # "idle" /\ worker'[w].media = worker[w].media
        /\ \A v \in Workers : v # w => worker'[v] = worker[v]
    <2>1. CASE \E pc \in {"marked", "downloaded", "derived", "saving", "failing", "acking"} :
                  WGoto(w, pc)
      BY <1>1, <2>1 DEF WGoto, WorkerStates
    <2>2. CASE WRepoint(w)
      BY <1>1, <2>2 DEF WRepoint, WorkerStates
    <2> QED
      BY <2>1, <2>2
  <1> QED
    BY <1>1, <1>2, WorkerMoves

(* What a settled worker leaves behind does not wait, or was lost.          *)
LEMMA NobodyWaits ==
  ASSUME TypeInv', StrandedOnlyAfterLoss', NEW n \in Media, n \notin Out',
         status'[n] # "absent", ~deleted'[n], status'[n] = "processing"
  PROVE  n \in lost'
  <1>1. ~Owed(n)' /\ Live(n)'
    BY DEF Out, Live
  <1>2. (HasJob(n) => Owed(n))' /\ (Publishing(n) => Owed(n))'
    BY DEF HasJob, Owed
  <1> QED
    BY <1>1, <1>2 DEF StrandedOnlyAfterLoss

LEMMA LifeInit == Init => Life!Init
  BY DEF Init, Life!Init, Owed, Publishing, IdleRequest, IdleWorker

LEMMA LifeStep ==
  ASSUME TypeInv, StrandedOnlyAfterLoss, [Next]_vars
  PROVE  [Life!Next]_(Life!vars)
  <1> USE DEF Life!Becomes, Life!Visible, Life!Waits
  <1>a. TypeInv' /\ StrandedOnlyAfterLoss'
    BY TypeInvStep, StrandedStep
  <1>t. /\ status \in [Media -> Statuses] /\ deleted \in [Media -> BOOLEAN]
        /\ jobs \in [Media -> [Keys -> Nat]] /\ key \in [Media -> Keys]
        /\ req \in [Requests -> RequestStates]
        /\ worker \in [Workers -> WorkerStates]
        /\ \A r \in Requests : req[r].pc # "idle" => req[r].media \in Media
        /\ \A w \in Workers : worker[w].pc # "idle" => worker[w].media \in Media
    BY DEF TypeInv, TypeOK, RequestsOK, WorkersOK
  <1>v. /\ UNCHANGED <<status, deleted, key, lost>> /\ Out' = Out => UNCHANGED Life!vars
        /\ UNCHANGED <<row, lost>> /\ Out' = Out => UNCHANGED Life!vars
    BY DEF Life!vars, Out, row
  <1>s. ASSUME NEW n \in Media, n \in Out, Out' = Out \/ Out' = Out \ {n}, UNCHANGED <<row, lost>>
        PROVE  [Life!Next]_(Life!vars)
    <2>1. CASE Out' = Out
      BY <1>s, <1>v, <2>1
    <2>2. CASE Out' = Out \ {n}
      <3>1. status[n] # "absent" /\ ~deleted[n] /\ status[n] = "processing" => n \in lost
        BY <1>a, <1>s, <2>2, NobodyWaits DEF row
      <3>2. Life!Settle(n)
        BY <1>s, <2>2, <3>1 DEF Life!Settle, Out, row
      <3> QED
        BY <3>2 DEF Life!Next
    <2> QED
      BY <1>s, <2>1, <2>2
  <1>u. ASSUME UNCHANGED <<jobs, worker, req>> PROVE Out' = Out
    BY <1>u DEF Out, Owed, Publishing
  <1>1. ASSUME NEW n \in Media, NEW k \in Keys, NEW t \in {"put", "open"}, Create(n, k, t)
        PROVE  [Life!Next]_(Life!vars)
    <2>1. Life!Create(n)
      BY <1>1, <1>t, <1>u DEF Create, Life!Create, Out
    <2> QED
      BY <2>1 DEF Life!Next
  <1>2. ASSUME NEW n \in Media, ClientPut(n) \/ ClientSendsParts(n)
        PROVE  [Life!Next]_(Life!vars)
    BY <1>2, <1>u, <1>v DEF ClientPut, ClientSendsParts
  <1>3. ASSUME NEW n \in Media, Out' = Out, SoftDelete(n), UNCHANGED <<status, key, lost>>
        PROVE  [Life!Next]_(Life!vars)
    <2>1. CASE Live(n)
      <3>1. Life!Delete(n)
        BY <1>3, <1>t, <2>1 DEF SoftDelete, Live, Life!Delete, Out
      <3> QED
        BY <3>1 DEF Life!Next
    <2>2. CASE ~Live(n)
      <3>1. UNCHANGED deleted
        BY <1>3, <1>t, <2>2 DEF SoftDelete
      <3> QED
        BY <1>3, <1>v, <3>1 DEF row
    <2> QED
      BY <2>1, <2>2
  <1>4. ASSUME NEW n \in Media, DeleteMedia(n) PROVE [Life!Next]_(Life!vars)
    BY <1>3, <1>4, <1>u DEF DeleteMedia
  <1>5. ASSUME NEW r \in Requests, NEW n \in Media,
               NEW pc \in {"assembling", "completing", "retrying", "aborting"},
               Start(r, n, pc)
        PROVE  [Life!Next]_(Life!vars)
    <2>1. Out' = Out
      BY <1>5, <1>t, RequestMoves DEF Start
    <2> QED
      BY <1>5, <1>v, <2>1 DEF Start
  <1>6. ASSUME NEW r \in Requests, Assemble(r) \/ AbortSession(r) \/ RequestDies(r)
        PROVE  [Life!Next]_(Life!vars)
    <2>1. req[r].pc # "publishing" /\ req'[r].pc # "publishing"
          /\ \A q \in Requests : q # r => req'[q] = req[q]
      BY <1>6, <1>t DEF Assemble, AbortSession, RequestDies, Goto, Finish, IdleRequest, RequestStates
    <2>2. Out' = Out
      BY <1>6, <2>1, RequestMoves DEF Assemble, AbortSession, RequestDies
    <2> QED
      BY <1>6, <1>v, <2>2 DEF Assemble, AbortSession, RequestDies
  <1>7. ASSUME NEW r \in Requests, req[r].pc \in {"completing", "retrying"},
               Live(req[r].media), Accepted(req[r].media),
               Goto(r, "publishing"), UNCHANGED <<deleted, key, jobs, worker>>
        PROVE  [Life!Next]_(Life!vars)
    <2> DEFINE n == req[r].media
    <2>1. /\ n \in Media /\ req'[r].pc = "publishing" /\ req'[r].media = n
          /\ \A q \in Requests : q # r => req'[q] = req[q]
      BY <1>7, <1>t DEF Goto, RequestStates
    <2>2. \A m \in Media : Publishing(m)' <=> Publishing(m) \/ m = n
      BY <1>7, <2>1 DEF Publishing
    <2>3. \A m \in Media : Owed(m)' <=> Owed(m) \/ m = n
      BY <1>7, <2>2 DEF Owed
    <2>4. Out' = Out \cup {n}
      BY <2>1, <2>3 DEF Out
    <2>5. Life!Accept(n)
      BY <1>7, <2>4 DEF Life!Accept, Live, Out, Accepted
    <2> QED
      BY <2>1, <2>5 DEF Life!Next
  <1>8. ASSUME NEW r \in Requests, req[r].pc # "publishing", req[r].pc # "idle", Finish(r),
               UNCHANGED <<jobs, worker>>
        PROVE  Out' = Out
    BY <1>8, <1>t, RequestMoves DEF Finish, IdleRequest
  <1>9. ASSUME NEW r \in Requests, CompleteStatus(r) PROVE [Life!Next]_(Life!vars)
    <2> DEFINE n == req[r].media
    <2>1. CASE Live(n) /\ Accepted(n) /\ Goto(r, "publishing")
      BY <1>7, <1>9, <2>1 DEF CompleteStatus
    <2>2. CASE Live(n) /\ status' = [status EXCEPT ![n] = "ready"] /\ Finish(r) /\ UNCHANGED lost
      <3>1. n \in Media /\ Out' = Out
        BY <1>8, <1>9, <1>t, <2>2 DEF CompleteStatus
      <3>2. Life!Serve(n)
        BY <1>9, <2>2, <3>1 DEF CompleteStatus, Life!Serve, Live, Out
      <3> QED
        BY <3>1, <3>2 DEF Life!Next
    <2>3. CASE UNCHANGED <<status, lost>> /\ Finish(r)
      BY <1>8, <1>9, <1>v, <2>3 DEF CompleteStatus, row
    <2> QED
      BY <1>9, <2>1, <2>2, <2>3 DEF CompleteStatus
  <1>10. ASSUME NEW r \in Requests, RetryStatus(r) PROVE [Life!Next]_(Life!vars)
    <2>1. CASE Live(req[r].media) /\ Accepted(req[r].media) /\ Goto(r, "publishing")
      BY <1>7, <1>10, <2>1 DEF RetryStatus
    <2>2. CASE UNCHANGED <<status, lost>> /\ Finish(r)
      BY <1>8, <1>10, <1>v, <2>2 DEF RetryStatus, row
    <2> QED
      BY <1>10, <2>1, <2>2 DEF RetryStatus
  <1>f. ASSUME NEW r \in Requests, req[r].pc = "publishing", Finish(r)
        PROVE  \A m \in Media : /\ Publishing(m) => Publishing(m)' \/ m = req[r].media
                                /\ Publishing(m)' => Publishing(m)
    BY <1>f, <1>t DEF Finish, IdleRequest, Publishing
  <1>11. ASSUME NEW r \in Requests, Publish(r) PROVE [Life!Next]_(Life!vars)
    <2> PICK n \in Media : n = req[r].media
      BY <1>11, <1>t DEF Publish
    <2>1. req[r].key \in Keys /\ Publishing(n)
      BY <1>11, <1>t DEF Publish, RequestStates, Publishing
    <2>2. jobs'[n][req[r].key] > 0
      BY <1>11, <1>t, <2>1 DEF Publish
    <2>3. \A m \in Media : m # n => jobs'[m] = jobs[m]
      BY <1>11, <1>t, <2>1 DEF Publish
    <2>4. Owed(n)' /\ Owed(n)
      <3>1. \E k \in Keys : jobs'[n][k] > 0
        BY <2>1, <2>2
      <3> QED
        BY <2>1, <3>1 DEF Owed
    <2>5. \A m \in Media : m # n => (Owed(m)' <=> Owed(m))
      BY <1>11, <1>f, <2>3 DEF Owed, Publish
    <2>6. Out' = Out
      BY <2>4, <2>5 DEF Out
    <2> QED
      BY <1>11, <1>v, <2>6 DEF Publish
  <1>12. ASSUME NEW r \in Requests, PublishLost(r) PROVE [Life!Next]_(Life!vars)
    <2> DEFINE n == req[r].media
    <2>1. n \in Media /\ Publishing(n)
      BY <1>12, <1>t DEF PublishLost, Publishing
    <2>2. \A m \in Media : m # n => (Owed(m)' <=> Owed(m))
      BY <1>12, <1>f DEF Owed, PublishLost
    <2>3. n \in Out /\ (Out' = Out \/ Out' = Out \ {n})
      BY <2>1, <2>2 DEF Out, Owed
    <2>4. Life!Lose(n)
      BY <1>12, <2>3 DEF PublishLost, Life!Lose, Out, row
    <2> QED
      BY <2>1, <2>4 DEF Life!Next
  <1>13. ASSUME NEW r \in Requests, AbortDelete(r) PROVE [Life!Next]_(Life!vars)
    <2>1. req[r].media \in Media /\ Out' = Out
      BY <1>8, <1>13, <1>t DEF AbortDelete
    <2> QED
      BY <1>3, <1>13, <2>1 DEF AbortDelete
  <1>14. ASSUME NEW w \in Workers, NEW n \in Media, NEW k \in Keys, Receive(w, n, k)
         PROVE  [Life!Next]_(Life!vars)
    <2>1. worker'[w].pc # "idle" /\ worker'[w].media = n
          /\ \A v \in Workers : v # w => worker'[v] = worker[v]
      BY <1>14, <1>t DEF Receive
    <2>2. jobs[n][k] > 0 /\ \A m \in Media : m # n => jobs'[m] = jobs[m]
      BY <1>14, <1>t DEF Receive, WaitingJob
    <2>3. Owed(n)' /\ Owed(n)
      BY <2>1, <2>2 DEF Owed
    <2>4. \A m \in Media : m # n => (Owed(m)' <=> Owed(m))
      BY <1>14, <2>1, <2>2 DEF Owed, Receive, Publishing
    <2>5. Out' = Out
      BY <2>3, <2>4 DEF Out
    <2> QED
      BY <1>14, <1>v, <2>5 DEF Receive
  <1>p. ASSUME NEW n \in Media, n \in Out, Live(n), Out' = Out, UNCHANGED <<deleted, lost>>,
               \E s \in {"processing", "ready", "failed"} : status' = [status EXCEPT ![n] = s],
               key' = key \/ key' = [key EXCEPT ![n] = "derived"]
        PROVE  [Life!Next]_(Life!vars)
    <2>1. Life!Report(n)
      BY <1>p DEF Life!Report, Live, Out
    <2> QED
      BY <2>1 DEF Life!Next
  <1>15. ASSUME NEW w \in Workers, MarkProcessing(w) PROVE [Life!Next]_(Life!vars)
    <2>1. CASE Live(worker[w].media) /\ WGoto(w, "marked")
               /\ status' = [status EXCEPT ![worker[w].media] = "processing"]
      <3>1. Out' = Out /\ worker[w].media \in Out /\ worker[w].media \in Media
        BY <1>15, <2>1, WorkerGoesOn DEF MarkProcessing
      <3> QED
        BY <1>15, <1>p, <2>1, <3>1 DEF MarkProcessing
    <2>2. CASE UNCHANGED status /\ WDone(w)
      BY <1>15, <1>s, <2>2, WorkerEnds DEF MarkProcessing, row
    <2> QED
      BY <1>15, <2>1, <2>2 DEF MarkProcessing
  <1>16. ASSUME NEW w \in Workers, Download(w) \/ Transcode(w) \/ Purge(w)
         PROVE  [Life!Next]_(Life!vars)
    <2>1. Out' = Out
      BY <1>16, WorkerGoesOn DEF Download, Transcode, Purge, MayPurge
    <2> QED
      BY <1>16, <1>v, <2>1 DEF Download, Transcode, Purge
  <1>17. ASSUME NEW w \in Workers, SaveReady(w) PROVE [Life!Next]_(Life!vars)
    <2>1. Out' = Out /\ worker[w].media \in Out /\ worker[w].media \in Media
      BY <1>17, WorkerGoesOn DEF SaveReady
    <2>2. CASE Live(worker[w].media) /\ status' = [status EXCEPT ![worker[w].media] = "ready"]
               /\ key' = [key EXCEPT ![worker[w].media] = NewKey(w)]
      <3>1. key' = key \/ key' = [key EXCEPT ![worker[w].media] = "derived"]
        BY <1>t, <2>1, <2>2 DEF NewKey
      <3> QED
        BY <1>17, <1>p, <2>1, <2>2, <3>1 DEF SaveReady
    <2>3. CASE UNCHANGED <<status, key>>
      BY <1>17, <1>v, <2>1, <2>3 DEF SaveReady, row
    <2> QED
      BY <1>17, <2>2, <2>3 DEF SaveReady
  <1>18. ASSUME NEW w \in Workers, SaveFailed(w) PROVE [Life!Next]_(Life!vars)
    <2>1. CASE Live(worker[w].media) /\ WGoto(w, "acking") /\ Fails(worker[w].media)
      <3>1. Out' = Out /\ worker[w].media \in Out /\ worker[w].media \in Media
        BY <1>18, <2>1, WorkerGoesOn DEF SaveFailed
      <3> QED
        BY <1>18, <1>p, <2>1, <3>1 DEF SaveFailed, Fails
    <2>2. CASE UNCHANGED status /\ WDone(w)
      BY <1>18, <1>s, <2>2, WorkerEnds DEF SaveFailed, row
    <2> QED
      BY <1>18, <2>1, <2>2 DEF SaveFailed
  <1>19. ASSUME NEW w \in Workers, SwallowError(w) PROVE [Life!Next]_(Life!vars)
    <2>1. /\ worker[w].media \in Media /\ worker[w].media \in Out
          /\ Out' = Out \/ Out' = Out \ {worker[w].media}
      BY <1>19, WorkerEnds DEF SwallowError
    <2>2. Life!Lose(worker[w].media)
      BY <1>19, <2>1 DEF SwallowError, Life!Lose, Out, row
    <2> QED
      BY <2>1, <2>2 DEF Life!Next
  <1>20. ASSUME NEW w \in Workers, Acknowledge(w) PROVE [Life!Next]_(Life!vars)
    BY <1>20, <1>s, WorkerEnds DEF Acknowledge
  <1>21. ASSUME NEW w \in Workers, Crash(w) PROVE [Life!Next]_(Life!vars)
    <2> PICK n \in Media : n = worker[w].media
      BY <1>21, <1>t DEF Crash
    <2>1. /\ worker[w].src \in Keys
          /\ worker'[w].pc = "idle" /\ \A v \in Workers : v # w => worker'[v] = worker[v]
      BY <1>21, <1>t DEF Crash, WDone, IdleWorker, WorkerStates
    <2>2. jobs'[n][worker[w].src] > 0 /\ \A m \in Media : m # n => jobs'[m] = jobs[m]
      BY <1>21, <1>t, <2>1 DEF Crash, Requeue
    <2>3. Owed(n)' /\ Owed(n)
      <3>1. \E k \in Keys : jobs'[n][k] > 0
        BY <2>1, <2>2
      <3> QED
        BY <1>21, <3>1 DEF Owed, Crash
    <2>4. \A m \in Media : m # n => (Owed(m)' <=> Owed(m))
      BY <1>21, <2>1, <2>2 DEF Owed, Crash, Publishing
    <2>5. Out' = Out
      BY <2>3, <2>4 DEF Out
    <2> QED
      BY <1>21, <1>v, <2>5 DEF Crash
  <1>22. ASSUME NEW w \in Workers, Stop(w) PROVE [Life!Next]_(Life!vars)
    <2>1. /\ worker[w].media \in Media /\ worker[w].media \in Out
          /\ Out' = Out \/ Out' = Out \ {worker[w].media}
      BY <1>22, WorkerEnds DEF Stop
    <2>2. CASE worker[w].pc = "acking"
      BY <1>22, <1>s, <2>1, <2>2 DEF Stop
    <2>3. CASE worker[w].pc # "acking"
      <3>1. Life!Lose(worker[w].media)
        BY <1>22, <2>1, <2>3 DEF Stop, Life!Lose, Out, row
      <3> QED
        BY <2>1, <3>1 DEF Life!Next
    <2> QED
      BY <2>2, <2>3
  <1>23. CASE UNCHANGED vars
    BY <1>23, <1>u, <1>v DEF vars, row
  <1> QED
    BY <1>1, <1>2, <1>4, <1>5, <1>6, <1>9, <1>10, <1>11, <1>12, <1>13, <1>14,
       <1>15, <1>16, <1>17, <1>18, <1>19, <1>20, <1>21, <1>22, <1>23
    DEF Next, ClientNext, RequestArrives, RequestStep, WorkerStep,
        PresignUpload, InitiateMultipart, StartComplete,
        StartCompleteMultipart, StartAbort, StartRetry

(* The pipeline, with all its requests, queued and redelivered jobs and     *)
(* worker crashes and stops, implements the life of a media asset: rows     *)
(* change only by a result that is owed, and what is owed to a waiting row  *)
(* is settled or marked as lost.                                            *)
THEOREM PipelineImplementsLife == Spec => LifeIsKept
  <1> QED
    BY TypeInvInit, StrandedInit, LifeInit, TypeInvStep, StrandedStep, LifeStep,
       PTL DEF Spec, LifeIsKept, Life!Spec
=============================================================================
