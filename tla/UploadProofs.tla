---------------------------- MODULE UploadProofs ----------------------------
(***************************************************************************)
(* What the browser promises of an upload, for every number of parts, runs, *)
(* workers and files, every way the user and the network can behave, and    *)
(* both dialogs.                                                            *)
(***************************************************************************)
EXTENDS UploadDialog, WellFoundedInduction, TLAPS

-----------------------------------------------------------------------------
(* The next part of a non-empty list is one of them.                        *)
LEMMA NextIsOfTheList ==
  ASSUME NEW T, T \subseteq Parts, T # {}
  PROVE  Next1(T) \in T
  <1>1. T \subseteq Nat
    BY UploadAssumption DEF Parts
  <1>2. PICK x \in T : \A y \in T : ~(<<y, x>> \in OpToRel(<, Nat))
    BY <1>1, WFMin, NatLessThanWellFounded, Zenon
  <1>3. \A y \in T : <<y, x>> \in OpToRel(<, Nat) <=> y < x
    BY <1>1, <1>2, Zenon DEF OpToRel
  <1>4. ASSUME NEW y \in T PROVE x <= y
    <2>1. ~(y < x) /\ x \in Nat /\ y \in Nat
      BY <1>1, <1>2, <1>3
    <2> QED
      BY <2>1
  <1> QED
    BY <1>4 DEF Next1

-----------------------------------------------------------------------------
(* The types of what the pools work on.                                     *)
RunSteps == Active \cup {"unused", "failed", "over", "gone"}
JobSteps == {"presigning", "putting", "stored", "backoff", "failed", "done"}

RunStates == [step : RunSteps, of : Nat, session : Sessions \cup {None},
              parts : SUBSET Parts, todo : SUBSET Parts]
Jobs      == [step : JobSteps, part : Parts \cup {None}, attempt : Nat]

PoolTypes ==
    /\ setup \in Setups
    /\ run \in [Runs -> RunStates]
    /\ worker \in [Runs -> [Workers -> Jobs]]
    /\ cache \in [session : Sessions \cup {None}, parts : SUBSET Parts]
    /\ asset \in [Sessions -> {"none", "draft", "ready", "deleted"}]
    /\ store \in [Sessions -> [step : {"none", "open", "joined", "gone"}, parts : SUBSET Parts]]
    /\ current \in Runs \cup {None} /\ late \subseteq Runs

(* A run has a session once it has one to work on, its workers send parts   *)
(* to that session only, and a worker whose transfer is over has stored its *)
(* part, unless the session was dropped since.  What is completed, now or   *)
(* late, is all of the file, and a run that was not begun has nothing.      *)
NotBegun   == {"unused", "initiating", "initiated"}
HasSession == {"initiated", "pool", "completing", "completed", "stacking"}

Countable(session) == IF session.step = "gone" THEN Parts ELSE session.parts

RunIsSound(v, ws, st, isLate) ==
    /\ v.step \in HasSession => v.session \in Sessions
    /\ v.session # None => v.parts \subseteq Countable(st[v.session])
    /\ \A w \in DOMAIN ws :
           /\ ws[w].step # "done" => ws[w].part \in Parts /\ v.session \in Sessions
           /\ ws[w].step = "stored" => ws[w].part \in Countable(st[v.session])
    /\ v.step = "completing" => v.parts = Parts
    /\ v.step \in NotBegun =>
           v.parts = {} /\ \A w \in DOMAIN ws : ws[w].step = "done"
    /\ isLate => v.step \in {"failed", "gone"} /\ v.parts = Parts /\ v.session \in Sessions

RunsAreSound ==
    \A r \in Runs : RunIsSound(run[r], worker[r], store, setup.size = "large" /\ r \in late)
KeptIsStored == cache.session # None => cache.parts \subseteq Countable(store[cache.session])

(* The session a run is going to ask for does not exist yet.                *)
Asks(v) == v.step \in {"unused", "initiating"}
SessionsAreNew == \A r \in Runs : Asks(run[r]) => store[r].step = "none" /\ asset[r] = "none"

PoolInv == PoolTypes /\ RunsAreSound /\ KeptIsStored /\ WholeAssets

LEMMA TookIsJob ==
  ASSUME NEW T, T \subseteq Parts
  PROVE  Took(T) \in Jobs /\ Took(T).step \in {"presigning", "done"}
         /\ (Took(T).step # "done" => Took(T).part \in Parts)
  <1>1. CASE T = {}
    BY <1>1 DEF Took, NoWorker, Jobs, JobSteps
  <1>2. CASE T # {}
    <2>1. Next1(T) \in Parts
      BY <1>2, NextIsOfTheList
    <2> QED
      BY <1>2, <2>1 DEF Took, Jobs, JobSteps
  <1> QED
    BY <1>1, <1>2

LEMMA TakenAreJobs ==
  ASSUME NEW T, T \subseteq Parts
  PROVE  /\ Taken(T) \in [Workers -> Jobs]
         /\ \A w \in Workers : /\ Taken(T)[w].step # "stored"
                               /\ Taken(T)[w].step # "done" => Taken(T)[w].part \in Parts
  <1>1. \A w \in Workers : \E R : R \subseteq Parts /\ Taken(T)[w] = Took(R)
    BY DEF Taken
  <1>2. Taken(T) = [w \in Workers |-> Taken(T)[w]]
    BY DEF Taken
  <1> QED
    BY <1>1, <1>2, TookIsJob

LEMMA OpenedIsRun ==
  ASSUME NEW r, NEW u \in Nat, NEW s \in Sessions, NEW P, P \subseteq Parts
  PROVE  /\ Opened(r, u, s, P) \in RunStates
         /\ Opened(r, u, s, P).session = s /\ Opened(r, u, s, P).parts = P
         /\ Opened(r, u, s, P).step \in {"completing", "pool"}
         /\ Opened(r, u, s, P).step = "completing" => P = Parts
  BY DEF Opened, RunStates, RunSteps, Active, Left

LEMMA PoolInit == DialogInit => PoolInv
  BY UploadAssumption DEF DialogInit, Init, PoolInv, PoolTypes, RunsAreSound, RunIsSound,
     HasSession, KeptIsStored, WholeAssets, NoRun, NoWorker, NoCache, RunStates, RunSteps,
     Jobs, JobSteps, None, Active, Sessions

(* A run stays sound when more parts are stored.                            *)
LEMMA StoringHarmsNoRun ==
  ASSUME NEW v \in RunStates, NEW ws, NEW st, NEW su, NEW l, RunIsSound(v, ws, st, l),
         \A s \in Sessions : Countable(st[s]) \subseteq Countable(su[s])
  PROVE  RunIsSound(v, ws, su, l)
  <1>1. v.session \in Sessions \cup {None}
    BY DEF RunStates
  <1>2. v.session # None => v.parts \subseteq Countable(su[v.session])
    BY <1>1 DEF RunIsSound
  <1>3. \A w \in DOMAIN ws :
           /\ ws[w].step # "done" => ws[w].part \in Parts /\ v.session \in Sessions
           /\ ws[w].step = "stored" => ws[w].part \in Countable(su[v.session])
    BY <1>1 DEF RunIsSound
  <1> QED
    BY <1>2, <1>3 DEF RunIsSound

(* The pools after a step that changes one run and its workers, stores more *)
(* parts or joins all of them, and leaves late only what that run allows.   *)
Stores == [Sessions -> [step : {"none", "open", "joined", "gone"}, parts : SUBSET Parts]]
Assets == [Sessions -> {"none", "draft", "ready", "deleted"}]

StoresMore ==
    /\ store' \in Stores /\ asset' \in Assets
    /\ \A s \in Sessions : /\ Countable(store[s]) \subseteq Countable(store'[s])
                           /\ store'[s].step = "joined" => store'[s].parts = Parts

LEMMA OneRunMoves ==
  ASSUME PoolInv, NEW r \in Runs, NEW v \in RunStates, NEW ws \in [Workers -> Jobs],
         run' = [run EXCEPT ![r] = v], worker' = [worker EXCEPT ![r] = ws],
         setup' = setup, current' \in Runs \cup {None}, StoresMore, late' \subseteq Runs, late' \subseteq late \cup {r},
         \/ cache' \in {cache, NoCache}
         \/ v.session \in Sessions /\ cache' = [session |-> v.session, parts |-> v.parts],
         RunIsSound(v, ws, store', setup.size = "large" /\ r \in late')
  PROVE  PoolInv'
  <1> USE DEF PoolInv
  <1>t. PoolTypes'
    BY DEF PoolTypes, StoresMore, Stores, Assets, NoCache, RunStates, Workers, None
  <1>r. run'[r] = v /\ \A q \in Runs : q # r => run'[q] = run[q]
    BY DEF PoolTypes
  <1>w. worker'[r] = ws /\ \A q \in Runs : q # r => worker'[q] = worker[q]
    BY DEF PoolTypes
  <1>1. RunsAreSound'
    <2>1. ASSUME NEW q \in Runs, q # r
          PROVE  RunIsSound(run[q], worker[q], store', setup.size = "large" /\ q \in late)
      <3>1. run[q] \in RunStates
        BY DEF PoolTypes
      <3>2. RunIsSound(run[q], worker[q], store, setup.size = "large" /\ q \in late)
        BY DEF RunsAreSound
      <3>3. \A s \in Sessions : Countable(store[s]) \subseteq Countable(store'[s])
        BY DEF StoresMore
      <3> QED
        BY <3>1, <3>2, <3>3, StoringHarmsNoRun
    <2>2. ASSUME NEW q \in Runs, q # r
          PROVE  RunIsSound(run'[q], worker'[q], store', setup'.size = "large" /\ q \in late')
      <3>1. q \in late' => q \in late
        BY <2>2
      <3>2. setup' = setup /\ run'[q] = run[q] /\ worker'[q] = worker[q]
        BY <2>2, <1>r, <1>w
      <3> QED
        BY <2>1, <2>2, <3>1, <3>2 DEF RunIsSound
    <2>3. RunIsSound(run'[r], worker'[r], store', setup'.size = "large" /\ r \in late')
      BY <1>r, <1>w
    <2> QED
      BY <2>2, <2>3 DEF RunsAreSound
  <1>2. KeptIsStored'
    <2>1. KeptIsStored /\ cache.session \in Sessions \cup {None}
      BY DEF PoolTypes
    <2>2. CASE cache' \in {cache, NoCache}
      BY <2>1, <2>2 DEF KeptIsStored, StoresMore, NoCache, None
    <2>3. CASE v.session \in Sessions /\ cache' = [session |-> v.session, parts |-> v.parts]
      <3>1. v.session # None
        BY <2>3, UploadAssumption DEF Sessions, None
      <3> QED
        BY <2>3, <3>1 DEF KeptIsStored, RunIsSound
    <2> QED
      BY <2>2, <2>3
  <1>3. WholeAssets'
    BY DEF WholeAssets, StoresMore
  <1> QED
    BY <1>t, <1>1, <1>2, <1>3

(* The same when nothing is stored.                                         *)
LEMMA StoresNoLess ==
  ASSUME PoolInv, UNCHANGED <<asset, store>>
  PROVE  StoresMore
  BY DEF PoolInv, PoolTypes, WholeAssets, StoresMore, Stores, Assets

-----------------------------------------------------------------------------
(* The steps of the dialog.                                                 *)

LEMMA BeginKeeps ==
  ASSUME PoolInv, NEW r \in Runs, NEW u \in Runs, Begin(r, u), current' \in Runs \cup {None},
         UNCHANGED <<setup, cache, asset, store, late>>
  PROVE  PoolInv'
  <1>0. run[r].step = "unused" /\ run[r] \in RunStates /\ worker[r] \in [Workers -> Jobs]
        /\ u \in Nat /\ worker = [worker EXCEPT ![r] = worker[r]]
        /\ RunIsSound(run[r], worker[r], store, setup.size = "large" /\ r \in late)
        /\ cache.parts \subseteq Parts /\ cache.session \in Sessions \cup {None}
    BY DEF Begin, PoolInv, PoolTypes, RunsAreSound, Runs
  <1>1. r \notin late \/ setup.size # "large"
    BY <1>0 DEF RunIsSound
  <1>2. StoresMore
    BY StoresNoLess
  <1>3. CASE cache.session # None
    <2> DEFINE v  == Opened(r, u, cache.session, cache.parts)
               ws == Taken(Parts \ cache.parts)
    <2>1. v \in RunStates /\ v.session = cache.session /\ v.parts = cache.parts
          /\ v.step \in {"completing", "pool"} /\ (v.step = "completing" => v.parts = Parts)
      BY <1>0, <1>3, OpenedIsRun
    <2>2. ws \in [Workers -> Jobs]
          /\ \A w \in Workers : /\ ws[w].step # "stored"
                                /\ ws[w].step # "done" => ws[w].part \in Parts
      <3>1. Parts \ cache.parts \subseteq Parts
        OBVIOUS
      <3> QED
        BY <3>1, TakenAreJobs
    <2>3. cache.session \in Sessions /\ cache.parts \subseteq Countable(store[cache.session])
      BY <1>0, <1>3 DEF PoolInv, KeptIsStored
    <2>4. run' = [run EXCEPT ![r] = v] /\ worker' = [worker EXCEPT ![r] = ws]
      BY <1>3 DEF Begin
    <2> HIDE DEF v, ws
    <2>5. RunIsSound(v, ws, store', setup.size = "large" /\ r \in late')
      BY <1>1, <2>1, <2>2, <2>3 DEF RunIsSound, HasSession, NotBegun
    <2> QED
      BY <1>2, <2>1, <2>2, <2>4, <2>5, OneRunMoves DEF PoolInv, PoolTypes
  <1>4. CASE cache.session = None
    <2> DEFINE v == [NoRun EXCEPT !.step = "initiating", !.of = u]
    <2>1. v \in RunStates /\ v.step = "initiating" /\ v.session = None /\ v.parts = {}
      BY <1>0 DEF NoRun, RunStates, RunSteps, Active
    <2>2. run' = [run EXCEPT ![r] = v] /\ worker' = [worker EXCEPT ![r] = worker[r]]
      BY <1>0, <1>4 DEF Begin
    <2> HIDE DEF v
    <2>3. RunIsSound(v, worker[r], store', setup.size = "large" /\ r \in late')
      BY <1>0, <1>1, <2>1 DEF RunIsSound, HasSession, NotBegun
    <2> QED
      BY <1>0, <1>2, <2>1, <2>2, <2>3, OneRunMoves DEF PoolInv, PoolTypes
  <1> QED
    BY <1>3, <1>4

(* What soundness says of a run and of a worker that is at work.            *)
LEMMA SoundRun ==
  ASSUME PoolInv, NEW r \in Runs, NEW w \in Workers
  PROVE  /\ run[r] \in RunStates /\ worker[r] \in [Workers -> Jobs] /\ worker[r][w] \in Jobs
         /\ RunIsSound(run[r], worker[r], store, setup.size = "large" /\ r \in late)
         /\ worker[r][w].step # "done" =>
                /\ run[r].session \in Sessions /\ run[r].step \notin NotBegun
                /\ run[r].session # None /\ worker[r][w].part \in Parts
                /\ run[r].parts \subseteq Countable(store[run[r].session])
         /\ worker[r][w].step = "stored" => worker[r][w].part \in Countable(store[run[r].session])
  <1>1. run[r] \in RunStates /\ worker[r] \in [Workers -> Jobs] /\ worker[r][w] \in Jobs
        /\ RunIsSound(run[r], worker[r], store, setup.size = "large" /\ r \in late)
    BY DEF PoolInv, PoolTypes, RunsAreSound
  <1>2. w \in DOMAIN worker[r] /\ \A s \in Sessions : s # None
    BY <1>1, UploadAssumption DEF Sessions, None
  <1>3. ASSUME worker[r][w].step # "done"
        PROVE  /\ run[r].session \in Sessions /\ run[r].step \notin NotBegun
               /\ worker[r][w].part \in Parts
    <2>1. RunIsSound(run[r], worker[r], store, setup.size = "large" /\ r \in late)
      BY <1>1
    <2>2. /\ worker[r][w].step # "done" =>
                worker[r][w].part \in Parts /\ run[r].session \in Sessions
          /\ run[r].step \in NotBegun => worker[r][w].step = "done"
      BY <2>1, <1>2, Zenon DEF RunIsSound
    <2> QED
      BY <2>2, <1>3
  <1>4. run[r].session \in Sessions => run[r].parts \subseteq Countable(store[run[r].session])
    BY <1>1, <1>2 DEF RunIsSound
  <1>5. worker[r][w].step = "stored" => worker[r][w].part \in Countable(store[run[r].session])
    <2>1. RunIsSound(run[r], worker[r], store, setup.size = "large" /\ r \in late)
      BY <1>1
    <2> QED
      BY <2>1, <1>2, Zenon DEF RunIsSound
  <1> QED
    BY <1>1, <1>2, <1>3, <1>4, <1>5

(* Cutting transfers off fails workers and runs, and changes no part.       *)
LEMMA CutOffKeeps ==
  ASSUME PoolInv, NEW u, NEW a, NEW shown, CutOff(u, a, shown), current' \in Runs \cup {None},
         UNCHANGED <<setup, cache, asset, store, late>>
  PROVE  PoolInv'
  <1> USE DEF PoolInv
  <1>1. ASSUME NEW r \in Runs, NEW w \in Workers
        PROVE  /\ worker'[r][w] \in Jobs /\ worker'[r][w].part = worker[r][w].part
               /\ worker'[r][w].step = "done" <=> worker[r][w].step = "done"
               /\ worker'[r][w].step = "stored" => worker[r][w].step = "stored"
    <2>1. worker[r][w] \in Jobs
      BY DEF PoolTypes
    <2>2. worker'[r][w] = IF run[r].of = u /\ worker[r][w].step \in {"putting", "stored"}
                          THEN Failed(worker[r][w], a) ELSE worker[r][w]
      BY DEF CutOff, Cut
    <2>3. PICK t \in {"failed", "backoff"} : Failed(worker[r][w], a) = [worker[r][w] EXCEPT !.step = t]
      BY DEF Failed
    <2> QED
      BY <2>1, <2>2, <2>3 DEF Jobs, JobSteps
  <1>2. ASSUME NEW r \in Runs
        PROVE  /\ worker'[r] \in [Workers -> Jobs] /\ DOMAIN worker'[r] = Workers
               /\ DOMAIN worker[r] = Workers
    <2>1. worker'[r] = [w \in Workers |-> worker'[r][w]]
      BY DEF CutOff, Cut
    <2> QED
      BY <1>1, <2>1 DEF PoolTypes
  <1>3. ASSUME NEW r \in Runs
        PROVE  /\ run'[r] \in RunStates /\ run'[r].session = run[r].session
               /\ run'[r].parts = run[r].parts
               /\ \/ run'[r].step = run[r].step
                  \/ run[r].step = "pool" /\ run'[r].step = "failed"
    BY ZenonT(40) DEF PoolTypes, CutOff, Stops, RunStates, RunSteps
  <1>4. PoolTypes'
    <2>1. run' \in [Runs -> RunStates]
      BY <1>3 DEF CutOff
    <2>2. worker' \in [Runs -> [Workers -> Jobs]]
      BY <1>2 DEF CutOff, Cut
    <2> QED
      BY <2>1, <2>2 DEF PoolTypes, Workers
  <1>5. RunsAreSound'
    <2>1. ASSUME NEW r \in Runs
          PROVE  RunIsSound(run'[r], worker'[r], store, setup.size = "large" /\ r \in late)
      <3>1. RunIsSound(run[r], worker[r], store, setup.size = "large" /\ r \in late)
        BY DEF RunsAreSound
      <3> QED
        BY <1>1, <1>2, <1>3, <3>1 DEF RunIsSound, HasSession, NotBegun
    <2> QED
      BY <2>1 DEF RunsAreSound
  <1> QED
    BY <1>4, <1>5 DEF KeptIsStored, WholeAssets

(* A worker of a pool goes on with the job j, and the run counts parts that *)
(* are stored.                                                              *)
LEMMA ProgressKeeps ==
  ASSUME PoolInv, NEW r \in Runs, NEW w \in Workers, NEW j \in Jobs,
         NEW parts, NEW todo \in SUBSET Parts,
         worker[r][w].step # "done", j.step # "stored", j.step # "done" => j.part \in Parts,
         run[r].parts \subseteq parts, parts \subseteq Countable(store[run[r].session]),
         Progress(r, parts, todo, [worker[r] EXCEPT ![w] = j]),
         cache' = cache \/ cache' = [session |-> run[r].session, parts |-> parts],
         UNCHANGED <<setup, current, asset, store, late>>
  PROVE  PoolInv'
  <1> DEFINE step == IF run[r].step = "pool" THEN Pooled(r, parts, [worker[r] EXCEPT ![w] = j],
                                                         aborted[run[r].of])
                     ELSE run[r].step
             v    == [run[r] EXCEPT !.step = step, !.parts = parts, !.todo = todo]
             ws   == [worker[r] EXCEPT ![w] = j]
  <1>1. run[r] \in RunStates /\ worker[r] \in [Workers -> Jobs]
        /\ RunIsSound(run[r], worker[r], store, setup.size = "large" /\ r \in late)
    BY SoundRun
  <1>2. run[r].session \in Sessions /\ run[r].step \notin NotBegun
    BY SoundRun
  <1>3. parts \subseteq Parts
    BY <1>2 DEF PoolInv, PoolTypes, Countable
  <1>4. step \in RunSteps /\ (step = run[r].step \/ step \in {"failed", "pool", "completing"})
        /\ step \notin NotBegun
        /\ (step = "completing" => run[r].step = "completing" \/ parts = Parts)
        /\ (step \in HasSession => run[r].step \in HasSession)
        /\ (run[r].step \in {"failed", "gone"} => step = run[r].step)
    <2>1. CASE run[r].step = "pool"
      <3>1. Pooled(r, parts, ws, aborted[run[r].of]) \in {"failed", "pool", "completing"}
            /\ (Pooled(r, parts, ws, aborted[run[r].of]) = "completing" => parts = Parts)
        BY DEF Pooled
      <3> QED
        BY <2>1, <3>1 DEF RunSteps, Active, HasSession, NotBegun
    <2>2. CASE run[r].step # "pool"
      BY <2>2, <1>1, <1>2 DEF RunStates
    <2> QED
      BY <2>1, <2>2
  <1> HIDE DEF step
  <1>5. v \in RunStates /\ v.session = run[r].session /\ v.parts = parts /\ v.step = step
    BY <1>1, <1>3, <1>4 DEF RunStates
  <1>6. ws \in [Workers -> Jobs] /\ DOMAIN ws = Workers /\ DOMAIN worker[r] = Workers
        /\ \A x \in Workers : ws[x] = IF x = w THEN j ELSE worker[r][x]
    BY <1>1
  <1>7. run' = [run EXCEPT ![r] = v] /\ worker' = [worker EXCEPT ![r] = ws]
    <2>1. run' = [run EXCEPT ![r].step = step, ![r].parts = parts, ![r].todo = todo]
      BY DEF Progress, step
    <2>2. run' = [run EXCEPT ![r] = v]
      BY <2>1, <1>1 DEF PoolInv, PoolTypes, RunStates
    <2> QED
      BY <2>2 DEF Progress
  <1> HIDE DEF v, ws
  <1>8. RunIsSound(v, ws, store, setup.size = "large" /\ r \in late)
    <2>1. \A x \in DOMAIN ws :
              /\ ws[x].step # "done" => ws[x].part \in Parts /\ v.session \in Sessions
              /\ ws[x].step = "stored" => ws[x].part \in Countable(store[v.session])
      <3> SUFFICES ASSUME NEW x \in Workers
                   PROVE  /\ ws[x].step # "done" => ws[x].part \in Parts /\ v.session \in Sessions
                          /\ ws[x].step = "stored" => ws[x].part \in Countable(store[v.session])
        BY <1>6
      <3>1. CASE x = w
        BY <3>1, <1>2, <1>5, <1>6
      <3>2. CASE x # w
        BY <3>2, <1>5, <1>6, SoundRun
      <3> QED
        BY <3>1, <3>2
    <2>2. v.step = "completing" => v.parts = Parts
      BY <1>1, <1>3, <1>4, <1>5 DEF RunIsSound
    <2>3. setup.size = "large" /\ r \in late =>
              v.step \in {"failed", "gone"} /\ v.parts = Parts /\ v.session \in Sessions
      BY <1>1, <1>2, <1>3, <1>4, <1>5 DEF RunIsSound
    <2> QED
      BY <1>2, <1>4, <1>5, <2>1, <2>2, <2>3 DEF RunIsSound
  <1>9. StoresMore
    BY StoresNoLess
  <1> QED
    <2>1. \/ cache' \in {cache, NoCache}
          \/ v.session \in Sessions /\ cache' = [session |-> v.session, parts |-> v.parts]
      BY <1>2, <1>5
    <2> QED
      BY <1>5, <1>6, <1>7, <1>8, <1>9, <2>1, OneRunMoves DEF PoolInv, PoolTypes

LEMMA PartDoneKeeps ==
  ASSUME PoolInv, NEW r \in Runs, NEW w \in Workers, PartDone(r, w)
  PROVE  PoolInv'
  <1> DEFINE parts == run[r].parts \cup {worker[r][w].part}
             next  == IF aborted[run[r].of] THEN NoWorker ELSE Took(run[r].todo)
  <1>1. run[r] \in RunStates /\ worker[r] \in [Workers -> Jobs]
        /\ RunIsSound(run[r], worker[r], store, setup.size = "large" /\ r \in late)
    BY SoundRun
  <1>2. worker[r][w].step = "stored"
    BY DEF PartDone
  <1>3. run[r].session \in Sessions /\ run[r].session # None
        /\ worker[r][w].part \in Countable(store[run[r].session])
    BY <1>2, SoundRun
  <1>4. parts \subseteq Countable(store[run[r].session]) /\ run[r].parts \subseteq parts
    BY <1>1, <1>3 DEF RunIsSound
  <1>5. next \in Jobs /\ next.step # "stored" /\ (next.step # "done" => next.part \in Parts)
    <2>1. run[r].todo \subseteq Parts
      BY <1>1 DEF RunStates
    <2> QED
      BY <2>1, TookIsJob DEF NoWorker, Jobs, JobSteps
  <1>6. run[r].todo \ {next.part} \in SUBSET Parts
    BY <1>1 DEF RunStates
  <1>7. /\ Progress(r, parts, run[r].todo \ {next.part}, [worker[r] EXCEPT ![w] = next])
        /\ cache' = [session |-> run[r].session, parts |-> parts]
        /\ UNCHANGED <<setup, current, asset, store, late>>
    BY DEF PartDone
  <1> HIDE DEF parts, next
  <1> QED
    BY <1>2, <1>4, <1>5, <1>6, <1>7, ProgressKeeps

LEMMA PartFailsKeeps ==
  ASSUME PoolInv, NEW r \in Runs, NEW w \in Workers, PartFails(r, w) \/ Retry(r, w)
  PROVE  PoolInv'
  <1>1. run[r] \in RunStates /\ worker[r] \in [Workers -> Jobs]
        /\ RunIsSound(run[r], worker[r], store, setup.size = "large" /\ r \in late)
    BY SoundRun
  <1>2. worker[r][w].step # "done" /\ worker[r][w] \in Jobs /\ run[r].todo \in SUBSET Parts
    BY <1>1 DEF PartFails, Retry, RunStates
  <1>3. run[r].parts \subseteq Countable(store[run[r].session]) /\ worker[r][w].part \in Parts
    BY <1>2, SoundRun
  <1>4. PICK j \in Jobs : /\ j.step # "stored" /\ j.part = worker[r][w].part
                          /\ Progress(r, run[r].parts, run[r].todo, [worker[r] EXCEPT ![w] = j])
    <2>1. CASE PartFails(r, w)
      <3> DEFINE j == Failed(worker[r][w], aborted[run[r].of])
      <3>1. j \in Jobs /\ j.step # "stored" /\ j.part = worker[r][w].part
        BY <1>2 DEF Failed, Jobs, JobSteps
      <3>2. [worker[r] EXCEPT ![w] = Failed(@, aborted[run[r].of])] = [worker[r] EXCEPT ![w] = j]
        BY <1>1
      <3> QED
        BY <2>1, <3>1, <3>2 DEF PartFails
    <2>2. CASE Retry(r, w)
      <3> DEFINE j == IF aborted[run[r].of] THEN [worker[r][w] EXCEPT !.step = "failed"]
                      ELSE [worker[r][w] EXCEPT !.step = "presigning",
                                                !.attempt = worker[r][w].attempt + 1]
      <3>1. j \in Jobs /\ j.step # "stored" /\ j.part = worker[r][w].part
        <4>1. worker[r][w].attempt + 1 \in Nat
          BY <1>2 DEF Jobs
        <4> QED
          BY <1>2, <4>1 DEF Jobs, JobSteps
      <3>2. [worker[r] EXCEPT ![w] = IF aborted[run[r].of] THEN [@ EXCEPT !.step = "failed"]
                                     ELSE [@ EXCEPT !.step = "presigning",
                                                    !.attempt = worker[r][w].attempt + 1]]
            = [worker[r] EXCEPT ![w] = j]
        BY <1>1
      <3>3. Progress(r, run[r].parts, run[r].todo,
                [worker[r] EXCEPT ![w] = IF aborted[run[r].of] THEN [@ EXCEPT !.step = "failed"]
                                         ELSE [@ EXCEPT !.step = "presigning",
                                                        !.attempt = worker[r][w].attempt + 1]])
        BY <2>2 DEF Retry
      <3> HIDE DEF j
      <3> QED
        BY <3>1, <3>2, <3>3
    <2> QED
      BY <2>1, <2>2
  <1>5. UNCHANGED <<setup, current, asset, store, late, cache>>
    BY DEF PartFails, Retry
  <1> QED
    BY <1>2, <1>3, <1>4, <1>5, ProgressKeeps

-----------------------------------------------------------------------------
(* The requests of a run.                                                   *)

(* A run takes another step; whatever it was, what is late is all the file. *)
LEMMA StepKeeps ==
  ASSUME PoolInv, NEW r \in Runs, NEW t \in RunSteps \ (NotBegun \cup {"completing"}),
         run' = [run EXCEPT ![r].step = t], UNCHANGED <<setup, current, worker>>, StoresMore,
         cache' \in {cache, NoCache}, late' \subseteq late \cup {r},
         t \in HasSession => run[r].session \in Sessions,
         r \in late' /\ setup.size = "large" =>
             t \in {"failed", "gone"} /\ run[r].parts = Parts /\ run[r].session \in Sessions
  PROVE  PoolInv'
  <1> DEFINE v == [run[r] EXCEPT !.step = t]
  <1>1. run[r] \in RunStates /\ worker[r] \in [Workers -> Jobs] /\ late \subseteq Runs
        /\ RunIsSound(run[r], worker[r], store, setup.size = "large" /\ r \in late)
        /\ worker = [worker EXCEPT ![r] = worker[r]] /\ run \in [Runs -> RunStates]
    BY DEF PoolInv, PoolTypes, RunsAreSound
  <1>2. v \in RunStates /\ v.step = t /\ v.session = run[r].session /\ v.parts = run[r].parts
    BY <1>1 DEF RunStates
  <1>3. run' = [run EXCEPT ![r] = v]
    BY <1>1
  <1> HIDE DEF v
  <1>4. RunIsSound(run[r], worker[r], store', setup.size = "large" /\ r \in late)
    BY <1>1, StoringHarmsNoRun DEF StoresMore
  <1>5. RunIsSound(v, worker[r], store', setup.size = "large" /\ r \in late')
    BY <1>2, <1>4 DEF RunIsSound
  <1>6. current' \in Runs \cup {None} /\ setup' = setup /\ late' \subseteq Runs
        /\ worker' = [worker EXCEPT ![r] = worker[r]]
    BY <1>1 DEF PoolInv, PoolTypes
  <1> QED
    BY <1>1, <1>2, <1>3, <1>5, <1>6, OneRunMoves

LEMMA InitiateKeeps ==
  ASSUME PoolInv, SessionsAreNew, NEW r \in Runs, Initiate(r)
  PROVE  PoolInv'
  <1> DEFINE v == [run[r] EXCEPT !.step = "initiated", !.session = r]
  <1>1. run[r] \in RunStates /\ worker[r] \in [Workers -> Jobs]
        /\ RunIsSound(run[r], worker[r], store, setup.size = "large" /\ r \in late)
        /\ worker = [worker EXCEPT ![r] = worker[r]] /\ run \in [Runs -> RunStates]
        /\ store \in Stores /\ asset \in Assets /\ r \in Sessions
    BY DEF PoolInv, PoolTypes, RunsAreSound, Stores, Assets, Runs, Sessions
  <1>2. run[r].step = "initiating"
    BY DEF Initiate
  <1>3. run[r].parts = {} /\ (\A w \in DOMAIN worker[r] : worker[r][w].step = "done")
        /\ ~(setup.size = "large" /\ r \in late)
    BY <1>1, <1>2 DEF RunIsSound, NotBegun
  <1>4. v \in RunStates /\ v.step = "initiated" /\ v.session = r /\ v.parts = {}
    BY <1>1, <1>3 DEF RunStates, RunSteps, Active
  <1>5. run' = [run EXCEPT ![r] = v] /\ worker' = [worker EXCEPT ![r] = worker[r]]
    BY <1>1 DEF Initiate
  <1>6. StoresMore
    <2>1. WholeAssets /\ store[r].step = "none"
      BY <1>2 DEF PoolInv, SessionsAreNew, Asks
    <2> QED
      BY <1>1, <2>1 DEF Initiate, StoresMore, Stores, Assets, WholeAssets, Countable
  <1> HIDE DEF v
  <1>7. RunIsSound(v, worker[r], store', setup.size = "large" /\ r \in late)
    BY <1>1, <1>3, <1>4 DEF RunIsSound
  <1>8. current' \in Runs \cup {None} /\ UNCHANGED <<setup, cache, late>> /\ late \subseteq Runs
    BY DEF PoolInv, PoolTypes, Initiate
  <1> QED
    BY <1>1, <1>4, <1>5, <1>6, <1>7, <1>8, OneRunMoves

LEMMA InitiatedKeeps ==
  ASSUME PoolInv, NEW r \in Runs, Initiated(r)
  PROVE  PoolInv'
  <1>1. run[r] \in RunStates /\ worker[r] \in [Workers -> Jobs] /\ run[r].step = "initiated"
        /\ RunIsSound(run[r], worker[r], store, setup.size = "large" /\ r \in late)
        /\ worker = [worker EXCEPT ![r] = worker[r]] /\ run \in [Runs -> RunStates]
    BY DEF PoolInv, PoolTypes, RunsAreSound, Initiated
  <1>2. run[r].session \in Sessions /\ run[r].parts = {} /\ ~(setup.size = "large" /\ r \in late)
    BY <1>1 DEF RunIsSound, HasSession, NotBegun
  <1>3. StoresMore
    BY StoresNoLess DEF Initiated
  <1>4. CASE aborted[run[r].of]
    <2> DEFINE v == [run[r] EXCEPT !.step = "failed"]
    <2>1. v \in RunStates /\ v.session = run[r].session /\ v.parts = {} /\ v.step = "failed"
      BY <1>1, <1>2 DEF RunStates, RunSteps
    <2>2. run' = [run EXCEPT ![r] = v] /\ worker' = [worker EXCEPT ![r] = worker[r]]
          /\ cache' = [session |-> v.session, parts |-> v.parts]
      BY <1>1, <1>4, <2>1 DEF Initiated
    <2> HIDE DEF v
    <2>3. RunIsSound(v, worker[r], store', setup.size = "large" /\ r \in late')
      BY <1>1, <1>2, <2>1 DEF RunIsSound, HasSession, NotBegun, Initiated
    <2> QED
      BY <1>1, <1>2, <1>3, <2>1, <2>2, <2>3, OneRunMoves DEF PoolInv, PoolTypes, Initiated
  <1>5. CASE ~aborted[run[r].of]
    <2> DEFINE v == Opened(r, run[r].of, run[r].session, {})
    <2>1. v \in RunStates /\ v.session = run[r].session /\ v.parts = {}
          /\ v.step \in {"completing", "pool"} /\ (v.step = "completing" => v.parts = Parts)
      <3>1. run[r].of \in Nat /\ {} \subseteq Parts
        BY <1>1 DEF RunStates
      <3> QED
        BY <1>2, <3>1, OpenedIsRun
    <2>2. Taken(Parts) \in [Workers -> Jobs]
          /\ \A w \in Workers : /\ Taken(Parts)[w].step # "stored"
                                /\ Taken(Parts)[w].step # "done" => Taken(Parts)[w].part \in Parts
      BY TakenAreJobs
    <2>3. run' = [run EXCEPT ![r] = v] /\ worker' = [worker EXCEPT ![r] = Taken(Parts)]
          /\ cache' = [session |-> v.session, parts |-> v.parts]
      BY <1>5, <2>1 DEF Initiated
    <2> HIDE DEF v
    <2>4. RunIsSound(v, Taken(Parts), store', setup.size = "large" /\ r \in late')
      BY <1>2, <2>1, <2>2 DEF RunIsSound, HasSession, Initiated, NotBegun
    <2> QED
      BY <1>2, <1>3, <2>1, <2>2, <2>3, <2>4, OneRunMoves DEF PoolInv, PoolTypes, Initiated
  <1> QED
    BY <1>4, <1>5

LEMMA PartKeeps ==
  ASSUME PoolInv, NEW r \in Runs, NEW w \in Workers, Presign(r, w) \/ StorePart(r, w)
  PROVE  PoolInv'
  <1> DEFINE ws == worker'[r]
  <1>1. run[r] \in RunStates /\ worker[r] \in [Workers -> Jobs] /\ worker[r][w] \in Jobs
        /\ RunIsSound(run[r], worker[r], store, setup.size = "large" /\ r \in late)
        /\ worker[r][w].step # "done" /\ run[r].session \in Sessions /\ worker[r][w].part \in Parts
        /\ run[r].step \notin NotBegun
    BY SoundRun DEF Presign, StorePart
  <1>2. PICK t \in {"putting", "stored"} :
            /\ worker' = [worker EXCEPT ![r][w].step = t]
            /\ t = "stored" => /\ store[run[r].session].step = "open"
                               /\ store' = [store EXCEPT ![run[r].session].parts =
                                               @ \cup {worker[r][w].part}]
            /\ t = "putting" => store' = store
    BY DEF Presign, StorePart
  <1>3. ws = [worker[r] EXCEPT ![w] = [worker[r][w] EXCEPT !.step = t]]
        /\ worker' = [worker EXCEPT ![r] = ws]
    BY <1>2 DEF PoolInv, PoolTypes
  <1>4. [worker[r][w] EXCEPT !.step = t] \in Jobs
    BY <1>1 DEF Jobs, JobSteps
  <1>5. ws \in [Workers -> Jobs] /\ ws[w].part = worker[r][w].part /\ ws[w].step = t
        /\ \A x \in Workers : x # w => ws[x] = worker[r][x]
    BY <1>1, <1>3, <1>4 DEF Jobs
  <1>6. StoresMore /\ (t = "stored" => worker[r][w].part \in Countable(store'[run[r].session]))
    <2>1. store \in Stores /\ asset' \in Assets /\ WholeAssets
      BY DEF PoolInv, PoolTypes, Stores, Assets, Presign, StorePart
    <2>2. CASE t = "putting"
      BY <1>2, <2>1, <2>2 DEF StoresMore, Stores, WholeAssets
    <2>3. CASE t = "stored"
      BY <1>1, <1>2, <2>1, <2>3 DEF StoresMore, Stores, WholeAssets, Countable
    <2> QED
      BY <2>2, <2>3
  <1>7. RunIsSound(run[r], worker[r], store', setup.size = "large" /\ r \in late)
    BY <1>1, <1>6, StoringHarmsNoRun DEF StoresMore
  <1> HIDE DEF ws
  <1>8. RunIsSound(run[r], ws, store', setup.size = "large" /\ r \in late)
    <2>1. ASSUME NEW x \in Workers
          PROVE  /\ ws[x].step # "done" => ws[x].part \in Parts /\ run[r].session \in Sessions
                 /\ ws[x].step = "stored" => ws[x].part \in Countable(store'[run[r].session])
      <3>1. CASE x = w
        BY <1>1, <1>5, <1>6, <3>1
      <3>2. CASE x # w
        <4>1. x \in DOMAIN worker[r] /\ ws[x] = worker[r][x]
          BY <1>1, <1>5, <3>2
        <4> QED
          BY <1>7, <4>1 DEF RunIsSound
      <3> QED
        BY <3>1, <3>2
    <2>2. DOMAIN ws = Workers
      BY <1>5
    <2> QED
      BY <1>1, <1>7, <2>1, <2>2 DEF RunIsSound
  <1>9. run' = [run EXCEPT ![r] = run[r]] /\ UNCHANGED <<setup, current, cache, late>>
    BY DEF Presign, StorePart, PoolInv, PoolTypes
  <1> QED
    BY <1>1, <1>3, <1>5, <1>6, <1>8, <1>9, OneRunMoves DEF PoolInv, PoolTypes

LEMMA JoinStoresMore ==
  ASSUME PoolInv, NEW s \in Sessions, Joinable(s, Parts), Join(s, Parts)
  PROVE  StoresMore
  <1>1. store \in Stores /\ asset \in Assets /\ WholeAssets
    BY DEF PoolInv, PoolTypes, Stores, Assets
  <1>2. store[s].parts = Parts
    BY <1>1 DEF Joinable, Stores
  <1> QED
    BY <1>1, <1>2 DEF Join, Joinable, StoresMore, Stores, Assets, WholeAssets, Countable

LEMMA CompleteKeeps ==
  ASSUME PoolInv, setup.size = "large", NEW r \in Runs, Complete(r)
  PROVE  PoolInv'
  <1>1. RunIsSound(run[r], worker[r], store, setup.size = "large" /\ r \in late)
        /\ run[r].step = "completing"
    BY DEF PoolInv, RunsAreSound, Complete
  <1>2. run[r].session \in Sessions /\ run[r].parts = Parts /\ r \notin late
    BY <1>1 DEF RunIsSound, HasSession
  <1>3. PICK t \in {"completed", "refused"} : run' = [run EXCEPT ![r].step = t]
    BY DEF Complete
  <1>4. StoresMore
    <2>1. CASE Joinable(run[r].session, run[r].parts)
      BY <1>2, <2>1, JoinStoresMore DEF Complete
    <2>2. CASE ~Joinable(run[r].session, run[r].parts)
      BY <2>2, StoresNoLess DEF Complete
    <2> QED
      BY <2>1, <2>2
  <1>5. t \in RunSteps \ (NotBegun \cup {"completing"})
    BY DEF RunSteps, Active, NotBegun
  <1>6. UNCHANGED <<setup, current, worker, cache, late>>
    BY DEF Complete
  <1> QED
    BY <1>2, <1>3, <1>4, <1>5, <1>6, StepKeeps

LEMMA EndKeeps ==
  ASSUME PoolInv, setup.size = "large", NEW r \in Runs,
         InitiateFails(r) \/ Completed(r) \/ CompleteFails(r) \/ Stacked(r)
  PROVE  PoolInv'
  <1>1. RunIsSound(run[r], worker[r], store, setup.size = "large" /\ r \in late)
    BY DEF PoolInv, RunsAreSound
  <1>2. StoresMore
    BY StoresNoLess DEF InitiateFails, Completed, CompleteFails, Stacked
  <1>3. UNCHANGED <<setup, current, worker>> /\ cache' \in {cache, NoCache}
    BY DEF InitiateFails, Completed, CompleteFails, Stacked
  <1>4. r \notin late
    BY <1>1 DEF RunIsSound, InitiateFails, Completed, CompleteFails, Stacked
  <1>5. PICK t \in {"failed", "over", "stacking"} :
            /\ run' = [run EXCEPT ![r].step = t]
            /\ t = "stacking" => Completed(r)
            /\ \/ late' = late
               \/ t = "failed" /\ run[r].step = "completing" /\ late' = late \cup {r}
    BY DEF InitiateFails, Completed, CompleteFails, Stacked
  <1>6. t \in RunSteps \ (NotBegun \cup {"completing"})
    BY DEF RunSteps, Active, NotBegun
  <1>7. t \in HasSession => run[r].session \in Sessions
    BY <1>1, <1>5 DEF HasSession, RunIsSound, Completed
  <1>8. r \in late' => t = "failed" /\ run[r].parts = Parts /\ run[r].session \in Sessions
    BY <1>1, <1>4, <1>5 DEF RunIsSound, HasSession
  <1> QED
    BY <1>2, <1>3, <1>5, <1>6, <1>7, <1>8, StepKeeps

(* What reaches the server late or aborts a session changes no run; of a    *)
(* dropped session the runs may count what they like.                       *)
LEMMA ServerKeeps ==
  ASSUME PoolInv, setup.size = "large", NEW r \in Runs, CompleteLate(r) \/ AbortArrives(r)
  PROVE  PoolInv'
  <1>1. run[r] \in RunStates /\ worker[r] \in [Workers -> Jobs] /\ late \subseteq Runs
        /\ RunIsSound(run[r], worker[r], store, setup.size = "large" /\ r \in late)
        /\ store \in Stores /\ asset \in Assets /\ WholeAssets
    BY DEF PoolInv, PoolTypes, RunsAreSound, Stores, Assets
  <1>2. StoresMore
    <2>1. CASE CompleteLate(r)
      <3>1. run[r].parts = Parts /\ run[r].session \in Sessions
        BY <1>1, <2>1 DEF CompleteLate, RunIsSound
      <3>2. CASE Joinable(run[r].session, run[r].parts)
        BY <2>1, <3>1, <3>2, JoinStoresMore DEF CompleteLate
      <3>3. CASE ~Joinable(run[r].session, run[r].parts)
        BY <2>1, <3>3, StoresNoLess DEF CompleteLate
      <3> QED
        BY <3>2, <3>3
    <2>2. CASE AbortArrives(r)
      <3> DEFINE s == ending[r].session
      <3>1. CASE asset' = asset /\ store' = store
        BY <3>1, StoresNoLess
      <3>2. CASE /\ store' = [store EXCEPT ![s] = IF @.step = "open" THEN Dropped ELSE @]
                 /\ asset' = [asset EXCEPT ![s] = "deleted"]
        <4>1. \A q \in Sessions : \/ store'[q] = store[q]
                                  \/ store'[q] = Dropped
          BY <1>1, <3>2 DEF Stores
        <4>2. store' \in Stores /\ asset' \in Assets
          BY <1>1, <3>2 DEF Stores, Assets, Dropped
        <4>3. \A q \in Sessions : Countable(store[q]) \subseteq Parts
          BY <1>1 DEF Stores, Countable
        <4> QED
          BY <1>1, <4>1, <4>2, <4>3 DEF StoresMore, WholeAssets, Countable, Dropped
      <3> QED
        BY <2>2, <3>1, <3>2 DEF AbortArrives
    <2> QED
      BY <2>1, <2>2
  <1>3. /\ UNCHANGED <<setup, current, cache>> /\ late' \subseteq late
        /\ run' = [run EXCEPT ![r] = run[r]] /\ worker' = [worker EXCEPT ![r] = worker[r]]
    BY DEF CompleteLate, AbortArrives, PoolInv, PoolTypes
  <1>4. RunIsSound(run[r], worker[r], store', setup.size = "large" /\ r \in late)
    BY <1>1, <1>2, StoringHarmsNoRun DEF StoresMore
  <1>5. RunIsSound(run[r], worker[r], store', setup.size = "large" /\ r \in late')
    BY <1>3, <1>4 DEF RunIsSound
  <1> QED
    BY <1>1, <1>2, <1>3, <1>5, OneRunMoves DEF PoolInv, PoolTypes

LEMMA ReloadKeeps ==
  ASSUME PoolInv, setup.size = "large", Reload
  PROVE  PoolInv'
  <1> USE DEF PoolInv
  <1>1. PoolTypes'
    <2>1. run' \in [Runs -> RunStates]
      <3>1. NoRun \in RunStates
        BY DEF NoRun, RunStates, RunSteps, None
      <3>2. \A r \in Runs : [run[r] EXCEPT !.step = "gone"] \in RunStates
        BY ZenonT(40) DEF PoolTypes, RunStates, RunSteps
      <3> QED
        BY <3>1, <3>2 DEF Reload
    <2>2. worker' \in [Runs -> [Workers -> Jobs]]
      BY DEF Reload, NoWorker, Jobs, JobSteps
    <2> QED
      BY <2>1, <2>2 DEF Reload, PoolTypes, Workers, None
  <1>2. ASSUME NEW r \in Runs
        PROVE  RunIsSound(run'[r], worker'[r], store, setup.size = "large" /\ r \in late')
    <2>1. RunIsSound(run[r], worker[r], store, setup.size = "large" /\ r \in late) /\ run[r] \in RunStates
      BY DEF RunsAreSound, PoolTypes
    <2>2. worker'[r] = [w \in Workers |-> NoWorker]
      BY DEF Reload
    <2>3. CASE run[r].step = "unused"
      <3>1. run'[r] = NoRun
        BY <2>3 DEF Reload
      <3>2. r \notin late'
        BY <2>1, <2>3 DEF Reload, RunIsSound
      <3> QED
        BY <2>2, <3>1, <3>2 DEF RunIsSound, NoRun, NoWorker, HasSession, None
    <2>4. CASE run[r].step # "unused"
      <3>1. run'[r] = [run[r] EXCEPT !.step = "gone"]
        BY <2>4 DEF Reload
      <3>2. r \in late' => r \in late \/ run[r].step = "completing"
        BY DEF Reload
      <3> QED
        BY <2>1, <2>2, <3>1, <3>2 DEF RunIsSound, NoWorker, HasSession, NotBegun, RunStates
    <2> QED
      BY <2>3, <2>4
  <1>3. RunsAreSound'
    BY <1>2 DEF RunsAreSound, Reload
  <1> QED
    BY <1>1, <1>3 DEF KeptIsStored, WholeAssets, Reload

-----------------------------------------------------------------------------
(* All steps together.                                                      *)

LEMMA FrameKeeps ==
  ASSUME PoolInv, UNCHANGED <<setup, current, run, worker, asset, store>>,
         cache' \in {cache, NoCache}, late' \subseteq Runs, late' = late \/ setup.size # "large"
  PROVE  PoolInv'
  <1>1. PoolTypes'
    BY DEF PoolInv, PoolTypes, Workers, NoCache, None
  <1>2. RunsAreSound'
    <2>1. setup.size = "large" => late' = late
      OBVIOUS
    <2> QED
      BY <2>1 DEF PoolInv, RunsAreSound, RunIsSound
  <1> QED
    BY <1>1, <1>2 DEF PoolInv, KeptIsStored, WholeAssets, NoCache, None

LEMMA LargeKeeps == PoolInv /\ SessionsAreNew /\ setup.size = "large" /\ Next => PoolInv'
  <1> SUFFICES ASSUME PoolInv, SessionsAreNew, setup.size = "large", Next PROVE PoolInv'
    OBVIOUS
  <1>t. current \in Runs \cup {None} /\ late \subseteq Runs
    BY DEF PoolInv, PoolTypes
  <1>1. CASE Choose
    BY <1>1, <1>t, FrameKeeps DEF Choose
  <1>2. CASE Pause
    BY <1>2, <1>t, CutOffKeeps DEF Pause
  <1>3. CASE Close \/ CloseItself
    <2>1. Reset /\ UNCHANGED <<setup, cache, asset, store, late>> /\ current' \in Runs \cup {None}
      <3>1. Reset /\ UNCHANGED <<setup, cache, asset, store, late>>
        BY <1>3 DEF Close, CloseItself
      <3> QED
        BY <3>1 DEF Reset
    <2>2. CASE current = None
      <3>1. UNCHANGED <<run, worker>> /\ current' = current
        BY <2>1, <2>2 DEF Reset
      <3> QED
        BY <1>t, <2>1, <3>1, FrameKeeps
    <2>3. CASE current # None
      BY <2>1, <2>3, CutOffKeeps DEF Reset
    <2> QED
      BY <2>2, <2>3
  <1>4. CASE Reload
    BY <1>4, ReloadKeeps
  <1>5. CASE Expire
    BY <1>5, <1>t, FrameKeeps DEF Expire
  <1>6. ASSUME NEW r \in Runs, Start(r) PROVE PoolInv'
    BY <1>6, BeginKeeps DEF Start, Runs
  <1>7. ASSUME NEW r \in Runs, Resume(r) PROVE PoolInv'
    BY <1>7, <1>t, BeginKeeps DEF Resume, Runs, None
  <1>8. ASSUME NEW r \in Runs, CompleteLate(r) \/ AbortArrives(r) PROVE PoolInv'
    BY <1>8, ServerKeeps
  <1>9. ASSUME NEW r \in Runs, Goes(r) PROVE PoolInv'
    <2>1. CASE Initiate(r) \/ Initiated(r)
      BY <2>1, InitiateKeeps, InitiatedKeeps
    <2>2. CASE InitiateFails(r) \/ Completed(r) \/ CompleteFails(r) \/ Stacked(r)
      BY <2>2, EndKeeps
    <2>3. ASSUME NEW w \in Workers, Presign(r, w) \/ StorePart(r, w) PROVE PoolInv'
      BY <2>3, PartKeeps
    <2>4. ASSUME NEW w \in Workers, PartDone(r, w) PROVE PoolInv'
      BY <2>4, PartDoneKeeps
    <2>5. ASSUME NEW w \in Workers, PartFails(r, w) \/ Retry(r, w) PROVE PoolInv'
      BY <2>5, PartFailsKeeps
    <2>6. CASE Complete(r)
      BY <2>6, CompleteKeeps
    <2>7. CASE AbortAnswered(r)
      BY <2>7, <1>t, FrameKeeps DEF AbortAnswered
    <2> QED
      BY <1>9, <2>1, <2>2, <2>3, <2>4, <2>5, <2>6, <2>7 DEF Goes
  <1> QED
    BY <1>1, <1>2, <1>3, <1>4, <1>5, <1>6, <1>7, <1>8, <1>9 DEF Next

(* Nothing is stored in, joined to or dropped from a session that does not  *)
(* exist.                                                                   *)
LEMMA SessionsStayNew == PoolInv /\ SessionsAreNew /\ Next => SessionsAreNew'
  <1> SUFFICES ASSUME PoolInv, SessionsAreNew, Next, NEW r \in Runs, Asks(run'[r])
               PROVE  store'[r].step = "none" /\ asset'[r] = "none"
    BY DEF SessionsAreNew
  <1>t. /\ run \in [Runs -> RunStates] /\ store \in Stores /\ asset \in Assets
        /\ r \in Sessions /\ Runs = Sessions
    BY DEF PoolInv, PoolTypes, Stores, Assets, Runs, Sessions
  <1>s. Asks(run[r]) => store[r].step = "none" /\ asset[r] = "none"
    BY DEF SessionsAreNew
  <1>1. ASSUME UNCHANGED <<store, asset>>, Asks(run'[r]) => Asks(run[r])
        PROVE  store'[r].step = "none" /\ asset'[r] = "none"
    BY <1>s, <1>1
  <1>2. CASE Choose \/ Expire
    BY <1>1, <1>2 DEF Choose, Expire
  <1>3. CASE Pause \/ Close \/ CloseItself
    <2>1. UNCHANGED <<store, asset>>
      BY <1>3 DEF Pause, Close, CloseItself
    <2>2. run' = run \/ \E u, a, shown : CutOff(u, a, shown)
      BY <1>3 DEF Pause, Close, CloseItself, Reset
    <2>3. run'[r].step \in {run[r].step, "failed"}
      BY <1>t, <2>2 DEF CutOff, RunStates
    <2> QED
      BY <1>1, <2>1, <2>3 DEF Asks
  <1>4. CASE Reload
    <2>1. run'[r].step = "gone" \/ run[r].step = "unused"
      BY <1>t, <1>4 DEF Reload, RunStates
    <2> QED
      BY <1>1, <1>4, <2>1 DEF Reload, Asks
  <1>5. ASSUME NEW q \in Runs, Start(q) \/ Resume(q)
        PROVE  store'[r].step = "none" /\ asset'[r] = "none"
    <2>1. PICK u : Begin(q, u)
      BY <1>5 DEF Start, Resume
    <2>2. run'[r] = run[r] \/ run[r].step = "unused"
      BY <1>t, <2>1 DEF Begin
    <2> QED
      BY <1>1, <1>5, <2>2 DEF Start, Resume, Asks
  <1>6. ASSUME NEW q \in Runs, CompleteLate(q) \/ AbortArrives(q) \/ Complete(q)
        PROVE  store'[r].step = "none" /\ asset'[r] = "none"
    <2>1. Asks(run[r])
      BY <1>t, <1>6 DEF CompleteLate, AbortArrives, Complete, Asks, RunStates
    <2>2. PICK s : \/ UNCHANGED <<store, asset>>
                   \/ Join(s, run[q].parts)
                   \/ /\ asset[s] \in {"draft", "ready"}
                      /\ store' = [store EXCEPT ![s] = IF @.step = "open" THEN Dropped ELSE @]
                      /\ asset' = [asset EXCEPT ![s] = "deleted"]
      BY <1>6 DEF CompleteLate, AbortArrives, Complete
    <2>3. CASE UNCHANGED <<store, asset>>
      BY <1>s, <2>1, <2>3
    <2>4. CASE asset[s] \in {"draft", "ready"} /\ ~UNCHANGED <<store, asset>>
      <3>1. s # r
        BY <1>s, <2>1, <2>4
      <3>2. store'[r] = store[r] /\ asset'[r] = asset[r]
        BY <1>t, <2>2, <2>4, <3>1 DEF Join, Stores, Assets
      <3> QED
        BY <1>s, <2>1, <3>2
    <2> QED
      BY <2>2, <2>3, <2>4 DEF Join
  <1>7. ASSUME NEW q \in Runs, Goes(q)
        PROVE  store'[r].step = "none" /\ asset'[r] = "none"
    <2>1. CASE Initiate(q)
      <3>1. q # r
        BY <1>t, <2>1 DEF Initiate, Asks, RunStates
      <3>2. run'[r] = run[r] /\ store'[r] = store[r] /\ asset'[r] = asset[r]
        BY <1>t, <2>1, <3>1 DEF Initiate, Stores, Assets
      <3> QED
        BY <1>s, <3>2
    <2>2. CASE Initiated(q)
      <3>1. run'[r].step \in {run[r].step, "failed", "pool", "completing"}
        BY <1>t, <2>2 DEF Initiated, Opened, RunStates
      <3> QED
        BY <1>1, <2>2, <3>1 DEF Initiated, Asks
    <2>3. CASE InitiateFails(q) \/ Completed(q) \/ CompleteFails(q) \/ Stacked(q)
      <3>1. run'[r].step \in {run[r].step, "failed", "stacking", "over"}
        BY <1>t, <2>3 DEF InitiateFails, Completed, CompleteFails, Stacked, RunStates
      <3> QED
        BY <1>1, <2>3, <3>1 DEF InitiateFails, Completed, CompleteFails, Stacked, Asks
    <2>4. ASSUME NEW w \in Workers, Presign(q, w) \/ StorePart(q, w)
          PROVE  store'[r].step = "none" /\ asset'[r] = "none"
      <3>1. store'[r].step = store[r].step /\ UNCHANGED <<run, asset>>
        BY <1>t, <2>4 DEF Presign, StorePart, Stores
      <3> QED
        BY <1>s, <3>1
    <2>5. ASSUME NEW w \in Workers, PartDone(q, w) \/ PartFails(q, w) \/ Retry(q, w)
          PROVE  store'[r].step = "none" /\ asset'[r] = "none"
      <3>1. PICK parts, todo, ws : Progress(q, parts, todo, ws)
        BY <2>5 DEF PartDone, PartFails, Retry
      <3>2. run'[r].step \in {run[r].step, "failed", "pool", "completing"}
        BY <1>t, <3>1 DEF Progress, Pooled, RunStates
      <3> QED
        BY <1>1, <2>5, <3>2 DEF PartDone, PartFails, Retry, Asks
    <2>6. CASE AbortAnswered(q)
      BY <1>1, <2>6 DEF AbortAnswered
    <2> QED
      BY <1>6, <1>7, <2>1, <2>2, <2>3, <2>4, <2>5, <2>6 DEF Goes
  <1> QED
    BY <1>2, <1>3, <1>4, <1>5, <1>6, <1>7 DEF Next

LEMMA SetupStays == Next => setup' = setup
  <1>1. Choose \/ Pause \/ Close \/ CloseItself \/ Reload \/ Expire => setup' = setup
    BY DEF Choose, Pause, Close, CloseItself, Reload, Expire
  <1>2. ASSUME NEW r, Start(r) \/ Resume(r) \/ CompleteLate(r) \/ AbortArrives(r) PROVE setup' = setup
    BY <1>2 DEF Start, Resume, CompleteLate, AbortArrives
  <1>3. ASSUME NEW r, Goes(r) PROVE setup' = setup
    BY <1>3 DEF Goes, Initiate, Initiated, InitiateFails, Presign, StorePart, PartDone, PartFails,
       Retry, Complete, Completed, CompleteFails, Stacked, AbortAnswered
  <1> QED
    BY <1>1, <1>2, <1>3 DEF Next

-----------------------------------------------------------------------------
(* Small uploads.                                                           *)
PutSteps == Sending \cup {"unused", "failed", "over", "gone"}

PutTypes ==
    /\ put \in [Runs -> [step : PutSteps, of : Nat, meta : Nat]]
    /\ media \in [Runs -> [status : {"none", "uploading", "ready"}, of : Nat, meta : Nat,
                           stored : BOOLEAN]]
    /\ chosen \in Nat /\ meta \in Nat /\ xhr \in Runs \cup {None} /\ late \subseteq Runs
    /\ look \in [Files -> [kind : Kinds \cup {"none"},
                           step : {"none", "loading", "seeking", "drawing", "settled"}]]

(* The dialog and the uploads hold no metadata of a file that was chosen    *)
(* later, for no such file is read yet.                                     *)
NothingLater ==
    /\ meta <= chosen
    /\ \A f \in Files : look[f].step # "none" => f <= chosen
    /\ \A r \in Runs : put[r].meta <= put[r].of

(* The file is stored before the client says so, now or late.               *)
SentIsStored == \A r \in Runs :
    /\ put[r].step \in {"stored", "completing"} => media[r].stored
    /\ setup.size = "small" /\ r \in late => /\ put[r].step \in {"failed", "gone"}
                                            /\ media[r].stored

PutInv == PutTypes /\ NothingLater /\ SentIsStored /\ CompletedIsStored /\ MetaIsNotLater

LEMMA PutInit == DialogInit => PutInv
  BY DEF DialogInit, Init, PutInv, PutTypes, NothingLater, SentIsStored, CompletedIsStored,
     MetaIsNotLater, NoPut, NoRow, NoLook, PutSteps, None

(* Choosing and reading files.                                              *)
LEMMA ReadingKeeps ==
  ASSUME PutInv, UNCHANGED <<setup, late, put, xhr, media>>, chosen' \in Nat, meta' \in Nat,
         chosen <= chosen', meta' <= chosen',
         look' \in [Files -> [kind : Kinds \cup {"none"},
                              step : {"none", "loading", "seeking", "drawing", "settled"}]],
         \A f \in Files : look'[f].step # "none" => f <= chosen'
  PROVE  PutInv'
  BY DEF PutInv, PutTypes, NothingLater, SentIsStored, CompletedIsStored, MetaIsNotLater

LEMMA ChooseKeeps ==
  ASSUME PutInv, PoolInv, ChooseFile
  PROVE  PutInv'
  <1>1. chosen + 1 \in Files
    BY DialogAssumption DEF ChooseFile, PoolInv, PoolTypes, PutInv, PutTypes, Files
  <1>2. PICK k \in Kinds : look' = [look EXCEPT ![chosen + 1] = [kind |-> k, step |-> "loading"]]
    BY DEF ChooseFile
  <1>3. look' \in [Files -> [kind : Kinds \cup {"none"},
                              step : {"none", "loading", "seeking", "drawing", "settled"}]]
    BY <1>2 DEF PutInv, PutTypes
  <1>4. \A f \in Files : look'[f].step # "none" => f <= chosen + 1
    BY <1>1, <1>2 DEF PutInv, PutTypes, NothingLater, Files
  <1>5. chosen' = chosen + 1 /\ meta' = meta /\ meta <= chosen /\ chosen \in Nat /\ meta \in Nat
    BY DEF ChooseFile, PutInv, PutTypes, NothingLater
  <1>6. UNCHANGED <<setup, late, put, xhr, media>>
    BY DEF ChooseFile, pool
  <1> QED
    BY <1>3, <1>4, <1>5, <1>6, ReadingKeeps

LEMMA ReadKeeps ==
  ASSUME PutInv, NEW f \in Files,
         ImageLoaded(f) \/ VideoLoaded(f) \/ VideoSeeked(f) \/ Drawn(f) \/ Unreadable(f)
             \/ ReadingTimesOut(f)
  PROVE  PutInv'
  <1> USE DEF ImageLoaded, VideoLoaded, VideoSeeked, Drawn, Unreadable, ReadingTimesOut
  <1>1. look[f].step # "none" /\ UNCHANGED <<vars, chosen, put, xhr, media>>
    BY DEF vars
  <1>2. PICK t \in {"seeking", "drawing", "settled"} :
            look' = [look EXCEPT ![f].step = t] /\ meta' \in {meta, f, None}
    BY DEF Settle, Reads
  <1>3. f <= chosen /\ f \in Nat /\ meta <= chosen /\ meta \in Nat /\ chosen \in Nat
    BY <1>1 DEF PutInv, PutTypes, NothingLater, Files
  <1>4. look' \in [Files -> [kind : Kinds \cup {"none"},
                              step : {"none", "loading", "seeking", "drawing", "settled"}]]
    BY <1>2 DEF PutInv, PutTypes
  <1>5. \A g \in Files : look'[g].step # "none" => g <= chosen
    BY <1>1, <1>2, <1>3 DEF PutInv, PutTypes, NothingLater
  <1>6. UNCHANGED <<setup, late, put, xhr, media, chosen>>
    BY <1>1 DEF vars
  <1> HIDE DEF ImageLoaded, VideoLoaded, VideoSeeked, Drawn, Unreadable, ReadingTimesOut
  <1> QED
    BY <1>2, <1>3, <1>4, <1>5, <1>6, ReadingKeeps DEF None

(* One upload takes a step.                                                 *)
LEMMA PutKeeps ==
  ASSUME PutInv, setup.size = "small", NEW r \in Runs, UNCHANGED <<setup, chosen, meta, look>>,
         NEW p \in [step : PutSteps, of : Nat, meta : Nat],
         NEW m \in [status : {"none", "uploading", "ready"}, of : Nat, meta : Nat, stored : BOOLEAN],
         put' = [put EXCEPT ![r] = p], media' = [media EXCEPT ![r] = m],
         xhr' \in Runs \cup {None}, late' \subseteq late \cup {r},
         p.meta <= p.of, m.meta <= m.of, m.status = "ready" => m.stored,
         p.step \in {"stored", "completing"} => m.stored,
         r \in late' => p.step \in {"failed", "gone"} /\ m.stored
  PROVE  PutInv'
  <1>1. PutTypes'
    BY DEF PutInv, PutTypes
  <1>2. put'[r] = p /\ media'[r] = m
        /\ \A q \in Runs : q # r => /\ put'[q] = put[q] /\ media'[q] = media[q]
                                    /\ q \in late' => q \in late
    BY DEF PutInv, PutTypes
  <1>3. NothingLater' /\ SentIsStored'
    BY <1>2 DEF PutInv, NothingLater, SentIsStored
  <1>4. CompletedIsStored' /\ MetaIsNotLater'
    BY <1>2 DEF PutInv, CompletedIsStored, MetaIsNotLater
  <1> QED
    BY <1>1, <1>3, <1>4 DEF PutInv

LEMMA PutStepKeeps ==
  ASSUME PutInv, setup.size = "small", NEW r \in Runs,
         \/ StartPut(r) \/ PresignPut(r) \/ PutPresigned(r) \/ ThumbnailTried(r) \/ StoreFile(r)
         \/ FileStored(r) \/ PutFails(r) \/ CompletePut(r) \/ PutCompleted(r)
         \/ CompletePutFails(r) \/ PutStacked(r) \/ CompletePutLate(r)
  PROVE  PutInv'
  <1>1. /\ put[r] \in [step : PutSteps, of : Nat, meta : Nat]
        /\ media[r] \in [status : {"none", "uploading", "ready"}, of : Nat, meta : Nat,
                         stored : BOOLEAN]
        /\ put[r].meta <= put[r].of /\ media[r].meta <= media[r].of
        /\ media[r].status = "ready" => media[r].stored
        /\ put[r].step \in {"stored", "completing"} => media[r].stored
        /\ r \in late => put[r].step \in {"failed", "gone"} /\ media[r].stored
        /\ xhr \in Runs \cup {None} /\ late \subseteq Runs
        /\ chosen \in Nat /\ meta \in Nat /\ meta <= chosen
    BY DEF PutInv, PutTypes, NothingLater, SentIsStored, CompletedIsStored, MetaIsNotLater
  <1>2. put = [put EXCEPT ![r] = put[r]] /\ media = [media EXCEPT ![r] = media[r]]
        /\ put \in [Runs -> [step : PutSteps, of : Nat, meta : Nat]]
    BY DEF PutInv, PutTypes
  <1>3. UNCHANGED <<setup, chosen, meta, look>>
    BY DEF StartPut, PresignPut, PutPresigned, ThumbnailTried, StoreFile, FileStored, PutFails,
       CompletePut, PutCompleted, CompletePutFails, PutStacked, CompletePutLate, pool
  <1>4. CASE StartPut(r)
    <2> DEFINE p == [step |-> "presigning", of |-> chosen, meta |-> meta]
    <2>1. /\ p \in [step : PutSteps, of : Nat, meta : Nat] /\ r \notin late
          /\ p.step = "presigning" /\ p.meta <= p.of
      BY <1>1, <1>4 DEF PutSteps, Sending, StartPut
    <2>2. put' = [put EXCEPT ![r] = p] /\ UNCHANGED <<media, xhr, late>>
      BY <1>4 DEF StartPut
    <2> HIDE DEF p
    <2> QED
      BY <1>1, <1>2, <1>3, <2>1, <2>2, PutKeeps, ZenonT(40)
  <1>5. CASE PresignPut(r)
    <2> DEFINE p == [put[r] EXCEPT !.step = "presigned"]
               m == [status |-> "uploading", of |-> put[r].of, meta |-> put[r].meta,
                     stored |-> FALSE]
    <2>1. /\ p \in [step : PutSteps, of : Nat, meta : Nat] /\ r \notin late /\ p.meta <= p.of
          /\ p.step = "presigned"
          /\ m \in [status : {"none", "uploading", "ready"}, of : Nat, meta : Nat, stored : BOOLEAN]
          /\ m.meta <= m.of /\ m.status = "uploading"
      BY <1>1, <1>5 DEF PutSteps, Sending, PresignPut
    <2>2. put' = [put EXCEPT ![r] = p] /\ media' = [media EXCEPT ![r] = m] /\ UNCHANGED <<xhr, late>>
      BY <1>5 DEF PresignPut
    <2> HIDE DEF p, m
    <2> QED
      BY <1>1, <1>3, <2>1, <2>2, PutKeeps
  <1>6. CASE PutPresigned(r) \/ ThumbnailTried(r) \/ PutCompleted(r) \/ PutStacked(r)
    <2>1. PICK t \in {"thumbnail", "sending", "stacking", "over", "failed"} :
              put' = [put EXCEPT ![r].step = t]
      BY <1>6 DEF PutPresigned, ThumbnailTried, Send, PutCompleted, PutStacked
    <2> DEFINE p == [put[r] EXCEPT !.step = t]
    <2>2. p \in [step : PutSteps, of : Nat, meta : Nat] /\ p.meta <= p.of /\ p.step = t
      BY <1>1 DEF PutSteps, Sending
    <2>3. put' = [put EXCEPT ![r] = p] /\ media' = [media EXCEPT ![r] = media[r]] /\ late' = late
          /\ xhr' \in Runs \cup {None} /\ r \notin late
      BY <1>1, <1>2, <1>6, <2>1 DEF PutPresigned, ThumbnailTried, Send, PutCompleted, PutStacked
    <2> HIDE DEF p
    <2> QED
      BY <1>1, <1>3, <2>2, <2>3, PutKeeps
  <1>7. CASE StoreFile(r)
    <2> DEFINE p == [put[r] EXCEPT !.step = "stored"]
               m == [media[r] EXCEPT !.stored = TRUE]
    <2>1. /\ p \in [step : PutSteps, of : Nat, meta : Nat] /\ r \notin late /\ p.meta <= p.of
          /\ m \in [status : {"none", "uploading", "ready"}, of : Nat, meta : Nat, stored : BOOLEAN]
          /\ m.meta <= m.of /\ m.stored
      BY <1>1, <1>7 DEF PutSteps, Sending, StoreFile
    <2>2. put' = [put EXCEPT ![r] = p] /\ media' = [media EXCEPT ![r] = m] /\ UNCHANGED <<xhr, late>>
      BY <1>7, <1>2 DEF StoreFile, PutInv, PutTypes
    <2> HIDE DEF p, m
    <2> QED
      BY <1>1, <1>3, <2>1, <2>2, PutKeeps
  <1>8. CASE FileStored(r)
    <2> DEFINE p == [put[r] EXCEPT !.step = "completing"]
    <2>1. p \in [step : PutSteps, of : Nat, meta : Nat] /\ p.meta <= p.of /\ r \notin late
          /\ media[r].stored
      BY <1>1, <1>8 DEF PutSteps, Sending, FileStored
    <2>2. put' = [put EXCEPT ![r] = p] /\ UNCHANGED <<media, late>> /\ xhr' = None
      BY <1>2, <1>8 DEF FileStored
    <2> HIDE DEF p
    <2> QED
      BY <1>1, <1>2, <1>3, <2>1, <2>2, PutKeeps
  <1>9. CASE PutFails(r) \/ CompletePutFails(r)
    <2> DEFINE p == [put[r] EXCEPT !.step = "failed"]
    <2>1. p \in [step : PutSteps, of : Nat, meta : Nat] /\ p.meta <= p.of /\ p.step = "failed"
      BY <1>1 DEF PutSteps, Sending
    <2>2. put' = [put EXCEPT ![r] = p] /\ UNCHANGED media /\ late' \subseteq late \cup {r}
          /\ xhr' \in Runs \cup {None} /\ (r \in late' => media[r].stored)
      BY <1>1, <1>2, <1>9 DEF PutFails, CompletePutFails
    <2> HIDE DEF p
    <2> QED
      BY <1>1, <1>2, <1>3, <2>1, <2>2, PutKeeps
  <1>10. CASE CompletePut(r)
    <2> DEFINE p == [put[r] EXCEPT !.step = "completed"]
               m == [media[r] EXCEPT !.status = "ready"]
    <2>1. /\ p \in [step : PutSteps, of : Nat, meta : Nat] /\ r \notin late /\ p.meta <= p.of
          /\ m \in [status : {"none", "uploading", "ready"}, of : Nat, meta : Nat, stored : BOOLEAN]
          /\ m.meta <= m.of /\ m.stored
      BY <1>1, <1>10 DEF PutSteps, Sending, CompletePut
    <2>2. put' = [put EXCEPT ![r] = p] /\ media' = [media EXCEPT ![r] = m] /\ UNCHANGED <<xhr, late>>
      BY <1>2, <1>10 DEF CompletePut, PutInv, PutTypes
    <2> HIDE DEF p, m
    <2> QED
      BY <1>1, <1>3, <2>1, <2>2, PutKeeps
  <1>11. CASE CompletePutLate(r)
    <2> DEFINE m == [media[r] EXCEPT !.status = "ready"]
    <2>1. /\ m \in [status : {"none", "uploading", "ready"}, of : Nat, meta : Nat, stored : BOOLEAN]
          /\ m.meta <= m.of /\ m.stored /\ r \notin late' /\ late' \subseteq late
      BY <1>1, <1>11 DEF CompletePutLate
    <2>2. media' = [media EXCEPT ![r] = m] /\ UNCHANGED <<xhr, put>>
      BY <1>11 DEF CompletePutLate, PutInv, PutTypes
    <2> HIDE DEF m
    <2> QED
      BY <1>1, <1>2, <1>3, <2>1, <2>2, PutKeeps
  <1> QED
    BY <1>4, <1>5, <1>6, <1>7, <1>8, <1>9, <1>10, <1>11

(* Closing and reloading end uploads, and change nothing that is stored.    *)
LEMMA ClosingKeeps ==
  ASSUME PutInv, setup.size = "small", ClosePut \/ ClosePutItself \/ ReloadPut
  PROVE  PutInv'
  <1>1. UNCHANGED <<setup, chosen, media>> /\ meta' = None /\ xhr' = None
        /\ (look' = look \/ look' = [f \in Files |-> NoLook])
    BY DEF ClosePut, ClosePutItself, ReloadPut, ResetPut, pool
  <1>t. put \in [Runs -> [step : PutSteps, of : Nat, meta : Nat]] /\ late \subseteq Runs
    BY DEF PutInv, PutTypes
  <1>2. ASSUME NEW r \in Runs
        PROVE  /\ \/ put'[r] = put[r] \/ put'[r] = [put[r] EXCEPT !.step = "failed"]
                  \/ put'[r] = [put[r] EXCEPT !.step = "gone"]
               /\ r \in late' => (r \in late \/ (put[r].step = "completing" /\ put'[r].step = "gone"))
    <2>1. CASE ClosePut \/ ClosePutItself
      <3>1. ResetPut /\ late' = late
        BY <2>1 DEF ClosePut, ClosePutItself
      <3>2. put' = put \/ put' = [put EXCEPT ![xhr].step = "failed"]
        BY <3>1 DEF ResetPut
      <3>3. put'[r] = put[r] \/ put'[r] = [put[r] EXCEPT !.step = "failed"]
        BY <1>t, <3>2
      <3> QED
        BY <3>1, <3>3
    <2>2. CASE ReloadPut
      <3>1. put'[r] = IF put[r].step \in Sending THEN [put[r] EXCEPT !.step = "gone"] ELSE put[r]
        BY <2>2 DEF ReloadPut
      <3>2. r \in late' => r \in late \/ put[r].step = "completing"
        BY <2>2 DEF ReloadPut
      <3>3. put[r] \in [step : PutSteps, of : Nat, meta : Nat]
        BY <1>t
      <3>4. put[r].step = "completing" => put'[r].step = "gone"
        BY <3>1, <3>3 DEF Sending
      <3> QED
        BY <3>1, <3>2, <3>4
    <2> QED
      BY <2>1, <2>2
  <1>p. ASSUME NEW r \in Runs
        PROVE  /\ put'[r] \in [step : PutSteps, of : Nat, meta : Nat]
               /\ put'[r].of = put[r].of /\ put'[r].meta = put[r].meta
               /\ put'[r].step = put[r].step \/ put'[r].step \in {"failed", "gone"}
    <2>1. put[r] \in [step : PutSteps, of : Nat, meta : Nat]
      BY <1>t
    <2> QED
      BY <1>2, <2>1 DEF PutSteps
  <1>3. put' \in [Runs -> [step : PutSteps, of : Nat, meta : Nat]]
    <2>1. \/ put' = put \/ put' = [put EXCEPT ![xhr].step = "failed"]
          \/ put' = [r \in Runs |-> put'[r]]
      BY DEF ClosePut, ClosePutItself, ReloadPut, ResetPut
    <2>2. put' = [r \in Runs |-> put'[r]]
      BY <1>t, <2>1
    <2> QED
      BY <2>2, <1>p
  <1>4. late' \subseteq Runs
    BY DEF ClosePut, ClosePutItself, ReloadPut, PutInv, PutTypes
  <1>5. PutTypes'
    BY <1>1, <1>3, <1>4 DEF PutInv, PutTypes, NoLook, None
  <1>6. NothingLater'
    BY <1>1, <1>p DEF PutInv, PutTypes, NothingLater, NoLook, None
  <1>7. SentIsStored'
    <2> SUFFICES ASSUME NEW r \in Runs
                 PROVE  /\ put'[r].step \in {"stored", "completing"} => media[r].stored
                        /\ setup.size = "small" /\ r \in late' =>
                               put'[r].step \in {"failed", "gone"} /\ media[r].stored
      BY <1>1 DEF SentIsStored
    <2>1. /\ put[r].step \in {"stored", "completing"} => media[r].stored
          /\ r \in late => put[r].step \in {"failed", "gone"} /\ media[r].stored
      BY DEF PutInv, SentIsStored
    <2> QED
      BY <1>2, <1>p, <2>1
  <1> QED
    BY <1>1, <1>5, <1>6, <1>7 DEF PutInv, CompletedIsStored, MetaIsNotLater

LEMMA SmallKeeps == PutInv /\ PoolInv /\ setup.size = "small" /\ SmallNext => PutInv'
  <1> SUFFICES ASSUME PutInv, PoolInv, setup.size = "small", SmallNext PROVE PutInv'
    OBVIOUS
  <1>1. CASE ChooseFile
    BY <1>1, ChooseKeeps
  <1>2. CASE ClosePut \/ ReloadPut \/ ClosePutItself
    BY <1>2, ClosingKeeps
  <1>3. ASSUME NEW f \in Files,
               ImageLoaded(f) \/ VideoLoaded(f) \/ VideoSeeked(f) \/ Drawn(f) \/ Unreadable(f)
                   \/ ReadingTimesOut(f)
        PROVE  PutInv'
    BY <1>3, ReadKeeps
  <1>4. ASSUME NEW r \in Runs,
               \/ StartPut(r) \/ PresignPut(r) \/ PutPresigned(r) \/ ThumbnailTried(r) \/ StoreFile(r)
               \/ FileStored(r) \/ PutFails(r) \/ CompletePut(r) \/ PutCompleted(r)
               \/ CompletePutFails(r) \/ PutStacked(r) \/ CompletePutLate(r)
        PROVE  PutInv'
    BY <1>4, PutStepKeeps
  <1> QED
    BY <1>1, <1>2, <1>3, <1>4 DEF SmallNext, PutGoes

(* A large upload is none of the small ones' business, and the other way    *)
(* round.                                                                   *)
LEMMA LargeKeepsPuts ==
  ASSUME PutInv, PoolInv', setup.size = "large", setup' = setup, UNCHANGED dialogVars
  PROVE  PutInv'
  <1>1. UNCHANGED <<chosen, meta, look, put, xhr, media>> /\ late' \subseteq Runs
    BY DEF dialogVars, PoolInv, PoolTypes
  <1> QED
    BY <1>1 DEF PutInv, PutTypes, NothingLater, SentIsStored, CompletedIsStored, MetaIsNotLater

LEMMA SmallTouchesNoPool ==
  SmallNext => UNCHANGED <<setup, current, run, worker, asset, store, cache>>
  BY DEF SmallNext, PutGoes, ChooseFile, ClosePut, ReloadPut, ImageLoaded, VideoLoaded, VideoSeeked,
     Unreadable, StartPut, CompletePutLate, ClosePutItself, Drawn, ReadingTimesOut, PresignPut,
     PutPresigned, ThumbnailTried, StoreFile, FileStored, PutFails, CompletePut, PutCompleted,
     CompletePutFails, PutStacked, vars, pool

LEMMA SmallKeepsPools ==
  ASSUME PoolInv, PutInv', setup.size = "small", SmallNext
  PROVE  PoolInv'
  <1>2. UNCHANGED <<setup, current, run, worker, asset, store, cache>>
    BY SmallTouchesNoPool
  <1>3. late' \subseteq Runs
    BY DEF PutInv, PutTypes
  <1> QED
    BY <1>2, <1>3, FrameKeeps

UploadInv == PoolInv /\ SessionsAreNew /\ PutInv

LEMMA UploadStep == UploadInv /\ [DialogNext]_allVars => UploadInv'
  <1> SUFFICES ASSUME UploadInv, [DialogNext]_allVars PROVE UploadInv'
    OBVIOUS
  <1>1. CASE Large(Next)
    <2>1. PoolInv' /\ SessionsAreNew' /\ setup' = setup
      BY <1>1, LargeKeeps, SessionsStayNew, SetupStays DEF Large, UploadInv
    <2> QED
      BY <1>1, <2>1, LargeKeepsPuts DEF Large, UploadInv
  <1>2. CASE Small(SmallNext)
    <2>1. PutInv'
      BY <1>2, SmallKeeps DEF Small, UploadInv
    <2>2. SessionsAreNew'
      BY <1>2, SmallTouchesNoPool DEF Small, UploadInv, SessionsAreNew
    <2> QED
      BY <1>2, <2>1, <2>2, SmallKeepsPools DEF Small, UploadInv
  <1>3. CASE UNCHANGED allVars
    <2>1. PoolInv'
      BY <1>3, FrameKeeps DEF UploadInv, PoolInv, PoolTypes, allVars, vars
    <2>2. PutInv'
      BY <1>3 DEF UploadInv, PutInv, PutTypes, NothingLater, SentIsStored, CompletedIsStored,
         MetaIsNotLater, allVars, vars, dialogVars
    <2>3. SessionsAreNew'
      BY <1>3 DEF UploadInv, SessionsAreNew, allVars, vars
    <2> QED
      BY <2>1, <2>2, <2>3 DEF UploadInv
  <1> QED
    BY <1>1, <1>2, <1>3 DEF DialogNext

LEMMA UploadsAreSound == DialogSpec => []UploadInv
  <1>1. DialogInit => UploadInv
    BY PoolInit, PutInit DEF UploadInv, SessionsAreNew, DialogInit, Init, Runs, Sessions
  <1> QED
    BY <1>1, UploadStep, PTL DEF DialogSpec

(* Every part that an upload counts, or that the browser keeps for its      *)
(* resumption, is in the object store, unless its session was aborted.      *)
THEOREM CountedPartsAreStored == DialogSpec => []CountedIsStored
  <1>1. UploadInv => CountedIsStored
    BY DEF UploadInv, PoolInv, RunsAreSound, RunIsSound, KeptIsStored, CountedIsStored, Countable
  <1> QED
    BY <1>1, UploadsAreSound, PTL

(* No large upload is ever joined from less than all of its parts.          *)
THEOREM JoinedIsWhole == DialogSpec => []WholeAssets
  <1>1. UploadInv => WholeAssets
    BY DEF UploadInv, PoolInv
  <1> QED
    BY <1>1, UploadsAreSound, PTL

(* No media of a small upload becomes ready before its file is stored,      *)
(* although the server does not look.                                       *)
THEOREM ReadyIsStored == DialogSpec => []CompletedIsStored
  <1>1. UploadInv => CompletedIsStored
    BY DEF UploadInv, PutInv
  <1> QED
    BY <1>1, UploadsAreSound, PTL

(* An upload never carries the metadata of a file that was chosen after it  *)
(* was started.                                                             *)
THEOREM NoLaterMetadata == DialogSpec => []MetaIsNotLater
  <1>1. UploadInv => MetaIsNotLater
    BY DEF UploadInv, PutInv
  <1> QED
    BY <1>1, UploadsAreSound, PTL

-----------------------------------------------------------------------------
(* A run or an upload that ends takes the dialog out of its working states  *)
(* in the same step, and the dialog enters one only for an upload that goes *)
(* on.                                                                      *)
LEMMA StillGoingOn ==
  ASSUME WorkIsGoingOn, status' \in Working => status \in Working,
         \A r \in Runs : /\ run[r].step \in Active => run'[r].step \in Active
                         /\ put[r].step \in Sending => put'[r].step \in Sending
  PROVE  WorkIsGoingOn'
  BY DEF WorkIsGoingOn

LEMMA OneGoesOn ==
  ASSUME NEW r \in Runs, run'[r].step \in Active \/ put'[r].step \in Sending
  PROVE  WorkIsGoingOn'
  BY DEF WorkIsGoingOn

LEMMA ProgressGoesOn ==
  ASSUME PoolInv, WorkIsGoingOn, NEW r \in Runs, NEW parts, NEW todo, NEW ws,
         Progress(r, parts, todo, ws), UNCHANGED put
  PROVE  WorkIsGoingOn'
  <1> DEFINE step == IF run[r].step = "pool" THEN Pooled(r, parts, ws, aborted[run[r].of])
                     ELSE run[r].step
  <1>1. run \in [Runs -> RunStates]
    BY DEF PoolInv, PoolTypes
  <1>2. /\ run'[r].step = step /\ \A q \in Runs : q # r => run'[q] = run[q]
        /\ status' = Shown(run[r].step, step)
    BY <1>1 DEF Progress, RunStates
  <1>3. CASE run[r].step = "pool"
    <2>1. step \in {"failed", "pool", "completing"}
      BY <1>3 DEF Pooled
    <2> HIDE DEF step
    <2>2. CASE step \in {"pool", "completing"}
      BY <1>2, <2>2, OneGoesOn DEF Active
    <2>3. CASE step = "failed"
      BY <1>2, <1>3, <2>3 DEF Shown, WorkIsGoingOn, Working
    <2> QED
      BY <2>1, <2>2, <2>3
  <1>4. CASE run[r].step # "pool"
    <2>1. status' = status /\ \A q \in Runs : run'[q].step = run[q].step
      BY <1>2, <1>4 DEF Shown
    <2> QED
      BY <2>1, StillGoingOn
  <1> QED
    BY <1>3, <1>4

LEMMA CutOffGoesOn ==
  ASSUME PoolInv, WorkIsGoingOn, NEW u, NEW a, NEW shown, shown \notin Working,
         CutOff(u, a, shown)
  PROVE  WorkIsGoingOn'
  BY DEF CutOff, WorkIsGoingOn, Working

LEMMA LargeGoesOn ==
  ASSUME PoolInv, WorkIsGoingOn, Next, UNCHANGED dialogVars
  PROVE  WorkIsGoingOn'
  <1>1. UNCHANGED put
    BY DEF dialogVars
  <1>2. run \in [Runs -> RunStates] /\ current \in Runs \cup {None}
    BY DEF PoolInv, PoolTypes
  <1>3. CASE Choose \/ Expire
    BY <1>1, <1>3, StillGoingOn DEF Choose, Expire
  <1>4. CASE Pause
    <2>1. CutOff(current, aborted[current], "paused") /\ "paused" \notin Working
      BY <1>4 DEF Pause, Working
    <2> QED
      BY <2>1, CutOffGoesOn
  <1>5. CASE Close \/ CloseItself
    <2>1. status' = "idle" \/ CutOff(current, TRUE, "idle")
      BY <1>5 DEF Close, CloseItself, Reset
    <2> QED
      BY <2>1, CutOffGoesOn DEF WorkIsGoingOn, Working
  <1>6. CASE Reload
    BY <1>6 DEF Reload, WorkIsGoingOn, Working
  <1>7. ASSUME NEW r \in Runs, NEW u, Begin(r, u) PROVE WorkIsGoingOn'
    <2>1. run'[r].step \in Active
      <3>1. \/ run'[r] = Opened(r, u, cache.session, cache.parts)
            \/ run'[r] = [NoRun EXCEPT !.step = "initiating", !.of = u]
        BY <1>2, <1>7 DEF Begin
      <3>2. Opened(r, u, cache.session, cache.parts).step \in {"completing", "pool"}
        BY DEF Opened
      <3>3. [NoRun EXCEPT !.step = "initiating", !.of = u].step = "initiating"
        BY DEF NoRun
      <3> QED
        BY <3>1, <3>2, <3>3 DEF Active
    <2> QED
      BY <2>1, OneGoesOn
  <1>8. ASSUME NEW r \in Runs, Start(r) \/ Resume(r) PROVE WorkIsGoingOn'
    BY <1>7, <1>8 DEF Start, Resume
  <1>9. ASSUME NEW r \in Runs, CompleteLate(r) \/ AbortArrives(r) PROVE WorkIsGoingOn'
    BY <1>1, <1>9, StillGoingOn DEF CompleteLate, AbortArrives
  <1>10. ASSUME NEW r \in Runs, Initiate(r) \/ Initiated(r) \/ Complete(r) \/ Completed(r)
         PROVE  WorkIsGoingOn'
    <2>1. \/ run'[r].step \in Active
          \/ status' \notin Working
      BY <1>2, <1>10 DEF Initiate, Initiated, Complete, Completed, Opened, Active, Working, RunStates
    <2> QED
      BY <2>1, OneGoesOn DEF WorkIsGoingOn
  <1>11. ASSUME NEW r \in Runs, InitiateFails(r) \/ CompleteFails(r) \/ Stacked(r) \/ AbortAnswered(r)
         PROVE  WorkIsGoingOn'
    BY <1>11 DEF InitiateFails, CompleteFails, Stacked, AbortAnswered, WorkIsGoingOn, Working
  <1>12. ASSUME NEW r \in Runs, NEW w \in Workers, Presign(r, w) \/ StorePart(r, w)
         PROVE  WorkIsGoingOn'
    BY <1>1, <1>12, StillGoingOn DEF Presign, StorePart
  <1>13. ASSUME NEW r \in Runs, NEW w \in Workers, PartDone(r, w) \/ PartFails(r, w) \/ Retry(r, w)
         PROVE  WorkIsGoingOn'
    <2>1. \E parts, todo, ws : Progress(r, parts, todo, ws)
      BY <1>13 DEF PartDone, PartFails, Retry
    <2> QED
      BY <1>1, <2>1, ProgressGoesOn
  <1> QED
    BY <1>3, <1>4, <1>5, <1>6, <1>8, <1>9, <1>10, <1>11, <1>12, <1>13 DEF Next, Goes

LEMMA SmallGoesOn ==
  ASSUME PutInv, WorkIsGoingOn, SmallNext
  PROVE  WorkIsGoingOn'
  <1>1. put \in [Runs -> [step : PutSteps, of : Nat, meta : Nat]]
    BY DEF PutInv, PutTypes
  <1>2. CASE ChooseFile
    BY <1>2, StillGoingOn DEF ChooseFile, pool
  <1>3. ASSUME NEW f \in Files,
               ImageLoaded(f) \/ VideoLoaded(f) \/ VideoSeeked(f) \/ Drawn(f) \/ Unreadable(f)
                   \/ ReadingTimesOut(f)
        PROVE  WorkIsGoingOn'
    BY <1>3, StillGoingOn
    DEF ImageLoaded, VideoLoaded, VideoSeeked, Drawn, Unreadable, ReadingTimesOut, vars
  <1>4. CASE ClosePut \/ ReloadPut \/ ClosePutItself
    BY <1>4 DEF ClosePut, ReloadPut, ClosePutItself, ResetPut, WorkIsGoingOn, Working
  <1>5. ASSUME NEW r \in Runs, StartPut(r) \/ PresignPut(r) \/ PutPresigned(r) \/ ThumbnailTried(r)
                                  \/ StoreFile(r) \/ FileStored(r) \/ CompletePut(r)
        PROVE  WorkIsGoingOn'
    <2>1. put'[r].step \in Sending
      BY <1>1, <1>5 DEF StartPut, PresignPut, PutPresigned, ThumbnailTried, Send, StoreFile,
         FileStored, CompletePut, Sending
    <2> QED
      BY <2>1, OneGoesOn
  <1>6. ASSUME NEW r \in Runs, PutFails(r) \/ CompletePutFails(r) \/ PutStacked(r)
        PROVE  WorkIsGoingOn'
    BY <1>6 DEF PutFails, CompletePutFails, PutStacked, WorkIsGoingOn, Working
  <1>7. ASSUME NEW r \in Runs, PutCompleted(r) PROVE WorkIsGoingOn'
    <2>1. put'[r].step \in Sending \/ status' \notin Working
      BY <1>1, <1>7 DEF PutCompleted, Sending, Working
    <2> QED
      BY <2>1, OneGoesOn DEF WorkIsGoingOn
  <1>8. ASSUME NEW r \in Runs, CompletePutLate(r) PROVE WorkIsGoingOn'
    BY <1>8, StillGoingOn DEF CompletePutLate, pool
  <1> QED
    BY <1>2, <1>3, <1>4, <1>5, <1>6, <1>7, <1>8 DEF SmallNext, PutGoes

(* The dialog never shows that it is working when nothing is: whatever is   *)
(* closed, paused, reloaded, refused or answered late, by however many runs *)
(* side by side, the run that ends takes the dialog out of "uploading" with *)
(* it.                                                                      *)
THEOREM NoIdleSpinner == DialogSpec => []WorkIsGoingOn
  <1>1. DialogInit => WorkIsGoingOn
    BY DEF DialogInit, Init, WorkIsGoingOn, Working
  <1>2. UploadInv /\ WorkIsGoingOn /\ [DialogNext]_allVars => WorkIsGoingOn'
    <2> SUFFICES ASSUME UploadInv, WorkIsGoingOn, [DialogNext]_allVars PROVE WorkIsGoingOn'
      OBVIOUS
    <2>1. CASE Large(Next)
      BY <2>1, LargeGoesOn DEF Large, UploadInv
    <2>2. CASE Small(SmallNext)
      BY <2>2, SmallGoesOn DEF Small, UploadInv
    <2>3. CASE UNCHANGED allVars
      BY <2>3, StillGoingOn DEF allVars, vars, dialogVars
    <2> QED
      BY <2>1, <2>2, <2>3 DEF DialogNext
  <1> QED
    BY <1>1, <1>2, UploadsAreSound, PTL DEF DialogSpec
=============================================================================
