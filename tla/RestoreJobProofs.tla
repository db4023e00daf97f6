-------------------------- MODULE RestoreJobProofs --------------------------
(***************************************************************************)
(* What holds of the offline restores of a standalone for any number of    *)
(* restores and any number of edits, deletions, restarts and failed        *)
(* writes.                                                                 *)
(***************************************************************************)
EXTENDS RestoreJob, TLAPS

\* Zenon proves the steps, and SMT the ones with arithmetic or record updates, by name.
USE Zenon

-----------------------------------------------------------------------------
(* Types.                                                                  *)

\* A generation counts the edits of a restore; a pass under way, and a Job, is of one.
PassStates ==
  {p \in [at : Steps, gen : 0 .. MaxGen, spec : Specs \cup {"none"}] :
     IF p.at = "idle" THEN p = Idle ELSE p.gen # 0}
JobStates == {j \in Jobs : j.at # "none" => j.gen # 0}
TypeInv ==
  /\ TypeOK
  /\ \A r \in Restores : cr[r].gen <= used.changes + 1
  /\ op \in [Restores -> PassStates] /\ job \in [Restores -> JobStates]

\* The bounds are numbers, and the steps and phases what a pass may be at.
LEMMA Constants ==
  /\ MaxChanges \in Nat /\ MaxFaults \in Nat /\ MaxGen = MaxChanges + 1
  /\ Phases \subseteq Steps /\ Ended \subseteq Phases
  BY RestoreAssumption DEF MaxGen, Steps, Phases, Ended

\* The state before a step is of its type.
LEMMA TypeFacts ==
  ASSUME TypeInv, NEW r \in Restores
  PROVE  /\ cr[r] \in Copies /\ seen[r] \in Copies /\ job[r] \in JobStates
         /\ op[r] \in PassStates
         /\ cr[r].gen \in Nat \ {0} /\ cr[r].gen <= MaxGen
         /\ seen[r].gen \in Nat \ {0} /\ seen[r].gen <= MaxGen
         /\ cr[r].gen <= used.changes + 1
<1>1. cr[r] \in Copies /\ seen[r] \in Copies
  BY DEF TypeInv, TypeOK
<1>2. cr[r].gen \in 1 .. MaxGen /\ seen[r].gen \in 1 .. MaxGen
  BY <1>1 DEF Copies, Generations
<1> QED
  BY <1>1, <1>2, Constants, SMT DEF TypeInv

\* A pass that moves on or takes up an attempt is of its type.
LEMMA OpTypes ==
  ASSUME TypeInv, NEW r \in Restores, NEW at \in Steps \ {"idle"}
  PROVE  /\ Go(r, at) /\ op[r].at # "idle" => op' \in [Restores -> PassStates]
         /\ Take(r, at) => op' \in [Restores -> PassStates]
         /\ Idle \in PassStates
<1>1. op \in [Restores -> PassStates]
  BY DEF TypeInv
<1>2. Go(r, at) /\ op[r].at # "idle" => op' \in [Restores -> PassStates]
  BY <1>1, SMT DEF Go, PassStates
<1>3. [at |-> at, gen |-> seen[r].gen, spec |-> seen[r].spec] \in PassStates
  <2>1. seen[r].gen \in 0 .. MaxGen /\ seen[r].gen # 0 /\ seen[r].spec \in Specs
    <3>1. seen[r].spec \in Specs
      BY TypeFacts DEF Copies
    <3> QED
      BY <3>1, TypeFacts, Constants, SMT
  <2> QED
    BY <2>1 DEF PassStates
<1>4. Idle \in PassStates
  BY Constants, SMT DEF Idle, Steps, PassStates
<1> QED
  BY <1>1, <1>2, <1>3, <1>4 DEF Take

\* What the passes and Jobs are of implies what TypeOK asks of them.
LEMMA StateTypes ==
  /\ \A o \in [Restores -> PassStates] :
        o \in [Restores -> [at : Steps, gen : 0 .. MaxGen, spec : Specs \cup {"none"}]]
  /\ \A j \in [Restores -> JobStates] : j \in [Restores -> Jobs]
  BY DEF PassStates, JobStates

\* The writes of a restore keep its type.
LEMMA CopyTypes ==
  ASSUME TypeInv, NEW r \in Restores
  PROVE  /\ cr' = [cr EXCEPT ![r].here = FALSE] \/ cr' = [cr EXCEPT ![r].deleting = TRUE]
              => /\ cr' \in [Restores -> Copies]
                 /\ \A q \in Restores : cr'[q].gen = cr[q].gen
         /\ \A p \in Phases : cr' = [cr EXCEPT ![r].phase = p, ![r].obs = cr[r].gen]
              => /\ cr' \in [Restores -> Copies]
                 /\ \A q \in Restores : cr'[q].gen = cr[q].gen
         /\ \A s \in Specs : cr' = [cr EXCEPT ![r].gen = @ + 1, ![r].spec = s]
              => /\ cr[r].gen < MaxGen => cr' \in [Restores -> Copies]
                 /\ cr'[r].gen = cr[r].gen + 1
                 /\ \A q \in Restores \ {r} : cr'[q].gen = cr[q].gen
<1>1. cr \in [Restores -> Copies]
  BY DEF TypeInv, TypeOK
<1>2. ASSUME cr' = [cr EXCEPT ![r].here = FALSE]
      PROVE  cr' \in [Restores -> Copies] /\ \A q \in Restores : cr'[q].gen = cr[q].gen
  BY <1>1, <1>2, ZenonT(40) DEF Copies
<1>3. ASSUME cr' = [cr EXCEPT ![r].deleting = TRUE]
      PROVE  cr' \in [Restores -> Copies] /\ \A q \in Restores : cr'[q].gen = cr[q].gen
  BY <1>1, <1>3, ZenonT(40) DEF Copies
<1>4. cr[r].gen \in Nat /\ cr[r].gen \in 0 .. MaxGen
  BY TypeFacts, Constants, SMT
<1>5. ASSUME NEW p \in Phases, cr' = [cr EXCEPT ![r].phase = p, ![r].obs = cr[r].gen]
      PROVE  cr' \in [Restores -> Copies] /\ \A q \in Restores : cr'[q].gen = cr[q].gen
  BY <1>1, <1>4, <1>5, ZenonT(40) DEF Copies
<1>6. ASSUME NEW s \in Specs, cr' = [cr EXCEPT ![r].gen = @ + 1, ![r].spec = s]
      PROVE  /\ cr[r].gen < MaxGen => cr' \in [Restores -> Copies]
             /\ cr'[r].gen = cr[r].gen + 1
             /\ \A q \in Restores \ {r} : cr'[q].gen = cr[q].gen
  <2>1. cr[r].gen < MaxGen => cr[r].gen + 1 \in Generations
    BY <1>4, Constants, SMT DEF Generations
  <2> QED
    BY <1>1, <1>6, <2>1, ZenonT(40) DEF Copies
<1> QED
  BY <1>2, <1>3, <1>5, <1>6

\* Every step keeps the types.
LEMMA TypeStep == TypeInv /\ [Next]_vars => TypeInv'
<1> SUFFICES ASSUME TypeInv, [Next]_vars PROVE TypeInv'
  OBVIOUS
<1> USE Constants
<1>0. /\ cr \in [Restores -> Copies] /\ seen \in [Restores -> Copies]
      /\ hold \in Restores \cup {Nobody}
      /\ sts \in [reps : 0 .. 1, orig : {NotRecorded, 0, 1}]
      /\ job \in [Restores -> JobStates] /\ op \in [Restores -> PassStates]
      /\ running \subseteq Attempts /\ wrote \subseteq Attempts
      /\ used \in [changes : 0 .. MaxChanges, faults : 0 .. MaxFaults]
  BY DEF TypeInv, TypeOK
<1>fault. Fault => used' \in [changes : 0 .. MaxChanges, faults : 0 .. MaxFaults]
                   /\ used'.changes = used.changes
  BY <1>0, SMT DEF Fault
\* What only moves the pass on.
<1>op. ASSUME op' \in [Restores -> PassStates], UNCHANGED <<cr, seen, pod>>,
              hold' \in Restores \cup {Nobody},
              sts' \in [reps : 0 .. 1, orig : {NotRecorded, 0, 1}],
              job' \in [Restores -> JobStates], running' \subseteq Attempts, wrote' \subseteq Attempts,
              used' \in [changes : 0 .. MaxChanges, faults : 0 .. MaxFaults],
              used'.changes = used.changes
       PROVE  TypeInv'
  BY <1>op, StateTypes DEF TypeInv, TypeOK
<1>1. ASSUME NEW r \in Restores, Reconcile(r) \/ ensureResolvedBackupSource(r)
      PROVE  TypeInv'
  <2>1. {"deleteJob", "startFailed", "Failed", "start", "ready", "annotate", "pods", "Pending"}
           \subseteq Steps \ {"idle"}
    BY DEF Steps, Phases
  <2>2. \E at \in Steps \ {"idle"} : Take(r, at)
    BY <1>1, <2>1 DEF Reconcile, ensureResolvedBackupSource, checkRestoreProgress, startRestore
  <2>3. op' \in [Restores -> PassStates]
    BY <2>2, OpTypes
  <2>4. UNCHANGED <<cr, seen, hold, sts, pod, job, running, wrote>> /\ (used' = used \/ Fault)
    BY <1>1 DEF Reconcile, ensureResolvedBackupSource
  <2> QED
    BY <1>0, <1>op, <1>fault, <2>3, <2>4
<1>2. ASSUME NEW r \in Restores,
             \/ setRestoreInProgressAnnotation(r) \/ stopCluster(r) \/ waitForPodsGone(r)
             \/ refuseRestoreIfPodsRunning(r) \/ handleRestoreSuccess(r) \/ Release(r)
             \/ waitForClusterReady(r) \/ restoreClusterAfterFailure(r)
      PROVE  TypeInv'
  <2>1. {"stop", "stopped", "abandon", "job", "release", "ready", "releaseFailed",
         "Failed", "Completed"} \subseteq Steps \ {"idle"}
    BY DEF Steps, Phases
  <2>2. \E at \in Steps \ {"idle"} : Go(r, at)
    BY <1>2, <2>1 DEF setRestoreInProgressAnnotation, stopCluster, waitForPodsGone,
       refuseRestoreIfPodsRunning, handleRestoreSuccess, Release, waitForClusterReady,
       restoreClusterAfterFailure
  <2>a. op[r].at # "idle"
    BY <1>2 DEF setRestoreInProgressAnnotation, stopCluster, waitForPodsGone,
       refuseRestoreIfPodsRunning, handleRestoreSuccess, Release, waitForClusterReady,
       restoreClusterAfterFailure, At
  <2>3. op' \in [Restores -> PassStates]
    BY <2>2, <2>a, OpTypes
  <2>4. hold' \in Restores \cup {Nobody}
    BY <1>2, <1>0 DEF setRestoreInProgressAnnotation, stopCluster, waitForPodsGone,
       refuseRestoreIfPodsRunning, handleRestoreSuccess, Release, waitForClusterReady,
       restoreClusterAfterFailure, LetGo, clearRestoreInProgressAnnotation
  <2>5. sts' \in [reps : 0 .. 1, orig : {NotRecorded, 0, 1}]
    <3>1. startCluster => sts' \in [reps : 0 .. 1, orig : {NotRecorded, 0, 1}]
      BY <1>0, SMT DEF startCluster, NotRecorded
    <3>2. stopCluster(r) => sts' \in [reps : 0 .. 1, orig : {NotRecorded, 0, 1}]
      BY <1>0, SMT DEF stopCluster, NotRecorded
    <3> QED
      BY <1>2, <1>0, <3>1, <3>2 DEF setRestoreInProgressAnnotation, waitForPodsGone,
         refuseRestoreIfPodsRunning, handleRestoreSuccess, Release, waitForClusterReady,
         restoreClusterAfterFailure
  <2>6. UNCHANGED <<cr, seen, pod, job, running, wrote, used>>
    BY <1>2 DEF setRestoreInProgressAnnotation, stopCluster, waitForPodsGone,
       refuseRestoreIfPodsRunning, handleRestoreSuccess, Release, waitForClusterReady,
       restoreClusterAfterFailure
  <2> QED
    BY <1>0, <1>op, <2>3, <2>4, <2>5, <2>6
<1>3. ASSUME NEW r \in Restores, clearEarlierRestoreJob(r) \/ createRestoreJob(r)
      PROVE  TypeInv'
  <2>1. {"job", "Pending", "Running", "startFailed", "Failed"} \subseteq Steps \ {"idle"}
    BY DEF Steps, Phases
  <2>2. \E at \in Steps \ {"idle"} : Go(r, at)
    BY <1>3, <2>1 DEF clearEarlierRestoreJob, createRestoreJob
  <2>a. op[r].at # "idle"
    BY <1>3 DEF clearEarlierRestoreJob, createRestoreJob, At
  <2>3. op' \in [Restores -> PassStates]
    BY <2>2, <2>a, OpTypes
  <2>4. job' \in [Restores -> JobStates]
    <3>1. [at |-> "live", gen |-> op[r].gen, state |-> "active"] \in JobStates
      BY <1>0, <2>a DEF Jobs, PassStates, JobStates
    <3>2. job[r].at # "none" => [job EXCEPT ![r].at = "dying"] \in [Restores -> JobStates]
      BY <1>0, SMT DEF Jobs, JobStates
    <3>3. clearEarlierRestoreJob(r) => job' \in [Restores -> JobStates]
      BY <3>2 DEF clearEarlierRestoreJob
    <3> QED
      BY <1>0, <1>3, <3>1, <3>3 DEF clearEarlierRestoreJob, createRestoreJob
  <2>5. UNCHANGED <<cr, seen, hold, sts, pod, running, wrote, used>>
    BY <1>3 DEF clearEarlierRestoreJob, createRestoreJob
  <2> QED
    BY <1>0, <1>op, <2>3, <2>4, <2>5
<1>4. ASSUME NEW r \in Restores, transitionRestoreStatus(r)
      PROVE  TypeInv'
  <2>0. Idle \in PassStates
    BY Constants, SMT DEF Idle, Steps, PassStates
  <2>1. op' \in [Restores -> PassStates]
    BY <1>0, <1>4, <2>0 DEF transitionRestoreStatus
  <2>2. \/ used' = used /\ cr' = [cr EXCEPT ![r].phase = op[r].at, ![r].obs = cr[r].gen]
        \/ Fault /\ cr' = cr
    BY <1>4 DEF transitionRestoreStatus
  <2>3. UNCHANGED <<seen, hold, sts, pod, job, running, wrote>> /\ op[r].at \in Phases
    BY <1>4 DEF transitionRestoreStatus
  <2>5. cr' \in [Restores -> Copies]
    BY <1>0, <2>2, <2>3, CopyTypes
  <2>6. \A q \in Restores : cr'[q].gen = cr[q].gen
    BY <2>2, <2>3, CopyTypes
  <2> QED
    BY <1>0, <1>fault, <2>1, <2>2, <2>3, <2>5, <2>6, StateTypes DEF TypeInv, TypeOK
<1>5. ASSUME NEW r \in Restores, handleDeletion(r)
      PROVE  TypeInv'
  <2>1. "finalize" \in Steps \ {"idle"}
    BY DEF Steps
  <2>2. op' \in [Restores -> PassStates]
    <3>1. At(r, "deleteJob") => op[r].at # "idle"
      BY DEF At
    <3>2. op' = [op EXCEPT ![r] = Idle] => op' \in [Restores -> PassStates]
      BY <1>0, <2>1, OpTypes
    <3> QED
      BY <1>5, <2>1, <3>1, <3>2, OpTypes DEF handleDeletion
  <2>3. cr' = cr \/ cr' = [cr EXCEPT ![r].here = FALSE]
    BY <1>5 DEF handleDeletion
  <2>a. cr' \in [Restores -> Copies]
    BY <1>0, <2>3, CopyTypes
  <2>b. \A q \in Restores : cr'[q].gen = cr[q].gen
    BY <2>3, CopyTypes
  <2>4. job' \in [Restores -> JobStates]
    BY <1>0, <1>5, SMT DEF handleDeletion, Jobs, JobStates
  <2>5. hold' \in Restores \cup {Nobody} /\ UNCHANGED <<seen, sts, pod, running, wrote, used>>
    BY <1>0, <1>5 DEF handleDeletion, clearRestoreInProgressAnnotation
  <2> QED
    BY <1>0, <2>2, <2>a, <2>b, <2>4, <2>5, StateTypes DEF TypeInv, TypeOK
<1>6. CASE Restart
  <2>0. Idle \in PassStates
    BY Constants, SMT DEF Idle, Steps, PassStates
  <2>1. op' \in [Restores -> PassStates]
    BY <1>6, <2>0 DEF Restart
  <2> QED
    BY <1>0, <1>6, <1>fault, <2>1, StateTypes DEF Restart, TypeInv, TypeOK, PassStates
<1>7. CASE StandalonePass \/ ScalePods \/ UNCHANGED vars
  <2>1. sts' \in [reps : 0 .. 1, orig : {NotRecorded, 0, 1}]
    BY <1>0, <1>7, SMT DEF StandalonePass, ScalePods, vars
  <2>3. pod' \in BOOLEAN
    BY <1>7 DEF StandalonePass, ScalePods, vars, TypeInv, TypeOK
  <2>2. UNCHANGED <<cr, seen, hold, job, running, wrote, op, used>>
    BY <1>7 DEF StandalonePass, ScalePods, vars
  <2> QED
    BY <1>0, <2>1, <2>2, <2>3 DEF TypeInv, TypeOK
<1>8. ASSUME NEW r \in Restores, SyncCache(r)
      PROVE  TypeInv'
  BY <1>0, <1>8 DEF SyncCache, TypeInv, TypeOK, PassStates
<1>9. ASSUME NEW r \in Restores, RunJob(r) \/ EndJob(r) \/ CollectJob(r)
      PROVE  TypeInv'
  <2>1. job' \in [Restores -> JobStates]
    BY <1>0, <1>9, SMT DEF RunJob, EndJob, CollectJob, Jobs, JobStates, NoJob
  <2>2. job[r].at = "live" => <<r, job[r].gen>> \in Attempts
    BY <1>0, SMT DEF Jobs, JobStates, Attempts, Generations
  <2>3. running' \subseteq Attempts /\ wrote' \subseteq Attempts
    BY <1>0, <1>9, <2>2 DEF RunJob, EndJob, CollectJob
  <2>4. UNCHANGED <<cr, seen, hold, sts, pod, op, used>>
    BY <1>9 DEF RunJob, EndJob, CollectJob
  <2> QED
    BY <1>0, <2>1, <2>3, <2>4, StateTypes DEF TypeInv, TypeOK
<1>10. ASSUME NEW a \in Attempts, CollectPod(a)
       PROVE  TypeInv'
  BY <1>0, <1>10 DEF CollectPod, TypeInv, TypeOK
<1>11. ASSUME NEW r \in Restores, DeleteRestore(r) \/ \E s \in Specs : EditSpec(r, s)
       PROVE  TypeInv'
  <2>1. /\ used.changes < MaxChanges /\ used' = [used EXCEPT !.changes = @ + 1]
        /\ UNCHANGED <<seen, hold, sts, pod, job, running, wrote, op>>
    BY <1>11 DEF DeleteRestore, EditSpec, Change
  <2>2. /\ used' \in [changes : 0 .. MaxChanges, faults : 0 .. MaxFaults]
        /\ used'.changes = used.changes + 1
    BY <1>0, <2>1, SMT
  <2>3. \/ cr' = [cr EXCEPT ![r].deleting = TRUE]
        \/ \E s \in Specs : cr' = [cr EXCEPT ![r].gen = @ + 1, ![r].spec = s]
    BY <1>11 DEF DeleteRestore, EditSpec
  <2>4. cr[r].gen < MaxGen
    BY <1>0, <2>1, TypeFacts, SMT
  <2>5. cr' \in [Restores -> Copies]
    BY <2>3, <2>4, CopyTypes
  <2>6. \A q \in Restores : cr'[q].gen = cr[q].gen \/ cr'[q].gen = cr[q].gen + 1
    BY <2>3, CopyTypes
  <2>7. \A q \in Restores : cr'[q].gen <= used'.changes + 1
    BY <1>0, <2>2, <2>6, TypeFacts, SMT
  <2> QED
    BY <1>0, <2>1, <2>2, <2>5, <2>7 DEF TypeInv, TypeOK
<1> QED
  BY <1>1, <1>2, <1>3, <1>4, <1>5, <1>6, <1>7, <1>8, <1>9, <1>10, <1>11
     DEF Next, Pass, Kubernetes

\* The types hold initially.
LEMMA TypeInit == Init => TypeInv
<1> SUFFICES ASSUME Init PROVE TypeInv
  OBVIOUS
<1>1. cr \in [Restores -> Copies] /\ \A r \in Restores : cr[r].gen = 1
  <2>1. PICK S \in SUBSET Restores, f \in [Restores -> Specs] :
          cr = [r \in Restores |-> [here |-> r \in S, deleting |-> FALSE, gen |-> 1,
                                    spec |-> f[r], phase |-> "", obs |-> 0]]
    BY DEF Init
  <2>2. 1 \in Generations /\ 0 \in 0 .. MaxGen
    BY Constants, SMT DEF Generations
  <2>3. ASSUME NEW h \in BOOLEAN, NEW s \in Specs
        PROVE  [here |-> h, deleting |-> FALSE, gen |-> 1, spec |-> s, phase |-> "", obs |-> 0]
                  \in Copies
    BY <2>2 DEF Copies
  <2>4. \A r \in Restores : (r \in S) \in BOOLEAN /\ f[r] \in Specs
    BY SMT
  <2>5. \A r \in Restores : cr[r] \in Copies
    BY <2>1, <2>3, <2>4
  <2>6. \A r \in Restores : cr[r].gen = 1
    BY <2>1
  <2> QED
    BY <2>1, <2>5, <2>6
<1>2. Idle \in PassStates /\ NoJob \in JobStates
  BY Constants, SMT DEF Idle, NoJob, PassStates, JobStates, Jobs, Steps
<1>3. op \in [Restores -> PassStates] /\ job \in [Restores -> JobStates]
  BY <1>2 DEF Init
<1>4. used = [changes |-> 0, faults |-> 0]
  BY DEF Init
<1>5. used \in [changes : 0 .. MaxChanges, faults : 0 .. MaxFaults]
  BY <1>4, Constants, SMT
<1>6. sts \in [reps : 0 .. 1, orig : {NotRecorded, 0, 1}]
  <2>1. sts = [reps |-> 1, orig |-> NotRecorded]
    BY DEF Init
  <2> QED
    BY <2>1, SMT
<1>7. \A r \in Restores : cr[r].gen <= used.changes + 1
  BY <1>1, <1>4, SMT
<1> QED
  BY <1>1, <1>3, <1>5, <1>6, <1>7, StateTypes DEF Init, TypeInv, TypeOK

\* The types hold in every state, whatever the environment does: no restore's
\* generation outgrows the user's edits, no Job or pass is of no generation.
THEOREM TypeCorrect == Spec => []TypeOK
<1>2. TypeInv => TypeOK
  BY DEF TypeInv
<1> QED
  BY <1>2, TypeInit, TypeStep, PTL DEF Spec

-----------------------------------------------------------------------------
(* The count to scale back to.                                             *)

\* Where no count is on record, the standalone is scaled up.
CountInv == CountKept /\ (sts.orig = NotRecorded => sts.reps = 1)

\* The count stopCluster records is never the 0 of an earlier stop, for any number
\* of restores and whatever fails: a pass that comes back keeps the record.
THEOREM CountKeptCorrect == Spec => []CountKept
<1>1. Init => CountInv
  <2>1. Init => sts = [reps |-> 1, orig |-> NotRecorded]
    BY DEF Init
  <2> QED
    BY <2>1, SMT DEF CountInv, CountKept, NotRecorded
<1>2. TypeInv /\ CountInv /\ [Next]_vars => CountInv'
  <2> SUFFICES ASSUME TypeInv, CountInv, [Next]_vars PROVE CountInv'
    OBVIOUS
  <2> USE DEF CountInv, CountKept
  <2>0. sts \in [reps : 0 .. 1, orig : {NotRecorded, 0, 1}]
    BY DEF TypeInv, TypeOK
  <2>1. startCluster => CountInv'
    BY <2>0, SMT DEF startCluster, NotRecorded
  <2>2. ASSUME NEW r \in Restores, stopCluster(r) PROVE CountInv'
    BY <2>0, <2>2, SMT DEF stopCluster, NotRecorded
  <2>3. ASSUME NEW r \in Restores, handleRestoreSuccess(r) \/ restoreClusterAfterFailure(r)
        PROVE  CountInv'
    BY <2>1, <2>3 DEF handleRestoreSuccess, restoreClusterAfterFailure
  <2>4. CASE StandalonePass
    BY <2>0, <2>4 DEF StandalonePass
  <2>5. CASE sts' = sts
    BY <2>5
  <2> QED
    BY <2>2, <2>3, <2>4, <2>5 DEF Next, Pass, Kubernetes, Reconcile, ensureResolvedBackupSource,
       setRestoreInProgressAnnotation, waitForPodsGone, refuseRestoreIfPodsRunning,
       clearEarlierRestoreJob, createRestoreJob, Release, waitForClusterReady,
       transitionRestoreStatus, handleDeletion, SyncCache, Restart, ScalePods, RunJob, EndJob,
       CollectJob, CollectPod, DeleteRestore, EditSpec, vars
<1>3. CountInv => CountKept
  BY DEF CountInv
<1> QED
  BY <1>1, <1>2, <1>3, TypeInit, TypeStep, PTL DEF Spec

-----------------------------------------------------------------------------
(* What a step of one restore does.                                        *)

\* Where a pass is after it moved on, took up an attempt or ended.
LEMMA Moved ==
  ASSUME TypeInv, NEW r \in Restores, NEW at
  PROVE  /\ Go(r, at) => /\ op'[r].at = at /\ op'[r].gen = op[r].gen /\ op'[r].spec = op[r].spec
                         /\ \A q \in Restores \ {r} : op'[q] = op[q]
         /\ Take(r, at) => /\ op'[r].at = at /\ op'[r].gen = seen[r].gen
                           /\ op'[r].spec = seen[r].spec
                           /\ \A q \in Restores \ {r} : op'[q] = op[q]
         /\ op' = [op EXCEPT ![r] = Idle] => /\ op'[r] = Idle
                                             /\ \A q \in Restores \ {r} : op'[q] = op[q]
<1>1. op \in [Restores -> PassStates] /\ \A p \in PassStates : p = [at |-> p.at, gen |-> p.gen, spec |-> p.spec]
  BY SMT DEF TypeInv, PassStates
<1> QED
  BY <1>1, SMT DEF Go, Take, PassStates

\* A step of one restore.
Own(r) ==
  \/ Reconcile(r) \/ ensureResolvedBackupSource(r) \/ Pass(r) \/ SyncCache(r) \/ RunJob(r)
  \/ EndJob(r) \/ CollectJob(r) \/ DeleteRestore(r) \/ \E s \in Specs : EditSpec(r, s)

\* It leaves the other restores, their passes and their Jobs alone.
LEMMA OthersKept ==
  ASSUME TypeInv, NEW r \in Restores, Own(r), NEW q \in Restores \ {r}
  PROVE  cr'[q] = cr[q] /\ seen'[q] = seen[q] /\ op'[q] = op[q] /\ job'[q] = job[q]
<1>0. /\ cr \in [Restores -> Copies] /\ seen \in [Restores -> Copies]
      /\ job \in [Restores -> JobStates] /\ op \in [Restores -> PassStates]
  BY DEF TypeInv, TypeOK
<1>1. cr'[q] = cr[q]
  BY <1>0 DEF Own, Reconcile, ensureResolvedBackupSource, Pass, SyncCache, RunJob, EndJob,
     CollectJob, DeleteRestore, EditSpec, setRestoreInProgressAnnotation, stopCluster,
     waitForPodsGone, refuseRestoreIfPodsRunning, clearEarlierRestoreJob, createRestoreJob,
     handleRestoreSuccess, Release, waitForClusterReady, restoreClusterAfterFailure,
     transitionRestoreStatus, handleDeletion
<1>2. seen'[q] = seen[q]
  BY <1>0 DEF Own, Reconcile, ensureResolvedBackupSource, Pass, SyncCache, RunJob, EndJob,
     CollectJob, DeleteRestore, EditSpec, setRestoreInProgressAnnotation, stopCluster,
     waitForPodsGone, refuseRestoreIfPodsRunning, clearEarlierRestoreJob, createRestoreJob,
     handleRestoreSuccess, Release, waitForClusterReady, restoreClusterAfterFailure,
     transitionRestoreStatus, handleDeletion
<1>3. job'[q] = job[q]
  BY <1>0 DEF Own, Reconcile, ensureResolvedBackupSource, Pass, SyncCache, RunJob, EndJob,
     CollectJob, DeleteRestore, EditSpec, setRestoreInProgressAnnotation, stopCluster,
     waitForPodsGone, refuseRestoreIfPodsRunning, clearEarlierRestoreJob, createRestoreJob,
     handleRestoreSuccess, Release, waitForClusterReady, restoreClusterAfterFailure,
     transitionRestoreStatus, handleDeletion
<1>4. op'[q] = op[q]
  <2>1. \/ op' = op \/ op' = [op EXCEPT ![r] = Idle] \/ (\E at : Go(r, at)) \/ \E at : Take(r, at)
    BY DEF Own, Reconcile, checkRestoreProgress, startRestore, ensureResolvedBackupSource,
       Pass, SyncCache, RunJob, EndJob,
       CollectJob, DeleteRestore, EditSpec, setRestoreInProgressAnnotation, stopCluster,
       waitForPodsGone, refuseRestoreIfPodsRunning, clearEarlierRestoreJob, createRestoreJob,
       handleRestoreSuccess, Release, waitForClusterReady, restoreClusterAfterFailure,
       transitionRestoreStatus, handleDeletion
  <2> QED
    BY <2>1, Moved
<1> QED
  BY <1>1, <1>2, <1>3, <1>4

\* What the rest of the steps do to the restores, their passes and their Jobs.
LEMMA OtherSteps ==
  ASSUME [Next]_vars
  PROVE  \/ \E r \in Restores : Own(r)
         \/ Restart
         \/ StandalonePass \/ ScalePods \/ (\E a \in Attempts : CollectPod(a)) \/ UNCHANGED vars
  BY DEF Next, Own, Kubernetes

LEMMA OthersStill ==
  ASSUME StandalonePass \/ ScalePods \/ (\E a \in Attempts : CollectPod(a)) \/ UNCHANGED vars
  PROVE  UNCHANGED <<cr, seen, hold, job, wrote, op, used>>
  BY DEF StandalonePass, ScalePods, CollectPod, vars

-----------------------------------------------------------------------------
(* The hold on the standalone.                                             *)

\* A restore has a pass only while it is there.
HoldInv == NoOrphanHold /\ \A r \in Restores : op[r] # Idle => cr[r].here

LEMMA HoldInit == Init => HoldInv
  BY DEF Init, HoldInv, NoOrphanHold

LEMMA HoldKept == TypeInv /\ HoldInv /\ [Next]_vars => HoldInv'
<1> SUFFICES ASSUME TypeInv, HoldInv, [Next]_vars PROVE HoldInv'
  OBVIOUS
<1>0. hold \in Restores \cup {Nobody} /\ cr \in [Restores -> Copies]
  BY DEF TypeInv, TypeOK
<1>1. ASSUME NEW r \in Restores, Own(r) PROVE HoldInv'
  <2>1. \A q \in Restores \ {r} : cr'[q] = cr[q] /\ op'[q] = op[q]
    BY <1>1, OthersKept
  <2>2. CASE handleDeletion(r) /\ At(r, "finalize")
    <3>1. op'[r] = Idle /\ hold' = IF hold = r THEN Nobody ELSE hold
      BY <2>2, Moved DEF handleDeletion, At, clearRestoreInProgressAnnotation
    <3> QED
      BY <1>0, <2>1, <3>1 DEF HoldInv, NoOrphanHold
  <2>3. CASE ~(handleDeletion(r) /\ At(r, "finalize"))
    <3>1. cr'[r].here = cr[r].here
      <4>1. CASE Pass(r)
        BY <1>0, <2>3, <4>1, ZenonT(40) DEF Pass, setRestoreInProgressAnnotation, stopCluster, waitForPodsGone,
           refuseRestoreIfPodsRunning, clearEarlierRestoreJob, createRestoreJob,
           handleRestoreSuccess, Release, waitForClusterReady, restoreClusterAfterFailure,
           transitionRestoreStatus, handleDeletion, Copies
      <4>2. CASE DeleteRestore(r) \/ \E s \in Specs : EditSpec(r, s)
        BY <1>0, <4>2, ZenonT(40) DEF DeleteRestore, EditSpec, Copies
      <4> QED
        BY <1>1, <4>1, <4>2 DEF Own, Reconcile, ensureResolvedBackupSource, SyncCache, RunJob,
           EndJob, CollectJob
    <3>2. cr[r].here \/ op' = op
      <4>1. op[r].at # "idle" => op[r] # Idle
        BY SMT DEF Idle
      <4>2. op[r].at # "idle" \/ Begins(r) \/ op' = op
        BY <1>1 DEF Own, Reconcile, ensureResolvedBackupSource, Pass, SyncCache,
           RunJob, EndJob, CollectJob, DeleteRestore, EditSpec, setRestoreInProgressAnnotation,
           stopCluster, waitForPodsGone, refuseRestoreIfPodsRunning, clearEarlierRestoreJob,
           createRestoreJob, handleRestoreSuccess, Release, waitForClusterReady,
           restoreClusterAfterFailure, transitionRestoreStatus, handleDeletion, At, Phases
      <4> QED
        BY <4>1, <4>2 DEF HoldInv, Begins
    <3>3. hold' = hold \/ hold' = Nobody \/ (hold' = r /\ At(r, "annotate"))
      BY <1>1 DEF Own, Reconcile, ensureResolvedBackupSource, Pass, SyncCache,
         RunJob, EndJob, CollectJob, DeleteRestore, EditSpec, setRestoreInProgressAnnotation,
         stopCluster, waitForPodsGone, refuseRestoreIfPodsRunning, clearEarlierRestoreJob,
         createRestoreJob, handleRestoreSuccess, Release, waitForClusterReady, LetGo,
         restoreClusterAfterFailure, transitionRestoreStatus, handleDeletion,
         clearRestoreInProgressAnnotation
    <3>4. At(r, "annotate") => cr[r].here
      BY SMT DEF At, HoldInv, Idle
    <3> QED
      BY <1>0, <2>1, <3>1, <3>2, <3>3, <3>4 DEF HoldInv, NoOrphanHold
  <2> QED
    BY <2>2, <2>3
<1>2. CASE Restart
  BY <1>2 DEF Restart, HoldInv, NoOrphanHold
<1>3. CASE UNCHANGED <<cr, seen, hold, job, wrote, op, used>>
  BY <1>3 DEF HoldInv, NoOrphanHold
<1> QED
  BY <1>1, <1>2, <1>3, OtherSteps, OthersStill

\* A restore that is gone holds nothing, for any number of restores and whatever
\* fails: the finalizer goes in the step after the annotation.
THEOREM NoOrphanHoldCorrect == Spec => []NoOrphanHold
<1>1. HoldInv => NoOrphanHold
  BY DEF HoldInv
<1> QED
  BY <1>1, HoldInit, HoldKept, TypeInit, TypeStep, PTL DEF Spec

-----------------------------------------------------------------------------
(* An attempt that has ended stays ended.                                  *)

\* The pass is about an attempt, not about a deletion.
Attempting(r) == op[r].at \notin {"idle", "deleteJob", "finalize"}
EndedInv ==
  \A r \in Restores : /\ cr[r].obs <= cr[r].gen
                      /\ Attempting(r) => ~Over(cr[r])

\* A pass that moves on is about the attempt it was about.
LEMMA Attempted ==
  ASSUME TypeInv, NEW r \in Restores, Own(r), Attempting(r)'
  PROVE  \/ Attempting(r)
         \/ Begins(r) /\ ~restoreEndedAtGeneration(seen[r]) /\ cr' = cr
<1>1. CASE Reconcile(r) \/ ensureResolvedBackupSource(r)
  <2>1. Take(r, "deleteJob") => ~Attempting(r)'
    BY Moved DEF Attempting
  <2> QED
    BY <1>1, <2>1 DEF Reconcile, ensureResolvedBackupSource
<1>2. CASE Pass(r)
  <2>1. handleDeletion(r) => ~Attempting(r)'
    <3>1. Idle.at = "idle"
      BY DEF Idle
    <3> QED
      BY <3>1, Moved DEF handleDeletion, Attempting
  <2>2. handleDeletion(r) \/ op[r].at \notin {"idle", "deleteJob", "finalize"}
    BY <1>2 DEF Pass, setRestoreInProgressAnnotation, stopCluster, waitForPodsGone,
       refuseRestoreIfPodsRunning, clearEarlierRestoreJob, createRestoreJob,
       handleRestoreSuccess, Release, waitForClusterReady, restoreClusterAfterFailure,
       transitionRestoreStatus, At, Phases
  <2> QED
    BY <2>1, <2>2 DEF Attempting
<1>3. CASE op' = op
  BY <1>3 DEF Attempting
<1> QED
  BY <1>1, <1>2, <1>3 DEF Own, SyncCache, RunJob, EndJob, CollectJob, DeleteRestore, EditSpec

\* What may become of the restore itself: the end of a pass is written, the user
\* edits or deletes it, the finalizer goes.
Says(r) ==
  /\ op[r].at \in Phases /\ op'[r] = Idle /\ cr'[r].phase = op[r].at /\ cr'[r].obs = cr[r].gen
  /\ cr'[r].gen = cr[r].gen /\ cr'[r].spec = cr[r].spec /\ cr'[r].deleting = cr[r].deleting
  /\ UNCHANGED <<seen, hold, sts, pod, job, running, wrote>> /\ cr'[r].here = cr[r].here
Edits(r) ==
  /\ cr'[r].gen = cr[r].gen + 1 /\ cr'[r].spec \in Specs /\ (May("editsMidway") \/ Settled(r))
  /\ cr'[r].phase = cr[r].phase /\ cr'[r].obs = cr[r].obs
  /\ cr'[r].deleting = cr[r].deleting /\ ~cr[r].deleting /\ cr'[r].here = cr[r].here
  /\ UNCHANGED <<seen, hold, sts, pod, job, running, wrote, op>>
Deletes(r) ==
  /\ cr'[r].phase = cr[r].phase /\ cr'[r].obs = cr[r].obs /\ cr'[r].gen = cr[r].gen
  /\ cr'[r].spec = cr[r].spec /\ cr'[r].deleting = TRUE /\ (May("deletesMidway") \/ Settled(r))
  /\ UNCHANGED <<seen, hold, sts, pod, job, running, wrote, op>> /\ cr'[r].here = cr[r].here
Finalizes(r) ==
  /\ cr'[r].phase = cr[r].phase /\ cr'[r].obs = cr[r].obs /\ cr'[r].gen = cr[r].gen
  /\ cr'[r].spec = cr[r].spec /\ cr'[r].deleting = cr[r].deleting /\ cr'[r].here = FALSE
  /\ op[r].at = "finalize" /\ op'[r] = Idle /\ hold' = (IF hold = r THEN Nobody ELSE hold)
  /\ UNCHANGED <<seen, sts, pod, job, running, wrote>>

LEMMA Written ==
  ASSUME TypeInv, NEW r \in Restores, Own(r)
  PROVE  cr' = cr \/ Says(r) \/ Edits(r) \/ Deletes(r) \/ Finalizes(r)
<1>0. cr \in [Restores -> Copies] /\ cr[r] \in Copies
  BY DEF TypeInv, TypeOK
<1>1. ASSUME transitionRestoreStatus(r) /\ cr' # cr PROVE Says(r)
  <2>1. cr' = [cr EXCEPT ![r].phase = op[r].at, ![r].obs = cr[r].gen]
    BY <1>1 DEF transitionRestoreStatus
  <2>2. /\ cr'[r].phase = op[r].at /\ cr'[r].obs = cr[r].gen /\ cr'[r].gen = cr[r].gen
        /\ cr'[r].spec = cr[r].spec /\ cr'[r].deleting = cr[r].deleting /\ cr'[r].here = cr[r].here
    BY <1>0, <2>1 DEF Copies
  <2> QED
    BY <1>1, <2>2, Moved DEF transitionRestoreStatus, Says
<1>2. ASSUME NEW s \in Specs, EditSpec(r, s) PROVE Edits(r)
  <2>1. cr' = [cr EXCEPT ![r].gen = @ + 1, ![r].spec = s]
    BY <1>2 DEF EditSpec
  <2>2. /\ cr'[r].phase = cr[r].phase /\ cr'[r].obs = cr[r].obs /\ cr'[r].gen = cr[r].gen + 1
        /\ cr'[r].spec = s /\ cr'[r].deleting = cr[r].deleting /\ cr'[r].here = cr[r].here
    BY <1>0, <2>1 DEF Copies
  <2> QED
    BY <1>2, <2>2 DEF EditSpec, Edits
<1>3. ASSUME DeleteRestore(r) PROVE Deletes(r)
  <2>1. cr' = [cr EXCEPT ![r].deleting = TRUE]
    BY <1>3 DEF DeleteRestore
  <2>2. /\ cr'[r].phase = cr[r].phase /\ cr'[r].obs = cr[r].obs /\ cr'[r].gen = cr[r].gen
        /\ cr'[r].spec = cr[r].spec /\ cr'[r].deleting = TRUE /\ cr'[r].here = cr[r].here
    BY <1>0, <2>1 DEF Copies
  <2> QED
    BY <1>3, <2>2 DEF DeleteRestore, Deletes
<1>4. ASSUME handleDeletion(r) /\ cr' # cr PROVE Finalizes(r)
  <2>1. cr' = [cr EXCEPT ![r].here = FALSE]
    BY <1>4 DEF handleDeletion
  <2>2. /\ cr'[r].phase = cr[r].phase /\ cr'[r].obs = cr[r].obs /\ cr'[r].gen = cr[r].gen
        /\ cr'[r].spec = cr[r].spec /\ cr'[r].deleting = cr[r].deleting /\ cr'[r].here = FALSE
    BY <1>0, <2>1 DEF Copies
  <2> QED
    BY <1>4, <2>2, Moved DEF handleDeletion, At, clearRestoreInProgressAnnotation, Finalizes
<1> QED
  BY <1>1, <1>2, <1>3, <1>4 DEF Own, Reconcile, ensureResolvedBackupSource, Pass, SyncCache,
     RunJob, EndJob, CollectJob, setRestoreInProgressAnnotation,
     stopCluster, waitForPodsGone, refuseRestoreIfPodsRunning, clearEarlierRestoreJob,
     createRestoreJob, handleRestoreSuccess, Release, waitForClusterReady,
     restoreClusterAfterFailure

\* What holds initially of each restore.
LEMMA Initially ==
  ASSUME Init, NEW r \in Restores
  PROVE  /\ cr[r].obs = 0 /\ cr[r].gen = 1 /\ cr[r].phase = "" /\ ~cr[r].deleting
         /\ seen[r] = cr[r] /\ op[r] = Idle /\ op[r].at = "idle" /\ job[r] = NoJob
         /\ job[r].at = "none" /\ hold = Nobody
<1>1. PICK S \in SUBSET Restores, f \in [Restores -> Specs] :
        cr = [q \in Restores |-> [here |-> q \in S, deleting |-> FALSE, gen |-> 1, spec |-> f[q],
                                  phase |-> "", obs |-> 0]]
  BY DEF Init
<1>2. PICK b, c : cr[r] = [here |-> b, deleting |-> FALSE, gen |-> 1, spec |-> c, phase |-> "", obs |-> 0]
  BY <1>1
<1>4. ASSUME NEW x, x = [here |-> b, deleting |-> FALSE, gen |-> 1, spec |-> c, phase |-> "", obs |-> 0]
      PROVE  x.obs = 0 /\ x.gen = 1 /\ x.phase = "" /\ ~x.deleting
  BY <1>4
<1>5. cr[r].obs = 0 /\ cr[r].gen = 1 /\ cr[r].phase = "" /\ ~cr[r].deleting
  BY <1>2, <1>4
<1>6. Idle.at = "idle" /\ NoJob.at = "none"
  BY DEF Idle, NoJob
<1>3. op[r] = Idle /\ job[r] = NoJob /\ seen[r] = cr[r] /\ hold = Nobody
  BY DEF Init
<1> QED
  BY <1>3, <1>5, <1>6

LEMMA EndedInit == Init => EndedInv
<1> SUFFICES ASSUME Init, NEW r \in Restores
             PROVE  cr[r].obs <= cr[r].gen /\ (Attempting(r) => ~Over(cr[r]))
  BY DEF EndedInv
<1>1. cr[r].obs = 0 /\ cr[r].gen = 1 /\ op[r].at = "idle"
  BY Initially
<1> QED
  BY <1>1, SMT DEF Attempting

\* Without a pass on a copy from before the end, no attempt is taken up again.
LEMMA EndedKept ==
  ASSUME "staleEnding" \notin Hazards, TypeInv, EndedInv, [Next]_vars
  PROVE  EndedInv'
<1>1. ASSUME NEW r \in Restores, Own(r) PROVE EndedInv'
  <2>1. \A q \in Restores \ {r} : cr'[q] = cr[q] /\ op'[q] = op[q]
    BY <1>1, OthersKept
  <2>2. cr[r].gen \in Nat /\ cr[r].obs \in Nat /\ cr[r].obs <= cr[r].gen
    <3>1. cr[r].obs \in 0 .. MaxGen
      BY TypeFacts DEF Copies
    <3> QED
      BY <3>1, TypeFacts, Constants, SMT DEF EndedInv
  <2>3. cr'[r].obs <= cr'[r].gen
    <3>1. cr' = cr \/ cr'[r].obs = cr[r].obs \/ cr'[r].obs = cr[r].gen
      BY <1>1, Written DEF Says, Edits, Deletes, Finalizes
    <3>2. cr' = cr \/ cr'[r].gen = cr[r].gen \/ cr'[r].gen = cr[r].gen + 1
      BY <1>1, Written DEF Says, Edits, Deletes, Finalizes
    <3> QED
      BY <2>2, <3>1, <3>2, SMT
  <2>4. ASSUME Attempting(r)' PROVE ~Over(cr'[r])
    <3>1. Idle.at = "idle"
      BY DEF Idle
    <3>2. ~Attempting(r) => ~Over(cr[r]) /\ cr' = cr
      BY <1>1, <2>4, Attempted DEF Begins, May, restoreEndedAtGeneration, Over
    <3>3. ~Over(cr[r])
      BY <3>2 DEF EndedInv
    <3> QED
      <4>1. CASE Edits(r)
        BY <2>2, <4>1, SMT DEF Edits, Over
      <4>2. CASE Says(r)
        BY <2>4, <3>1, <4>2 DEF Says, Attempting
      <4>3. CASE Deletes(r) \/ Finalizes(r)
        BY <3>3, <4>3 DEF Deletes, Finalizes, Over
      <4> QED
        BY <1>1, <3>3, <4>1, <4>2, <4>3, Written
  <2> QED
    BY <2>1, <2>3, <2>4 DEF EndedInv, Attempting
<1>2. CASE Restart
  BY <1>2 DEF Restart, EndedInv, Attempting, Idle
<1>3. CASE UNCHANGED <<cr, seen, hold, job, wrote, op, used>>
  BY <1>3 DEF EndedInv, Attempting
<1> QED
  BY <1>1, <1>2, <1>3, OtherSteps, OthersStill
=============================================================================
