------------------------ MODULE RestoreVolumeProofs -------------------------
(***************************************************************************)
(* The data volume of a standalone has one user, whatever restores there   *)
(* are: the server, or the Job of the restore that holds the standalone.   *)
(***************************************************************************)
EXTENDS RestoreStoreProofs

\* Zenon proves the steps, and SMT the ones with arithmetic or record updates, by name.
USE Zenon

\* The steps of a pass on its Job.
LEMMA ExclJob ==
  ASSUME TypeInv, Calm, NEW r \in Restores, Known(r), Own(r),
         clearEarlierRestoreJob(r) \/ createRestoreJob(r)
  PROVE  Excl(r)'
<1>0. /\ cr' = cr /\ seen' = seen /\ pod' = pod /\ hold' = hold /\ sts' = sts
      /\ Alone(r)' = Alone(r) /\ op[r].at = "job"
  BY DEF clearEarlierRestoreJob, createRestoreJob, Alone, At
<1>1. /\ hold = r /\ sts.reps = 0 /\ ~pod /\ ~Over(cr[r]) /\ ~cr[r].deleting
      /\ op[r].gen = cr[r].gen /\ op[r].spec = "stop"
  BY <1>0 DEF Known, Excl, Attempting, Synced, Holds
<1>2. JobInForce(r) => OwnJob(r)
  BY <1>1 DEF JobInForce, OwnJob, restoreJobOfThisAttempt
<1>3. CASE clearEarlierRestoreJob(r)
  <2>1. JobDying(r) /\ op'[r].at \in {"job", "Pending"}
    <3>1. job[r].at # "none" /\ job'[r].at = "dying"
      BY <1>3, SMT DEF clearEarlierRestoreJob, TypeInv
    <3>2. op'[r].at \in {"job", "Pending"}
      BY <1>3, Moved DEF clearEarlierRestoreJob
    <3>3. CASE job'[r] = job[r]
      BY <1>0, <3>1, <3>2, <3>3 DEF JobDying
    <3> QED
      BY <3>1, <3>2, <3>3, JobSteps DEF JobKept, JobMade, JobGone, JobEnded
  <2>2. ~OwnJob(r) /\ job[r].at # "none"
    BY <1>3 DEF clearEarlierRestoreJob, OwnJob
  <2>3. job[r].gen # cr[r].gen
    BY <1>1, <1>3 DEF clearEarlierRestoreJob, restoreJobOfThisAttempt, Known, Excl
  <2>4. cr[r].phase # "Running"
    BY <2>2, <2>3 DEF Known, Restored
  <2>5. ~Active(r) /\ ~Active(r)'
    BY <1>2, <2>1, <2>2 DEF Known, Excl, Active, JobDying
  <2> QED
    BY <1>0, <1>1, <2>1, <2>3, <2>4, <2>5 DEF Known, Excl, JobDying, Early
<1>4. CASE createRestoreJob(r)
  <2>1. \/ JobMade(r)
        \/ OwnJob(r) /\ job'[r] = job[r] /\ op'[r].at = "Running"
        \/ ~OwnJob(r) /\ job'[r] = job[r] /\ op'[r].at = "startFailed"
    <3>1. ASSUME job' # job PROVE JobMade(r)
      <4>1. /\ job' = [job EXCEPT ![r] = [at |-> "live", gen |-> op[r].gen, state |-> "active"]]
            /\ Go(r, "Running") /\ job[r].at = "none"
        BY <1>4, <3>1 DEF createRestoreJob
      <4>2. job'[r].at = "live" /\ job'[r].gen = op[r].gen /\ job'[r].state = "active"
        BY <4>1 DEF TypeInv
      <4> QED
        BY <1>0, <4>1, <4>2, Moved DEF JobMade
    <3>2. ASSUME job' = job
          PROVE  \/ OwnJob(r) /\ op'[r].at = "Running"
                 \/ ~OwnJob(r) /\ op'[r].at = "startFailed"
      <4>1. ~(job[r].at = "none"
              /\ job' = [job EXCEPT ![r] = [at |-> "live", gen |-> op[r].gen, state |-> "active"]])
        BY <3>2, SMT DEF TypeInv
      <4> QED
        BY <1>1, <1>4, <4>1, CalmFacts, Moved DEF createRestoreJob, MayFail
    <3> QED
      BY <3>1, <3>2
  <2>2. CASE JobMade(r)
    <3>1. op[r].at = "job" /\ op'[r].at = "Running" /\ op'[r].at \in Early
      BY <2>2 DEF JobMade, Early
    <3>2. Active(r)' /\ JobInForce(r)'
      BY <1>0, <1>1, <2>2 DEF JobMade, Active, JobInForce
    <3>3. Stopped(r)' /\ ~Over(cr[r])
      BY <1>0, <1>1, <3>1 DEF Known, Excl, Stopped
    <3>4. job'[r].at = "live" /\ job'[r].gen = cr[r].gen
      BY <1>0, <3>2 DEF JobInForce
    <3>5. /\ seen[r].deleting => cr[r].deleting
          /\ seen[r].phase = "Running" /\ seen[r].gen = cr[r].gen
                => cr[r].phase = "Running" \/ Over(cr[r])
          /\ cr[r].gen \in Nat
      BY DEF Known, Excl
    <3> QED
      BY <1>0, <1>1, <3>1, <3>2, <3>3, <3>4, <3>5, SMT DEF Excl
  <2>3. CASE OwnJob(r) /\ job'[r] = job[r] /\ op'[r].at = "Running"
    <3>1. job[r].at = "live" /\ job[r].gen = cr[r].gen
      BY <1>1, <2>3 DEF OwnJob, restoreJobOfThisAttempt
    <3> QED
      BY <1>0, <1>1, <2>3, <3>1 DEF Known, Excl, Active, JobInForce, Stopped, Early
  <2>4. CASE ~OwnJob(r) /\ job'[r] = job[r] /\ op'[r].at = "startFailed"
    BY <1>0, <1>1, <1>2, <2>4 DEF Known, Excl, Active, JobInForce
  <2> QED
    BY <2>1, <2>2, <2>3, <2>4
<1> QED
  BY <1>3, <1>4

\* The steps of a pass past its Job.
LEMMA ExclEnds ==
  ASSUME TypeInv, Calm, NEW r \in Restores, Known(r), cr' = cr,
         \/ handleRestoreSuccess(r) \/ Release(r) \/ waitForClusterReady(r)
         \/ restoreClusterAfterFailure(r) \/ transitionRestoreStatus(r)
  PROVE  Excl(r)'
<1>0. /\ seen' = seen /\ pod' = pod /\ job' = job /\ Alone(r)' = Alone(r) /\ Idle.at = "idle"
  BY DEF handleRestoreSuccess, Release, waitForClusterReady, restoreClusterAfterFailure,
     transitionRestoreStatus, Alone, Idle
<1>1. CASE handleRestoreSuccess(r) \/ restoreClusterAfterFailure(r)
  <2>1. /\ hold' = hold /\ op[r].at \in {"start", "startFailed"}
        /\ op'[r].at \in {"release", "releaseFailed"}
    BY <1>1, CalmFacts, Moved DEF handleRestoreSuccess, restoreClusterAfterFailure, At
  <2> QED
    BY <1>0, <2>1 DEF Known, Excl, Active, JobInForce, Released, Early, Ended
<1>2. CASE Release(r)
  <2>1. /\ sts' = sts /\ op[r].at \in {"release", "releaseFailed", "abandon"}
        /\ op'[r].at \in {"ready", "Failed"}
    BY <1>2, Moved DEF Release, At
  <2> QED
    BY <1>0, <2>1 DEF Known, Excl, Active, JobInForce, Released, Early, Ended
<1>3. CASE waitForClusterReady(r)
  <2>1. /\ sts' = sts /\ hold' = hold /\ op[r].at = "ready" /\ op'[r].at \in {"Completed", "Failed"}
    BY <1>3, Moved DEF waitForClusterReady, At
  <2> QED
    BY <1>0, <2>1 DEF Known, Excl, Active, JobInForce, Released, Early, Ended
<1>4. CASE transitionRestoreStatus(r)
  <2>1. /\ sts' = sts /\ hold' = hold /\ op[r].at \in Phases /\ op'[r].at = "idle"
    BY <1>0, <1>4, Moved DEF transitionRestoreStatus
  <2>2. Alone(r) \/ ~Released(r)
    <3>1. ASSUME cr' = [cr EXCEPT ![r].phase = op[r].at, ![r].obs = cr[r].gen]
          PROVE  cr[r].phase = op[r].at
      <4>1. cr[r] \in Copies
        BY TypeFacts
      <4>2. cr'[r].phase = op[r].at
        BY <3>1, <4>1, ZenonT(40) DEF TypeInv, TypeOK, Copies
      <4> QED
        BY <4>2
    <3> QED
      BY <1>4, <3>1, CalmFacts DEF transitionRestoreStatus, Released, Ended
  <2> QED
    BY <1>0, <2>1, <2>2
       DEF Known, Excl, Active, JobInForce, Stopped, Released, Early, Ended, Phases
<1> QED
  BY <1>1, <1>2, <1>3, <1>4

\* A generation seen before an edit is not the one after it.
LEMMA Later ==
  ASSUME NEW a \in Nat, NEW b \in Nat, b <= a, NEW c, c = a + 1
  PROVE  b # c /\ b <= c
  BY SMT

\* The writes of the restore itself.
LEMMA ExclWrites ==
  ASSUME TypeInv, Calm, NEW r \in Restores, Known(r),
         Says(r) \/ Edits(r) \/ Deletes(r) \/ Finalizes(r)
  PROVE  Excl(r)'
<1>0. Idle.at = "idle"
  BY DEF Idle
<1>1. CASE Says(r)
  <2>0. ~Over(cr[r]) /\ ~cr[r].deleting /\ ~cr'[r].deleting /\ Attempting(r) /\ op'[r].at = "idle"
    BY <1>0, <1>1 DEF Says, Known, Excl, Attempting, Phases
  <2>1. CASE op[r].at = "Running"
    <3>1. cr'[r].phase = "Running" /\ ~Over(cr'[r])
      BY <1>1, <2>1 DEF Says, Over, Ended
    <3> QED
      BY <1>1, <2>0, <2>1, <3>1 DEF Says, Known, Excl, Active, JobInForce, Stopped, Early
  <2>2. CASE op[r].at = "Pending"
    <3>1. cr'[r].phase = "Pending" /\ ~Active(r)
      BY <1>1, <2>2 DEF Says, Known, Excl, Early
    <3>2. ~(seen[r].phase = "Running" /\ seen[r].gen = cr[r].gen)
      BY <2>0, <2>2 DEF Known, Excl
    <3> QED
      BY <1>1, <2>0, <3>1, <3>2 DEF Says, Known, Excl, Active
  <2>3. CASE op[r].at \in Ended
    <3>1. cr'[r].phase \in Ended /\ cr'[r].phase # "Running" /\ ~Active(r)
      BY <1>1, <2>3 DEF Says, Known, Excl, Early, Ended
    <3>2. Over(cr'[r])
      BY <1>1, <3>1 DEF Says, Over
    <3> QED
      BY <1>1, <2>0, <3>1, <3>2 DEF Says, Known, Excl, Active
  <2> QED
    BY <1>1, <2>1, <2>2, <2>3 DEF Says, Phases, Ended
<1>2. CASE Edits(r)
  <2>1. Over(cr[r]) /\ op[r].at = "idle" /\ cr[r].phase # "Running" /\ ~Active(r)
        /\ ~cr[r].deleting /\ ~seen[r].deleting
    BY <1>0, <1>2, CalmFacts DEF Edits, Settled, Over, Ended, Known, Excl
  <2>2. seen[r].gen # cr'[r].gen /\ job[r].gen # cr'[r].gen /\ job[r].gen <= cr'[r].gen
    <3>1. /\ cr'[r].gen = cr[r].gen + 1 /\ seen[r].gen <= cr[r].gen /\ job[r].gen <= cr[r].gen
          /\ cr[r].gen \in Nat /\ seen[r].gen \in Nat /\ job[r].gen \in Nat
      BY <1>2 DEF Edits, Known, Synced, Excl
    <3> QED
      BY <3>1, Later
  <2> QED
    BY <1>2, <2>1, <2>2 DEF Edits, Known, Excl, Active
<1>3. CASE Deletes(r)
  <2>1. Over(cr[r]) /\ op[r].at = "idle" /\ cr[r].phase # "Running" /\ ~Active(r)
    BY <1>0, <1>3, CalmFacts DEF Deletes, Settled, Over, Ended, Known, Excl
  <2>2. Over(cr'[r])
    BY <1>3, <2>1 DEF Deletes, Over
  <2> QED
    BY <1>3, <2>1, <2>2 DEF Deletes, Known, Excl, Active
<1>4. CASE Finalizes(r)
  <2>1. Over(cr[r]) /\ cr[r].phase # "Running" /\ ~Active(r) /\ op'[r].at = "idle"
    BY <1>0, <1>4 DEF Finalizes, Over, Ended, Known, Excl
  <2>2. Over(cr'[r])
    BY <1>4, <2>1 DEF Finalizes, Over
  <2> QED
    BY <1>4, <2>1, <2>2 DEF Finalizes, Known, Excl, Active
<1> QED
  BY <1>1, <1>2, <1>3, <1>4

\* The other steps of the restore itself.
LEMMA ExclOwn ==
  ASSUME TypeInv, Calm, NEW r \in Restores, Known(r), Own(r)
  PROVE  Excl(r)'
<1>1. CASE cr' # cr
  BY <1>1, Written, ExclWrites
<1>2. CASE cr' = cr
  <2>0. Alone(r)' = Alone(r)
    BY <1>2 DEF Alone
  <2>1. CASE handleDeletion(r)
    <3>1. /\ cr[r].deleting /\ Over(cr[r]) /\ cr[r].phase # "Running" /\ ~Active(r)
          /\ op[r].at \in {"deleteJob", "finalize"}
      BY <2>1 DEF handleDeletion, At, Known, Excl, Early, Over, Ended
    <3>2. seen' = seen /\ sts' = sts /\ pod' = pod /\ op'[r].at \in {"finalize", "idle"}
      BY <2>1, Moved, SMT DEF handleDeletion, Idle
    <3>3. JobKept(r) \/ JobDying(r)
      <4>1. op'[r].at # op[r].at
        BY <2>1, Moved, SMT DEF handleDeletion, Idle, At
      <4> QED
        BY <3>1, <4>1, JobSteps DEF JobMade, JobGone, JobEnded
    <3> QED
      BY <1>2, <2>0, <3>1, <3>2, <3>3 DEF Known, Excl, Active, JobKept, JobDying
  <2>2. CASE SyncCache(r)
    <3>1. seen'[r] = cr[r] /\ UNCHANGED <<hold, sts, pod, job, op>>
      BY <2>2 DEF SyncCache, TypeInv, TypeOK
    <3> QED
      BY <1>2, <2>0, <3>1, SMT DEF Known, Excl, Active, Stopped, JobInForce, Released
  <2>3. CASE RunJob(r)
    BY <1>2, <2>0, <2>3 DEF RunJob, Known, Excl, Active, Stopped, JobInForce, Released
  <2>4. CASE EndJob(r)
    <3>1. JobEnded(r) /\ UNCHANGED <<seen, hold, sts, pod, op>>
      <4>1. job[r].at = "live" /\ op' = op /\ UNCHANGED <<seen, hold, sts, pod, op>>
        BY <2>4 DEF EndJob
      <4>2. \/ job' = [job EXCEPT ![r].state = "complete"] /\ <<r, job[r].gen>> \in wrote'
            \/ job' = [job EXCEPT ![r].state = "failed"]
        BY <2>4 DEF EndJob
      <4>3. job \in [Restores -> JobStates] /\ \A j \in JobStates : j \in Jobs
        BY DEF TypeInv, JobStates
      <4> QED
        BY <4>1, <4>2, <4>3, SMT DEF JobEnded, Jobs
    <3> QED
      BY <1>2, <2>0, <3>1, ZenonT(40) DEF JobEnded, Known, Excl, Active, Stopped, JobInForce, Released
  <2>5. CASE CollectJob(r)
    <3>1. job'[r] = NoJob /\ UNCHANGED <<seen, hold, sts, pod, op>>
      BY <2>5 DEF CollectJob, TypeInv
    <3>2. /\ ~Active(r) /\ op[r].at # "Running"
          /\ ~(cr[r].phase = "Running" /\ seen[r].phase # "Running")
      BY <2>5 DEF CollectJob, Known, Excl, Active, JobInForce, Synced, Attempting
    <3>3. job'[r].gen = 0 /\ job'[r].at = "none" /\ 0 <= cr[r].gen
      BY <3>1, SMT DEF NoJob, Known
    <3> QED
      BY <1>2, <2>0, <3>1, <3>2, <3>3 DEF Known, Excl, Active, Released
  <2>6. CASE DeleteRestore(r) \/ \E s \in Specs : EditSpec(r, s)
    BY <1>2, <2>0, <2>6, SMT
       DEF DeleteRestore, EditSpec, Known, Excl, Active, Stopped, JobInForce, Released
  <2> QED
    BY <1>2, <2>1, <2>2, <2>3, <2>4, <2>5, <2>6, ExclBegins, ExclStops, ExclJob, ExclEnds DEF Own, Pass
<1> QED
  BY <1>1, <1>2

\* A Job that may run is left alone but for its end.
LEMMA ActiveKept ==
  ASSUME TypeInv, Calm, NEW r \in Restores, Known(r), Own(r), Active(r)
  PROVE  JobKept(r) \/ EndJob(r)
<1>1. JobInForce(r) /\ op[r].at \in Early
  BY DEF Known, Excl
<1>2. CASE clearEarlierRestoreJob(r)
  BY <1>1, <1>2 DEF clearEarlierRestoreJob, JobInForce, restoreJobOfThisAttempt, At, Known, Synced,
     Attempting
<1>3. CASE createRestoreJob(r)
  BY <1>1, <1>3 DEF createRestoreJob, JobInForce, JobKept
<1>4. CASE handleDeletion(r)
  BY <1>1, <1>4 DEF handleDeletion, At, Early
<1>5. CASE CollectJob(r)
  BY <1>1, <1>5 DEF CollectJob, JobInForce, Active
<1> QED
  BY <1>2, <1>3, <1>4, <1>5
     DEF Own, Reconcile, ensureResolvedBackupSource, Pass, SyncCache, RunJob,
     DeleteRestore, EditSpec, setRestoreInProgressAnnotation, stopCluster,
     waitForPodsGone, refuseRestoreIfPodsRunning,
     handleRestoreSuccess, Release, waitForClusterReady, restoreClusterAfterFailure,
     transitionRestoreStatus, JobKept

\* What runs is a Job that may.
LEMMA RunsOwn ==
  ASSUME TypeInv, Calm, NEW q \in Restores, Own(q), Known(q), Runs
  PROVE  Runs'
<1>1. CASE EndJob(q)
  <2> SUFFICES ASSUME NEW a \in running'
               PROVE  a[1] \in Restores /\ Active(a[1])' /\ a = <<a[1], job'[a[1]].gen>>
    BY DEF Runs
  <2>1. a \in running /\ a # <<q, job[q].gen>>
    BY <1>1 DEF EndJob
  <2>2. a[1] \in Restores /\ Active(a[1]) /\ a = <<a[1], job[a[1]].gen>>
    BY <2>1 DEF Runs
  <2>3. job'[a[1]] = job[a[1]]
    BY <2>1, <2>2, OthersKept
  <2> QED
    BY <2>2, <2>3 DEF Active
<1>2. CASE ~EndJob(q)
  <2> SUFFICES ASSUME NEW a \in running'
               PROVE  a[1] \in Restores /\ Active(a[1])' /\ a = <<a[1], job'[a[1]].gen>>
    BY DEF Runs
  <2>1. CASE RunJob(q) /\ a = <<q, job[q].gen>>
    BY <2>1 DEF RunJob, Active
  <2>2. CASE a \in running
    <3>1. a[1] \in Restores /\ Active(a[1]) /\ a = <<a[1], job[a[1]].gen>>
      BY <2>2 DEF Runs
    <3>2. job'[a[1]] = job[a[1]]
      BY <1>2, <3>1, OthersKept, ActiveKept DEF JobKept
    <3> QED
      BY <3>1, <3>2 DEF Active
  <2>3. a \in running \/ (RunJob(q) /\ a = <<q, job[q].gen>>)
    BY <1>2 DEF Own, Reconcile, ensureResolvedBackupSource, Pass, SyncCache, RunJob,
     CollectJob, DeleteRestore, EditSpec, setRestoreInProgressAnnotation, stopCluster,
     waitForPodsGone, refuseRestoreIfPodsRunning, clearEarlierRestoreJob, createRestoreJob,
     handleRestoreSuccess, Release, waitForClusterReady, restoreClusterAfterFailure,
     transitionRestoreStatus, handleDeletion
  <2> QED
    BY <2>1, <2>2, <2>3
<1> QED
  BY <1>1, <1>2

\* A step of any kind keeps the volume exclusive.
LEMMA ExclKept ==
  ASSUME TypeInv, EndedInv, SyncInv, HoldInv, HoldsInv, RestoredInv, ExclInv, [Next]_vars, Calm
  PROVE  ExclInv'
<1>0. ASSUME NEW r \in Restores PROVE Known(r)
  <2>1. seen[r].spec \in {"stop", "invalid"}
    <3>1. seen[r].spec \in Specs
      BY TypeFacts DEF Copies
    <3> QED
      BY <3>1, RestoreAssumption DEF Calm
  <2>2. cr[r].gen \in Nat /\ seen[r].gen \in Nat /\ job[r].gen \in Nat /\ Nobody # r
    BY TypeFacts, Constants, RestoreAssumption, SMT DEF JobStates, Jobs, Nobody
  <2> QED
    BY <2>1, <2>2 DEF Known, ExclInv, SyncInv, HoldsInv, RestoredInv, EndedInv
<1>1. ASSUME NEW q \in Restores, Own(q) PROVE ExclInv'
  <2>1. Runs'
    BY <1>0, <1>1, RunsOwn DEF ExclInv
  <2>2. ASSUME NEW r \in Restores PROVE Excl(r)'
    <3>1. CASE r = q
      BY <1>0, <1>1, <3>1, ExclOwn
    <3>2. CASE r # q
      BY <1>1, <3>2, ExclOther
    <3> QED
      BY <3>1, <3>2
  <2> QED
    BY <2>1, <2>2 DEF ExclInv
<1>2. ASSUME UNCHANGED <<cr, hold, job, sts, pod>>, running' \subseteq running PROVE Runs'
  BY <1>2 DEF ExclInv, Runs, Active
<1>3. CASE Restart
  <2> SUFFICES ASSUME NEW r \in Restores PROVE Excl(r)'
    BY <1>2, <1>3 DEF Restart, ExclInv
  <2>1. /\ seen'[r] = cr[r] /\ op'[r].at = "idle" /\ UNCHANGED <<cr, hold, job, sts, pod>>
        /\ Alone(r)' = Alone(r) /\ (Released(r) => Alone(r))
    BY <1>3, CalmFacts DEF Restart, Idle, Alone
  <2>2. Excl(r)
    BY DEF ExclInv
  <2> QED
    BY <2>1, <2>2 DEF Excl, Active, Stopped, JobInForce, Early
<1>4. CASE StandalonePass
  <2> SUFFICES ASSUME NEW r \in Restores PROVE Excl(r)'
    BY <1>4 DEF StandalonePass, ExclInv, Runs, Active
  <2>1. hold # r /\ UNCHANGED <<cr, seen, hold, job, op, pod>> /\ Alone(r)' = Alone(r)
    BY <1>0, <1>4, CalmFacts DEF StandalonePass, Alone, Known
  <2>2. Excl(r)
    BY DEF ExclInv
  <2> QED
    BY <2>1, <2>2 DEF Excl, Active, Stopped, JobInForce, Released
<1>5. CASE ScalePods
  <2> SUFFICES ASSUME NEW r \in Restores PROVE Excl(r)'
    BY <1>5 DEF ScalePods, ExclInv, Runs, Active
  <2>1. /\ UNCHANGED <<cr, seen, hold, job, op, sts>> /\ Alone(r)' = Alone(r)
    BY <1>5 DEF ScalePods, Alone
  <2>2. Excl(r)
    BY DEF ExclInv
  <2>3. ASSUME sts.reps = 0 PROVE ~pod'
    <3>1. ~(sts.reps = 1)
      BY <2>3, SMT
    <3> QED
      BY <1>5, <3>1 DEF ScalePods
  <2>4. Stopped(r) => Stopped(r)'
    BY <2>1, <2>3 DEF Stopped
  <2>5. /\ Active(r)' = Active(r) /\ JobInForce(r)' = JobInForce(r)
        /\ Released(r)' = Released(r)
    BY <2>1 DEF Active, JobInForce, Released
  <2> QED
    BY <2>1, <2>2, <2>3, <2>4, <2>5, SMT DEF Excl
<1>6. CASE (\E a \in Attempts : CollectPod(a)) \/ UNCHANGED vars
  <2>1. UNCHANGED <<cr, seen, hold, job, op, sts, pod>> /\ running' \subseteq running
    BY <1>6 DEF CollectPod, vars
  <2> SUFFICES ASSUME NEW r \in Restores PROVE Excl(r)'
    BY <1>2, <2>1 DEF ExclInv
  <2>2. Excl(r)
    BY DEF ExclInv
  <2>3. /\ Active(r)' = Active(r) /\ Stopped(r)' = Stopped(r) /\ JobInForce(r)' = JobInForce(r)
        /\ Released(r)' = Released(r) /\ Alone(r)' = Alone(r)
    BY <2>1 DEF Active, Stopped, JobInForce, Released, Alone
  <2> QED
    BY <2>1, <2>2, <2>3, SMT DEF Excl
<1> QED
  BY <1>1, <1>3, <1>4, <1>5, <1>6, OtherSteps

\* The data volume has one user at a time, the server or the Job of one attempt: for
\* any number of restores that stop the standalone, of restarts and of failed status
\* writes.  What Calm leaves out is a restart or a lost write between an ending that
\* let the standalone go and the write that says so, beside another restore: the
\* ending is repeated then and starts a standalone that one has stopped.
THEOREM StoreExclusiveCorrect ==
  ASSUME Calm
  PROVE  Spec => []StoreExclusive
<1>1. Init => ExclInv /\ HoldsInv /\ RestoredInv
  <2> SUFFICES ASSUME Init PROVE ExclInv /\ HoldsInv /\ RestoredInv
    OBVIOUS
  <2>1. running = {}
    BY DEF Init
  <2> SUFFICES ASSUME NEW r \in Restores PROVE Excl(r) /\ Holds(r) /\ Restored(r)
    BY <2>1 DEF ExclInv, HoldsInv, RestoredInv, Runs
  <2>2. /\ op[r].at = "idle" /\ job[r] = NoJob /\ cr[r].phase = "" /\ seen[r] = cr[r]
        /\ ~cr[r].deleting /\ cr[r].gen = 1 /\ hold = Nobody /\ Nobody # r
    BY Initially, RestoreAssumption DEF Nobody
  <2>3. job[r].at = "none" /\ job[r].gen = 0
    <3>1. NoJob.at = "none" /\ NoJob.gen = 0
      BY DEF NoJob
    <3> QED
      BY <2>2, <3>1
  <2>4. Excl(r)
    <3>1. job[r].gen <= cr[r].gen
      <4>1. cr[r].gen = 1 /\ job[r].gen = 0
        BY <2>2, <2>3
      <4>2. 0 <= 1
        BY SMT
      <4> QED
        BY <4>1, <4>2
    <3>2. seen[r].deleting = cr[r].deleting /\ seen[r].phase = ""
      BY <2>2
    <3>3. ~Active(r)
      BY <2>3 DEF Active
    <3> QED
      BY <2>2, <2>3, <3>1, <3>2, <3>3 DEF Excl
  <2> QED
    BY <2>2, <2>3, <2>4 DEF Holds, Restored
<1>2. TypeInv /\ EndedInv /\ [Next]_vars => EndedInv'
  BY CalmFacts, EndedKept
<1>3. TypeInv /\ EndedInv /\ SyncInv /\ [Next]_vars => SyncInv'
  BY CalmFacts, SyncKept
<1>4. TypeInv /\ EndedInv /\ SyncInv /\ HoldsInv /\ [Next]_vars => HoldsInv'
  BY CalmFacts, HoldsKept
<1>5. TypeInv /\ SyncInv /\ RestoredInv /\ [Next]_vars => RestoredInv'
  BY CalmFacts, RestoredKept
<1>6. TypeInv /\ EndedInv /\ SyncInv /\ HoldInv /\ HoldsInv /\ RestoredInv /\ ExclInv /\ [Next]_vars
        => ExclInv'
  BY ExclKept
<1>7. ExclInv => StoreExclusive
  <2> SUFFICES ASSUME ExclInv PROVE StoreExclusive
    OBVIOUS
  <2>1. ASSUME NEW a \in running PROVE a[1] = hold /\ ~pod /\ a = <<hold, job[hold].gen>>
    BY DEF ExclInv, Runs, Excl, Stopped
  <2> QED
    BY <2>1 DEF StoreExclusive
<1> QED
  BY <1>1, <1>2, <1>3, <1>4, <1>5, <1>6, <1>7, TypeInit, TypeStep, EndedInit, SyncInit, HoldInit,
     HoldKept, PTL DEF Spec
=============================================================================
