------------------------- MODULE RestoreStoreProofs -------------------------
(***************************************************************************)
(* What the restores of a standalone do to it and to its data, for any     *)
(* number of restores, edits, deletions, restarts and failed writes: who   *)
(* holds it, what a restore that says Completed restored, and who uses the *)
(* data volume while a pass begins and stops it.                           *)
(***************************************************************************)
EXTENDS RestoreJobProofs

\* Zenon proves the steps, and SMT the ones with arithmetic or record updates, by name.
USE Zenon

-----------------------------------------------------------------------------
(* What a pass read is what the restore says.                              *)

\* An attempt is about the spec in force: an edit waits for the end of the attempt.
Synced(r) ==
  /\ seen[r].gen <= cr[r].gen
  /\ Attempting(r) \/ cr[r].phase \notin Ended
        => seen[r].spec = cr[r].spec /\ seen[r].gen = cr[r].gen
  /\ Attempting(r) => op[r].spec = cr[r].spec /\ op[r].gen = cr[r].gen
SyncInv == \A r \in Restores : Synced(r)

\* A pass that begins reads the attempt in force.
LEMMA Begun ==
  ASSUME TypeInv, NEW r \in Restores, Begins(r), Synced(r), "staleEnding" \notin Hazards
  PROVE  seen[r].spec = cr[r].spec /\ seen[r].gen = cr[r].gen
  BY DEF Begins, May, Synced

LEMMA SyncInit == Init => SyncInv
<1> SUFFICES ASSUME Init, NEW r \in Restores PROVE Synced(r)
  BY DEF SyncInv
<1>1. cr[r].gen = 1 /\ seen[r] = cr[r] /\ op[r].at = "idle"
  BY Initially
<1> QED
  BY <1>1, SMT DEF Synced, Attempting

\* A step of the restore itself keeps what its pass read in force.
LEMMA SyncOwn ==
  ASSUME TypeInv, NEW r \in Restores, Own(r), Synced(r), EndedInv,
         {"staleEnding", "editsMidway"} \cap Hazards = {}
  PROVE  Synced(r)'
<1>0. /\ seen[r].gen \in Nat /\ cr[r].gen \in Nat
      /\ ~May("staleEnding") /\ ~May("editsMidway") /\ Idle.at = "idle"
  BY TypeFacts DEF May, Idle
<1>1. CASE Says(r)
  <2>1. Attempting(r) /\ ~Attempting(r)'
    BY <1>0, <1>1 DEF Says, Attempting, Phases
  <2> QED
    BY <1>0, <1>1, <2>1 DEF Says, Synced
<1>2. CASE Edits(r)
  BY <1>0, <1>2, SMT DEF Edits, Synced, Settled, Over, Attempting
<1>3. CASE Deletes(r)
  BY <1>3 DEF Deletes, Synced, Attempting
<1>4. CASE Finalizes(r)
  BY <1>0, <1>4 DEF Finalizes, Synced, Attempting
<1>5. CASE cr' = cr
  <2>1. CASE SyncCache(r)
    <3>1. seen'[r] = cr[r] /\ op' = op
      BY <2>1 DEF SyncCache, TypeInv, TypeOK
    <3> QED
      BY <1>0, <1>5, <3>1, SMT DEF Synced, Attempting
  <2>2. CASE Reconcile(r) \/ ensureResolvedBackupSource(r)
    <3>1. Begins(r) /\ seen' = seen /\ op'[r].gen = seen[r].gen /\ op'[r].spec = seen[r].spec
      BY <2>2, Moved DEF Reconcile, ensureResolvedBackupSource, checkRestoreProgress, startRestore
    <3>2. seen[r].spec = cr[r].spec /\ seen[r].gen = cr[r].gen
      BY <1>0, <3>1, Begun DEF May
    <3> QED
      BY <1>0, <1>5, <3>1, <3>2 DEF Synced
  <2>3. CASE op' = op /\ seen' = seen
    BY <1>5, <2>3 DEF Synced, Attempting
  <2>4. CASE seen' = seen /\ ~Attempting(r)'
    BY <1>5, <2>4 DEF Synced
  <2>5. CASE seen' = seen /\ Attempting(r) /\ op'[r].gen = op[r].gen /\ op'[r].spec = op[r].spec
    BY <1>5, <2>5 DEF Synced
  <2>6. CASE Pass(r)
    <3>1. CASE handleDeletion(r) \/ transitionRestoreStatus(r)
      <4>1. ~Attempting(r)'
        BY <1>0, <3>1, Moved DEF handleDeletion, transitionRestoreStatus, Attempting
      <4> QED
        BY <2>4, <3>1, <4>1 DEF handleDeletion, transitionRestoreStatus
    <3>2. CASE ~(handleDeletion(r) \/ transitionRestoreStatus(r))
      <4>1. seen' = seen /\ (\E at : Go(r, at))
        BY <2>6, <3>2 DEF Pass, setRestoreInProgressAnnotation, stopCluster, waitForPodsGone,
           refuseRestoreIfPodsRunning, clearEarlierRestoreJob, createRestoreJob,
           handleRestoreSuccess, Release, waitForClusterReady, restoreClusterAfterFailure
      <4>2. Attempting(r)
        BY <2>6, <3>2 DEF Attempting, Pass, setRestoreInProgressAnnotation, stopCluster,
           waitForPodsGone, refuseRestoreIfPodsRunning, clearEarlierRestoreJob, createRestoreJob,
           handleRestoreSuccess, Release, waitForClusterReady, restoreClusterAfterFailure, At
      <4> QED
        BY <2>5, <4>1, <4>2, Moved
    <3> QED
      BY <3>1, <3>2
  <2> QED
    BY <1>0, <1>5, <2>1, <2>2, <2>3, <2>6 DEF Own, RunJob, EndJob, CollectJob, DeleteRestore, EditSpec
<1> QED
  BY <1>1, <1>2, <1>3, <1>4, <1>5, Written

LEMMA SyncKept ==
  ASSUME TypeInv, EndedInv, SyncInv, [Next]_vars,
         {"staleEnding", "editsMidway"} \cap Hazards = {}
  PROVE  SyncInv'
<1>1. ASSUME NEW r \in Restores, Own(r) PROVE SyncInv'
  BY <1>1, OthersKept, SyncOwn, SMT DEF SyncInv, Synced, Attempting
<1>2. CASE Restart
  <2> SUFFICES ASSUME NEW r \in Restores PROVE Synced(r)'
    BY DEF SyncInv
  <2>1. seen'[r] = cr[r] /\ cr'[r] = cr[r] /\ op'[r].at = "idle" /\ cr[r].gen \in Nat
    BY <1>2, TypeFacts DEF Restart, Idle
  <2> QED
    BY <2>1, SMT DEF Synced, Attempting
<1>3. CASE UNCHANGED <<cr, seen, hold, job, wrote, op, used>>
  BY <1>3 DEF SyncInv, Synced, Attempting
<1> QED
  BY <1>1, <1>2, <1>3, OtherSteps, OthersStill

-----------------------------------------------------------------------------
(* Who holds the standalone.                                               *)

\* A restore that holds the standalone has an attempt that stops it, and no pass of
\* it is past letting go.
Holds(r) ==
  /\ hold = r => /\ cr[r].spec = "stop" /\ ~Over(cr[r])
                 /\ op[r].at \notin Ended \cup {"ready", "pods"}
  /\ op[r].at = "annotate" => op[r].spec = "stop"
HoldsInv == \A r \in Restores : Holds(r)

CalmEndings == {"staleEnding", "editsMidway", "endingFails", "reentryFails"} \cap Hazards = {}

\* A pass that begins on a restore that holds the standalone goes on with it.
LEMMA HoldsBegun ==
  ASSUME TypeInv, NEW r \in Restores, Synced(r), Holds(r), CalmEndings,
         Reconcile(r) \/ ensureResolvedBackupSource(r)
  PROVE  Holds(r)'
<1>1. /\ Begins(r) /\ seen[r].spec = cr[r].spec /\ ~May("reentryFails")
      /\ cr' = cr /\ hold' = hold /\ op'[r].spec = seen[r].spec
  BY Moved, Begun DEF CalmEndings, May, Reconcile, ensureResolvedBackupSource, checkRestoreProgress,
     startRestore
<1>2. op'[r].at = "annotate" => seen[r].spec = "stop"
  BY Moved, SMT DEF Reconcile, ensureResolvedBackupSource, checkRestoreProgress, startRestore
<1>3. ASSUME hold = r PROVE op'[r].at \notin Ended \cup {"ready", "pods"}
  <2>1. seen[r].spec = "stop"
    BY <1>1, <1>3 DEF Holds
  <2> QED
    BY <1>1, <1>3, <2>1, Moved, SMT DEF Reconcile, ensureResolvedBackupSource, checkRestoreProgress,
       startRestore, Ended
<1> QED
  BY <1>1, <1>2, <1>3 DEF Holds

\* The other steps of the restore itself keep it.
LEMMA HoldsOwn ==
  ASSUME TypeInv, NEW r \in Restores, Own(r), Synced(r), Holds(r), EndedInv, CalmEndings
  PROVE  Holds(r)'
<1>0. /\ Nobody # r /\ Idle.at = "idle" /\ ~May("editsMidway") /\ ~May("endingFails")
      /\ (Attempting(r) => ~Over(cr[r]) /\ op[r].spec = cr[r].spec)
  BY RestoreAssumption DEF Nobody, Idle, CalmEndings, May, EndedInv, Synced
<1>1. CASE Says(r)
  BY <1>0, <1>1 DEF Says, Holds, Over, Ended, Phases
<1>2. CASE Edits(r)
  BY <1>0, <1>2 DEF Edits, Holds, Settled
<1>3. CASE Deletes(r)
  BY <1>3 DEF Deletes, Holds, Over
<1>4. CASE Finalizes(r)
  BY <1>0, <1>4 DEF Finalizes, Holds, Ended
<1>5. CASE cr' = cr
  <2>1. CASE Reconcile(r) \/ ensureResolvedBackupSource(r)
    BY <2>1, HoldsBegun
  <2>2. CASE op' = op /\ hold' = hold
    BY <1>5, <2>2 DEF Holds
  <2>3. CASE setRestoreInProgressAnnotation(r)
    <3>1. cr[r].spec = "stop" /\ ~Over(cr[r]) /\ op[r].at = "annotate"
      BY <1>0, <2>3 DEF setRestoreInProgressAnnotation, At, Attempting, Holds
    <3>2. op'[r].at = "stop" \/ (hold' # r /\ op'[r].at = "Failed")
      BY <2>3, Moved DEF setRestoreInProgressAnnotation
    <3> QED
      BY <1>5, <3>1, <3>2 DEF Holds, Ended
  <2>4. CASE Release(r)
    <3>1. hold' # r /\ op'[r].at # "annotate"
      BY <1>0, <2>4, Moved, SMT DEF Release, LetGo, clearRestoreInProgressAnnotation
    <3> QED
      BY <3>1 DEF Holds
  <2>5. CASE hold' = hold /\ (op'[r].at \in {"stopped", "abandon", "job", "Pending", "Running",
             "startFailed", "release", "releaseFailed", "finalize", "idle"}
             \/ (hold # r /\ op'[r].at # "annotate"))
    BY <1>5, <2>5 DEF Holds, Ended
  <2>6. CASE stopCluster(r) \/ waitForPodsGone(r) \/ clearEarlierRestoreJob(r)
             \/ handleRestoreSuccess(r) \/ restoreClusterAfterFailure(r)
    BY <1>0, <2>5, <2>6, Moved DEF stopCluster, waitForPodsGone, clearEarlierRestoreJob,
       handleRestoreSuccess, restoreClusterAfterFailure
  <2>7. CASE createRestoreJob(r)
    <3>1. hold = r => op[r].spec = "stop"
      BY <1>0, <2>7 DEF createRestoreJob, At, Attempting, Holds
    <3> QED
      BY <2>5, <2>7, <3>1, Moved, SMT DEF createRestoreJob
  <2>8. CASE refuseRestoreIfPodsRunning(r) \/ waitForClusterReady(r)
    <3>1. hold # r /\ hold' = hold
      BY <2>8 DEF refuseRestoreIfPodsRunning, waitForClusterReady, At, Holds
    <3>2. op'[r].at # "annotate"
      BY <2>8, Moved, SMT DEF refuseRestoreIfPodsRunning, waitForClusterReady
    <3> QED
      BY <2>5, <3>1, <3>2
  <2>9. CASE transitionRestoreStatus(r)
    BY <1>0, <2>5, <2>9, Moved DEF transitionRestoreStatus
  <2>10. CASE handleDeletion(r)
    <3>1. hold' = hold \/ hold' = Nobody
      BY <2>10 DEF handleDeletion, clearRestoreInProgressAnnotation
    <3>2. op'[r].at \in {"finalize", "idle"}
      BY <1>0, <2>10, Moved DEF handleDeletion
    <3> QED
      BY <1>0, <1>5, <3>1, <3>2 DEF Holds, Ended
  <2> QED
    BY <2>1, <2>2, <2>3, <2>4, <2>6, <2>7, <2>8, <2>9, <2>10
       DEF Own, Pass, SyncCache, RunJob, EndJob, CollectJob, DeleteRestore, EditSpec
<1> QED
  BY <1>1, <1>2, <1>3, <1>4, <1>5, Written

\* A step of another restore takes a hold only on a standalone nobody holds.
LEMMA HoldMoves ==
  ASSUME TypeInv, NEW q \in Restores, Own(q)
  PROVE  /\ hold' = hold \/ hold' = q \/ (hold = q /\ hold' = Nobody)
         /\ hold' = q /\ hold # q => hold = Nobody
  BY DEF Own, Reconcile, ensureResolvedBackupSource, Pass, SyncCache,
     RunJob, EndJob, CollectJob, DeleteRestore, EditSpec, setRestoreInProgressAnnotation,
     stopCluster, waitForPodsGone, refuseRestoreIfPodsRunning, clearEarlierRestoreJob,
     createRestoreJob, handleRestoreSuccess, Release, waitForClusterReady, LetGo,
     restoreClusterAfterFailure, transitionRestoreStatus, handleDeletion,
     clearRestoreInProgressAnnotation

LEMMA HoldsKept ==
  ASSUME TypeInv, EndedInv, SyncInv, HoldsInv, [Next]_vars, CalmEndings
  PROVE  HoldsInv'
<1>1. ASSUME NEW q \in Restores, Own(q) PROVE HoldsInv'
  <2> SUFFICES ASSUME NEW r \in Restores PROVE Holds(r)'
    BY DEF HoldsInv
  <2>1. CASE r = q
    BY <1>1, <2>1, HoldsOwn DEF HoldsInv, SyncInv
  <2>2. CASE r # q
    <3>1. cr'[r] = cr[r] /\ op'[r] = op[r]
      BY <1>1, <2>2, OthersKept
    <3>2. hold' = r => hold = r
      BY <1>1, <2>2, HoldMoves, RestoreAssumption DEF Nobody
    <3> QED
      BY <3>1, <3>2 DEF HoldsInv, Holds
  <2> QED
    BY <2>1, <2>2
<1>2. CASE Restart
  BY <1>2 DEF Restart, HoldsInv, Holds, Idle, Ended
<1>3. CASE UNCHANGED <<cr, seen, hold, job, wrote, op, used>>
  BY <1>3 DEF HoldsInv, Holds
<1> QED
  BY <1>1, <1>2, <1>3, OtherSteps, OthersStill

-----------------------------------------------------------------------------
(* What a restore that says Completed restored.                            *)

\* The Job of an attempt under way is its own, and an attempt past its Job, or
\* said to be completed, has had its Job succeed.
Restored(r) ==
  /\ job[r].at # "none" /\ job[r].state = "complete" => <<r, job[r].gen>> \in wrote
  /\ cr[r].phase = "Running" \/ op[r].at = "Running"
       \/ (seen[r].phase = "Running" /\ seen[r].gen = cr[r].gen)
        => job[r].at = "none" \/ job[r].gen = cr[r].gen
  /\ op[r].at \in {"start", "release", "ready", "Completed"} => <<r, op[r].gen>> \in wrote
  /\ cr[r].phase = "Completed" => <<r, cr[r].obs>> \in wrote
RestoredInv == \A r \in Restores : Restored(r)

CalmAttempts == {"staleEnding", "editsMidway"} \cap Hazards = {}

\* Only the Job's end and its own Jobs are written: what succeeded stays so.
LEMMA WroteGrows ==
  ASSUME TypeInv, [Next]_vars
  PROVE  wrote \subseteq wrote'
<1>1. ASSUME NEW q \in Restores, Own(q) PROVE wrote \subseteq wrote'
  BY <1>1 DEF Own, Reconcile, ensureResolvedBackupSource, Pass, SyncCache, RunJob, EndJob,
     CollectJob, DeleteRestore, EditSpec, setRestoreInProgressAnnotation, stopCluster,
     waitForPodsGone, refuseRestoreIfPodsRunning, clearEarlierRestoreJob, createRestoreJob,
     handleRestoreSuccess, Release, waitForClusterReady, restoreClusterAfterFailure,
     transitionRestoreStatus, handleDeletion
<1> QED
  BY <1>1, OtherSteps, OthersStill DEF Restart

\* What the steps on the Job leave of it.
JobKept(r) == job'[r] = job[r]
JobMade(r) == /\ op[r].at = "job" /\ job'[r].at = "live" /\ job'[r].gen = op[r].gen
              /\ job'[r].state = "active" /\ op'[r].at = "Running" /\ job[r].at = "none"
JobDying(r) == /\ job[r].at # "none" /\ job'[r].at = "dying" /\ job'[r].gen = job[r].gen
               /\ job'[r].state = job[r].state
               /\ op[r].at \in {"job", "deleteJob"} /\ op'[r].at # "Running"
JobGone(r) == job'[r].at = "none" /\ op' = op
JobEnded(r) == /\ job'[r].at = job[r].at /\ job'[r].gen = job[r].gen /\ op' = op
               /\ job'[r].state = "complete" => <<r, job[r].gen>> \in wrote'
               /\ job'[r].state # "active" /\ job[r].at = "live"
LEMMA JobSteps ==
  ASSUME TypeInv, NEW r \in Restores, Own(r)
  PROVE  JobKept(r) \/ JobMade(r) \/ JobDying(r) \/ JobGone(r) \/ JobEnded(r)
<1>0. job \in [Restores -> JobStates] /\ \A j \in JobStates : j \in Jobs
  BY DEF TypeInv, JobStates
<1>1. ASSUME createRestoreJob(r), job' # job PROVE JobMade(r)
  <2>1. /\ job' = [job EXCEPT ![r] = [at |-> "live", gen |-> op[r].gen, state |-> "active"]]
        /\ Go(r, "Running") /\ At(r, "job") /\ job[r].at = "none"
    BY <1>1 DEF createRestoreJob
  <2>2. job'[r].at = "live" /\ job'[r].gen = op[r].gen /\ job'[r].state = "active"
    BY <1>0, <2>1
  <2> QED
    BY <2>1, <2>2, Moved DEF JobMade, At
<1>2. ASSUME clearEarlierRestoreJob(r) PROVE JobDying(r)
  <2>1. job'[r].at = "dying" /\ job'[r].gen = job[r].gen /\ job'[r].state = job[r].state
    BY <1>0, <1>2, SMT DEF clearEarlierRestoreJob, Jobs
  <2> QED
    BY <1>2, <2>1, Moved, SMT DEF clearEarlierRestoreJob, JobDying, At
<1>3. ASSUME handleDeletion(r), job'[r] # job[r] PROVE JobDying(r)
  <2>1. /\ At(r, "deleteJob") /\ Go(r, "finalize")
        /\ job' = [job EXCEPT ![r].at = IF @ = "none" THEN @ ELSE "dying"]
    BY <1>3 DEF handleDeletion
  <2>2. CASE job[r].at = "none"
    BY <1>0, <1>3, <2>1, <2>2, SMT DEF Jobs
  <2>3. CASE job[r].at # "none"
    <3>1. job'[r].at = "dying" /\ job'[r].gen = job[r].gen /\ job'[r].state = job[r].state
      BY <1>0, <2>1, <2>3, SMT DEF Jobs
    <3> QED
      BY <2>1, <2>3, <3>1, Moved, SMT DEF JobDying, At
  <2> QED
    BY <2>2, <2>3
<1>4. ASSUME CollectJob(r) PROVE JobGone(r)
  BY <1>0, <1>4 DEF CollectJob, NoJob, JobGone
<1>5. ASSUME EndJob(r) PROVE JobEnded(r)
  <2>1. job[r].at = "live" /\ op' = op
    BY <1>5 DEF EndJob
  <2>2. \/ job' = [job EXCEPT ![r].state = "complete"] /\ <<r, job[r].gen>> \in wrote'
        \/ job' = [job EXCEPT ![r].state = "failed"]
    BY <1>5 DEF EndJob
  <2> QED
    BY <1>0, <2>1, <2>2, SMT DEF JobEnded, Jobs
<1> QED
  BY <1>1, <1>2, <1>3, <1>4, <1>5
     DEF Own, Reconcile, ensureResolvedBackupSource, Pass, SyncCache, RunJob,
     DeleteRestore, EditSpec, setRestoreInProgressAnnotation, stopCluster,
     waitForPodsGone, refuseRestoreIfPodsRunning, createRestoreJob,
     handleRestoreSuccess, Release, waitForClusterReady, restoreClusterAfterFailure,
     transitionRestoreStatus, JobKept

\* Where a pass that is past its Job, or writes Running, comes from.
LEMMA PastJob ==
  ASSUME TypeInv, NEW r \in Restores, Own(r)
  PROVE  /\ op'[r].at \in {"start", "release", "ready", "Completed"}
              => \/ op[r].at \in {"start", "release", "ready", "Completed"} /\ op'[r].gen = op[r].gen
                 \/ /\ Begins(r) /\ op'[r].gen = seen[r].gen /\ seen[r].phase = "Running"
                    /\ job[r].at # "none" /\ job[r].state = "complete"
         /\ op'[r].at = "Running"
              => op[r].at = "Running" \/ (op[r].at = "job" /\ (OwnJob(r) \/ JobMade(r)))
<1>0. Idle.at = "idle"
  BY DEF Idle
<1>1. CASE Reconcile(r) \/ ensureResolvedBackupSource(r)
  BY <1>1, Moved, SMT DEF Reconcile, ensureResolvedBackupSource, checkRestoreProgress, startRestore
<1>2. CASE op' = op
  BY <1>2
<1>3. CASE createRestoreJob(r)
  <2>1. op[r].at = "job" /\ op'[r].at \in {"Running", "startFailed", "Failed"}
    BY <1>3, Moved DEF createRestoreJob, At
  <2>2. op'[r].at = "Running" => OwnJob(r) \/ job' # job
    <3>1. ASSUME job[r].at = "none",
                 job' = [job EXCEPT ![r] = [at |-> "live", gen |-> op[r].gen, state |-> "active"]]
          PROVE  job' # job
      BY <3>1, SMT DEF TypeInv
    <3> QED
      BY <1>3, <3>1, Moved, SMT DEF createRestoreJob
  <2>3. job' # job => JobMade(r)
    BY <1>3, <2>1, JobSteps DEF createRestoreJob, TypeInv, JobKept, JobDying, JobGone, JobEnded
  <2> QED
    BY <2>1, <2>2, <2>3
<1>4. CASE setRestoreInProgressAnnotation(r) \/ stopCluster(r) \/ waitForPodsGone(r)
  BY <1>0, <1>4, Moved, SMT DEF setRestoreInProgressAnnotation, stopCluster, waitForPodsGone, At
<1>5. CASE refuseRestoreIfPodsRunning(r) \/ clearEarlierRestoreJob(r)
  BY <1>0, <1>5, Moved, SMT DEF refuseRestoreIfPodsRunning, clearEarlierRestoreJob, At
<1>6. CASE handleRestoreSuccess(r) \/ Release(r)
  BY <1>0, <1>6, Moved, SMT DEF handleRestoreSuccess, Release, At
<1>7. CASE waitForClusterReady(r) \/ restoreClusterAfterFailure(r)
  BY <1>0, <1>7, Moved, SMT DEF waitForClusterReady, restoreClusterAfterFailure, At
<1>8. CASE transitionRestoreStatus(r)
  BY <1>0, <1>8, Moved DEF transitionRestoreStatus, At
<1>9. CASE handleDeletion(r)
  BY <1>0, <1>9, Moved, SMT DEF handleDeletion, At
<1> QED
  BY <1>1, <1>2, <1>3, <1>4, <1>5, <1>6, <1>7, <1>8, <1>9
     DEF Own, Pass, SyncCache, RunJob, EndJob, CollectJob, DeleteRestore, EditSpec

\* The steps of the restore itself.
LEMMA RestoredOwn ==
  ASSUME TypeInv, NEW r \in Restores, Own(r), Synced(r), Restored(r), CalmAttempts,
         wrote \subseteq wrote'
  PROVE  Restored(r)'
<1>0. /\ Idle.at = "idle" /\ ~May("editsMidway") /\ "staleEnding" \notin Hazards
      /\ cr[r].gen \in Nat /\ seen[r].gen \in Nat /\ seen[r].gen <= cr[r].gen
  BY TypeFacts DEF Idle, CalmAttempts, May, Synced
<1>1. (job[r].at # "none" /\ job[r].state = "complete" => <<r, job[r].gen>> \in wrote)'
  BY JobSteps DEF JobKept, JobMade, JobDying, JobGone, JobEnded, Restored
<1>2. ASSUME op'[r].at \in {"start", "release", "ready", "Completed"}
      PROVE  <<r, op'[r].gen>> \in wrote'
  <2>1. CASE op[r].at \in {"start", "release", "ready", "Completed"} /\ op'[r].gen = op[r].gen
    BY <2>1 DEF Restored
  <2>2. CASE /\ Begins(r) /\ op'[r].gen = seen[r].gen /\ seen[r].phase = "Running"
             /\ job[r].at # "none" /\ job[r].state = "complete"
    <3>1. seen[r].gen = cr[r].gen
      BY <1>0, <2>2, Begun
    <3> QED
      BY <2>2, <3>1 DEF Restored
  <2> QED
    BY <1>2, <2>1, <2>2, PastJob
<1>3. ASSUME cr'[r].phase = "Completed" PROVE <<r, cr'[r].obs>> \in wrote'
  <2>1. CASE Says(r)
    <3>1. op[r].at = "Completed" /\ op[r].gen = cr[r].gen
      BY <1>3, <2>1 DEF Says, Synced, Attempting
    <3> QED
      BY <2>1, <3>1 DEF Says, Restored
  <2> QED
    BY <1>3, <2>1, Written DEF Edits, Deletes, Finalizes, Restored
<1>4. ASSUME \/ cr'[r].phase = "Running" \/ op'[r].at = "Running"
             \/ seen'[r].phase = "Running" /\ seen'[r].gen = cr'[r].gen
      PROVE  job'[r].at = "none" \/ job'[r].gen = cr'[r].gen
  <2>1. ASSUME op[r].at = "job", OwnJob(r) PROVE job[r].gen = cr[r].gen
    BY <2>1 DEF OwnJob, restoreJobOfThisAttempt, Synced, Attempting
  <2>2. CASE JobMade(r)
    <3>1. op[r].gen = cr[r].gen
      BY <2>2 DEF JobMade, Synced, Attempting
    <3>2. cr' = cr
      BY <2>2, Written DEF JobMade, Says, Edits, Deletes, Finalizes
    <3> QED
      BY <2>2, <3>1, <3>2 DEF JobMade
  <2>3. CASE JobGone(r)
    BY <2>3 DEF JobGone
  <2>4. CASE /\ JobKept(r) \/ JobDying(r) \/ JobEnded(r)
             /\ ~JobMade(r)
    <3>0. job'[r].gen = job[r].gen /\ (job[r].at = "none" => job'[r].at = "none")
      BY <2>4 DEF JobKept, JobDying, JobEnded
    <3>1. op'[r].at = "Running" => op[r].at = "Running" \/ job[r].gen = cr[r].gen
      BY <2>1, <2>4, PastJob
    <3>2. CASE cr' = cr
      <4>1. seen' = seen \/ seen'[r] = cr[r]
        BY DEF TypeInv, TypeOK, Own, Reconcile, ensureResolvedBackupSource, Pass, SyncCache, RunJob, EndJob,
           CollectJob, DeleteRestore, EditSpec, setRestoreInProgressAnnotation, stopCluster,
           waitForPodsGone, refuseRestoreIfPodsRunning, clearEarlierRestoreJob, createRestoreJob,
           handleRestoreSuccess, Release, waitForClusterReady, restoreClusterAfterFailure,
           transitionRestoreStatus, handleDeletion
      <4> QED
        BY <1>4, <3>0, <3>1, <3>2, <4>1 DEF Restored
    <3>3. CASE Says(r)
      BY <1>0, <1>4, <3>0, <3>3 DEF Says, Restored
    <3>4. CASE Edits(r)
      BY <1>0, <1>4, <3>4, SMT DEF Edits, Settled, Over, Ended
    <3>5. CASE Deletes(r) \/ Finalizes(r)
      BY <1>0, <1>4, <3>0, <3>1, <3>5 DEF Deletes, Finalizes, Restored
    <3> QED
      BY <3>2, <3>3, <3>4, <3>5, Written
  <2> QED
    BY <2>2, <2>3, <2>4, JobSteps
<1> QED
  BY <1>1, <1>2, <1>3, <1>4 DEF Restored

LEMMA RestoredKept ==
  ASSUME TypeInv, SyncInv, RestoredInv, [Next]_vars, CalmAttempts
  PROVE  RestoredInv'
<1>0. wrote \subseteq wrote'
  BY WroteGrows
<1>1. ASSUME NEW q \in Restores, Own(q) PROVE RestoredInv'
  <2> SUFFICES ASSUME NEW r \in Restores PROVE Restored(r)'
    BY DEF RestoredInv
  <2>1. CASE r = q
    BY <1>0, <1>1, <2>1, RestoredOwn DEF RestoredInv, SyncInv
  <2>2. CASE r # q
    BY <1>0, <1>1, <2>2, OthersKept, SMT DEF RestoredInv, Restored
  <2> QED
    BY <2>1, <2>2
<1>2. CASE Restart
  <2> SUFFICES ASSUME NEW r \in Restores PROVE Restored(r)'
    BY DEF RestoredInv
  <2>1. /\ seen'[r] = cr[r] /\ cr' = cr /\ op'[r].at = "idle" /\ job' = job /\ wrote' = wrote
    BY <1>2 DEF Restart, Idle, TypeInv, TypeOK
  <2> QED
    BY <2>1 DEF RestoredInv, Restored
<1>3. CASE UNCHANGED <<cr, seen, hold, job, wrote, op, used>>
  BY <1>3 DEF RestoredInv, Restored
<1> QED
  BY <1>1, <1>2, <1>3, OtherSteps, OthersStill

\* A restore that says its attempt completed has had its own Job succeed: no pass
\* takes the Job of another attempt for it, whichever writes fail, provided attempts
\* are not edited midway and no pass reads a restore from before its end.
THEOREM CompletedRestoredCorrect ==
  ASSUME CalmAttempts
  PROVE  Spec => []CompletedRestored
<1>0. "staleEnding" \notin Hazards /\ {"staleEnding", "editsMidway"} \cap Hazards = {}
  BY DEF CalmAttempts
<1>1. Init => RestoredInv
  <2> SUFFICES ASSUME Init, NEW r \in Restores PROVE Restored(r)
    BY DEF RestoredInv
  <2>1. op[r].at = "idle" /\ job[r].at = "none" /\ cr[r].phase = ""
    BY Initially
  <2> QED
    BY <2>1 DEF Restored
<1>2. TypeInv /\ EndedInv /\ [Next]_vars => EndedInv'
  BY <1>0, EndedKept
<1>3. TypeInv /\ EndedInv /\ SyncInv /\ [Next]_vars => SyncInv'
  BY <1>0, SyncKept
<1>4. TypeInv /\ SyncInv /\ RestoredInv /\ [Next]_vars => RestoredInv'
  BY RestoredKept
<1>5. RestoredInv => CompletedRestored
  BY DEF RestoredInv, Restored, CompletedRestored
<1> QED
  BY <1>1, <1>2, <1>3, <1>4, <1>5, TypeInit, TypeStep, EndedInit, SyncInit, PTL DEF Spec

-----------------------------------------------------------------------------
(* Who uses the data volume.                                               *)

Calm == Hazards = {} /\ "nostop" \notin Specs

Active(r) == job[r].at # "none" /\ job[r].state = "active"
Stopped(r) == hold = r /\ sts.reps = 0 /\ ~pod
JobInForce(r) == job[r].at = "live" /\ job[r].gen = cr[r].gen
Early == {"idle", "annotate", "stop", "stopped", "job", "Running"}

\* A Job that may run is that of the attempt in force of the restore that holds the
\* standalone, stopped and with its pod gone, and nobody who is about to start the
\* standalone does so beside another restore.
Excl(r) ==
  /\ cr[r].deleting => Over(cr[r])
  /\ seen[r].deleting => cr[r].deleting
  /\ job[r].gen <= cr[r].gen
  /\ op[r].at \in {"deleteJob", "finalize"} => cr[r].deleting
  /\ op[r].at # "pods"
  /\ Active(r) => Stopped(r) /\ JobInForce(r) /\ ~Over(cr[r]) /\ op[r].at \in Early
  /\ op[r].at \in {"stop", "stopped", "job", "abandon", "Running"} => hold = r
  /\ op[r].at \in {"stopped", "job", "Running"} => sts.reps = 0
  /\ op[r].at \in {"job", "Running"} => ~pod
  /\ op[r].at = "Running" => JobInForce(r)
  /\ op[r].at \in {"start", "startFailed"} => hold = r \/ Alone(r)
  /\ cr[r].phase = "Running" => hold = r \/ Released(r) \/ Alone(r)
  /\ cr[r].phase = "Running" /\ seen[r].phase # "Running"
       => Stopped(r) /\ JobInForce(r) /\ op[r].at \in Early
  /\ seen[r].phase = "Running" /\ seen[r].gen = cr[r].gen => cr[r].phase = "Running" \/ Over(cr[r])
  /\ op[r].at = "Pending" => cr[r].phase # "Running"
  /\ job[r].at = "dying" => job[r].gen # cr[r].gen \/ cr[r].deleting
Runs == \A a \in running : a[1] \in Restores /\ Active(a[1]) /\ a = <<a[1], job[a[1]].gen>>
ExclInv == Runs /\ \A r \in Restores : Excl(r)

\* A restore that is alone stays so: none is created.
LEMMA StaysAlone ==
  ASSUME TypeInv, NEW r \in Restores, NEW q \in Restores, Own(q), Alone(r)
  PROVE  Alone(r)'
<1> SUFFICES ASSUME NEW p \in Restores \ {r} PROVE ~cr'[p].here
  BY DEF Alone
<1>1. ~cr[p].here
  BY DEF Alone
<1>2. CASE p = q
  BY <1>1, <1>2, Written DEF Says, Edits, Deletes, Finalizes
<1>3. CASE p # q
  BY <1>1, <1>3, OthersKept
<1> QED
  BY <1>2, <1>3

\* A step of another restore does not start a standalone that r holds.
LEMMA ExclOther ==
  ASSUME TypeInv, HoldInv, ExclInv, Calm, NEW q \in Restores, Own(q), NEW r \in Restores \ {q}
  PROVE  Excl(r)'
<1>1. cr'[r] = cr[r] /\ seen'[r] = seen[r] /\ op'[r] = op[r] /\ job'[r] = job[r]
  BY OthersKept
<1>2. hold = r => hold' = r
  BY HoldMoves, RestoreAssumption DEF Nobody
<1>3. pod' = pod
  BY DEF Own, Reconcile, ensureResolvedBackupSource, Pass, SyncCache, RunJob, EndJob,
     CollectJob, DeleteRestore, EditSpec, setRestoreInProgressAnnotation, stopCluster,
     waitForPodsGone, refuseRestoreIfPodsRunning, clearEarlierRestoreJob, createRestoreJob,
     handleRestoreSuccess, Release, waitForClusterReady, restoreClusterAfterFailure,
     transitionRestoreStatus, handleDeletion
<1>4. hold = r => sts' = sts
  <2> SUFFICES ASSUME hold = r PROVE sts' = sts
    OBVIOUS
  <2>1. ~Alone(q)
    BY RestoreAssumption DEF HoldInv, NoOrphanHold, Alone, Nobody
  <2>2. op[q].at \notin {"stop", "start", "startFailed"}
    BY <2>1 DEF ExclInv, Excl
  <2> QED
    BY <2>2 DEF Own, Reconcile, ensureResolvedBackupSource, Pass, SyncCache, RunJob, EndJob,
     CollectJob, DeleteRestore, EditSpec, setRestoreInProgressAnnotation, stopCluster,
     waitForPodsGone, refuseRestoreIfPodsRunning, clearEarlierRestoreJob, createRestoreJob,
     handleRestoreSuccess, Release, waitForClusterReady, restoreClusterAfterFailure,
     transitionRestoreStatus, handleDeletion, At
<1>5. Alone(r) => Alone(r)'
  BY StaysAlone
<1>6. Released(r)' = Released(r)
  BY <1>1 DEF Released
<1>7. Excl(r)
  BY DEF ExclInv
<1> QED
  BY <1>1, <1>2, <1>3, <1>4, <1>5, <1>6, <1>7, SMT DEF Excl, Active, Stopped, JobInForce

LEMMA CalmFacts ==
  ASSUME Calm
  PROVE  /\ \A h : ~May(h)
         /\ CalmEndings /\ CalmAttempts /\ "staleEnding" \notin Hazards
         /\ {"staleEnding", "editsMidway"} \cap Hazards = {}
  BY DEF Calm, May, CalmEndings, CalmAttempts

\* What is known of a restore before a step of its own.
Known(r) ==
  /\ Excl(r) /\ Synced(r) /\ Holds(r) /\ Restored(r)
  /\ Attempting(r) => ~Over(cr[r])
  /\ cr[r].gen \in Nat /\ seen[r].gen \in Nat /\ job[r].gen \in Nat
  /\ seen[r].spec \in {"stop", "invalid"}
  /\ Nobody # r

\* A pass that begins.
LEMMA ExclBegins ==
  ASSUME TypeInv, Calm, NEW r \in Restores, Known(r),
         Reconcile(r) \/ ensureResolvedBackupSource(r)
  PROVE  Excl(r)'
<1>0. /\ cr' = cr /\ seen' = seen /\ hold' = hold /\ sts' = sts /\ pod' = pod /\ job' = job
      /\ Alone(r)' = Alone(r)
  BY DEF Reconcile, ensureResolvedBackupSource, Alone
<1>1. /\ Begins(r) /\ op[r].at = "idle" /\ seen[r].spec = cr[r].spec /\ seen[r].gen = cr[r].gen
      /\ (seen[r] = cr[r] \/ cr[r].phase \notin Ended)
  BY CalmFacts, Begun, SMT DEF Reconcile, ensureResolvedBackupSource, Begins, Idle, Known
<1>2. CASE seen[r].deleting
  <2>1. op'[r].at = "deleteJob"
    BY <1>2, Moved DEF Reconcile, ensureResolvedBackupSource
  <2>2. cr[r].deleting /\ Over(cr[r]) /\ cr[r].phase # "Running"
    BY <1>2 DEF Known, Excl, Over, Ended
  <2> QED
    BY <1>0, <2>1, <2>2 DEF Known, Excl, Active, Stopped, JobInForce, Early
<1>3. CASE ~seen[r].deleting /\ seen[r].phase = "Running"
  <2>1. checkRestoreProgress(r)
    BY <1>3 DEF Reconcile, ensureResolvedBackupSource
  <2>2. ~Active(r) /\ op'[r].at \in {"start", "startFailed", "ready", "Failed"}
    BY <2>1, CalmFacts, Moved DEF checkRestoreProgress, Active
  <2>3. cr[r].phase = "Running"
    BY <1>1, <1>3 DEF Known, Excl, Over, Ended
  <2>4. hold = r \/ Alone(r)
    BY <1>1, <2>3 DEF Known, Excl, Released, Ended
  <2> QED
    BY <1>0, <1>3, <2>2, <2>3, <2>4 DEF Known, Excl, Active, JobInForce
<1>4. CASE ~seen[r].deleting /\ seen[r].phase # "Running"
  <2>1. startRestore(r) \/ (hold # r /\ Take(r, "Pending"))
    BY <1>4 DEF Reconcile, ensureResolvedBackupSource
  <2>2. \/ op'[r].at \in {"Failed", "Pending"} /\ hold # r
        \/ op'[r].at = "annotate"
    BY <1>1, <2>1, CalmFacts, Moved DEF startRestore, Known, Holds
  <2>3. hold # r => ~Active(r) /\ cr[r].phase # "Running"
    BY <1>4 DEF Known, Excl, Stopped
  <2> QED
    BY <1>0, <1>4, <2>2, <2>3
       DEF Known, Excl, Active, JobInForce, Stopped, Released, Early, Ended
<1> QED
  BY <1>2, <1>3, <1>4

\* The steps of a pass up to its Job.
LEMMA ExclStops ==
  ASSUME TypeInv, Calm, NEW r \in Restores, Known(r),
         \/ setRestoreInProgressAnnotation(r) \/ stopCluster(r) \/ waitForPodsGone(r)
         \/ refuseRestoreIfPodsRunning(r)
  PROVE  Excl(r)'
<1>0. /\ cr' = cr /\ seen' = seen /\ pod' = pod /\ job' = job /\ Alone(r)' = Alone(r)
  BY DEF setRestoreInProgressAnnotation, stopCluster, waitForPodsGone, refuseRestoreIfPodsRunning,
     Alone
<1>1. CASE setRestoreInProgressAnnotation(r)
  <2>1. /\ sts' = sts /\ op[r].at = "annotate"
        /\ \/ hold' = r /\ op'[r].at = "stop"
           \/ hold' = hold /\ hold # r /\ op'[r].at = "Failed"
    BY <1>1, Moved DEF setRestoreInProgressAnnotation, At
  <2> QED
    BY <1>0, <2>1 DEF Known, Excl, Active, JobInForce, Stopped, Released, Early, Ended
<1>2. CASE stopCluster(r)
  <2>1. /\ hold' = hold /\ op[r].at = "stop" /\ op[r].gen = cr[r].gen
        /\ \/ sts'.reps = 0 /\ op'[r].at = "stopped"
           \/ sts' = sts /\ ~OwnJob(r) /\ op'[r].at = "abandon"
    BY <1>2, CalmFacts, Moved, SMT DEF stopCluster, At, MayFail, Known, Synced, Attempting
  <2>2. JobInForce(r) => OwnJob(r)
    BY <2>1 DEF JobInForce, OwnJob, restoreJobOfThisAttempt
  <2> QED
    BY <1>0, <2>1, <2>2
       DEF Known, Excl, Active, JobInForce, Stopped, Released, Early, Ended
<1>3. CASE waitForPodsGone(r)
  <2>1. /\ hold' = hold /\ sts' = sts /\ op[r].at = "stopped"
        /\ \/ pod /\ op'[r].at = "abandon"
           \/ ~pod /\ op'[r].at = "job"
    BY <1>3, Moved DEF waitForPodsGone, At
  <2> QED
    BY <1>0, <2>1 DEF Known, Excl, Active, JobInForce, Stopped, Released, Early, Ended
<1>4. CASE refuseRestoreIfPodsRunning(r)
  BY <1>4 DEF refuseRestoreIfPodsRunning, At, Known, Excl
<1> QED
  BY <1>1, <1>2, <1>3, <1>4
=============================================================================
