----------------------------- MODULE RestoreJob -----------------------------
(***************************************************************************)
(* Offline restores into a standalone.  The restore controller marks the   *)
(* standalone with the restore that holds it, scales its StatefulSet to 0, *)
(* runs a neo4j-admin Job on its data volume, scales it back and lets go.  *)
(* The standalone controller brings the replicas back whenever no restore  *)
(* holds the standalone.  Passes of different restores run side by side;   *)
(* a pass of one restore reads a cached copy of it, and every write may be *)
(* the last before the operator restarts.                                  *)
(*                                                                         *)
(* An attempt is a generation of the restore.  What the Job restores, the  *)
(* hooks and the databases brought online afterwards are left out but for  *)
(* their failing.                                                          *)
(***************************************************************************)
EXTENDS RestoreParameters

VARIABLES
    cr,     \* per restore: the Neo4jRestore
    seen,   \* per restore: the copy of it in the cache
    hold,   \* the standalone's restore-in-progress annotation
    sts,    \* its StatefulSet: replicas and the original-replicas annotation
    pod,    \* whether its server pod exists
    job,    \* per restore: the Job under its name
    running,\* the attempts whose Job pod runs
    wrote,  \* the attempts whose Job succeeded
    op,     \* per restore: where its pass is, and what it read
    used    \* what the environment has done of its bounds

vars == <<cr, seen, hold, sts, pod, job, running, wrote, op, used>>

Nobody == "nobody"
NotRecorded == -1
MaxGen == MaxChanges + 1
Generations == 1 .. MaxGen
Phases == {"Pending", "Running", "Completed", "Failed"}
Ended == {"Completed", "Failed"}
Attempts == Restores \X Generations

Copies ==
    [here : BOOLEAN, deleting : BOOLEAN, gen : Generations, spec : Specs,
     phase : Phases \cup {""}, obs : 0 .. MaxGen]
Jobs == [at : {"none", "live", "dying"}, gen : 0 .. MaxGen,
         state : {"active", "complete", "failed"}]
NoJob == [at |-> "none", gen |-> 0, state |-> "active"]
Steps == {"idle", "annotate", "stop", "stopped", "abandon", "pods", "job",
          "start", "release", "ready", "startFailed", "releaseFailed",
          "deleteJob", "finalize"} \cup Phases
Idle == [at |-> "idle", gen |-> 0, spec |-> "none"]

TypeOK ==
    /\ cr \in [Restores -> Copies] /\ seen \in [Restores -> Copies]
    /\ hold \in Restores \cup {Nobody}
    /\ sts \in [reps : 0 .. 1, orig : {NotRecorded, 0, 1}]
    /\ pod \in BOOLEAN
    /\ job \in [Restores -> Jobs]
    /\ running \subseteq Attempts /\ wrote \subseteq Attempts
    /\ op \in [Restores -> [at : Steps, gen : 0 .. MaxGen,
                            spec : Specs \cup {"none"}]]
    /\ used \in [changes : 0 .. MaxChanges, faults : 0 .. MaxFaults]

May(h) == h \in Hazards

\* A running standalone and some of the restores, just applied.
Init ==
    /\ \E S \in SUBSET Restores, f \in [Restores -> Specs] :
          cr = [r \in Restores |->
                  [here |-> r \in S, deleting |-> FALSE, gen |-> 1, spec |-> f[r],
                   phase |-> "", obs |-> 0]]
    /\ seen = cr
    /\ hold = Nobody /\ sts = [reps |-> 1, orig |-> NotRecorded] /\ pod = TRUE
    /\ job = [r \in Restores |-> NoJob]
    /\ running = {} /\ wrote = {}
    /\ op = [r \in Restores |-> Idle]
    /\ used = [changes |-> 0, faults |-> 0]

-----------------------------------------------------------------------------
(* What a pass reads.                                                      *)

restoreEndedAtGeneration(c) == c.phase \in Ended /\ c.obs = c.gen
\* Mutant: whatever Job has the name is this attempt's.
restoreJobOfThisAttempt_Any(r) == TRUE

restoreJobOfThisAttempt(r) == job[r].gen = op[r].gen

Alone(r) == \A q \in Restores \ {r} : ~cr[q].here
\* The pass has let the standalone go and has not said that the attempt ended.
Released(r) ==
    op[r].at \in {"ready"} \cup Ended /\ cr[r].phase = "Running"

Go(r, at) == op' = [op EXCEPT ![r].at = at]
At(r, at) == op[r].at = at

-----------------------------------------------------------------------------
(* A pass begins.                                                          *)

Take(r, at) == op' = [op EXCEPT ![r] = [at |-> at, gen |-> seen[r].gen,
                                         spec |-> seen[r].spec]]

\* Mutant: a Job that is gone is waited for.
checkRestoreProgress_Waits(r) ==
    /\ job[r].at # "none" /\ job[r].state # "active"
    /\ Take(r, IF job[r].state = "complete" THEN "start" ELSE "startFailed")

\* Where a pass on an attempt under way goes: its Job ended, or is not there.
checkRestoreProgress(r) ==
    LET stops == seen[r].spec = "stop" IN
    \/ /\ job[r].at = "none" \/ (May("laggingJobs") /\ job[r].state = "active")
       /\ Take(r, IF stops THEN "startFailed" ELSE "Failed")
    \/ /\ job[r].at # "none" /\ job[r].state = "failed"
       /\ Take(r, IF stops THEN "startFailed" ELSE "Failed")
    \/ /\ job[r].at # "none" /\ job[r].state = "complete"
       /\ Take(r, IF stops THEN "start" ELSE "ready")

\* The spec is refused, a preflight fails, or the standalone is to be stopped or
\* found stopped.  A restore that holds the standalone skips the preflights.
startRestore(r) ==
    \/ /\ seen[r].spec = "invalid" \/ hold # r \/ May("reentryFails")
       /\ Take(r, "Failed")
    \/ /\ seen[r].spec # "invalid"
       /\ Take(r, IF seen[r].spec = "stop" THEN "annotate" ELSE "pods")

Begins(r) ==
    /\ op[r] = Idle /\ cr[r].here
    /\ May("staleEnding") \/ seen[r] = cr[r] \/ cr[r].phase \notin Ended

\* Mutant: a restore that ended is not looked at again, deleted or not.
Reconcile_EndedFirst(r) ==
    /\ Begins(r)
    /\ ~restoreEndedAtGeneration(seen[r])
    /\ \/ seen[r].deleting /\ Take(r, "deleteJob")
       \/ /\ ~seen[r].deleting
          /\ IF seen[r].phase = "Running" THEN checkRestoreProgress(r) ELSE startRestore(r)
    /\ UNCHANGED <<cr, seen, hold, sts, pod, job, running, wrote, used>>

Reconcile(r) ==
    /\ Begins(r)
    /\ \/ /\ seen[r].deleting
          /\ Take(r, "deleteJob")
       \/ /\ ~seen[r].deleting /\ ~restoreEndedAtGeneration(seen[r])
          /\ IF seen[r].phase = "Running" THEN checkRestoreProgress(r) ELSE startRestore(r)
    /\ UNCHANGED <<cr, seen, hold, sts, pod, job, running, wrote, used>>

Fault ==
    /\ used.faults < MaxFaults
    /\ used' = [used EXCEPT !.faults = @ + 1]

\* The backup to restore has no run that succeeded yet.  A restore that holds the
\* standalone has its source on record.
ensureResolvedBackupSource(r) ==
    /\ Begins(r)
    /\ ~seen[r].deleting /\ ~restoreEndedAtGeneration(seen[r])
    /\ seen[r].phase # "Running" /\ seen[r].spec # "invalid" /\ hold # r
    /\ Fault
    /\ Take(r, "Pending")
    /\ UNCHANGED <<cr, seen, hold, sts, pod, job, running, wrote>>

-----------------------------------------------------------------------------
(* Stopping the standalone.                                                *)

setRestoreInProgressAnnotation(r) ==
    /\ At(r, "annotate")
    /\ \/ hold \in {Nobody, r} /\ hold' = r /\ Go(r, "stop")
       \/ hold \notin {Nobody, r} /\ hold' = hold /\ Go(r, "Failed")
    /\ UNCHANGED <<cr, seen, sts, pod, job, running, wrote, used>>

OwnJob(r) == job[r].at = "live" /\ restoreJobOfThisAttempt(r)
MayFail(r) == May("reentryFails") \/ ~OwnJob(r)

\* Mutant: the count is recorded on every stop.
stopCluster_Overwrites(r) ==
    /\ At(r, "stop")
    /\ sts' = [reps |-> 0, orig |-> sts.reps]
    /\ Go(r, "stopped")
    /\ UNCHANGED <<cr, seen, hold, pod, job, running, wrote, used>>

\* The write may fail, on a conflict too: it is not retried.
stopCluster(r) ==
    /\ At(r, "stop")
    /\ \/ /\ sts' = [reps |-> 0, orig |-> IF sts.orig = NotRecorded THEN sts.reps ELSE sts.orig]
          /\ Go(r, "stopped")
       \/ MayFail(r) /\ sts' = sts /\ Go(r, "abandon")
    /\ UNCHANGED <<cr, seen, hold, pod, job, running, wrote, used>>

\* Mutant: the pods are not waited for.
waitForPodsGone_Skips(r) ==
    /\ At(r, "stopped")
    /\ Go(r, "job")
    /\ UNCHANGED <<cr, seen, hold, sts, pod, job, running, wrote, used>>

\* Every ten seconds for five minutes.
waitForPodsGone(r) ==
    /\ At(r, "stopped")
    /\ IF pod THEN Go(r, "abandon") ELSE Go(r, "job")
    /\ UNCHANGED <<cr, seen, hold, sts, pod, job, running, wrote, used>>

refuseRestoreIfPodsRunning(r) ==
    /\ At(r, "pods")
    /\ Go(r, IF pod THEN "Failed" ELSE "job")
    /\ UNCHANGED <<cr, seen, hold, sts, pod, job, running, wrote, used>>

-----------------------------------------------------------------------------
(* The Job.                                                                *)

\* The name is waited for, up to ten seconds.
clearEarlierRestoreJob(r) ==
    /\ At(r, "job")
    /\ job[r].at = "dying" \/ (job[r].at = "live" /\ ~restoreJobOfThisAttempt(r))
    /\ job' = [job EXCEPT ![r].at = "dying"]
    /\ Go(r, "job") \/ Go(r, "Pending")
    /\ UNCHANGED <<cr, seen, hold, sts, pod, running, wrote, used>>

createRestoreJob(r) ==
    /\ At(r, "job")
    /\ \/ /\ job[r].at = "none"
          /\ job' = [job EXCEPT ![r] = [at |-> "live", gen |-> op[r].gen, state |-> "active"]]
          /\ Go(r, "Running")
       \/ OwnJob(r) /\ job' = job /\ Go(r, "Running")
       \/ /\ MayFail(r) /\ job' = job
          /\ Go(r, IF op[r].spec = "stop" THEN "startFailed" ELSE "Failed")
    /\ UNCHANGED <<cr, seen, hold, sts, pod, running, wrote, used>>

-----------------------------------------------------------------------------
(* Letting the standalone go.                                              *)

\* Mutant: a count that is not recorded is parsed all the same.
startCluster_Parses == sts' = [reps |-> sts.orig, orig |-> NotRecorded]

startCluster ==
    sts' = IF sts.orig = NotRecorded THEN sts
           ELSE [reps |-> sts.orig, orig |-> NotRecorded]

clearRestoreInProgressAnnotation(r) == hold' = IF hold = r THEN Nobody ELSE hold
\* A failure to let go is logged, and the pass goes on.  So it does when the copy of
\* the standalone it reads is from before the hold, as it may be after a stop that
\* failed at once; later passes, the finalizer's too, read one that has it.
LetGo(r) ==
    \/ clearRestoreInProgressAnnotation(r)
    \/ May("endingFails") /\ hold' = hold

\* A standalone that cannot be scaled back fails the restore as it is.
handleRestoreSuccess(r) ==
    /\ At(r, "start")
    /\ \/ startCluster /\ Go(r, "release")
       \/ May("endingFails") /\ sts' = sts /\ Go(r, "Failed")
    /\ UNCHANGED <<cr, seen, hold, pod, job, running, wrote, used>>

\* After a Job that succeeded, one that failed, and a stop that did.
Release(r) ==
    /\ LetGo(r)
    /\ \/ At(r, "release") /\ Go(r, "ready")
       \/ op[r].at \in {"releaseFailed", "abandon"} /\ Go(r, "Failed")
    /\ UNCHANGED <<cr, seen, sts, pod, job, running, wrote, used>>

\* Ten minutes at most; the databases are brought online and the hooks run, which
\* may fail too.
waitForClusterReady(r) ==
    /\ At(r, "ready")
    /\ \/ Go(r, "Failed")
       \/ (pod \/ op[r].spec # "stop") /\ Go(r, "Completed")
    /\ UNCHANGED <<cr, seen, hold, sts, pod, job, running, wrote, used>>

restoreClusterAfterFailure(r) ==
    /\ At(r, "startFailed")
    /\ startCluster \/ sts' = sts
    /\ Go(r, "releaseFailed")
    /\ UNCHANGED <<cr, seen, hold, pod, job, running, wrote, used>>

-----------------------------------------------------------------------------
(* The last write of a pass, and deletion.                                 *)

\* On a copy read again; a write that fails is only logged.
transitionRestoreStatus(r) ==
    /\ op[r].at \in Phases
    /\ op' = [op EXCEPT ![r] = Idle]
    /\ \/ /\ cr' = [cr EXCEPT ![r].phase = op[r].at, ![r].obs = cr[r].gen]
          /\ used' = used
       \/ /\ Fault
          /\ May("repeatsEnding") \/ Alone(r) \/ ~Released(r)
          /\ cr' = cr
    /\ UNCHANGED <<seen, hold, sts, pod, job, running, wrote>>

\* Mutant: the finalizer goes without letting go.
handleDeletion_Holds(r) ==
    /\ op[r].at \in {"deleteJob", "finalize"}
    /\ job' = [job EXCEPT ![r].at = IF @ = "none" THEN @ ELSE "dying"]
    /\ cr' = [cr EXCEPT ![r].here = FALSE]
    /\ op' = [op EXCEPT ![r] = Idle]
    /\ UNCHANGED <<seen, hold, sts, pod, running, wrote, used>>

handleDeletion(r) ==
    \/ /\ At(r, "deleteJob")
       /\ job' = [job EXCEPT ![r].at = IF @ = "none" THEN @ ELSE "dying"]
       /\ Go(r, "finalize")
       /\ UNCHANGED <<cr, seen, hold, sts, pod, running, wrote, used>>
    \/ /\ At(r, "finalize")
       /\ clearRestoreInProgressAnnotation(r)
       /\ cr' = [cr EXCEPT ![r].here = FALSE]
       /\ op' = [op EXCEPT ![r] = Idle]
       /\ UNCHANGED <<seen, sts, pod, job, running, wrote, used>>

Restart ==
    /\ Fault
    /\ \E r \in Restores : op[r] # Idle
    /\ \A r \in Restores : Released(r) => May("repeatsEnding") \/ Alone(r)
    /\ op' = [r \in Restores |-> Idle]
    /\ seen' = cr
    /\ UNCHANGED <<cr, hold, sts, pod, job, running, wrote>>

Pass(r) ==
    \/ setRestoreInProgressAnnotation(r) \/ stopCluster(r) \/ waitForPodsGone(r)
    \/ refuseRestoreIfPodsRunning(r) \/ clearEarlierRestoreJob(r)
    \/ createRestoreJob(r) \/ handleRestoreSuccess(r) \/ Release(r)
    \/ waitForClusterReady(r) \/ restoreClusterAfterFailure(r)
    \/ transitionRestoreStatus(r) \/ handleDeletion(r)

-----------------------------------------------------------------------------
(* The standalone controller, Kubernetes and the user.                     *)

\* Replicas are left alone while a restore holds the standalone.
StandalonePass ==
    /\ hold = Nobody \/ May("staleStandalone")
    /\ sts.reps # 1
    /\ sts' = [sts EXCEPT !.reps = 1]
    /\ UNCHANGED <<cr, seen, hold, pod, job, running, wrote, op, used>>

SyncCache(r) ==
    /\ seen[r] # cr[r]
    /\ seen' = [seen EXCEPT ![r] = cr[r]]
    /\ UNCHANGED <<cr, hold, sts, pod, job, running, wrote, op, used>>

ScalePods ==
    /\ pod # (sts.reps = 1)
    /\ pod' = (sts.reps = 1)
    /\ UNCHANGED <<cr, seen, hold, sts, job, running, wrote, op, used>>

RunJob(r) ==
    /\ job[r].at = "live" /\ job[r].state = "active"
    /\ <<r, job[r].gen>> \notin running
    /\ running' = running \cup {<<r, job[r].gen>>}
    /\ UNCHANGED <<cr, seen, hold, sts, pod, job, wrote, op, used>>

EndJob(r) ==
    /\ job[r].at = "live" /\ <<r, job[r].gen>> \in running
    /\ running' = running \ {<<r, job[r].gen>>}
    /\ \/ /\ job' = [job EXCEPT ![r].state = "complete"]
          /\ wrote' = wrote \cup {<<r, job[r].gen>>}
       \/ /\ job' = [job EXCEPT ![r].state = "failed"]
          /\ wrote' = wrote
    /\ UNCHANGED <<cr, seen, hold, sts, pod, op, used>>

\* A Job that is deleted goes, and so do its pods; one that has ended is removed
\* after five minutes, which outlast the cache's lag and the steps of a pass on
\* that attempt but for its waits.
CollectJob(r) ==
    /\ \/ job[r].at = "dying"
       \/ /\ job[r].at = "live" /\ job[r].state # "active"
          /\ seen[r] = cr[r]
          /\ op[r].gen = job[r].gen => op[r].at = "ready"
    /\ job' = [job EXCEPT ![r] = NoJob]
    /\ UNCHANGED <<cr, seen, hold, sts, pod, running, wrote, op, used>>

CollectPod(a) ==
    /\ a \in running
    /\ ~(job[a[1]].at = "live" /\ job[a[1]].gen = a[2])
    /\ running' = running \ {a}
    /\ UNCHANGED <<cr, seen, hold, sts, pod, job, wrote, op, used>>

Over(c) == c.phase \in Ended /\ c.obs = c.gen
Settled(r) == op[r] = Idle /\ Over(cr[r])

Change ==
    /\ used.changes < MaxChanges
    /\ used' = [used EXCEPT !.changes = @ + 1]

EditSpec(r, s) ==
    /\ cr[r].here /\ ~cr[r].deleting
    /\ May("editsMidway") \/ Settled(r)
    /\ Change
    /\ cr' = [cr EXCEPT ![r].gen = @ + 1, ![r].spec = s]
    /\ UNCHANGED <<seen, hold, sts, pod, job, running, wrote, op>>

DeleteRestore(r) ==
    /\ cr[r].here /\ ~cr[r].deleting
    /\ May("deletesMidway") \/ Settled(r)
    /\ Change
    /\ cr' = [cr EXCEPT ![r].deleting = TRUE]
    /\ UNCHANGED <<seen, hold, sts, pod, job, running, wrote, op>>

Kubernetes ==
    \/ ScalePods
    \/ \E r \in Restores : RunJob(r) \/ EndJob(r)
    \/ \E a \in Attempts : CollectPod(a)

Next ==
    \/ \E r \in Restores :
           Reconcile(r) \/ ensureResolvedBackupSource(r) \/ Pass(r) \/ SyncCache(r)
    \/ Restart \/ StandalonePass \/ Kubernetes
    \/ \E r \in Restores : CollectJob(r) \/ DeleteRestore(r)
    \/ \E r \in Restores, s \in Specs : EditSpec(r, s)

Spec == Init /\ [][Next]_vars

Collects == \/ ScalePods \/ \E a \in Attempts : CollectPod(a)
            \/ \E r \in Restores : job[r].at = "dying" /\ CollectJob(r)

\* Requeues, watch events and resyncs bring every pass back, a pass goes on to its
\* end, and Kubernetes acts.
Fairness ==
    /\ \A r \in Restores :
         /\ WF_vars(Reconcile(r) \/ Pass(r)) /\ WF_vars(SyncCache(r))
         /\ SF_vars(EndJob(r) \/ RunJob(r))
    /\ WF_vars(StandalonePass) /\ WF_vars(Collects)

FairSpec == Spec /\ Fairness

-----------------------------------------------------------------------------
(* Properties.                                                             *)

\* The data volume has one user at a time, the server or the Job of one attempt:
\* stopCluster waits for the pod to go, and startCluster runs once the Job ended.
StoreExclusive ==
    (\A a, b \in running : a = b) /\ (running # {} => ~pod)

\* A restore that says its attempt completed has had its own Job succeed:
\* createRestoreJob never takes an earlier attempt's Job for it (#254, #565).
CompletedRestored ==
    \A r \in Restores : cr[r].here /\ cr[r].phase = "Completed"
        => <<r, cr[r].obs>> \in wrote

\* A restore that is gone holds nothing: handleDeletion keeps the finalizer until
\* the annotation is cleared, or the standalone would stay stopped for good.
NoOrphanHold == hold # Nobody => cr[hold].here

\* The count stopCluster records to scale back to is never the 0 that an earlier
\* pass of the restore set (#218).
CountKept == sts.orig # 0

\* Every attempt ends, and the standalone is back up with nobody holding it:
\* whichever way the restores end, and wherever the operator restarts.
Returned ==
    /\ pod /\ sts.reps = 1 /\ hold = Nobody
    /\ \A r \in Restores : cr[r].here => Settled(r)
InstanceReturns == <>[]Returned

\* A restore that is deleted goes, and with the last one the standalone is back up
\* and nobody holds it, whatever its endings left behind: "the finalizer path will
\* clean it up if needed".
DeletionFrees ==
    <>[](/\ \A r \in Restores : cr[r].here => ~cr[r].deleting
         /\ (\A r \in Restores : ~cr[r].here) => hold = Nobody /\ pod)

=============================================================================
