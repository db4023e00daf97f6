------------------------------- MODULE Backup -------------------------------
(***************************************************************************)
(* The Neo4jBackup controller: one-time backups, each a Job that runs once *)
(* and is recorded, and scheduled ones, a CronJob whose children are       *)
(* recorded as they finish.  One worker reconciles every backup, a pass at *)
(* a time, from cached copies of the custom resource, the Jobs and the     *)
(* CronJobs, each of which may be behind the API server.  Kubernetes runs, *)
(* retries and garbage-collects the Jobs; users edit and delete backups;   *)
(* the target comes and goes; the operator restarts in mid-pass.           *)
(***************************************************************************)
EXTENDS Integers, FiniteSets, Sequences, SequencesExt

CONSTANTS
    Backups,        \* names of Neo4jBackups
    Scenes,         \* the scenes a behaviour may play: see Init
    HistoryCap,     \* entries status.history keeps (10 in the code)
    KeptSucceeded,  \* successfulJobsHistoryLimit of the CronJob (10)
    KeptFailed      \* failedJobsHistoryLimit of the CronJob (3)

VARIABLES
    target,     \* the deployment backed up
    shard,      \* the Neo4jShardedDatabase backed up: state and status.lastBackup
    cr,         \* the Neo4jBackups
    seen,       \* the operator's cached copies of them
    jobs,       \* the backup Jobs
    jobsSeen,   \* the operator's cached list of them
    cron,       \* the CronJob of each backup
    cronSeen,   \* the operator's cached copies of those
    prunes,     \* the retention Jobs still to run
    dir,        \* chain directory -> the runs whose artifact it holds
    pass,       \* the reconcile in progress
    next,       \* the number, and start time, of the next run
    truth,      \* how each finished run ended (history)
    made,       \* one-time Jobs created for each backup (history)
    left        \* what the scene still allows, and which faults it has met

vars == <<target, shard, cr, seen, jobs, jobsSeen, cron, cronSeen, prunes, dir, pass, next, truth, made, left>>

caches == <<seen, jobsSeen, cronSeen>>
world == <<target, caches>>
storage == <<prunes, dir, truth, next>>

Phases == {"none", "Invalid", "Waiting", "Pending", "Suspended", "Scheduled", "Running", "Completed", "Failed"}
Ended == {"Completed", "Failed"}
Idle == [at |-> "idle"]
None == 0
OnceName == 0

(* Neo4jBackupSpec and Neo4jBackupStatus: chain is the root of the chain the
   backup writes into, touched says the spec was ever edited.  A run is identified by its Job's name: OnceName for a one-time Job,
   the start time for a CronJob's child.                                    *)
Resource(life, spec) ==
    [life |-> life, spec |-> spec, phase |-> "none", history |-> <<>>, touched |-> FALSE]
Spec0(chain, storageType, scheduled, sharded, retention) ==
    [chain |-> chain, storage |-> storageType, schedule |-> scheduled, sharded |-> sharded,
     retention |-> retention, valid |-> TRUE, suspend |-> FALSE]

Job(b, spec, id, n) ==
    [of |-> b, id |-> id, n |-> n, chain |-> spec.chain, storage |-> spec.storage,
     state |-> "created", ran |-> FALSE]
Finished(j) == j.state \in {"complete", "failed"}
PodRunning(j) == j.state \in {"locking", "writing"}
Active(j) == PodRunning(j) \/ j.state \in {"pulling", "retrying"}
Once(b, J) == {j \in J : j.of = b /\ j.id = OnceName}

(* BackupRun. *)
Runs(h) == {h[i].n : i \in DOMAIN h}
TypeOK ==
    /\ target \in {"up", "away", "gone", "old"} /\ shard.state \in {"ready", "waiting", "missing"}
    /\ shard.lastBackup \in 0..next
    /\ \A b \in Backups : /\ cr[b].life \in {"none", "new", "live", "deleting", "gone"}
                          /\ cr[b].phase \in Phases
                          /\ Len(cr[b].history) <= HistoryCap
                          /\ Runs(cr[b].history) \subseteq 1..(next - 1)
                          /\ Cardinality(Once(b, jobs)) <= 1
                          /\ cron[b] \in {"none", "on", "off"}
    /\ \A b \in Backups : dir[b] \subseteq DOMAIN truth
    /\ pass.at \in {"idle", "lookup", "create", "adopt", "existing", "report", "record",
                    "flip", "scheduled", "history", "release"}

Init ==
    \E sc \in Scenes :
       /\ cr = sc.cr /\ seen = sc.cr /\ left = sc.left
       /\ target = sc.target /\ shard = [state |-> sc.shard, lastBackup |-> None]
       /\ jobs = sc.jobs /\ jobsSeen = {} /\ next = 1 + Cardinality(jobs) /\ truth = <<>>
       /\ cron = [b \in Backups |-> "none"] /\ cronSeen = cron
       /\ prunes = {} /\ dir = [b \in Backups |-> {}] /\ made = [b \in Backups |-> Cardinality(Once(b, jobs))]
       /\ pass = Idle

Spend(what) == left[what] > 0 /\ left' = [left EXCEPT ![what] = @ - 1]
Meet(what, fault) == left[what] > 0 /\ left' = [left EXCEPT ![what] = @ - 1, ![fault] = TRUE]
EndPass == pass' = Idle
Go(step) == pass' = [pass EXCEPT !.at = step]
OneTime(c) == ~c.spec.schedule

-----------------------------------------------------------------------------
(* What the controller computes. *)

(* jobToBackupRun: the outcome comes from the Job's conditions; a Job whose
   pods failed and that Kubernetes still retries has no outcome.             *)
jobOutcome_Counter(j) == j.state \in {"complete", "failed", "retrying"}
jobOutcome(j) == Finished(j)
jobToBackupRun(j) == [id |-> j.id, n |-> j.n, ok |-> j.state = "complete"]

(* backupRunAlreadyRecorded: the Job's name is the key. *)
backupRunAlreadyRecorded(h, j) == \E i \in DOMAIN h : h[i].id = j.id

Capped_OneMore(h) == SubSeq(h, 1, IF Len(h) > HistoryCap THEN HistoryCap + 1 ELSE Len(h))
Capped(h) == SubSeq(h, 1, IF Len(h) > HistoryCap THEN HistoryCap ELSE Len(h))
sortBackupRunsNewestFirst(h) == SortSeq(h, LAMBDA x, y : x.n > y.n)

(* The Jobs of a backup a pass finds in the cache and has not recorded. *)
NewRuns(b) ==
    {j \in jobsSeen : j.of = b /\ jobOutcome(j) /\ ~backupRunAlreadyRecorded(cr[b].history, j)}
WithRuns_Prepends(h, J) == Capped(SetToSeq({jobToBackupRun(j) : j \in J}) \o h)
WithRuns(h, J) ==
    Capped(sortBackupRunsNewestFirst(h \o SetToSeq({jobToBackupRun(j) : j \in J})))

(* ResolveBackupRef: a restore uses the first Succeeded run of the history. *)
ResolveBackupRef(h) ==
    LET ok == {i \in DOMAIN h : h[i].ok} IN
    IF ok = {} THEN None ELSE h[CHOOSE i \in ok : \A k \in ok : i <= k].n

(* chainRoot and waitForChainConcurrencyClear: a Job of the same chain that
   the cache shows with an active pod.                                       *)
chainRoot(c) == c.spec.chain
chainBusy(c) == \E j \in jobsSeen : j.chain = chainRoot(c) /\ Active(j)

(* validateChainParent: the parent may not exist yet; a parent of another
   storage is refused for good.                                              *)
validateChainParent(b, c) ==
    LET p == seen[chainRoot(c)] IN
    IF chainRoot(c) = b THEN "ok"
    ELSE IF p.life \in {"none", "gone"} THEN "missing"
    ELSE IF p.spec.storage # c.spec.storage THEN "mismatch" ELSE "ok"

(* buildRetentionScript: the newest artifacts stay, at least one of them. *)
Retained_OneLess(S, keep) == {n \in S : Cardinality({m \in S : m > n}) < keep - 1}
Retained(S, keep) == {n \in S : Cardinality({m \in S : m > n}) < keep}

(* buildBackupCommand: on a volume the Job's shell holds a lock on the chain
   directory while neo4j-admin writes; a bucket has no lock.  Who waits for it
   longer than chainLockWaitSeconds fails.                                   *)
LockFree(j) == j.storage = "pvc" => ~ \E i \in jobs : i.chain = j.chain /\ i.state = "writing"

(* updateBackupStatus: the write reads the object again; a write that fails
   is logged and the pass goes on.                                           *)
updateBackupStatus(b, phase) ==
    \/ cr' = (IF cr[b].life = "gone" THEN cr ELSE [cr EXCEPT ![b].phase = phase]) /\ UNCHANGED left
    \/ Spend("lost") /\ UNCHANGED cr

-----------------------------------------------------------------------------
(* Reconcile, down to where a scheduled and a one-time backup part. *)

Deciding(b, life) == pass.at = "idle" /\ seen[b].life = life

AddFinalizer(b) ==
    /\ Deciding(b, "new")
    /\ cr' = [cr EXCEPT ![b].life = IF @ = "new" THEN "live" ELSE @]
    /\ UNCHANGED <<world, shard, jobs, cron, storage, made, pass, left>>

reportInvalidBackupSpec(b) ==
    /\ Deciding(b, "live") /\ ~seen[b].spec.valid
    /\ updateBackupStatus(b, "Invalid")
    /\ UNCHANGED <<world, shard, jobs, cron, storage, made, pass>>

(* oneTimeBackupDone: a copy that has not ended is checked against the API
   server; a read that fails leaves the copy's answer.                       *)
Terminal(c) == OneTime(c) /\ c.phase \in Ended
oneTimeBackupDone_Cached(b, readable) == Terminal(seen[b])
oneTimeBackupDone(b, readable) ==
    OneTime(seen[b]) /\ (Terminal(seen[b]) \/ (readable /\ Terminal(cr[b])))

(* cleanupOrphanedCronJob: the CronJob of a backup that lost its schedule. *)
cleanupOrphanedCronJob(b) ==
    IF cronSeen[b] = "none" THEN cron ELSE [cron EXCEPT ![b] = "none"]

SkipFinished(b) ==
    /\ Deciding(b, "live") /\ seen[b].spec.valid /\ oneTimeBackupDone(b, TRUE)
    /\ cron' = cleanupOrphanedCronJob(b)
    /\ UNCHANGED <<world, shard, cr, jobs, storage, made, pass, left>>

(* A valid backup that is not done: readable is the API server's answer. *)
Proceeds(b) ==
    /\ Deciding(b, "live") /\ seen[b].spec.valid
    /\ \/ ~oneTimeBackupDone(b, TRUE) /\ UNCHANGED left
       \/ ~oneTimeBackupDone(b, FALSE) /\ Meet("unread", "blind")

AwaitTarget(b) ==
    /\ Deciding(b, "live") /\ seen[b].spec.valid /\ ~oneTimeBackupDone(b, TRUE)
    /\ target # "up"
    /\ updateBackupStatus(b, IF target = "old" THEN "Failed" ELSE "Waiting")
    /\ UNCHANGED <<world, shard, jobs, cron, storage, made, pass>>

(* getTargetCluster fails otherwise than by not finding the target. *)
TargetUnreadable(b) ==
    /\ Deciding(b, "live") /\ seen[b].spec.valid /\ ~oneTimeBackupDone(b, TRUE)
    /\ Spend("error") /\ cr' = [cr EXCEPT ![b].phase = IF cr[b].life = "gone" THEN @ ELSE "Failed"]
    /\ UNCHANGED <<world, shard, jobs, cron, storage, made, pass>>

(* The suspend branch: suspendBackupCronJob, whose update fails on a copy
   that is behind, then the status.                                          *)
suspended_StatusOnly(b) == cron
suspended(b) == IF cronSeen[b] = "on" THEN [cron EXCEPT ![b] = "off"] ELSE cron
Suspend(b) ==
    /\ Deciding(b, "live") /\ seen[b].spec.valid /\ ~oneTimeBackupDone(b, TRUE)
    /\ target = "up" /\ seen[b].spec.suspend
    /\ cronSeen[b] = "on" => cron[b] = "on"
    /\ cron' = suspended(b) /\ updateBackupStatus(b, "Suspended")
    /\ UNCHANGED <<world, shard, jobs, storage, made, pass>>

(* applyShardedPreflight. *)
applyShardedPreflight(b) ==
    /\ Deciding(b, "live") /\ seen[b].spec.valid /\ ~oneTimeBackupDone(b, TRUE)
    /\ target = "up" /\ ~seen[b].spec.suspend /\ seen[b].spec.sharded /\ shard.state # "ready"
    /\ updateBackupStatus(b, IF shard.state = "missing" THEN "Failed" ELSE "Waiting")
    /\ UNCHANGED <<world, shard, jobs, cron, storage, made, pass>>

Begin(b) ==
    /\ Proceeds(b) /\ target = "up" /\ ~seen[b].spec.suspend
    /\ seen[b].spec.sharded => shard.state = "ready"
    /\ pass' = [at |-> IF OneTime(seen[b]) THEN "lookup" ELSE "scheduled", b |-> b, copy |-> seen[b]]
    /\ UNCHANGED <<world, shard, cr, jobs, cron, storage, made>>

-----------------------------------------------------------------------------
(* handleOneTimeBackup. *)

At(step) == pass.at = step

LookUpJob ==
    LET b == pass.b  found == Once(b, jobsSeen) IN
    /\ At("lookup")
    /\ cron' = cleanupOrphanedCronJob(b)
    /\ IF found = {} THEN Go("create")
       ELSE LET j == CHOOSE k \in found : TRUE IN
            pass' = [at |-> "existing", b |-> b, copy |-> pass.copy, job |-> j]
    /\ UNCHANGED <<world, shard, cr, jobs, storage, made, left>>

(* createBackupJob: the chain checks, then the Job, unless one of that name
   exists which the cache did not show.                                      *)
createBackupJob ==
    LET b == pass.b  c == pass.copy IN
    /\ At("create") /\ validateChainParent(b, c) = "ok" /\ ~chainBusy(c)
    /\ IF Once(b, jobs) = {}
         THEN /\ jobs' = jobs \cup {Job(b, c.spec, OnceName, next)}
              /\ next' = next + 1 /\ made' = [made EXCEPT ![b] = @ + 1] /\ Go("report")
         ELSE Go("adopt") /\ UNCHANGED <<jobs, next, made>>
    /\ UNCHANGED <<world, shard, cr, cron, prunes, dir, truth, left>>

(* AlreadyExists: the Job is read again, through the same cache; not there, the
   refusal of the API server is what createBackupJob returns.                *)
AdoptJob ==
    /\ At("adopt")
    /\ IF Once(pass.b, jobsSeen) # {}
         THEN Go("report") /\ UNCHANGED <<cr, left>>
         ELSE updateBackupStatus(pass.b, "Failed") /\ EndPass
    /\ UNCHANGED <<world, shard, jobs, cron, storage, made>>

(* Any other error on the way to the Job. *)
CreationFails ==
    /\ At("create") /\ Spend("error")
    /\ cr' = [cr EXCEPT ![pass.b].phase = IF cr[pass.b].life = "gone" THEN @ ELSE "Failed"]
    /\ EndPass /\ UNCHANGED <<world, shard, jobs, cron, storage, made>>

(* The errors of createBackupJob and createBackupCronJob: a parent that is
   not there yet and a busy chain wait, a parent that does not fit fails.    *)
RefusedByChain ==
    LET b == pass.b  c == pass.copy  parent == validateChainParent(b, c) IN
    /\ pass.at \in {"create", "scheduled"}
    /\ parent # "ok" \/ (At("create") /\ chainBusy(c))
    /\ updateBackupStatus(b, IF parent = "mismatch" THEN "Failed" ELSE "Pending")
    /\ EndPass /\ UNCHANGED <<world, shard, jobs, cron, storage, made>>

ReportStarted ==
    /\ At("report")
    /\ updateBackupStatus(pass.b, IF OneTime(pass.copy) THEN "Running" ELSE "Scheduled")
    /\ IF OneTime(pass.copy) THEN EndPass ELSE Go("history")
    /\ UNCHANGED <<world, shard, jobs, cron, storage, made>>

(* handleExistingBackupJob.  A success enters the history before the phase
   says so, a failure after.                                                 *)
RecordFirst_Not(j) == FALSE
RecordFirst(j) == j.state = "complete"

JobEnded ==
    /\ At("existing") /\ jobOutcome(pass.job)
    /\ Go(IF RecordFirst(pass.job) THEN "record" ELSE "flip")
    /\ UNCHANGED <<world, shard, cr, jobs, cron, storage, made, left>>

JobInProgress ==
    /\ At("existing") /\ ~jobOutcome(pass.job)
    /\ updateBackupStatus(pass.b, "Running")
    /\ EndPass /\ UNCHANGED <<world, shard, jobs, cron, storage, made>>

(* backupJobStartupState and backupJobStartupTimeout, which is measured from
   the Job's start: the cache shows no pod of the Job that runs and the time
   is over.                                                                  *)
GiveUpStarting_Never == FALSE /\ UNCHANGED vars
GiveUpStarting ==
    LET b == pass.b IN
    /\ At("existing") /\ ~jobOutcome(pass.job) /\ left["late"] > 0
    /\ \A j \in Once(b, jobsSeen) : ~PodRunning(j) /\ j.state # "complete"
    /\ jobs' = jobs \ Once(b, jobs)
    /\ updateBackupStatus(b, "Failed")
    /\ EndPass /\ UNCHANGED <<world, shard, cron, storage, made>>

(* updateShardedDBLastBackup: the reference on the sharded database, left
   alone by a failed run; an error is swallowed.                             *)
updateShardedDBLastBackup(c, n) == IF c.spec.sharded /\ n # None THEN n ELSE shard.lastBackup

(* recordOneShotBackupRun: the run enters the history unless a run of that
   name is there.  The write may fail; the pass goes on to Completed.        *)
recordOneShotBackupRun ==
    LET b == pass.b  j == pass.job  h == cr[b].history IN
    /\ At("record")
    /\ \/ /\ cr' = (IF cr[b].life = "gone" \/ backupRunAlreadyRecorded(h, j) THEN cr
                    ELSE [cr EXCEPT ![b].history = Capped(<<jobToBackupRun(j)>> \o h)])
          /\ UNCHANGED left
       \/ Meet("lost", "unrecorded") /\ UNCHANGED cr
    /\ shard' = [shard EXCEPT !.lastBackup =
                    updateShardedDBLastBackup(pass.copy, IF j.state = "complete" THEN j.n ELSE None)]
    /\ IF RecordFirst(j) THEN Go("flip") ELSE EndPass
    /\ UNCHANGED <<world, jobs, cron, storage, made>>

(* A success whose log could not be read while its Pod is there. *)
AwaitArtifactNames ==
    /\ At("record") /\ pass.job.state = "complete" /\ Spend("nolog")
    /\ cr' = [cr EXCEPT ![pass.b].phase = IF cr[pass.b].life = "gone" THEN @ ELSE "Running"]
    /\ EndPass /\ UNCHANGED <<world, shard, jobs, cron, storage, made>>

ReportEnd ==
    /\ At("flip")
    /\ updateBackupStatus(pass.b, IF pass.job.state = "complete" THEN "Completed" ELSE "Failed")
    /\ IF RecordFirst(pass.job) THEN EndPass ELSE Go("record")
    /\ UNCHANGED <<world, shard, jobs, cron, storage, made>>

-----------------------------------------------------------------------------
(* handleScheduledBackup. *)

(* createBackupCronJob: created or brought up to date and resumed; with a
   copy that is behind the write is refused.                                 *)
createBackupCronJob ==
    LET b == pass.b  ok == (cron[b] = "none") <=> (cronSeen[b] = "none") IN
    /\ At("scheduled") /\ validateChainParent(b, pass.copy) = "ok"
    /\ IF ok /\ cr[b].life # "gone"
         THEN cron' = [cron EXCEPT ![b] = "on"] /\ Go("report") /\ UNCHANGED <<cr, left>>
         ELSE updateBackupStatus(b, "Failed") /\ EndPass /\ UNCHANGED cron
    /\ UNCHANGED <<world, shard, jobs, storage, made>>

(* reconcileScheduledHistory: every finished Job of the backup that is not
   in the history enters it; the newest run among them that succeeded is the
   sharded database's last backup.                                           *)
LatestOf(J) == LET N == {j.n : j \in {k \in J : k.state = "complete"}} IN
               IF N = {} THEN None ELSE CHOOSE n \in N : \A m \in N : m <= n
reconcileScheduledHistory ==
    LET b == pass.b  new == NewRuns(b) IN
    /\ At("history")
    /\ \/ /\ cr' = (IF cr[b].life = "gone" \/ new = {} THEN cr
                    ELSE [cr EXCEPT ![b].history = WithRuns(@, new)])
          /\ shard' = [shard EXCEPT !.lastBackup = updateShardedDBLastBackup(pass.copy, LatestOf(new))]
          /\ UNCHANGED left
       \/ Spend("lost") /\ UNCHANGED <<cr, shard>>
    /\ EndPass /\ UNCHANGED <<world, jobs, cron, storage, made>>

-----------------------------------------------------------------------------
(* handleDeletion: the Jobs and CronJobs the caches show, the retention Job,
   the finalizer.                                                            *)

BeginDeletion_AfterGuard(b) ==
    /\ Deciding(b, "deleting") /\ ~Terminal(seen[b])
    /\ pass' = [at |-> "release", b |-> b, copy |-> seen[b]]
    /\ UNCHANGED <<world, shard, cr, jobs, cron, storage, made, left>>
BeginDeletion(b) ==
    /\ Deciding(b, "deleting")
    /\ jobs' = (IF Once(b, jobsSeen) = {} THEN jobs ELSE jobs \ Once(b, jobs))
    /\ cron' = cleanupOrphanedCronJob(b)
    /\ pass' = [at |-> "release", b |-> b, copy |-> seen[b]]
    /\ UNCHANGED <<world, shard, cr, storage, made, left>>

(* cleanupBackupArtifacts, which only starts the Job that prunes, and
   removeFinalizer; what the backup owns is garbage-collected with it.       *)
Release ==
    LET b == pass.b  c == pass.copy IN
    /\ At("release")
    /\ prunes' = (IF c.spec.retention = 0 \/ c.spec.storage # "pvc" THEN prunes
                  ELSE prunes \cup {[chain |-> chainRoot(c), keep |-> c.spec.retention]})
    /\ cr' = [cr EXCEPT ![b].life = "gone"]
    /\ jobs' = {j \in jobs : j.of # b} /\ cron' = [cron EXCEPT ![b] = "none"]
    /\ EndPass /\ UNCHANGED <<world, shard, dir, next, truth, made, left>>

Starts(b) ==
    \/ AddFinalizer(b) \/ reportInvalidBackupSpec(b) \/ SkipFinished(b) \/ AwaitTarget(b)
    \/ TargetUnreadable(b) \/ Suspend(b) \/ applyShardedPreflight(b) \/ Begin(b) \/ BeginDeletion(b)
Continues ==
    \/ LookUpJob \/ createBackupJob \/ AdoptJob \/ CreationFails \/ RefusedByChain
    \/ ReportStarted \/ JobEnded \/ JobInProgress \/ GiveUpStarting \/ recordOneShotBackupRun
    \/ AwaitArtifactNames \/ ReportEnd \/ createBackupCronJob
    \/ reconcileScheduledHistory \/ Release

-----------------------------------------------------------------------------
(* Kubernetes: a Job's pod is created, pulls its image, waits for the lock of
   the chain directory, writes; it may fail and be tried again.             *)

kubeOnly == <<target, shard, cr, caches, cron, pass, made>>
Becomes(j, state) == (jobs \ {j}) \cup {[j EXCEPT !.state = state, !.ran = @ \/ state = "locking"]}

PodProgress(j) ==
    /\ \/ j.state = "created" /\ jobs' = Becomes(j, "pulling")
       \/ j.state \in {"pulling", "retrying"} /\ left["stuck"] = 0 /\ jobs' = Becomes(j, "locking")
       \/ j.state = "locking" /\ LockFree(j) /\ jobs' = Becomes(j, "writing")
    /\ UNCHANGED <<kubeOnly, storage, left>>

MayFail(j) == j.state = "writing" \/ (j.state = "locking" /\ ~LockFree(j))
AttemptFails(j) ==
    /\ MayFail(j) /\ Spend("attempt") /\ jobs' = Becomes(j, "retrying")
    /\ UNCHANGED <<kubeOnly, storage>>

JobFinishes(j) ==
    /\ \/ /\ j.state = "writing" /\ jobs' = Becomes(j, "complete") /\ truth' = truth @@ (j.n :> "complete")
          /\ dir' = [dir EXCEPT ![j.chain] = @ \cup {j.n}] /\ UNCHANGED left
       \/ /\ MayFail(j) /\ Spend("fail") /\ jobs' = Becomes(j, "failed")
          /\ truth' = truth @@ (j.n :> "failed") /\ UNCHANGED dir
    /\ UNCHANGED <<kubeOnly, prunes, next>>

(* ttlSecondsAfterFinished. *)
JobExpires(j) ==
    /\ Finished(j) /\ Spend("ttl") /\ jobs' = jobs \ {j}
    /\ UNCHANGED <<kubeOnly, storage>>

(* The CronJob controller, with concurrencyPolicy Forbid and the limits on
   the finished Jobs it keeps.                                               *)
Kept(J, limit) == {j \in J : Cardinality({k \in J : k.n > j.n}) < limit}
Children(b, state) == {j \in jobs : j.of = b /\ j.id # OnceName /\ j.state = state}
Trimmed(b) ==
    LET S == Children(b, "complete")  F == Children(b, "failed") IN
    jobs \ ((S \ Kept(S, KeptSucceeded)) \cup (F \ Kept(F, KeptFailed)))
CronFires(b) ==
    /\ cron[b] = "on" /\ Spend("fire")
    /\ \A j \in jobs : j.of = b /\ j.id # OnceName => Finished(j)
    /\ jobs' = Trimmed(b) \cup {Job(b, cr[b].spec, next, next)} /\ next' = next + 1
    /\ UNCHANGED <<kubeOnly, prunes, dir, truth>>

PruneRuns ==
    \E p \in prunes : /\ prunes' = prunes \ {p}
                      /\ dir' = [dir EXCEPT ![p.chain] = Retained(@, p.keep)]
                      /\ UNCHANGED <<kubeOnly, jobs, next, truth, left>>

(* One informer per kind: each delivers the changes of its kind in order. *)
Sync == seen' = cr /\ UNCHANGED <<target, shard, cr, jobs, jobsSeen, cron, cronSeen, storage, pass, made, left>>
SyncJobs == jobsSeen' = jobs /\ UNCHANGED <<target, shard, cr, seen, jobs, cron, cronSeen, storage, pass, made, left>>
SyncCron == cronSeen' = cron /\ UNCHANGED <<target, shard, cr, seen, jobs, jobsSeen, cron, storage, pass, made, left>>
Restart ==
    /\ Spend("crash") /\ EndPass
    /\ seen' = cr /\ jobsSeen' = jobs /\ cronSeen' = cron
    /\ UNCHANGED <<target, shard, cr, jobs, cron, storage, made>>

-----------------------------------------------------------------------------
(* Users and the deployment. *)

others == <<caches, jobs, cron, storage, pass, made>>
Edited(c, spec) == [c EXCEPT !.spec = spec, !.touched = TRUE]
UserEdits(b) ==
    LET s == cr[b].spec IN
    /\ cr[b].life = "live"
    /\ \E what \in {"valid", "suspend", "schedule"} :
          /\ Spend(what) /\ cr' = [cr EXCEPT ![b] = Edited(@, [s EXCEPT ![what] = ~@])]
    /\ UNCHANGED <<target, shard, others>>
UserCreates(b) ==
    /\ cr[b].life = "none" /\ cr' = [cr EXCEPT ![b].life = "new"]
    /\ UNCHANGED <<target, shard, others, left>>
UserDeletes(b) ==
    /\ cr[b].life = "live" /\ Spend("delete") /\ cr' = [cr EXCEPT ![b].life = "deleting"]
    /\ UNCHANGED <<target, shard, others>>
TargetMoves ==
    /\ target = "up" /\ Spend("away") /\ target' \in {"away", "gone"}
    /\ UNCHANGED <<shard, cr, others>>
TargetReturns ==
    /\ target \in {"away", "gone"} /\ target' = "up"
    /\ UNCHANGED <<shard, cr, others, left>>
ShardReady ==
    /\ shard.state = "waiting" /\ shard' = [shard EXCEPT !.state = "ready"]
    /\ UNCHANGED <<target, cr, others, left>>

JobSteps == \E j \in jobs : PodProgress(j) \/ JobFinishes(j)
Next ==
    \/ \E b \in Backups : Starts(b)
    \/ Continues
    \/ JobSteps
    \/ \E j \in jobs : AttemptFails(j) \/ JobExpires(j)
    \/ \E b \in Backups : CronFires(b) \/ UserEdits(b) \/ UserCreates(b) \/ UserDeletes(b)
    \/ PruneRuns \/ Sync \/ SyncJobs \/ SyncCron \/ Restart \/ TargetMoves \/ TargetReturns \/ ShardReady

(* The work queue hands out the backups in turn, the informers and the Job
   controller catch up, a target that is away comes back.                    *)
Fairness ==
    /\ WF_vars(Continues) /\ WF_vars(JobSteps) /\ WF_vars(Sync \/ SyncJobs \/ SyncCron)
    /\ WF_vars(TargetReturns \/ ShardReady \/ \E b \in Backups : UserCreates(b))
    /\ SF_vars(GiveUpStarting) /\ \A b \in Backups : SF_vars(Starts(b))

Spec == Init /\ [][Next]_vars
FairSpec == Spec /\ Fairness

-----------------------------------------------------------------------------
(* What the controller promises. *)

(* handleExistingBackupJob records the run before it reports Completed: a
   one-time backup that reads Completed has a Succeeded run in its history,
   or every restore that names it would wait for ever.  A write of the history
   that fails is only logged and Completed is reported all the same: nothing
   is said of a scene that met one.                                          *)
CompletedHasRun ==
    \A b \in Backups :
       Terminal(cr[b]) /\ ~cr[b].touched /\ cr[b].phase = "Completed" /\ ~left.unrecorded
          => ResolveBackupRef(cr[b].history) # None

(* jobToBackupRun and backupRunAlreadyRecorded: an entry is never corrected,
   so every entry says how its Job really ended, no Job has two, and the
   newest come first.                                                        *)
HistoryTrue ==
    \A b \in Backups : LET h == cr[b].history IN
       /\ \A i \in DOMAIN h : h[i].n \in DOMAIN truth /\ h[i].ok = (truth[h[i].n] = "complete")
       /\ \A i \in 1..(Len(h) - 1) : h[i].n > h[i + 1].n

(* The record of the runs can be relied on.                                  *)
RecordTrue == CompletedHasRun /\ HistoryTrue

(* oneTimeBackupDone (issue #116): a one-time backup that ended, and whose
   spec nobody edits, stays as it ended and is not run again: not
   from a stale copy, not after its Job expired, not across a restart.  A
   live read that fails leaves the stale copy's answer, and nothing is said
   then.                                                                     *)
EndedStep ==
    \A b \in Backups : Terminal(cr[b]) /\ ~cr'[b].touched /\ cr[b].life = "live" /\ ~left.blind
       => cr'[b].phase = cr[b].phase /\ made'[b] = made[b]

(* reconcileScheduledHistory sorts before it cuts: the run a restore resolves
   to never goes back to an older one.                                       *)
ForwardStep ==
    \A b \in Backups :
       LET old == ResolveBackupRef(cr[b].history)  new == ResolveBackupRef(cr'[b].history)
       IN new # None => new >= old

(* buildRetentionScript: pruning never deletes the newest artifact. *)
PruneStep == \A b \in Backups : \A n \in dir[b] : (\A m \in dir[b] : m <= n) => n \in dir'[b]

(* What ended stays, the resolved run goes forward and the newest artifact is
   kept.                                                                     *)
RunsKept == [][EndedStep /\ ForwardStep /\ PruneStep]_vars

(* Every one-time backup ends, Completed or Failed, whatever restarts, stuck
   pods, busy chains, absent parents and outages it meets.                   *)
BackupsEnded == \A b \in Backups :
    cr[b].life = "live" /\ OneTime(cr[b]) /\ cr[b].spec.valid /\ ~cr[b].spec.suspend => Terminal(cr[b])

(* createBackupCronJob, suspendBackupCronJob and cleanupOrphanedCronJob: the
   CronJob comes to follow the spec, through schedules added and removed,
   suspensions and resumptions.                                              *)
CronFollows == \A b \in Backups : LET s == cr[b].spec IN
    cr[b].life = "live" /\ s.valid =>
       IF ~s.schedule THEN cron[b] = "none" \/ s.suspend
       ELSE IF s.suspend THEN cron[b] # "on" ELSE cron[b] = "on"

(* handleDeletion: a deletion ends with no Job and no CronJob left. *)
NoneDeleting == \A b \in Backups :
    /\ cr[b].life # "deleting"
    /\ cr[b].life = "gone" => cron[b] = "none" /\ \A j \in jobs : j.of # b

(* A one-time backup, the CronJob and a deletion each come to their end.     *)
BackupsSettle == <>[](BackupsEnded /\ CronFollows /\ NoneDeleting)

=============================================================================
