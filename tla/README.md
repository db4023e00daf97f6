# A TLA+ verification of the Neo4j Kubernetes operator

The operator keeps Neo4j Enterprise clusters, and what lives in them
(databases, users, backups, plugins, ...), as their custom resources ask.
Every controller is a *reconcile pass*: it reads a cached copy of one object,
looks at what Kubernetes and Neo4j report, takes a step, writes status or
annotations, and asks to be called again.  A pass may stop anywhere (a failed
write, a restart of the operator), the copy it read may be old, and users,
administrators, the StatefulSet controller and the servers act between any two
of its writes.  That is what the modules here model.

## The system's parts

| Part | State it keeps | Operations | What makes it hard |
|---|---|---|---|
| Rolling upgrade (`rolling_upgrade_statemachine.go`, `upgrade_*.go`) | `status.upgradeStatus`, `status.version`; the StatefulSet's template and partition | start, stage, lower, stabilize, verify, pause, fail, retry, retarget, repair, forget | two writes per step; a status that lags; pods recreated from the revision the partition says; tags changed at any moment |
| Scale-down drain and raise hold (`scale_down.go`, `raise_hold.go`) | three annotations (drain set, hold, cordoned-at), `spec.replicas`; Neo4j's server states | hold, cordon, settle, deallocate, drop, release, set back, raise | every step may fail or be refused; set-backs in whole or in part; servers with no address; volumes reclaimed later |
| Cluster reconcile pass (`neo4jenterprisecluster_controller.go`) | every child object, the Ready verdict | validate, dispatch, apply, judge | shares the StatefulSet with the two above |
| Split-brain detector | views of each server | compare, restart a minority | views taken at different moments |
| Storage expansion and re-creation | PVC sizes, the StatefulSet deleted with orphaned pods | expand, delete, create | crash between delete and create |
| Configuration rollout | ConfigMap, restart annotation | write, restart | debounce, restarts during an upgrade |
| Standalone | one StatefulSet of one server | as the cluster, without partition | — |
| Backup | Jobs, history, retention | run, prune, delete | one Job per run; a deletion waits for its cleanup |
| Restore | phase, Jobs, the original replica count | stop, restore, start; or drop and recreate | a crash with the cluster stopped |
| Databases, aliases, composites, shards | Neo4j's databases | create, alter, drop under finalizers | two resources naming one database |
| Replica databases and promotion | replica and promotion phases | seed, follow, promote | promotion during seeding |
| Users, roles, bindings, auth rules | Neo4j's users and privileges | create, grant, revoke, drop | two owners of one fact |
| Plugins, Aura fleet | env entries of the StatefulSet, an ownership record | install, configure, hand over, remove | entries shared by plugins; one rollout at a time |
| Aura resources | an external API's ids | create, adopt, update, delete | the answer of a create may be lost |
| Neo4j client | a driver per cluster | statements, driver cache | credentials that change |
| Validation, resource builders, API types, metrics, kubectl plugin | none | pure functions | — |

The cluster's parts interact through one StatefulSet and one cluster object:
the upgrade owns the template and the partition, the drain owns the replicas,
and the normal pass applies the rest; an upgrade waits for a drain, and a
change of the count waits for a stopped upgrade (`upgrade_topology.go`).  The
other controllers wait for a Ready cluster and then talk to Neo4j.

`PROJECT.json` lists every component with its sources and status, and the
hazards of the code, each at the line where it bites with the properties that
watch it.

## Modules

| Module | Models |
|---|---|
| `RollingUpgrade` | the upgrade machine, the normal pass, the StatefulSet controller and the server pods |
| `ScaleDown` | the drain, the raise hold, the StatefulSet controller, volumes, Neo4j's server list |
| `StorageExpansion` | the expansion of the data claims: orphan delete and re-creation of the server StatefulSet, in one or two steps |
| `RestoreJob` | the offline restores of a standalone: stop, Job, start, and the record of who stopped it |
| `ClusterConfig` | how a change of a cluster's configuration reaches its servers: run-time settings, ConfigMap, restart stamps, stuck servers, `RestartPending`, certificates |
| `Standalone` | a pass of the standalone controller: configuration, identity, plugin entries, upgrade, expansion, deletion |
| `Plugins` | `Neo4jPlugin`s, the cluster and fleet management sharing one pod template |
| `DatabaseNames` | databases, aliases and composites that share names; it implements `NameRegistry`, the abstract registry of names |
| `ReplicaDatabase` | a replica database and its promotion, two controllers on one database |
| `RolePrivileges` | the privileges of a role: what is granted, learnt, kept and revoked |
| `Access` | users, role bindings and auth rules |
| `Backup` | one-time and scheduled backups, their Jobs, history, retention and deletion |
| `AuraManaged`, `AuraActions` | what Aura keeps (instances, keys, filters, databases, invites, members) and what it does once (snapshots, backups, restores) |
| `MemorySizing` | the memory sizes of a server, admitted and derived: pure functions |
| `*Parameters` | the constants of a machine with their assumptions |
| `*Proofs` | the theorems about a module: `RollingUpgradeProofs`; `ScaleDownProofs` and `ScaleDrainProofs`; `StorageExpansionProofs`; `RestoreJobProofs`, `RestoreStoreProofs` and `RestoreVolumeProofs`; `DatabaseNamesProofs` |
| `MC*` | the instances TLC runs |

An `MC` module that instantiates several components has a variable `part`: the
initial state picks the component and its instance, and no step changes it, so
a run explores each component by itself and a property speaks of its own part.
Variables are shared between the parts; the ones a part does not use are 0.
Components with *scenes* start from one of a set of situations, each with its
own budget (`left`) of edits, deletions, crashes, lost answers and so on: the
budgets are the bounds of those runs, and each scene is named for what can go
wrong in it.

### RollingUpgrade

`obj` is the stored cluster (tag, `status.version`, `status.upgradeStatus` as
`us`, whether it is Ready with every server available) and `cache` the copy a
pass reads; `sts` is the StatefulSet's template image and partition, `st` its
status as its controller last wrote it, `pods` what each server's pod was
created with and how far it has come, `store` the highest version that opened
each server's data, `op` the writes a pass has still to do.

An action per step of the machine: `StartUpgrade`, `Retarget`, `StagingDecide`
/ `StagingWrite` / `StagingRecord`, `RollingWait` / `RollingLower` /
`RollingWrite` / `RollingRecord`, `RollingDone`, `Stabilize`, `Verify`, the
timeouts, and `NormalPass` and `RefuseSpec` for the pass that runs otherwise.
The steps that write the StatefulSet and then the record are split between the
writes; `Crash` drops the rest of a pass anywhere.  The environment
(`ObserveSts`, `CreatePod`, `UpdatePod`, `PodStep`, `PullRecovers`, `LosePod`,
`EditTag`) is Kubernetes as the code relies on it and the user.  A pod at or
above the partition is created from the template, one below it from the current
revision.  Versions are ordered numbers; time is a timeout that may fire at any
moment, `MaxTimeouts` times, and once everything has stopped as often as needed.

### ScaleDown

`obj` holds the count and the drain's annotations: `drain` (servers being
drained), `held` (ordinals whose pods the hold keeps), `cord` and `at` (the
record of what the drain cordoned, and when).  A server's identity is its
ordinal and the generation of its volume, because Neo4j's server id lives on
the volume.  `hand` is a history variable: the servers an administrator cordoned
while no drain had them on record.  A pass is `PassBegins` (copies the cache), one of the `Drain*`
steps or a set-back, and `ApplySts`, which writes the replicas; a step that
issues several statements may fail after any of them, one that writes may find
its write refused.  `known` is the operator's memory of addresses, empty after a
restart, which is what decides whether a server that is down can be told by
name or only by elimination.  The settle time is a counter: `clock.cordons`
cordons were made and the settle of the first `clock.settled` of them is over.

### StorageExpansion

A claim template cannot change, so an expansion patches the claims, deletes the
StatefulSet leaving its pods, and creates it again as it was.  `pvc` is the size
of each claim, `held` the partition a stopped upgrade recorded, `sts` and `st`
the StatefulSet and its status, `pods` the revision each pod runs, `mem` what
the operator remembers of the StatefulSet it deleted (gone after a restart),
`op` where a pass is between patching, deleting and creating.  `Source` is the
choice of what to create from: the memory, the revision of the highest pod, or
the spec.  While servers below the partition run another revision, `Create`
freezes the StatefulSet on theirs and `restoreHeldTemplate` writes the held
template back once the controller has recorded the current revision.  `ran` is a
history variable: the revision each server ran at first.  The upgrade itself is
at rest here; that a resumed upgrade finds the state it left is `Expanded`.

### RestoreJob

`cr` is each stored restore (spec, phase, the generation its status speaks of)
and `seen` the copy its passes read; `hold` is the annotation by which a restore
keeps the standalone's own controller from starting it again, `sts` the replicas
and the count to go back to, `pod` the server's pod, `job` each restore's Job as
its status says and `running` the Jobs that have the data volume open; `wrote`
is a history variable, the Jobs that finished writing; `op` is where a pass is.
A pass is `Reconcile` and then the steps of the offline path in the code's
order, from `setRestoreInProgressAnnotation` and `stopCluster` to
`createRestoreJob`; later passes judge the Job and end the restore
(`handleRestoreSuccess` or `restoreClusterAfterFailure`, then
`transitionRestoreStatus`).  `Restart` drops the rest of a pass anywhere.
`StandalonePass` is the other controller; Jobs, pods and caches are external.

`Hazards` is the set of disturbances an instance allows, all of which the code
is exposed to: a pass on the copy from before the attempt ended (`staleEnding`),
an ending repeated beside other restores (`repeatsEnding`), a Job list
(`laggingJobs`) or a standalone (`staleStandalone`) read from a cache that lags,
specs edited or restores deleted while an attempt runs (`editsMidway`,
`deletesMidway`), and failures while an attempt ends (`endingFails`) or when a
pass comes back to an attempt that holds the standalone or has its Job
(`reentryFails`).  Deletion always lets go before the finalizer does.
`MaxChanges` bounds edits and deletions, `MaxFaults` restarts, failed status
writes and waits for the backup.

### ClusterConfig and Standalone

`ClusterConfig` follows a pass of the cluster controller through the ConfigMap:
`spec` is the cluster, `map` the ConfigMap with its records, `sts` the template
and its stamps, `pods` what each server runs with, `pass` where the pass is.
Neo4j's settings are three: one it changes at run time, one it reads at startup,
and one that keeps its effect until a restart.  The operator may restart, and the
stamp's write fail, between the ConfigMap and the restart stamp; `left.missed`
records that it happened.  `Standalone` is the same for one server, with the
objects around it (`kids`), its volume and the StatefulSet that an expansion
deletes (`mem`); the revision it would be created from may be unreadable.

### Plugins

`plug`, `tgt` and `sts` are the `Neo4jPlugin`s, the cluster and the server
StatefulSet, each with the operator's copy; the plugin controller's pass and the
cluster controller's pass interleave, a write is refused when its copy is old,
and every write of the template restarts the servers one by one.  The validation
of a plugin's spec, the wait for a target or a StatefulSet that does not exist
yet and fleet management's built-in check are left out: each returns before any
write.

### DatabaseNames and NameRegistry

Each kind of custom resource has one worker and one cache; a pass runs only when
something queued its object, and every statement is a step.  `NameRegistry` says
what users get: a slot (a kind and a name) is freed only while nobody who
reports Ready holds it.  `DatabaseNames!Implements` is that specification under
the mapping from Ready objects to held slots.

### ReplicaDatabase

Two controllers on one database.  A promoted database is nobody's replica any
more: a pass that finds one goes terminal instead of repairing it.

### RolePrivileges and Access

In `RolePrivileges` a statement stands for rows Neo4j chooses (`Renders`), which
depend on what the aliases point at; the operator learns them from what a GRANT
added and keeps them in the status.  Learning is three statements (read, GRANT,
read again), and a hand may grant between any two.  In `Access` three
controllers, the role controller and an administrator change the roles of two
users and of a rule.  A target is up, away for a while, or gone (with its volumes
or without): one that is away is waited for within a grace, one that is gone
takes Ready at once (`TargetNotFound`).  A rule that is absent when it is read
again ends the pass in a panic, which the controller runtime turns into a retry.

### Backup

A one-time backup is a Job recorded in the history before the phase turns
terminal; a schedule is a CronJob whose children are recorded as they end.  Jobs
are retried, expire and are collected; the operator's lists of them, and of their
pods, lag.  A Job that exists already is adopted when the same cache shows it by
then and fails the backup otherwise (`AdoptJob`); a creation or a target read that
fails with another error fails it too (`CreationFails`, `TargetUnreadable`).  The
Job of a chain waits for the lock and its attempt fails when the wait is over
(`MayFail`).

### AuraManaged and AuraActions

A behaviour follows one custom resource of one kind.  Aura answers, asks to be
tried later, refuses, or does the work and loses the answer; a read may answer
404 for what was just made.  Edits land at any moment, also while a pass is under
way.  The upgrade of an instance's tier is left out.

### MemorySizing

Sizes are tenths of a mebibyte; a behaviour picks a specification, admits or
refuses it (`memory_validator.go`) and renders it (`memory_config.go`).

## Runs

All bounds are named constants of the cfg files or budgets of scenes.  Three
servers are the smallest number at which the walk has a first, a middle and a
last server and a scale-down can be set back in part; two are enough where the
question is about one server that moved and one that did not, which lets tags,
edits and failures grow.  Two edits make a change of mind.  `MaxCordons` bounds
the times the settle is counted from: two where `SettleRespected` is checked,
one elsewhere.  The user's and the environment's budgets end, so every system
may legitimately come to rest and no run checks deadlock; the liveness
properties say where it must come to rest.

| Run | Parts | What it shows |
|---|---|---|
| `upgrade` | `stops`: tags raised and lowered at any moment, targets that do not pull or crash, `autoPauseOnFailure`; `walk`: three servers, an image that may not pull, a lost pod or an early timeout; `memory`: every combination of a few sizes | the record is at most one step behind (`PartitionBehind`), `status.version` names a version every server ran (`VersionRan`), a Paused upgrade is left alone (`PauseHolds`); on the walk no store is opened by an older version, servers below the partition run the current revision and one server is down at a time (`WalkSafe`), and only the machine writes template or partition of a staged roll (`WalkOwned`); admitted and derived memory sizes fit each other (`SizesFit`) |
| `scale_down` | `fresh`: cordons by hand, lost pods, forgotten addresses, every sequence of counts; `stale`: passes on old copies | every cordon of the drain is on record (`CordonRecorded`), no undrained server loses its pod (`DrainedBeforeRemoved`), a server cordoned by hand while no drain had it on record is never enabled (`HandCordonKept`), and even on old copies no dropped server's volume is started again and what the spec keeps is not deallocated (`StaleSafe`) |
| `machines` | `ends`: an upgrade whose first target crash-loops; `drain`: two edits of the count between one and three, Neo4j refusing; `grow`: two expansions at any point an upgrade may have stopped at; `plugin`: scenes of two plugins, fleet management and the cluster's own lists | each ends as asked, and broken servers come back once the cause is gone (`MachinesEnd`); a cordon settles before it is acted on (`SettleRespected`); an expansion restarts nobody (`NoRestart`) and each server comes back on its revision (`KeepsRevision`); a Ready plugin keeps its entries and its servers run it (`PluginsServed`) |
| `servers` | `cluster`, `alone`, and `restore`: one restore under every member of `Hazards` | a change reaches every server and servers know every system primary, unless the restart stamp was lost, `RestartPending` names what waits, a renewed certificate is served and a standalone comes to rest (`ServersSettle`), without a needless roll or restart (`SparesServers`); a standalone keeps plugin, volume and identity (`StandaloneKept`); the count a restore goes back to is never 0 (`CountKept`), a deleted restore leaves no hold (`NoOrphanHold`), and every deletion ends, with the standalone running once no restore is left (`DeletionFrees`): whichever exit the restore took |
| `restore_job` | two restores of one standalone side by side, no member of `Hazards` | the data volume has one user at a time (`StoreExclusive`), a Completed restore was written by its own Job (`CompletedRestored`), and the standalone comes back (`InstanceReturns`) |
| `database_names` | rivals of one kind, and two kinds in each other's way | the controllers implement the registry of names (`Implements`); every name settles on its owner and every deletion ends (`NamesSettle`) |
| `resources` | `managed`, `action`: Aura; `replica` | one instance per name, and a request sent once (`NothingTwice`); what is reported Completed is complete, restored or promoted (`CompletedTrue`); a captured password is kept while the Secret keeps its format, nothing is destroyed unasked or left when asked (`NothingLost`); a request is marked before it is sent and not repeated, what has ended and what was promoted stays so (`FinalStays`); everything asked for ends, but for a correction a refusal overtook (`ResourcesSettle`) |
| `privileges` | `role`, `grant` | a role keeps the privileges it had before it was declared and a binding revokes no role that no version of its spec listed (`NothingElseRevoked`), Ready survives a short outage of a target that is there (`OutageKeepsReady`), what is asked for is held unless its learning was cut short, drift is revoked and deletions end (`RolesSettle`), and users, bindings and rules settle with Ready telling the truth (`AccessSettle`) |
| `backup` | scenes of one and two backups | the history is true, and Completed has a run in it unless the write of the history failed (`RecordTrue`); an ended backup stays ended unless the live read failed, what the history resolves to moves forward and pruning keeps the newest (`RunsKept`); backups, schedules and deletions end (`BackupsSettle`) |
| `upgrade_lost_pod` | violates `NoDowngrade` | a moved-on server without a pod is not seen when a new target is staged, and comes back on the version before the upgrade |
| `storage_edit_midway` | violates `KeepsRevision` | the size raised again before the held template is back: the first step is what the operator remembers, and a moved-on server is rolled back |
| `restore_no_stop` | violates `StoreExclusive` | a restore with `stopCluster: false` finds no server pod because another one holds the standalone stopped, and starts its Job on the same data volume |

The violated runs are the project's findings; `PROJECT.json` quotes the line of
the documentation each one contradicts.  Changing a constant of a cfg shows more
of the same kind.  In the upgrade, `NoDowngrade` fails with two servers, three
tags, two edits, `LowerEdits` and `EditsInFlight` TRUE and nothing lost (a tag
lowered between a server's release and its start is accepted), and
`UpgradeFinishes` fails with two servers, a crashing first target, a lost pod
and `GatedUpdate = FALSE` (the zero-ready escape hatch writes a tag that no pass
then rolls out).  In the drain, `KeptNotDeallocated` fails with
`AddressLoss = TRUE` and a lost pod (a server drained by elimination that a set-back in part
keeps is deallocated); `CordonRecorded` fails with `StaleCopies = TRUE` (a pass
rewrites the record from its old copy), and so does
`SettleRespected` (a pass on the copy from before the record takes the cordon
for one made by hand and deallocates at once); `DrainedBeforeRemoved` fails with
`EditsWhileJoining = TRUE` (a server joins after `SHOW SERVERS` was read) and,
with three edits, with `StaleSts = TRUE` (drain and apply disagree on whether
the count is lowered); `MachineOwnsRollout` fails with `LowerEdits = TRUE`,
three edits and two timeouts (a record is forgotten under the template of an
earlier target); `KeepsRevision` fails with `LostMidway = TRUE` (a moved-on
server whose pod is lost while the first step is in place comes back on the
version before) and with `LaggingRecord = TRUE` and a restart (the StatefulSet
is created at the recorded partition, one above the one it had).  In the
restores, `StoreExclusive` fails with any of `staleStandalone`, `laggingJobs`,
`deletesMidway`, `reentryFails` and `repeatsEnding`, and `CompletedRestored` with
`editsMidway`: `restore_job` claims them without.  Where a
ControllerRevision cannot be read the code accepts that servers restart;
`used.unread` exempts those behaviours.  The passing runs keep those constants
where the property is claimed.

### Where the code and its documentation part

Beyond the three violated runs, modelling met these.  The first group is explored
by the passing runs, and the property that would fail names the exemption.

* *Restart stamp lost.*  A restart of the operator between the ConfigMap and the
  stamp, or a stamp whose write fails and is only logged
  (`configmap_manager.go:354`), leaves the servers on the old values with no
  difference left to act on; `configmap_manager.go:313` orders the other steps to
  avoid just that.  `ServersSettle` (`left.missed`).
* *Cordon by hand under a drain's record.*  Between the record and the CORDON the
  operator cannot tell whose cordon it is, and a set-back enables the server;
  `scale_down.go:802` says "never one cordoned by hand".  `HandCordonKept`
  (`hand`).
* *Format of a connection Secret changed.*  The password Aura returned once is
  looked up under the new format's key (`aura_connection.go:140`) and is gone from
  the Secret; `aura_connection.go:67` says it is preserved.  `NothingLost`.
* *Refusal recorded late.*  `fail` stamps the generation it reads when it writes
  (`aurainstance_controller.go:738`), so a correction that landed in the meantime
  counts as refused; line 703 says the edit "triggers a fresh reconcile on its
  own".  `ResourcesSettle` (`Overtaken`).
* *Binding takes a role a hand gave.*  `status.grantedRoles` is what the binding
  lists and the user has, whoever granted it
  (`neo4jrolebinding_controller.go:240`), and goes with the binding; line 348 says
  "We never touch roles we did not add".  `NothingElseRevoked` claims no more than
  that the spec listed it.
* *Learning cut short.*  A pass that ends between revoking a departed statement's
  row (`neo4jrole_learn.go:524`) and granting again what it hid (`:542`) does not
  make up for it, and a change by hand between the two readings around a GRANT is
  taken for what the GRANT stored.  `RolesSettle` (`left.cut`).
* *Job not adopted.*  When the cache still misses the Job that exists, the backup
  is Failed for good while its Job runs (`neo4jbackup_controller.go:1366`); line
  1361 says "Adopt the existing Job instead".  `RecordTrue` says nothing of Failed.
* *History write failed, live read failed.*  The backup completes without a run in
  its history (`neo4jbackup_controller.go:2692`), and `oneTimeBackupDone` falls
  back to the copy (`neo4jbackup_controller.go:667`).  `RecordTrue`
  (`left.unrecorded`) and `RunsKept` (`left.blind`).
* *Restores that end with the hold.*  Exits to Failed before or without the release
  (`neo4jrestore_controller.go:464`, `:790`) keep the standalone stopped, though
  line 97 says the annotation is cleared in every exit path: `RestoreJob` with
  `endingFails` or `reentryFails`.  The deletion of such a restore frees it
  (`DeletionFrees`).

These are outside the scenes of the passing runs:

* A server restarted between a run-time change and the ConfigMap write runs the
  old value (`live_config.go:47`, `configmap_manager.go:354`).
* A standalone's expansion restarts it when the configuration changed since its
  last stamp (`docs/user_guide/migration_guide.md:684` says it restarts nothing).
* `AuraDatabaseRestore`: a write lost after Aura accepted ends in an error though
  the restore was done (`auradatabaserestore_controller.go:86`).
* `AuraRestore` does not wait for a busy instance (`aurarestore_controller.go:112`),
  and a refused instance is asked again after an edit of anything
  (`aurainstance_controller.go:716`).
* A deleted `AuraInstance` whose id was never recorded is left in Aura
  (`aurainstance_controller.go:488`).
* A replica that is deleted while a promotion runs may be dropped
  (`neo4jreplicadatabase_controller.go:567`).
* A role may lose a privilege whose rows another statement also gave
  (`neo4jrole_learn.go:50`), a role binding may leave what it granted
  (`neo4jrolebinding_controller.go:306`), a plugin an entry
  (`plugin_env_ownership.go:584`).
* Rounded sizes may use the system's reserve (`memory_config.go:191`), and sizes
  in `propertySharding.config` are not weighed (`memory_validator.go:59`).
* A backup's phase may fall back to Pending (`neo4jbackup_controller.go:838`).
* A database may be imported twice (`neo4jdatabase_controller.go:327`), and a
  composite reads Ready before its constituents do
  (`neo4jcompositedatabase_controller.go:702`).

### Fairness

Requeues and watch events bring every pass back, so the operator's steps are
weakly fair; a write that may fail, or a pass that may crash, is tried again
for ever, so those steps are strongly fair in the outcome where they succeed
(`Served` in `ScaleDown` is the step in which Neo4j and the API server do what
they are asked).  In `RestoreJob` the Job controller starts a Job and its pod
ends, whatever interrupts them on the way; a finished Job's five minutes are
taken to outlast the cache's lag and the steps of a pass.  The caches catch up, the StatefulSet controller and the
kubelets act, and relocation of databases ends.  Nothing is assumed of the user,
of lost pods or of failures, all of which the bounds make finite.

## Proofs

Every theorem holds for all values of the constants that satisfy the named
assumptions (`ConstantsAssumption`, `NamesAssumption`, ...), so for any number
of servers, restores, databases or tags and for any budget of edits and
failures.  Where a property is false under a disturbance the code is exposed to
(the list under the runs' table), the theorem assumes that disturbance away, by
name and no other.  Each proof has the same shape: an inductive invariant, checked with TLC
before it was proved, one step per action, and a last temporal step.

| Module | Theorem | Assumes | Inductive invariant |
|---|---|---|---|
| `RollingUpgradeProofs` | `TypeCorrect` | — | `TypeOK`: among others the partition stays between zero and the number of servers |
| | `PartitionBehindCorrect` | — | `WalkInv` |
| | `VersionRanCorrect` | — | `VersionInv` |
| | `PauseHoldsCorrect` | — | `StopInv` |
| `ScaleDownProofs` | `TypeCorrect` | — | `TypeInv` |
| | `NoRevivalCorrect` | — (old copies included) | `VolumeInv` |
| `ScaleDrainProofs` | `CordonRecordedCorrect`, `HandCordonKeptCorrect` | passes start from the stored cluster | `RecordInv` |
| | `DrainedBeforeRemovedCorrect` | and from the StatefulSet as it is; no edit while a server joins | `DrainedInv` |
| `StorageExpansionProofs` | `TypeCorrect` | — | `TypeInv` |
| | `KeepsRevisionCorrect`, `NoRestartCorrect` | `Calm`: the record of a partition does not lag, no edit and no lost pod between the two steps | `SafeInv` |
| `RestoreJobProofs` | `TypeCorrect`, `CountKeptCorrect`, `NoOrphanHoldCorrect` | — (every member of `Hazards`) | `TypeInv`, `CountInv`, `HoldInv` |
| `RestoreStoreProofs` | `CompletedRestoredCorrect` | `CalmAttempts`: no stale copy of an ending, no edit midway | `SyncInv`, `RestoredInv` |
| `RestoreVolumeProofs` | `StoreExclusiveCorrect` | `Calm`: no member of `Hazards` (so no restart or failed write between a release and its record beside another restore), every restore stops the standalone | `EndedInv`, `HoldsInv`, `ExclInv` |
| `DatabaseNamesProofs` | `ImplementsCorrect` | `NamesAssumption` | `Inv` |
| | `DropSparesCorrect` | `NamesAssumption` | `Inv` |

Why the invariants are needed:

* *Upgrade.*  `PartitionBehind` says nothing of a pass between its two writes, or
  of a normal pass that writes the StatefulSet while the record says Rolling.
  `WalkInv` adds both: what `op` still has to write agrees with the record, and
  while the stored record is Rolling the cached one is active, so no normal pass
  runs.  `VersionInv` relates `status.version` to what the StatefulSet status
  counts as updated and to what each server's container has started on.  `StopInv`:
  a record is Paused only with `autoPauseOnFailure`.
* *Scale-down.*  A pod is created only by raising the replicas, and a pass raises
  them only over ordinals with nothing left; `VolumeInv` says that of every pass
  under way, and that a volume handed over lies above the replicas.  `RecordInv` is
  the drain's write-ahead record: what it cordoned is on the record, what is on the
  record and still serves is in the drain set, and what was cordoned by hand while
  no drain had it on record is not on it.
  `DrainedInv` follows a server from the lowering of the count to the lowering of the
  replicas: above the spec nothing is still joining, a pass works on the replicas as
  they are, and one about to lower them has left no member above.
* *Expansion.*  `Safe`, the core of `SafeInv`, says for every point between the
  deletion and the last write what the StatefulSet would be created from (`Source`),
  that the servers below the partition run its current revision and the others its
  update revision, and that a frozen first step names the revision every server ran.
  Behaviours where a ControllerRevision cannot be read are exempt, as in the code.
* *Restore.*  `SyncInv` ties the copy a pass reads, the pass and the stored restore to
  one attempt; `HoldsInv` ties the hold to an attempt that stops the standalone;
  `RestoredInv` ties a Job's success to its generation; `ExclInv` says of every step
  of a pass who may use the volume: the server while nobody holds, and otherwise the
  Job of the holder.
* *Names.*  The refinement maps Ready objects to held slots.  It needs that the cache
  already has the claim of whoever is Ready (`ClaimSeen`), which is what makes the
  look at the other objects before a DROP conclusive, and that a pass for a deleted
  object sends no statement but its DROP, on a name no Ready object of its kind claims
  (`PassSafe`).  `DropSparesCorrect` is the step form: a DROP removes nothing a Ready
  resource of the same kind stands for.

What is model-checked only, and why:

* every liveness property (fairness and `ENABLED` are out of the prover's reach);
* `RecordTrue` and `RunsKept`: the history is sorted and pruned with folds and sorts
  over sequences, whose results need an induction over data;
* `SizesFit`: nested integer divisions of several quantities, one state deep and
  explored in full over its sizes;
* `WalkSafe`: `NoDowngrade` is false in general (`upgrade_lost_pod`), and its
  invariant would have to carry the whole walk; `WalkOwned` rests on the same bounds;
* `SettleRespected`, which is claimed only of passes that read what was last written;
* `PluginsServed`, `NothingTwice`, `CompletedTrue`, `NothingLost`,
  `FinalStays`, `SparesServers`, `StandaloneKept`, `NothingElseRevoked`,
  `OutageKeepsReady`: their modules start from scenes, finite situations with budgets,
  so a theorem would quantify over scenes nobody has argued to be reachable.

## Not modelled

Messages, events, metrics, logs, the text of Cypher and of Kubernetes objects,
and floating tags (`status.resolvedTargetVersion`) are left out of the modules
above.  Components that are not modelled are listed with the reason in
`PROJECT.json`: sharded databases, the split-brain detector, fleet management
beyond its entry in the plugin list, the online restore of a cluster, the
kubectl plugin, metrics and generated code.  The upgrade and the drain are not
composed: that the two holds of `upgrade_topology.go` do not wait for each other
is not checked.
