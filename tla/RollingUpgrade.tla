--------------------------- MODULE RollingUpgrade ---------------------------
(***************************************************************************)
(* The rolling upgrade of a Neo4jEnterpriseCluster: the requeue-driven     *)
(* state machine Staging -> Rolling -> Stabilizing -> Verifying ->         *)
(* Completed, its stops (Paused, Failed), retargets, retries and repairs,  *)
(* the normal pass that runs while it is stopped, and the StatefulSet      *)
(* controller and server pods it drives.                                   *)
(*                                                                         *)
(* A step of the operator reads its cached copy of the cluster (cache)     *)
(* and, where the code does, the API server.  The steps that write two     *)
(* objects are split at the write, so a crash, a failed write, the         *)
(* StatefulSet controller or the user can come in between.                 *)
(***************************************************************************)
EXTENDS UpgradeParameters

VARIABLES
    obj,    \* the stored cluster: spec.image.tag, status.version,
            \*   status.upgradeStatus, Ready with every server available
    cache,  \* the operator's cached copy of it
    sts,    \* the server StatefulSet's template image and partition
    st,     \* its status, as its controller last wrote it
    pods,   \* per server: the image its pod was created with, and how far it is
    store,  \* per server: the highest version that has opened its store
    op,     \* the writes the running pass still has to do
    used    \* what the environment has done of its bounds

vars == <<obj, cache, sts, st, pods, store, op, used>>

Servers == 0 .. N - 1
NoTag == 0
NoPartition == -1

Phases == {"None", "Staging", "Rolling", "Stabilizing", "Verifying",
           "Completed", "Failed", "Paused"}
PodStates == {"missing", "pulling", "unpullable", "started", "crashed",
              "ready", "serving"}

UpgradeRecords ==
    [phase : Phases, target : Tags \cup {NoTag}, prev : Tags \cup {NoTag},
     started : Tags \cup {NoTag}, part : 0 .. N \cup {NoPartition}]

NoUpgrade == [phase |-> "None", target |-> NoTag, prev |-> NoTag,
              started |-> NoTag, part |-> NoPartition]

Clusters == [tag : Tags, version : Tags, us : UpgradeRecords, ready : BOOLEAN]

Idle == [at |-> "idle", part |-> 0, image |-> NoTag]

TypeOK ==
    /\ obj \in Clusters /\ cache \in Clusters
    /\ sts \in [image : Tags, part : 0 .. N]
    /\ st \in [observed : BOOLEAN, current : Tags, update : Tags,
               updated : SUBSET Servers, ready : SUBSET Servers]
    /\ pods \in [Servers -> [image : Tags, at : PodStates]]
    /\ store \in [Servers -> Tags]
    /\ op \in [at : {"idle", "stage", "staged", "lower", "lowered"},
               part : 0 .. N, image : Tags \cup {NoTag}]
    /\ op.at = "stage" => op.image \in Tags
    /\ used \in [edits : 0 .. MaxEdits, lost : 0 .. MaxLost,
                 timeouts : 0 .. MaxTimeouts]

Init ==
    /\ obj = [tag |-> FirstTag, version |-> FirstTag, us |-> NoUpgrade,
              ready |-> TRUE]
    /\ cache = obj
    /\ sts = [image |-> FirstTag, part |-> 0]
    /\ st = [observed |-> TRUE, current |-> FirstTag, update |-> FirstTag,
             updated |-> Servers, ready |-> Servers]
    /\ pods = [i \in Servers |-> [image |-> FirstTag, at |-> "serving"]]
    /\ store = [i \in Servers |-> FirstTag]
    /\ op = Idle
    /\ used = [edits |-> 0, lost |-> 0, timeouts |-> 0]

-----------------------------------------------------------------------------
(* Predicates on the record, the pods and the StatefulSet.                 *)

Active(u) == u.phase \in {"Staging", "Rolling", "Stabilizing", "Verifying"}
Held(u) == u.phase \in {"Paused", "Failed"}

IsReady(i) == pods[i].at \in {"ready", "serving"}
Missing(i) == pods[i].at = "missing"
CannotStart(i) == pods[i].at \in {"unpullable", "crashed"}
HasStarted(i) == pods[i].at \in {"started", "crashed", "ready", "serving"}

AllServing == \A i \in Servers : pods[i].at = "serving"

\* The version rule: not below status.version, nor below what a server of an
\* unfinished upgrade is recorded to have started on.
TagAllowed(tag, version, u) ==
    /\ tag >= version
    /\ (Active(u) \/ Held(u)) /\ u.started # u.prev => tag >= u.started

SpecAccepted == TagAllowed(cache.tag, cache.version, cache.us)

\* Mutant: only a record that names no target waits for the user.
WaitsForUser_NoTarget(u) == u.phase = "Paused" /\ AutoPause /\ u.target = NoTag

\* A Paused upgrade the user has not touched.
WaitsForUser(u) == u.phase = "Paused" /\ AutoPause /\ u.target = cache.tag

\* recordStartedTarget, on the pass's copy and on the stored record.
TargetStarted ==
    /\ Active(cache.us) \/ Held(cache.us)
    /\ \E i \in Servers : pods[i].image = cache.us.target /\ HasStarted(i)
    /\ obj.us.target = cache.us.target
RecordStarted(u) ==
    IF TargetStarted THEN [u EXCEPT !.started = cache.us.target] ELSE u

\* forgetAbandonedUpgrade: a stopped upgrade no server started on, not staged
\* and no longer asked for.
Abandoned ==
    LET u == RecordStarted(cache.us)
    IN  /\ Held(u)
        /\ u.target # cache.tag
        /\ u.started = u.prev
        /\ sts.image # u.target

PassRecord == IF Abandoned THEN NoUpgrade ELSE RecordStarted(cache.us)
StoredRecord ==
    IF Abandoned /\ obj.us.target = cache.us.target /\ obj.us.phase = cache.us.phase
    THEN NoUpgrade ELSE RecordStarted(obj.us)

\* serversDownIn: the servers that cannot start, when they are the only ones
\* down and the highest ordinals the upgrade restarted; {} otherwise.  (Neo4j's
\* last view of the others, unavailableServerOutside, is taken to agree.)
ServersDown ==
    LET down == {i \in Servers : ~IsReady(i)}
        up == Servers \ down
        frozen == sts.part >= N
        lowest == IF frozen THEN 0 ELSE sts.part
    IN  IF /\ sts.part > 0
           /\ \A i \in down : CannotStart(i) /\ i >= lowest
           /\ \A i \in down, j \in up : j < i
           /\ frozen => \A i \in down, j \in up : pods[i].image # pods[j].image
        THEN down ELSE {}

\* Those a template with this image would bring back.
Replaceable(image) ==
    IF \E i \in ServersDown : pods[i].image = image THEN {} ELSE ServersDown

\* Mutant: a held upgrade waits for every server, whatever the servers run.
Repair_Never(u) == {}

\* heldUpgradeRepair
Repair(u) ==
    IF Held(u) /\ ~WaitsForUser(u) THEN Replaceable(cache.tag) ELSE {}

\* stuckServerPods: what the update is to replace and cannot start.
Stuck ==
    {i \in Servers : /\ st.observed
                     /\ i >= sts.part
                     /\ pods[i].image # st.update
                     /\ CannotStart(i)}

Delete(S) == [i \in Servers |-> IF i \in S THEN [pods[i] EXCEPT !.at = "missing"]
                                           ELSE pods[i]]

\* A write of the StatefulSet's spec; the controller has not seen a change.
WriteSts(image, part) ==
    /\ sts' = [image |-> image, part |-> part]
    /\ st' = [st EXCEPT !.observed = @ /\ sts' = sts]

StoppedPhase == IF AutoPause THEN "Paused" ELSE "Failed"

-----------------------------------------------------------------------------
(* The operator: one pass at a time, each from its cached copy.            *)

\* The informer delivers the stored cluster.
SyncCache ==
    /\ cache # obj
    /\ cache' = obj
    /\ UNCHANGED <<obj, sts, st, pods, store, op, used>>

PassBegins == op = Idle /\ SpecAccepted

\* Validation refuses the tag: the cluster's phase is Failed, nothing else.
RefuseSpec ==
    /\ op = Idle /\ ~SpecAccepted
    /\ obj' = [obj EXCEPT !.ready = FALSE]
    /\ UNCHANGED <<cache, sts, st, pods, store, op, used>>

\* isUpgradeRequired.  A start refused less than upgradeStartRetry ago is left
\* to the normal pass, which may run too (StartMayWait).
UpgradeRequired(u) ==
    IF ~cache.ready
    THEN Repair(u) # {}
    ELSE /\ ~WaitsForUser(u)
         /\ \/ sts.image # cache.tag
            \/ /\ Held(u)
               /\ u.target = cache.tag /\ cache.version # cache.tag
               /\ st.ready = Servers
StartMayWait(u) == cache.ready /\ u.phase = "Failed" /\ u.target = cache.tag

\* newUpgradeRecord: an attempt that takes up a held upgrade keeps what its
\* servers started on.
NewUpgradeRecord(u) ==
    [phase |-> "Staging", target |-> cache.tag, prev |-> cache.version,
     started |-> IF Held(u) /\ u.prev = cache.version THEN u.started
                                                      ELSE cache.version,
     part |-> NoPartition]

\* preUpgradeCheck: every server healthy, none reporting a later version.
PreUpgradeCheck ==
    HealthChecks => AllServing /\ \A i \in Servers : pods[i].image <= cache.tag

\* startRollingUpgrade
StartUpgrade ==
    LET u == PassRecord
        new == NewUpgradeRecord(u)
        repair == Repair(u) # {}
        allowed == TagAllowed(cache.tag, cache.version, u)
    IN  /\ PassBegins /\ ~Active(cache.us) /\ UpgradeRequired(u)
        /\ obj' = [obj EXCEPT !.us =
                     IF ~allowed
                     THEN [new EXCEPT !.phase = StoppedPhase]
                     ELSE IF repair THEN new
                     ELSE IF st.ready # Servers THEN StoredRecord
                     ELSE IF PreUpgradeCheck THEN new
                     ELSE [new EXCEPT !.phase = StoppedPhase]]
        /\ UNCHANGED <<cache, sts, st, pods, store, op, used>>

\* handleRollingUpgrade, spec.image.tag changed while the machine is active.
Retarget ==
    LET u == RecordStarted(cache.us)
    IN  /\ PassBegins /\ Active(cache.us) /\ cache.us.target # cache.tag
        /\ obj' = [obj EXCEPT !.us =
                     IF TagAllowed(cache.tag, cache.version, u)
                     THEN [RecordStarted(@) EXCEPT !.phase = "Staging",
                                                   !.target = cache.tag]
                     ELSE RecordStarted(@)]
        /\ UNCHANGED <<cache, sts, st, pods, store, op, used>>

StepBegins(phase) ==
    PassBegins /\ cache.us.phase = phase /\ cache.us.target = cache.tag

\* upgradeRecordMovedOn is "": the stored record is the cached one.
RecordCurrent ==
    /\ obj.us.phase = cache.us.phase
    /\ obj.us.target = cache.us.target
    /\ obj.us.part = cache.us.part

\* Whether the StatefulSet's rolling update is to delete pod i next.
DueForUpdate(i) ==
    /\ ~Missing(i) /\ i >= sts.part /\ pods[i].image # sts.image
    /\ \A j \in Servers : j > i => IsReady(j) /\ pods[j].image = sts.image
    /\ GatedUpdate => \A j \in Servers : IsReady(j)

\* What the StatefulSet controller writes to the status; a template every pod
\* runs, every one ready, becomes the current revision.
ObservedStatus ==
    LET updated == {i \in Servers : ~Missing(i) /\ pods[i].image = sts.image}
        ready == {i \in Servers : IsReady(i)}
    IN  [observed |-> TRUE, update |-> sts.image,
         updated |-> updated, ready |-> ready,
         current |-> IF updated = Servers /\ ready = Servers
                     THEN sts.image ELSE st.current]

\* Nothing but the operator is going to change anything.
Quiescent ==
    /\ cache = obj /\ st = ObservedStatus
    /\ \A i \in Servers : /\ pods[i].at \in {"serving", "unpullable", "crashed"}
                          /\ ~DueForUpdate(i)

\* failUpgrade at the step's deadline: the partition stays where it is.  The
\* deadline comes when the step waits and nothing moves any more, or earlier, a
\* bounded number of times.
FailUpgrade(u, waits) ==
    /\ \/ waits /\ Quiescent /\ used' = used
       \/ /\ used.timeouts < MaxTimeouts
          /\ used' = [used EXCEPT !.timeouts = @ + 1]
    /\ obj' = [obj EXCEPT !.us = [u EXCEPT !.phase = StoppedPhase]]
    /\ UNCHANGED <<cache, sts, st, store, op>>

\* retargetPartition: the servers on another revision than the current one.
Moved == {i \in Servers : ~Missing(i) /\ pods[i].image # st.current}
AllOnUpdate == \A i \in Servers : ~Missing(i) /\ pods[i].image = st.update

\* Mutant: Staging that runs again freezes every server again.
StagingPartition_Refreeze(image) == N

\* stagingPartition: a second run on the same template keeps the partition.
StagingPartition(image) ==
    IF sts.image = image /\ sts.part < N THEN sts.part ELSE N

\* serverNotReadyBelow
NotReadyBelow(p, down) ==
    \E i \in Servers : \/ i < p /\ ~IsReady(i)
                       \/ i >= p /\ ~IsReady(i) /\ ~Missing(i) /\ i \notin down

\* Mutant: Staging freezes every server, whatever it runs.
StagedAt_Frozen(image) == {N}

\* The partition stepUpgradeStaging writes: the staging one, or the lowest server
\* it must not go above.  None: the step waits.
StagedAt(image) ==
    LET down == Replaceable(image)
        pinned == down \cup Moved
    IN  {p \in 0 .. StagingPartition(image) :
            /\ ~(Moved # {} /\ down = {} /\ AllOnUpdate)
            /\ \A i \in pinned : p <= i
            /\ p = StagingPartition(image) \/ p \in pinned
            /\ sts.image # image /\ p < N => ~NotReadyBelow(p, down)}

\* Staging checks its deadline before it reads the stored record.
StagingTimeout ==
    /\ StepBegins("Staging")
    /\ FailUpgrade(obj.us, StagedAt(cache.tag) = {})
    /\ UNCHANGED pods

\* The first half of stepUpgradeStaging: everything it reads and decides.
StagingDecide ==
    /\ StepBegins("Staging")
    /\ obj.us.phase = "Staging" /\ obj.us.target = cache.us.target
    /\ \E p \in StagedAt(cache.tag) :
          op' = [at |-> "stage", part |-> p, image |-> cache.tag]
    /\ UNCHANGED <<obj, cache, sts, st, pods, store, used>>

\* Its StatefulSet write: template and partition in one update.
StagingWrite ==
    /\ op.at = "stage"
    /\ WriteSts(op.image, op.part)
    /\ op' = [op EXCEPT !.at = "staged"]
    /\ UNCHANGED <<obj, cache, pods, store, used>>

\* Its status write.
StagingRecord ==
    /\ op.at = "staged"
    /\ obj' = [obj EXCEPT !.us.phase = "Rolling", !.us.part = op.part]
    /\ op' = Idle
    /\ UNCHANGED <<cache, sts, st, pods, store, used>>

\* Mutant: Kubernetes readiness is enough to go on.
RollSettled_PodReady(p) ==
    /\ st.observed
    /\ Cardinality(st.updated) >= N - p
    /\ st.ready = Servers

\* planUpgradeRollStep, with the SHOW SERVERS and the database gate as one:
\* the server last rolled serves, its databases caught up.
RollSettled(p) ==
    /\ st.observed
    /\ Cardinality(st.updated) >= N - p
    /\ st.ready = Servers
    /\ p < N => pods[p].at = "serving"

RollingBegins == StepBegins("Rolling") /\ RecordCurrent
ReplaceStuck == pods' = IF st.ready = Servers THEN pods ELSE Delete(Stuck)

RollingWait ==
    /\ RollingBegins /\ ~RollSettled(cache.us.part)
    /\ ReplaceStuck
    /\ obj' = [obj EXCEPT !.us = RecordStarted(@)]
    /\ UNCHANGED <<cache, sts, st, store, op, used>>

RollingTimeout ==
    /\ RollingBegins /\ ~RollSettled(cache.us.part)
    /\ ReplaceStuck
    /\ FailUpgrade(RecordStarted(obj.us), TRUE)

RollingDone ==
    /\ RollingBegins /\ RollSettled(cache.us.part) /\ cache.us.part = 0
    /\ obj' = [obj EXCEPT !.us = [RecordStarted(@) EXCEPT !.phase = "Stabilizing"]]
    /\ UNCHANGED <<cache, sts, st, pods, store, op, used>>

\* Mutant: the walk does not stop at ordinal 0.
RollingLower_PastZero ==
    /\ RollingBegins /\ RollSettled(cache.us.part)
    /\ obj' = [obj EXCEPT !.us = RecordStarted(@)]
    /\ op' = [at |-> "lower", part |-> cache.us.part - 1, image |-> NoTag]
    /\ UNCHANGED <<cache, sts, st, pods, store, used>>

\* Mutant: the walk goes on from the StatefulSet's partition, not the record's.
RollingLower_FromLive ==
    /\ RollingBegins /\ RollSettled(cache.us.part) /\ sts.part > 0
    /\ obj' = [obj EXCEPT !.us = RecordStarted(@)]
    /\ op' = [at |-> "lower", part |-> sts.part - 1, image |-> NoTag]
    /\ UNCHANGED <<cache, sts, st, pods, store, used>>

RollingLower ==
    /\ RollingBegins /\ RollSettled(cache.us.part) /\ cache.us.part > 0
    /\ obj' = [obj EXCEPT !.us = RecordStarted(@)]
    /\ op' = [at |-> "lower", part |-> cache.us.part - 1, image |-> NoTag]
    /\ UNCHANGED <<cache, sts, st, pods, store, used>>

RollingWrite ==
    /\ op.at = "lower"
    /\ WriteSts(sts.image, op.part)
    /\ op' = [op EXCEPT !.at = "lowered"]
    /\ UNCHANGED <<obj, cache, pods, store, used>>

RollingRecord ==
    /\ op.at = "lowered"
    /\ obj' = [obj EXCEPT !.us.part = op.part]
    /\ op' = Idle
    /\ UNCHANGED <<cache, sts, st, pods, store, used>>

\* The operator restarts, or a write of the running pass fails: whatever it
\* had left to do is not done.
Crash ==
    /\ op # Idle
    /\ op' = Idle
    /\ UNCHANGED <<obj, cache, sts, st, pods, store, used>>

\* stepUpgradeStabilizing: health, consensus and replication, once.
Stabilize ==
    /\ StepBegins("Stabilizing") /\ RecordCurrent
    /\ IF HealthChecks => AllServing
       THEN /\ obj' = [obj EXCEPT !.us.phase = "Verifying"]
            /\ UNCHANGED <<cache, sts, st, store, op, used>>
       ELSE FailUpgrade(obj.us, TRUE)
    /\ UNCHANGED pods

\* stepUpgradeVerifying: every server reports the tag; completeUpgrade, whose
\* second write (Ready) may fail unnoticed.
Verify ==
    /\ StepBegins("Verifying") /\ RecordCurrent
    /\ IF \A i \in Servers : IsReady(i) /\ pods[i].image = cache.tag
       THEN /\ \E ready \in {obj.ready, TRUE} :
                  obj' = [obj EXCEPT !.us.phase = "Completed",
                                     !.version = cache.tag, !.ready = ready]
            /\ UNCHANGED <<cache, sts, st, store, op, used>>
       ELSE FailUpgrade(obj.us, TRUE)
    /\ UNCHANGED pods

\* serverStatefulSetFullyRolled and rolledImageTag, on a StatefulSet the pass
\* left at part with status s.
RolledOut(s) ==
    /\ s.observed /\ s.current = s.update
    /\ s.updated = Servers /\ s.ready = Servers
FullyRolled(u, part, s) ==
    IF Held(u) /\ part > 0
    THEN s.observed /\ Cardinality(s.updated) >= N - part /\ s.ready = Servers
    ELSE RolledOut(s)

\* holdImageDriftUntilReady: the image in place stays, unless no server is ready.
HeldImage == IF st.ready = {} THEN cache.tag ELSE sts.image

\* Mutant: the partition is kept only while the machine is active.
KeptPartition_ActiveOnly(u) == IF Active(u) THEN sts.part ELSE 0

\* createOrUpdateResourceInternal keeps the partition of a stopped upgrade.
KeptPartition(u) == IF Held(u) THEN sts.part ELSE 0

\* Mutant: a Ready cluster runs the image of its template.
ClusterVersionToRecord_Template(u, image, s) == image

\* clusterVersionToRecord, by a Ready pass whose template has this image: only
\* one rolled out to every server, and not the target the machine has to verify.
ClusterVersionToRecord(u, image, s) ==
    IF RolledOut(s) /\ ~(Held(u) /\ u.target = image) THEN image ELSE obj.version

\* The normal pass: the image held, a stopped upgrade's partition kept, stuck pods
\* replaced, then Ready or the shortfall, and the version every server runs.
NormalPass ==
    LET u == PassRecord
        image == HeldImage
        part == KeptPartition(u)
        ready == AllServing /\ FullyRolled(u, part, st')
    IN  /\ PassBegins /\ ~Active(cache.us)
        /\ ~UpgradeRequired(u) \/ StartMayWait(u)
        /\ WriteSts(image, part)
        /\ pods' = IF st.ready # Servers /\ st' = st /\ st.update # st.current
                   THEN Delete(Stuck) ELSE pods
        /\ obj' = [obj EXCEPT !.us = StoredRecord, !.ready = ready,
                              !.version = IF ready
                                          THEN ClusterVersionToRecord(u, image, st')
                                          ELSE @]
        /\ UNCHANGED <<cache, store, op, used>>

-----------------------------------------------------------------------------
(* The StatefulSet controller, the kubelets and the user.                  *)

\* A pod at or above the partition is created from the template, one below it
\* from the current revision.
CreatePod(i) ==
    /\ Missing(i)
    /\ pods' = [pods EXCEPT ![i] =
                  [image |-> IF i >= sts.part THEN sts.image ELSE st.current,
                   at |-> "pulling"]]
    /\ UNCHANGED <<obj, cache, sts, st, store, op, used>>

\* The rolling update deletes the highest pod due for it, once the ones above
\* are updated and ready; with the gate on, only while every pod is ready.
UpdatePod(i) ==
    /\ DueForUpdate(i)
    /\ pods' = Delete({i})
    /\ UNCHANGED <<obj, cache, sts, st, store, op, used>>

ObserveSts ==
    /\ st' = ObservedStatus
    /\ UNCHANGED <<obj, cache, sts, pods, store, op, used>>

\* A container that starts opens the server's store with its version.
OpenStore(i, at) ==
    store' = IF at = "started" /\ pods[i].image > store[i]
             THEN [store EXCEPT ![i] = pods[i].image] ELSE store

\* A server's pod goes on: its image pulled or not, its container started, in
\* a crash loop or Ready, its databases caught up.
PodStep(i) ==
    /\ \E at \in PodStates :
          /\ \/ pods[i].at = "pulling" /\ at = "started"
             \/ pods[i].at = "pulling" /\ at = "unpullable" /\ pods[i].image \in Unpullable
             \/ pods[i].at = "started" /\ at = "crashed" /\ pods[i].image \in Crashing
             \/ pods[i].at = "started" /\ at = "ready" /\ pods[i].image \notin Crashing
             \/ pods[i].at = "ready" /\ at = "serving"
          /\ pods' = [pods EXCEPT ![i].at = at]
          /\ OpenStore(i, at)
    /\ UNCHANGED <<obj, cache, sts, st, op, used>>

\* An image that could not be pulled is published after all.
PullRecovers(i) ==
    /\ pods[i].at = "unpullable"
    /\ pods' = [pods EXCEPT ![i].at = "started"]
    /\ OpenStore(i, "started")
    /\ UNCHANGED <<obj, cache, sts, st, op, used>>

\* A pod is lost: a node drain, an eviction, a delete.
LosePod(i) ==
    /\ ~Missing(i) /\ used.lost < MaxLost
    /\ used' = [used EXCEPT !.lost = @ + 1]
    /\ pods' = Delete({i})
    /\ UNCHANGED <<obj, cache, sts, st, store, op>>

\* The user sets another spec.image.tag.
EditTag(t) ==
    /\ t # obj.tag /\ used.edits < MaxEdits
    /\ LowerEdits \/ t > obj.tag
    /\ EditsInFlight \/ ~Active(obj.us)
    /\ used' = [used EXCEPT !.edits = @ + 1]
    /\ obj' = [obj EXCEPT !.tag = t]
    /\ UNCHANGED <<cache, sts, st, pods, store, op>>

Operator ==
    \/ RefuseSpec \/ StartUpgrade \/ Retarget \/ NormalPass
    \/ StagingTimeout \/ StagingDecide \/ StagingWrite \/ StagingRecord
    \/ RollingWait \/ RollingTimeout \/ RollingDone
    \/ RollingLower \/ RollingWrite \/ RollingRecord
    \/ Stabilize \/ Verify

Environment ==
    \/ ObserveSts
    \/ \E i \in Servers : \/ CreatePod(i) \/ UpdatePod(i)
                        \/ PodStep(i) \/ PullRecovers(i) \/ LosePod(i)
    \/ \E t \in Tags : EditTag(t)

Next == Operator \/ SyncCache \/ Crash \/ Environment

Spec == Init /\ [][Next]_vars

Kubelets == \E i \in Servers : CreatePod(i) \/ UpdatePod(i) \/ PodStep(i)
PassDecides ==
    StagingDecide \/ RollingWait \/ RollingDone \/ RollingLower \/ Stabilize \/ Verify

\* Requeues and watch events bring every pass back, and a write that is tried
\* again and again gets through in the end; the StatefulSet controller and the
\* kubelets act.  A step that waits while nothing moves reaches its deadline.
Fairness ==
    /\ WF_vars(SyncCache \/ ObserveSts) /\ WF_vars(Kubelets)
    /\ WF_vars(StartUpgrade \/ Retarget \/ NormalPass)
    /\ WF_vars(StagingTimeout \/ RollingTimeout) /\ WF_vars(PassDecides)
    /\ SF_vars(StagingWrite \/ RollingWrite) /\ SF_vars(StagingRecord \/ RollingRecord)

FairSpec == Spec /\ Fairness

-----------------------------------------------------------------------------
(* Properties.                                                             *)

\* A container never starts on a version below one that has opened the
\* server's store (operations.md ids 149, 180): across the partition walk,
\* stops, retries, crashes and recreated pods.
NoDowngrade == \A i \in Servers : HasStarted(i) => pods[i].image = store[i]

\* While the machine walks, the persisted currentPartition is the StatefulSet's
\* or one step behind it: a crash between the two writes loses one step at most,
\* and no other write of the operator moves the partition away from it.
PartitionBehind ==
    obj.us.phase = "Rolling" => sts.part \in {obj.us.part, obj.us.part - 1}

\* The walk takes down one server at a time, and the next only once the last one
\* serves with its databases caught up; a timeout, a stop, a crash and a retry
\* keep that (no pod lost to anything else, and no change of target).
OneServerDown ==
    used.lost = 0 /\ used.edits <= 1 =>
        Cardinality({i \in Servers : pods[i].at # "serving"}) <= 1

\* A server below the partition runs the StatefulSet's current revision, the one
\* its pod would be created from again: what keeps a lost pod from a downgrade.
BelowPartition ==
    \A i \in Servers : i < sts.part /\ ~Missing(i) => pods[i].image = st.current

\* status.version, which the version rule compares a tag with, is never a version
\* some server has not run yet, whether the machine or the normal pass records it.
VersionRan == \A i \in Servers : store[i] >= obj.version

\* While a template other than status.version is in place and a server is ready,
\* only a step of the machine writes the template or the partition: the normal
\* pass neither unfreezes a staged roll nor undoes one.
OwnedStep == sts' # sts /\ st.ready # {} /\ sts.image # obj.version
               => op.at \in {"stage", "lower"}
MachineOwnsRollout == [][OwnedStep]_vars

\* A Paused upgrade whose tag the user leaves alone stays Paused once the operator
\* has seen it, and while a server is ready its StatefulSet is left as the machine
\* stopped it: by no pass, and through no restart, lost pod or recovered image.
WaitsUntouched ==
    /\ obj.us.phase = "Paused" /\ obj.us.target = obj.tag
    /\ cache.us = obj.us /\ cache.tag = obj.tag
PausedStep == WaitsUntouched => /\ obj'.us.phase = "Paused"
                                /\ st.ready # {} => sts' = sts
PauseHolds == [][PausedStep]_vars

\* Every server ends up on the tag the user settles on, verified, unfrozen, when
\* that tag can start: through lost pods, timeouts, crashes, retargets, and a
\* first target that cannot start.
Upgraded ==
    /\ obj.version = obj.tag /\ obj.ready
    /\ sts = [image |-> obj.tag, part |-> 0]
    /\ \A i \in Servers : pods[i] = [image |-> obj.tag, at |-> "serving"]
Startable == obj.tag \notin Unpullable \cup Crashing
UpgradeFinishes == <>[]Startable => <>[]Upgraded

=============================================================================
