------------------------ MODULE RollingUpgradeProofs ------------------------
(***************************************************************************)
(* What holds of the rolling upgrade for any number of servers, any tags   *)
(* and any bounds on the environment.                                      *)
(***************************************************************************)
EXTENDS RollingUpgrade, TLAPS

\* Zenon proves the steps, and SMT the ones with arithmetic or record updates, by name.
USE Zenon

-----------------------------------------------------------------------------
(* Types.                                                                  *)

\* The records the passes write are upgrade records.
LEMMA RecordTypes ==
  ASSUME TypeOK
  PROVE  /\ RecordStarted(cache.us) \in UpgradeRecords
         /\ RecordStarted(obj.us) \in UpgradeRecords
         /\ PassRecord \in UpgradeRecords
         /\ StoredRecord \in UpgradeRecords
         /\ NewUpgradeRecord(PassRecord) \in UpgradeRecords
         /\ StoppedPhase \in {"Paused", "Failed"}
<1>1. cache.us \in UpgradeRecords /\ obj.us \in UpgradeRecords
  BY DEF TypeOK, Clusters
<1>2. /\ RecordStarted(cache.us) \in UpgradeRecords
      /\ RecordStarted(obj.us) \in UpgradeRecords
  BY <1>1 DEF RecordStarted, UpgradeRecords
<1>3. NoUpgrade \in UpgradeRecords
  BY DEF NoUpgrade, UpgradeRecords, Phases
<1>4. PassRecord \in UpgradeRecords /\ StoredRecord \in UpgradeRecords
  BY <1>2, <1>3 DEF PassRecord, StoredRecord
<1>5. cache.tag \in Tags /\ cache.version \in Tags
  BY DEF TypeOK, Clusters
<1>6. NewUpgradeRecord(PassRecord) \in UpgradeRecords
  BY <1>4, <1>5 DEF NewUpgradeRecord, UpgradeRecords, Phases
<1>7. StoppedPhase \in {"Paused", "Failed"}
  BY DEF StoppedPhase
<1> QED
  BY <1>2, <1>4, <1>6, <1>7

\* A stop at a deadline writes an upgrade record.
LEMMA FailTypes ==
  ASSUME TypeOK, NEW u \in UpgradeRecords, NEW waits, FailUpgrade(u, waits)
  PROVE  /\ obj' \in Clusters
         /\ used' \in [edits : 0 .. MaxEdits, lost : 0 .. MaxLost,
                       timeouts : 0 .. MaxTimeouts]
         /\ UNCHANGED <<cache, sts, st, store, op>>
<1>1. [u EXCEPT !.phase = StoppedPhase] \in UpgradeRecords
  BY RecordTypes DEF UpgradeRecords, Phases
<1>2. obj' \in Clusters
  BY <1>1 DEF FailUpgrade, TypeOK, Clusters
<1>3. used' \in [edits : 0 .. MaxEdits, lost : 0 .. MaxLost,
                 timeouts : 0 .. MaxTimeouts]
  BY ConstantsAssumption, SMT DEF FailUpgrade, TypeOK
<1> QED
  BY <1>2, <1>3 DEF FailUpgrade

\* Deleting pods, and writing the StatefulSet, keep their types.
LEMMA WriteTypes ==
  ASSUME TypeOK
  PROVE  /\ \A S : Delete(S) \in [Servers -> [image : Tags, at : PodStates]]
         /\ \A image \in Tags, part \in 0 .. N : WriteSts(image, part) =>
               /\ sts' \in [image : Tags, part : 0 .. N]
               /\ st' \in [observed : BOOLEAN, current : Tags, update : Tags,
                           updated : SUBSET Servers, ready : SUBSET Servers]
<1>1. \A S : Delete(S) \in [Servers -> [image : Tags, at : PodStates]]
  BY SMT DEF Delete, TypeOK, PodStates
<1>2. ASSUME NEW image \in Tags, NEW part \in 0 .. N, WriteSts(image, part)
      PROVE  /\ sts' \in [image : Tags, part : 0 .. N]
             /\ st' \in [observed : BOOLEAN, current : Tags, update : Tags,
                         updated : SUBSET Servers, ready : SUBSET Servers]
  BY <1>2 DEF WriteSts, TypeOK
<1> QED
  BY <1>1, <1>2

\* The types hold initially.
LEMMA TypeInit == Init => TypeOK
  BY ConstantsAssumption, SMT DEF Init, TypeOK, Clusters, UpgradeRecords, NoUpgrade,
     Phases, PodStates, Idle, NoPartition

\* Every step keeps the types.
LEMMA TypeStep == TypeOK /\ [Next]_vars => TypeOK'
<1> SUFFICES ASSUME TypeOK, [Next]_vars PROVE TypeOK'
  OBVIOUS
<1> USE ConstantsAssumption
<1>0. CASE UNCHANGED vars
  BY <1>0 DEF TypeOK, vars
<1>1. CASE SyncCache
  BY <1>1 DEF SyncCache, TypeOK
<1>2. CASE RefuseSpec
  BY <1>2 DEF RefuseSpec, TypeOK, Clusters
<1>3. CASE StartUpgrade
  <2>1. obj'.us \in UpgradeRecords /\ obj' = [obj EXCEPT !.us = obj'.us]
    BY <1>3, RecordTypes, SMTT(20) DEF StartUpgrade, TypeOK, Clusters, UpgradeRecords, Phases
  <2>2. obj' \in Clusters
    BY <2>1 DEF TypeOK, Clusters
  <2> QED
    BY <1>3, <2>2 DEF StartUpgrade, TypeOK
<1>4. CASE Retarget
  <2>1. [RecordStarted(obj.us) EXCEPT !.phase = "Staging", !.target = cache.tag]
          \in UpgradeRecords
    BY RecordTypes DEF UpgradeRecords, Phases, TypeOK, Clusters
  <2>2. obj' \in Clusters
    BY <1>4, <2>1, RecordTypes DEF Retarget, TypeOK, Clusters
  <2> QED
    BY <1>4, <2>2 DEF Retarget, TypeOK
<1>5. CASE NormalPass
  <2>1. HeldImage \in Tags /\ KeptPartition(PassRecord) \in 0 .. N
    BY SMT DEF HeldImage, KeptPartition, TypeOK, Clusters
  <2>2. /\ sts' \in [image : Tags, part : 0 .. N]
        /\ st' \in [observed : BOOLEAN, current : Tags, update : Tags,
                    updated : SUBSET Servers, ready : SUBSET Servers]
    BY <1>5, <2>1, WriteTypes DEF NormalPass
  <2>3. pods' \in [Servers -> [image : Tags, at : PodStates]]
    BY <1>5, WriteTypes DEF NormalPass, TypeOK
  <2>4. \A s : ClusterVersionToRecord(PassRecord, HeldImage, s) \in Tags
    BY <2>1 DEF ClusterVersionToRecord, TypeOK, Clusters
  <2>5. PICK ready \in BOOLEAN, version \in Tags :
           obj' = [obj EXCEPT !.us = StoredRecord, !.ready = ready,
                              !.version = version]
    BY <1>5, <2>4 DEF NormalPass, TypeOK, Clusters
  <2>6. obj' \in Clusters
    BY <2>5, RecordTypes DEF TypeOK, Clusters
  <2> QED
    BY <1>5, <2>2, <2>3, <2>6 DEF NormalPass, TypeOK
<1>6. CASE StagingTimeout
  BY <1>6, FailTypes, SMT DEF StagingTimeout, TypeOK, Clusters
<1>7. CASE StagingDecide
  <2>1. StagedAt(cache.tag) \subseteq 0 .. N
    BY SMT DEF StagedAt, StagingPartition, TypeOK
  <2>2. /\ op' \in [at : {"idle", "stage", "staged", "lower", "lowered"},
                    part : 0 .. N, image : Tags \cup {NoTag}]
        /\ op'.image \in Tags
    BY <1>7, <2>1, SMT DEF StagingDecide, TypeOK, Clusters
  <2> QED
    BY <1>7, <2>2 DEF StagingDecide, TypeOK
<1>8. CASE StagingWrite
  <2>1. op.image \in Tags /\ op.part \in 0 .. N
    BY <1>8 DEF StagingWrite, TypeOK
  <2>2. /\ sts' \in [image : Tags, part : 0 .. N]
        /\ st' \in [observed : BOOLEAN, current : Tags, update : Tags,
                    updated : SUBSET Servers, ready : SUBSET Servers]
    BY <1>8, <2>1, WriteTypes DEF StagingWrite
  <2> QED
    BY <1>8, <2>2 DEF StagingWrite, TypeOK
<1>9. CASE StagingRecord
  <2>1. obj' \in Clusters
    BY <1>9 DEF StagingRecord, TypeOK, Clusters, UpgradeRecords, Phases
  <2> QED
    BY <1>9, <2>1, SMT DEF StagingRecord, TypeOK, Idle
<1>10. CASE RollingWait
  <2>1. pods' \in [Servers -> [image : Tags, at : PodStates]]
    BY <1>10, WriteTypes DEF RollingWait, ReplaceStuck, TypeOK
  <2>2. obj' \in Clusters
    BY <1>10, RecordTypes DEF RollingWait, TypeOK, Clusters
  <2> QED
    BY <1>10, <2>1, <2>2 DEF RollingWait, TypeOK
<1>11. CASE RollingTimeout
  <2>1. pods' \in [Servers -> [image : Tags, at : PodStates]]
    BY <1>11, WriteTypes DEF RollingTimeout, ReplaceStuck, TypeOK
  <2> QED
    BY <1>11, <2>1, RecordTypes, FailTypes, ZenonT(40) DEF RollingTimeout, TypeOK
<1>12. CASE RollingDone
  <2>1. [RecordStarted(obj.us) EXCEPT !.phase = "Stabilizing"] \in UpgradeRecords
    BY RecordTypes DEF UpgradeRecords, Phases
  <2>2. obj' \in Clusters
    BY <1>12, <2>1 DEF RollingDone, TypeOK, Clusters
  <2> QED
    BY <1>12, <2>2 DEF RollingDone, TypeOK
<1>13. CASE RollingLower
  <2>1. obj' \in Clusters
    BY <1>13, RecordTypes DEF RollingLower, TypeOK, Clusters
  <2>2. cache.us.part - 1 \in 0 .. N
    BY <1>13, SMT DEF RollingLower, TypeOK, Clusters, UpgradeRecords, NoPartition
  <2> QED
    BY <1>13, <2>1, <2>2 DEF RollingLower, TypeOK
<1>14. CASE RollingWrite
  <2>1. /\ sts' \in [image : Tags, part : 0 .. N]
        /\ st' \in [observed : BOOLEAN, current : Tags, update : Tags,
                    updated : SUBSET Servers, ready : SUBSET Servers]
    BY <1>14, WriteTypes DEF RollingWrite, TypeOK
  <2> QED
    BY <1>14, <2>1 DEF RollingWrite, TypeOK
<1>15. CASE RollingRecord
  <2>1. obj' \in Clusters
    BY <1>15, SMTT(20) DEF RollingRecord, TypeOK, Clusters, UpgradeRecords
  <2> QED
    BY <1>15, <2>1, SMT DEF RollingRecord, TypeOK, Idle
<1>16. CASE Crash
  BY <1>16, SMT DEF Crash, TypeOK, Idle
<1>17. CASE Stabilize
  <2>1. CASE HealthChecks => AllServing
    <3>1. obj' = [obj EXCEPT !.us.phase = "Verifying"]
      BY <1>17, <2>1 DEF Stabilize
    <3>2. obj' \in Clusters
      BY <3>1 DEF TypeOK, Clusters, UpgradeRecords, Phases
    <3> QED
      BY <1>17, <2>1, <3>2 DEF Stabilize, TypeOK
  <2>2. CASE ~(HealthChecks => AllServing)
    BY <1>17, <2>2, FailTypes, ZenonT(40) DEF Stabilize, TypeOK, Clusters
  <2> QED
    BY <2>1, <2>2
<1>18. CASE Verify
  <2>1. CASE \A i \in Servers : IsReady(i) /\ pods[i].image = cache.tag
    <3>1. PICK ready \in {obj.ready, TRUE} :
             obj' = [obj EXCEPT !.us.phase = "Completed",
                                !.version = cache.tag, !.ready = ready]
      BY <1>18, <2>1 DEF Verify
    <3>2. obj' \in Clusters
      BY <3>1 DEF TypeOK, Clusters, UpgradeRecords, Phases
    <3> QED
      BY <1>18, <2>1, <3>2 DEF Verify, TypeOK
  <2>2. CASE ~(\A i \in Servers : IsReady(i) /\ pods[i].image = cache.tag)
    BY <1>18, <2>2, FailTypes, ZenonT(40) DEF Verify, TypeOK, Clusters
  <2> QED
    BY <2>1, <2>2
<1>19. CASE Environment
  <2>1. CASE ObserveSts
    BY <1>19, <2>1 DEF ObserveSts, ObservedStatus, TypeOK
  <2>2. ASSUME NEW i \in Servers, CreatePod(i) PROVE TypeOK'
    BY <2>2 DEF CreatePod, TypeOK, PodStates
  <2>3. ASSUME NEW i \in Servers, UpdatePod(i) PROVE TypeOK'
    BY <2>3, WriteTypes DEF UpdatePod, TypeOK
  <2>4. ASSUME NEW i \in Servers, PodStep(i) PROVE TypeOK'
    BY <2>4, SMT DEF PodStep, OpenStore, TypeOK
  <2>5. ASSUME NEW i \in Servers, PullRecovers(i) PROVE TypeOK'
    BY <2>5, SMT DEF PullRecovers, OpenStore, TypeOK, PodStates
  <2>6. ASSUME NEW i \in Servers, LosePod(i) PROVE TypeOK'
    BY <2>6, WriteTypes, SMT DEF LosePod, TypeOK
  <2>7. ASSUME NEW t \in Tags, EditTag(t) PROVE TypeOK'
    BY <2>7, SMT DEF EditTag, TypeOK, Clusters
  <2> QED
    BY <1>19, <2>1, <2>2, <2>3, <2>4, <2>5, <2>6, <2>7 DEF Environment
<1> QED
  BY <1>0, <1>1, <1>2, <1>3, <1>4, <1>5, <1>6, <1>7, <1>8, <1>9, <1>10, <1>11,
     <1>12, <1>13, <1>14, <1>15, <1>16, <1>17, <1>18, <1>19 DEF Next, Operator

\* Every variable keeps its type: in particular the partition the machine writes
\* stays between 0 and the replica count, whatever stops or changes it.
THEOREM TypeCorrect == Spec => []TypeOK
  BY TypeInit, TypeStep, PTL DEF Spec

-----------------------------------------------------------------------------
(* The partition walk.                                                     *)

\* While a pass is between its writes, and while the machine is Rolling.
WalkInv ==
    /\ op.at \in {"stage", "staged"} => obj.us.phase = "Staging" /\ Active(cache.us)
    /\ op.at = "staged" => sts.part = op.part
    /\ op.at \in {"lower", "lowered"} => /\ obj.us.phase = "Rolling"
                                         /\ obj.us.part = op.part + 1
    /\ op.at = "lowered" => sts.part = op.part
    /\ obj.us.phase = "Rolling" => Active(cache.us)
    /\ PartitionBehind

\* The phase and the partition of a record do not depend on what its servers
\* started on.
LEMMA RecordStartedKeeps ==
  ASSUME TypeOK
  PROVE  /\ RecordStarted(obj.us).phase = obj.us.phase
         /\ RecordStarted(obj.us).part = obj.us.part
         /\ RecordStarted(obj.us).target = obj.us.target
         /\ RecordStarted(cache.us).phase = cache.us.phase
         /\ RecordStarted(cache.us).target = cache.us.target
  BY DEF RecordStarted, TypeOK, Clusters, UpgradeRecords

\* Every step keeps the walk's invariant.
LEMMA WalkStep == TypeOK /\ WalkInv /\ [Next]_vars => WalkInv'
<1> SUFFICES ASSUME TypeOK, WalkInv, [Next]_vars PROVE WalkInv'
  OBVIOUS
<1> USE ConstantsAssumption DEF WalkInv, PartitionBehind
<1>0. CASE UNCHANGED vars
  BY <1>0 DEF vars, Active
<1>1. CASE SyncCache
  BY <1>1 DEF SyncCache, Active
<1>2. CASE RefuseSpec
  BY <1>2 DEF RefuseSpec, Active, TypeOK, Clusters
<1>3. CASE StartUpgrade
  \* The cached copy is not active, so the stored record is not Rolling.
  <2>1. op = Idle /\ ~Active(cache.us) /\ obj.us.phase # "Rolling"
    BY <1>3 DEF StartUpgrade, PassBegins
  <2>2. StoredRecord.phase # "Rolling"
    BY <2>1, RecordStartedKeeps DEF StoredRecord, NoUpgrade
  <2>3. NewUpgradeRecord(PassRecord).phase = "Staging"
    BY DEF NewUpgradeRecord
  <2>4. [NewUpgradeRecord(PassRecord) EXCEPT !.phase = StoppedPhase].phase
          # "Rolling"
    BY RecordTypes DEF NewUpgradeRecord
  <2>5. obj'.us.phase # "Rolling"
    BY <1>3, <2>2, <2>3, <2>4 DEF StartUpgrade, TypeOK, Clusters
  <2> QED
    BY <1>3, <2>1, <2>5 DEF StartUpgrade, Idle
<1>4. CASE Retarget
  <2>1. op = Idle /\ UNCHANGED <<cache, sts, op>>
    BY <1>4 DEF Retarget, PassBegins
  <2>2. \/ obj'.us.phase = "Staging"
        \/ obj'.us.phase = obj.us.phase /\ obj'.us.part = obj.us.part
    <3>1. CASE TagAllowed(cache.tag, cache.version, RecordStarted(cache.us))
      BY <1>4, <3>1, RecordTypes DEF Retarget, TypeOK, Clusters, UpgradeRecords
    <3>2. CASE ~TagAllowed(cache.tag, cache.version, RecordStarted(cache.us))
      BY <1>4, <3>2, RecordStartedKeeps DEF Retarget, TypeOK, Clusters
    <3> QED
      BY <3>1, <3>2
  <2> QED
    BY <2>1, <2>2 DEF Idle, Active
<1>5. CASE NormalPass
  <2>1. op = Idle /\ ~Active(cache.us) /\ obj.us.phase # "Rolling"
    BY <1>5 DEF NormalPass, PassBegins
  <2>2. StoredRecord.phase # "Rolling"
    BY <2>1, RecordStartedKeeps DEF StoredRecord, NoUpgrade
  <2>3. obj'.us = StoredRecord /\ UNCHANGED <<cache, op>>
    BY <1>5 DEF NormalPass, TypeOK, Clusters
  <2> QED
    BY <2>1, <2>2, <2>3 DEF Idle
<1>6. CASE StagingTimeout
  <2>1. op = Idle /\ UNCHANGED <<cache, sts, op>>
    BY <1>6 DEF StagingTimeout, FailUpgrade, StepBegins, PassBegins
  <2>2. obj'.us.phase # "Rolling"
    BY <1>6, RecordTypes DEF StagingTimeout, FailUpgrade, TypeOK, Clusters,
       UpgradeRecords
  <2> QED
    BY <2>1, <2>2 DEF Idle
<1>7. CASE StagingDecide
  BY <1>7, SMT DEF StagingDecide, StepBegins, Active
<1>8. CASE StagingWrite
  BY <1>8 DEF StagingWrite, WriteSts, Active, TypeOK
<1>9. CASE StagingRecord
  BY <1>9 DEF StagingRecord, Active, TypeOK, Clusters, UpgradeRecords, Idle
<1>10. CASE RollingWait
  <2>1. /\ obj'.us.phase = obj.us.phase /\ obj'.us.part = obj.us.part
        /\ UNCHANGED <<cache, sts, op>>
    BY <1>10, RecordStartedKeeps DEF RollingWait, TypeOK, Clusters
  <2> QED
    BY <2>1 DEF Active
<1>11. CASE RollingTimeout
  <2>1. op = Idle /\ UNCHANGED <<cache, sts, op>>
    BY <1>11 DEF RollingTimeout, RollingBegins, FailUpgrade, StepBegins, PassBegins
  <2>2. obj'.us.phase # "Rolling"
    BY <1>11, RecordTypes DEF RollingTimeout, FailUpgrade, TypeOK, Clusters,
       UpgradeRecords
  <2> QED
    BY <2>1, <2>2 DEF Idle
<1>12. CASE RollingDone
  <2>1. op = Idle /\ UNCHANGED <<cache, sts, op>>
    BY <1>12 DEF RollingDone, RollingBegins, StepBegins, PassBegins
  <2>2. obj'.us.phase = "Stabilizing"
    BY <1>12, RecordTypes DEF RollingDone, TypeOK, Clusters, UpgradeRecords
  <2> QED
    BY <2>1, <2>2 DEF Idle
<1>13. CASE RollingLower
  <2>1. /\ obj.us.phase = "Rolling" /\ obj.us.part = cache.us.part
        /\ UNCHANGED <<cache, sts>>
    BY <1>13 DEF RollingLower, RollingBegins, RecordCurrent, StepBegins
  <2>2. obj'.us.phase = obj.us.phase /\ obj'.us.part = obj.us.part
    BY <1>13, RecordStartedKeeps DEF RollingLower, TypeOK, Clusters
  <2>3. op'.at = "lower" /\ op'.part = cache.us.part - 1
    BY <1>13 DEF RollingLower
  <2>4. op'.part + 1 = obj'.us.part
    BY <1>13, <2>1, <2>2, <2>3, SMT
       DEF RollingLower, TypeOK, Clusters, UpgradeRecords, NoPartition
  <2> QED
    BY <2>1, <2>2, <2>3, <2>4 DEF Active
<1>14. CASE RollingWrite
  <2>1. /\ op.at = "lower" /\ op' = [op EXCEPT !.at = "lowered"]
        /\ sts'.part = op.part /\ UNCHANGED <<obj, cache>>
    BY <1>14 DEF RollingWrite, WriteSts
  <2>2. op'.at = "lowered" /\ op'.part = op.part
    BY <2>1 DEF TypeOK
  <2>3. sts'.part = obj'.us.part - 1
    BY <2>1, SMT DEF TypeOK, Clusters, UpgradeRecords, NoPartition
  <2> QED
    BY <2>1, <2>2, <2>3 DEF Active
<1>15. CASE RollingRecord
  BY <1>15 DEF RollingRecord, Active, TypeOK, Clusters, UpgradeRecords, Idle
<1>16. CASE Crash
  BY <1>16 DEF Crash, Active, Idle
<1>17. CASE Stabilize
  <2>1. op = Idle /\ UNCHANGED <<cache, sts, op>>
    BY <1>17 DEF Stabilize, FailUpgrade, StepBegins, PassBegins
  <2>2. obj'.us.phase # "Rolling"
    BY <1>17, RecordTypes, SMT DEF Stabilize, FailUpgrade, TypeOK, Clusters,
       UpgradeRecords
  <2> QED
    BY <2>1, <2>2 DEF Idle
<1>18. CASE Verify
  <2>1. op = Idle /\ UNCHANGED <<cache, sts, op>>
    BY <1>18 DEF Verify, FailUpgrade, StepBegins, PassBegins
  <2>2. CASE \E ready \in {obj.ready, TRUE} :
               obj' = [obj EXCEPT !.us.phase = "Completed",
                                  !.version = cache.tag, !.ready = ready]
    BY <2>1, <2>2, SMT DEF TypeOK, Clusters, UpgradeRecords, Idle
  <2>3. CASE obj' = [obj EXCEPT !.us = [obj.us EXCEPT !.phase = StoppedPhase]]
    BY <2>1, <2>3, RecordTypes DEF TypeOK, Clusters, UpgradeRecords, Idle
  <2> QED
    BY <1>18, <2>2, <2>3 DEF Verify, FailUpgrade
<1>19. CASE Environment
  <2>1. UNCHANGED <<cache, sts, op>> /\ obj'.us = obj.us
    BY <1>19 DEF Environment, ObserveSts, CreatePod, UpdatePod, PodStep,
       PullRecovers, LosePod, EditTag, TypeOK, Clusters
  <2> QED
    BY <2>1 DEF Active
<1> QED
  BY <1>0, <1>1, <1>2, <1>3, <1>4, <1>5, <1>6, <1>7, <1>8, <1>9, <1>10, <1>11,
     <1>12, <1>13, <1>14, <1>15, <1>16, <1>17, <1>18, <1>19 DEF Next, Operator

\* While the machine walks, the persisted partition is the StatefulSet's or one
\* step behind, for any number of servers: neither a crash between the two writes,
\* nor a stale copy, nor a normal pass, nor an edit of the tag breaks it.
THEOREM PartitionBehindCorrect == Spec => []PartitionBehind
<1>1. Init => WalkInv
  BY SMT DEF Init, WalkInv, PartitionBehind, NoUpgrade, Idle
<1>2. WalkInv => PartitionBehind
  BY DEF WalkInv
<1> QED
  BY <1>1, <1>2, WalkStep, TypeCorrect, PTL DEF Spec

-----------------------------------------------------------------------------
(* The recorded version.                                                   *)

\* What makes status.version a version every server has run: a started container
\* has opened its store, a revision becomes the StatefulSet's current one only
\* once every server runs it, and a status that has seen the spec names the
\* template's revision.
VersionInv ==
    /\ \A i \in Servers : HasStarted(i) => pods[i].image <= store[i]
    /\ \A i \in Servers : st.current <= store[i]
    /\ st.observed => st.update = sts.image
    /\ VersionRan

\* A write of the StatefulSet's spec leaves the status behind only as far as its
\* current revision goes.
LEMMA WriteKeepsStatus ==
  ASSUME TypeOK, NEW image, NEW part, WriteSts(image, part)
  PROVE  /\ st'.current = st.current /\ st'.update = st.update
         /\ st'.observed => st.observed /\ sts' = sts
  BY DEF WriteSts, TypeOK

\* Deleting pods starts no container.
LEMMA DeleteStartsNone ==
  ASSUME TypeOK, NEW S, pods' = Delete(S) \/ pods' = pods
  PROVE  \A i \in Servers : HasStarted(i)' => HasStarted(i) /\ pods'[i] = pods[i]
  BY SMT DEF HasStarted, Delete, TypeOK

\* A step that leaves the stores and the version alone, starts no container and
\* at most writes the StatefulSet keeps the invariant.
LEMMA VersionFrame ==
  ASSUME TypeOK, VersionInv, UNCHANGED <<store, obj.version>>,
         \A i \in Servers : HasStarted(i)' => HasStarted(i) /\ pods'[i] = pods[i],
         UNCHANGED <<sts, st>> \/ \E image, part : WriteSts(image, part)
  PROVE  VersionInv'
<1>1. CASE UNCHANGED <<sts, st>>
  BY <1>1 DEF VersionInv, VersionRan, Servers
<1>2. ASSUME NEW image, NEW part, WriteSts(image, part)
      PROVE  VersionInv'
  BY <1>2, WriteKeepsStatus DEF VersionInv, VersionRan, Servers
<1> QED
  BY <1>1, <1>2

\* Every step keeps the version's invariant.
LEMMA VersionStep == TypeOK /\ TypeOK' /\ VersionInv /\ [Next]_vars => VersionInv'
<1> SUFFICES ASSUME TypeOK, TypeOK', VersionInv, [Next]_vars PROVE VersionInv'
  OBVIOUS
<1> USE ConstantsAssumption
<1>a. ASSUME UNCHANGED <<store, pods, obj.version, sts, st>> PROVE VersionInv'
  BY <1>a DEF VersionInv, VersionRan, HasStarted
<1>b. obj \in Clusters /\ obj.version \in Nat
  BY DEF TypeOK, Clusters
<1>c. \A i \in Servers : store[i] \in Nat /\ pods[i].image \in Nat
  BY DEF TypeOK
<1>0. CASE UNCHANGED vars
  BY <1>0, <1>a DEF vars
<1>1. CASE SyncCache \/ Crash \/ RefuseSpec \/ StartUpgrade \/ Retarget
  BY <1>1, <1>a, <1>b DEF SyncCache, Crash, RefuseSpec, StartUpgrade, Retarget,
     Clusters
<1>2. CASE StagingTimeout \/ StagingDecide \/ StagingRecord
  BY <1>2, <1>a, <1>b DEF StagingTimeout, FailUpgrade, StagingDecide,
     StagingRecord, Clusters
<1>3. CASE RollingDone \/ RollingLower \/ RollingRecord \/ Stabilize
  BY <1>3, <1>a, <1>b DEF RollingDone, RollingLower, RollingRecord, Stabilize,
     FailUpgrade, Clusters
<1>4. CASE StagingWrite \/ RollingWrite
  BY <1>4, VersionFrame DEF StagingWrite, RollingWrite, HasStarted
<1>5. CASE RollingWait \/ RollingTimeout
  <2>1. pods' = Delete(Stuck) \/ pods' = pods
    BY <1>5 DEF RollingWait, RollingTimeout, ReplaceStuck
  <2>2. UNCHANGED <<store, obj.version, sts, st>>
    BY <1>5, <1>b DEF RollingWait, RollingTimeout, FailUpgrade, Clusters
  <2> QED
    BY <2>1, <2>2, DeleteStartsNone, VersionFrame
<1>6. CASE Verify
  <2>1. UNCHANGED <<store, pods, sts, st>>
    BY <1>6 DEF Verify, FailUpgrade
  <2>2. CASE obj'.version = obj.version
    BY <2>1, <2>2, <1>a
  <2>3. CASE obj'.version # obj.version
    \* Every server is ready on the tag, so it has opened its store with it.
    <3>1. /\ \A i \in Servers : IsReady(i) /\ pods[i].image = cache.tag
          /\ obj'.version = cache.tag
      BY <1>6, <2>3, <1>b DEF Verify, FailUpgrade, Clusters
    <3>2. \A i \in Servers : store[i] >= cache.tag
      BY <3>1, <1>c DEF VersionInv, IsReady, HasStarted
    <3> QED
      BY <2>1, <3>1, <3>2 DEF VersionInv, VersionRan, HasStarted
  <2> QED
    BY <2>2, <2>3
<1>7. CASE NormalPass
  <2>1. /\ WriteSts(HeldImage, KeptPartition(PassRecord))
        /\ pods' = Delete(Stuck) \/ pods' = pods
        /\ store' = store
    BY <1>7 DEF NormalPass
  <2>2. CASE obj'.version = obj.version
    BY <2>1, <2>2, DeleteStartsNone, VersionFrame
  <2>3. CASE obj'.version # obj.version
    \* Only a rolled-out template is recorded, and that is the current revision.
    <3>1. RolledOut(st') /\ obj'.version = HeldImage
      BY <1>7, <2>3, <1>b DEF NormalPass, ClusterVersionToRecord, Clusters
    <3>2. st.observed /\ st.current = st.update /\ sts' = sts
      BY <2>1, <3>1, WriteKeepsStatus DEF RolledOut
    <3>3. HeldImage = st.current
      BY <2>1, <3>2, SMT DEF WriteSts, VersionInv, TypeOK
    <3>4. \A i \in Servers : store'[i] >= obj'.version
      BY <2>1, <3>1, <3>3, <1>c DEF VersionInv, TypeOK
    <3>5. \A i \in Servers : HasStarted(i)' => HasStarted(i) /\ pods'[i] = pods[i]
      BY <2>1, DeleteStartsNone
    <3>6. st'.current = st.current /\ (st'.observed => st'.update = sts'.image)
      BY <2>1, <3>2, WriteKeepsStatus DEF VersionInv
    <3> QED
      BY <2>1, <3>4, <3>5, <3>6 DEF VersionInv, VersionRan, Servers
  <2> QED
    BY <2>2, <2>3
<1>8. CASE ObserveSts
  <2>1. st' = ObservedStatus /\ UNCHANGED <<obj, sts, pods, store>>
    BY <1>8 DEF ObserveSts
  <2>2. st'.update = sts'.image
    BY <2>1 DEF ObservedStatus
  <2>3. \A i \in Servers : st'.current <= store[i]
    <3>1. CASE st'.current = st.current
      BY <3>1 DEF VersionInv
    <3>2. CASE st'.current # st.current
      <4>1. /\ st'.current = sts.image
            /\ \A i \in Servers : pods[i].image = sts.image /\ IsReady(i)
        BY <2>1, <3>2 DEF ObservedStatus
      <4> QED
        BY <4>1 DEF VersionInv, IsReady, HasStarted
    <3> QED
      BY <3>1, <3>2
  <2> QED
    BY <2>1, <2>2, <2>3 DEF VersionInv, VersionRan, HasStarted
<1>9. ASSUME NEW i \in Servers, CreatePod(i) \/ UpdatePod(i) \/ LosePod(i)
      PROVE  VersionInv'
  <2>1. UNCHANGED <<obj, sts, st, store>>
    BY <1>9 DEF CreatePod, UpdatePod, LosePod
  <2>2. CASE CreatePod(i)
    <3>1. \A j \in Servers : HasStarted(j)' => HasStarted(j) /\ pods'[j] = pods[j]
      BY <2>2 DEF CreatePod, HasStarted, TypeOK
    <3> QED
      BY <2>1, <3>1, VersionFrame
  <2>3. CASE UpdatePod(i) \/ LosePod(i)
    BY <2>1, <2>3, DeleteStartsNone, VersionFrame DEF UpdatePod, LosePod
  <2> QED
    BY <1>9, <2>2, <2>3
<1>10. ASSUME NEW i \in Servers, PodStep(i) \/ PullRecovers(i)
       PROVE  VersionInv'
  <2>1. PICK at \in PodStates :
          /\ pods' = [pods EXCEPT ![i].at = at]
          /\ OpenStore(i, at)
          /\ at = "started" \/ ~(at \in {"started", "crashed", "ready", "serving"})
               \/ HasStarted(i)
    BY <1>10 DEF PodStep, PullRecovers, HasStarted, PodStates
  <2>2. UNCHANGED <<obj, sts, st>>
    BY <1>10 DEF PodStep, PullRecovers
  <2>3. \A j \in Servers : /\ pods'[j].image = pods[j].image
                           /\ j # i => pods'[j] = pods[j] /\ store'[j] = store[j]
                           /\ store'[j] >= store[j]
    BY <2>1, <1>c, SMT DEF OpenStore, TypeOK
  <2>4. \A j \in Servers : store'[j] \in Nat /\ st.current \in Nat
    BY ZenonT(40) DEF TypeOK
  <2>5. HasStarted(i)' => pods'[i].image <= store'[i]
    <3>1. CASE at = "started"
      BY <2>1, <3>1, <1>c, SMT DEF OpenStore, TypeOK
    <3>2. CASE HasStarted(i)
      <4>1. pods[i].image <= store[i]
        BY <3>2 DEF VersionInv
      <4> QED
        BY <4>1, <2>3, <2>4, <1>c, SMT
    <3>3. CASE ~(at \in {"started", "crashed", "ready", "serving"})
      BY <2>1, <3>3, SMT DEF HasStarted, TypeOK
    <3> QED
      BY <2>1, <3>1, <3>2, <3>3
  <2>6. \A j \in Servers : st'.current <= store'[j] /\ store'[j] >= obj'.version
    BY <2>2, <2>3, <2>4, <1>b, <1>c, SMT DEF VersionInv, VersionRan
  <2>7. \A j \in Servers : HasStarted(j)' => pods'[j].image <= store'[j]
    BY <2>3, <2>5 DEF VersionInv, HasStarted
  <2> QED
    BY <2>2, <2>6, <2>7 DEF VersionInv, VersionRan
<1>11. ASSUME NEW t \in Tags, EditTag(t) PROVE VersionInv'
  BY <1>11, <1>a, <1>b DEF EditTag, Clusters
<1> QED
  BY <1>0, <1>1, <1>2, <1>3, <1>4, <1>5, <1>6, <1>7, <1>8, <1>9, <1>10, <1>11
     DEF Next, Operator, Environment

\* status.version, the floor of the version rule, is a version every server has
\* run, for any number of servers and any tags: a pass that finds the cluster
\* Ready halfway through a roll never records the template's.
THEOREM VersionRanCorrect == Spec => []VersionRan
<1>1. Init => VersionInv
  BY ConstantsAssumption, SMT DEF Init, VersionInv, VersionRan, HasStarted, Servers
<1>2. VersionInv => VersionRan
  BY DEF VersionInv
<1> QED
  BY <1>1, <1>2, VersionStep, TypeCorrect, PTL DEF Spec

-----------------------------------------------------------------------------
(* What a pause holds.                                                     *)

\* Only autoPauseOnFailure leaves an upgrade Paused.
StopInv == obj.us.phase = "Paused" => AutoPause

\* No step leaves an upgrade Paused without autoPauseOnFailure.
LEMMA StopStep == TypeOK /\ StopInv /\ [Next]_vars => StopInv'
<1> SUFFICES ASSUME TypeOK, StopInv, [Next]_vars, obj'.us.phase = "Paused",
                    obj.us.phase # "Paused"
             PROVE  AutoPause
  BY ConstantsAssumption, SMTT(20) DEF StopInv
<1> USE RecordStartedKeeps
<1>1. obj \in Clusters /\ obj.us \in UpgradeRecords
  BY DEF TypeOK, Clusters
<1>2. StoredRecord.phase # "Paused" /\ NewUpgradeRecord(PassRecord).phase = "Staging"
  BY DEF StoredRecord, NoUpgrade, NewUpgradeRecord
<1>3. CASE StartUpgrade
  <2>1. StoppedPhase = "Paused"
    BY <1>1, <1>2, <1>3, RecordTypes DEF StartUpgrade, Clusters, UpgradeRecords
  <2> QED
    BY <2>1 DEF StoppedPhase
<1>4. ASSUME NEW u \in UpgradeRecords, NEW w, FailUpgrade(u, w) PROVE AutoPause
  BY <1>1, <1>4 DEF FailUpgrade, StoppedPhase, Clusters, UpgradeRecords
<1>5. CASE NormalPass
  BY <1>1, <1>2, <1>5 DEF NormalPass, Clusters
<1>6. CASE Retarget
  <2>1. \/ obj'.us = [RecordStarted(obj.us) EXCEPT !.phase = "Staging",
                                                   !.target = cache.tag]
        \/ obj'.us = RecordStarted(obj.us)
    BY <1>1, <1>6 DEF Retarget, Clusters
  <2> QED
    BY <2>1, RecordTypes DEF UpgradeRecords
<1>7. CASE StagingTimeout \/ RollingTimeout
  BY <1>1, <1>4, <1>7, RecordTypes DEF StagingTimeout, RollingTimeout
<1>8. CASE Stabilize \/ Verify
  <2>1. \/ FailUpgrade(obj.us, TRUE)
        \/ obj' = [obj EXCEPT !.us.phase = "Verifying"]
        \/ \E ready : obj' = [obj EXCEPT !.us.phase = "Completed",
                                         !.version = cache.tag, !.ready = ready]
    BY <1>8 DEF Stabilize, Verify
  <2> QED
    BY <1>1, <1>4, <2>1, ZenonT(40) DEF Clusters, UpgradeRecords
<1>9. CASE RollingDone
  <2>1. obj'.us = [RecordStarted(obj.us) EXCEPT !.phase = "Stabilizing"]
    BY <1>1, <1>9 DEF RollingDone, Clusters
  <2> QED
    BY <2>1, RecordTypes DEF UpgradeRecords
<1>10. CASE RollingWait \/ RollingLower \/ RollingRecord \/ StagingRecord
  <2>1. CASE RollingWait \/ RollingLower
    BY <1>1, <2>1 DEF RollingWait, RollingLower, Clusters
  <2>2. CASE RollingRecord
    BY <1>1, <2>2 DEF RollingRecord, Clusters, UpgradeRecords
  <2>3. CASE StagingRecord
    BY <1>1, <2>3 DEF StagingRecord, Clusters, UpgradeRecords
  <2> QED
    BY <1>10, <2>1, <2>2, <2>3
<1>11. CASE SyncCache \/ Crash \/ RefuseSpec \/ StagingDecide \/ StagingWrite
              \/ RollingWrite \/ UNCHANGED vars
  BY <1>1, <1>11 DEF SyncCache, Crash, RefuseSpec, StagingDecide, StagingWrite,
     RollingWrite, vars, Clusters
<1>12. CASE Environment
  BY <1>1, <1>12 DEF Environment, ObserveSts, CreatePod, UpdatePod, PodStep,
     PullRecovers, LosePod, EditTag, Clusters
<1> QED
  BY <1>3, <1>5, <1>6, <1>7, <1>8, <1>9, <1>10, <1>11, <1>12 DEF Next, Operator

\* No step takes up an upgrade that waits for the user, or rolls its servers.
LEMMA PauseStep ==
  ASSUME TypeOK, WalkInv, StopInv, [Next]_vars, WaitsUntouched
  PROVE  obj'.us.phase = "Paused" /\ (st.ready # {} => sts' = sts)
<1> USE RecordStartedKeeps
<1>1. /\ AutoPause /\ cache.us = obj.us /\ cache.us.phase = "Paused"
      /\ cache.us.target = cache.tag /\ obj \in Clusters
  BY DEF WaitsUntouched, StopInv, TypeOK
<1>2. op.at \notin {"stage", "staged", "lower", "lowered"} /\ ~Active(cache.us)
  BY <1>1 DEF WalkInv, Active
<1>3. PassRecord = RecordStarted(cache.us) /\ StoredRecord = RecordStarted(obj.us)
  BY <1>1 DEF PassRecord, StoredRecord, Abandoned
<1>4. WaitsForUser(PassRecord) /\ Held(PassRecord)
  BY <1>1, <1>3 DEF WaitsForUser, Held
<1>5. ~UpgradeRequired(PassRecord)
  BY <1>4, SMTT(20) DEF UpgradeRequired, Repair
<1>6. CASE NormalPass
  <2>1. obj'.us = RecordStarted(obj.us)
    BY <1>1, <1>3, <1>6 DEF NormalPass, Clusters
  <2>2. sts' = [image |-> HeldImage, part |-> sts.part]
    BY <1>4, <1>6 DEF NormalPass, WriteSts, KeptPartition
  <2> QED
    BY <1>1, <2>1, <2>2 DEF HeldImage, TypeOK
<1>7. ~(StartUpgrade \/ Retarget \/ \E phase : Active([phase |-> phase])
                                                 /\ StepBegins(phase))
  BY <1>1, <1>2, <1>5 DEF StartUpgrade, Retarget, StepBegins, Active
<1>8. ~(StagingTimeout \/ StagingDecide \/ RollingWait \/ RollingTimeout
          \/ RollingDone \/ RollingLower \/ Stabilize \/ Verify)
  BY <1>7 DEF StagingTimeout, StagingDecide, RollingWait, RollingTimeout,
     RollingDone, RollingLower, RollingBegins, Stabilize, Verify, Active
<1>9. ~(StagingWrite \/ StagingRecord \/ RollingWrite \/ RollingRecord)
  BY <1>2 DEF StagingWrite, StagingRecord, RollingWrite, RollingRecord
<1>10. CASE RefuseSpec \/ SyncCache \/ Crash \/ UNCHANGED vars
  BY <1>1, <1>10 DEF RefuseSpec, SyncCache, Crash, vars, Clusters
<1>11. CASE Environment
  BY <1>1, <1>11, ZenonT(40) DEF Environment, ObserveSts, CreatePod, UpdatePod, PodStep,
     PullRecovers, LosePod, EditTag, Clusters
<1> QED
  BY <1>6, <1>7, <1>8, <1>9, <1>10, <1>11 DEF Next, Operator

\* A Paused upgrade the user leaves alone stays Paused, and no pass, restart, lost
\* pod or recovered image changes its StatefulSet while a server is ready.
THEOREM PauseHoldsCorrect == Spec => PauseHolds
<1>1. Init => WalkInv /\ StopInv
  BY SMT DEF Init, WalkInv, PartitionBehind, StopInv, NoUpgrade, Idle
<1>2. TypeOK /\ WalkInv /\ StopInv /\ [Next]_vars
        => [PausedStep]_vars
  BY PauseStep DEF PausedStep
<1> QED
  BY <1>1, <1>2, WalkStep, StopStep, TypeCorrect, PTL DEF Spec, PauseHolds

=============================================================================
