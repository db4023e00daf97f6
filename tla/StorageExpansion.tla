-------------------------- MODULE StorageExpansion --------------------------
(***************************************************************************)
(* Raising spec.storage.size of a cluster.  Claim templates cannot change, *)
(* so the operator patches the claims, deletes the server StatefulSet      *)
(* leaving its pods running, and creates it again as it was: from its      *)
(* memory of it, or, after a restart, from the revision the pods run.      *)
(* While a stopped upgrade keeps servers below its partition on another    *)
(* revision than the template, it is created in two steps, so that each    *)
(* server keeps the revision it runs and comes back on it.                 *)
(*                                                                         *)
(* A revision is the template it records: the server image, and whether    *)
(* the plugins' entries are in it.  The upgrade is at rest throughout.     *)
(***************************************************************************)
EXTENDS ExpansionParameters

VARIABLES
    size,  \* spec.storage.size
    pvc,   \* per server: the size its data claim requests
    held,  \* status.upgradeStatus.currentPartition of a stopped upgrade
    sts,   \* the server StatefulSet
    st,    \* its status: its revisions, as its controller last wrote them
    pods,  \* per server: the revision its pod runs
    mem,   \* deletedServerStatefulSets: the StatefulSet an expansion deleted
    op,    \* where the running pass is, and the size it read
    ran,   \* the revision each server ran at first
    used   \* what the environment has done of its bounds

vars == <<size, pvc, held, sts, st, pods, mem, op, ran, used>>

Servers == 0 .. N - 1
Revisions == [image : {"before", "target"}, plugins : BOOLEAN]
NoRevision == [image |-> "none", plugins |-> FALSE]
Before == [image |-> "before", plugins |-> TRUE]
Target == [image |-> "target", plugins |-> TRUE]
NotHeld == -2
NotStaged == -1
NoRestore == [part |-> -1, rev |-> NoRevision]

Known == Revisions \cup {NoRevision}
Restores == [part : 0 .. N, rev : Revisions] \cup {NoRestore}
StatefulSets ==
    [at : {"live", "dying", "gone"}, tmpl : Revisions, part : 0 .. N,
     reps : 1 .. N, claim : Sizes, restore : Restores]
Statuses == [observed : BOOLEAN, current : Known, update : Known]
NoMemory == [known |-> FALSE]
NoSize == -1
Idle == [at |-> "idle", size |-> NoSize]
Memories == [known : {TRUE}, sts : StatefulSets, st : Statuses] \cup {NoMemory}

TypeOK ==
    /\ size \in Sizes /\ pvc \in [Servers -> Sizes]
    /\ held \in {NotHeld, NotStaged} \cup 0 .. N
    /\ sts \in StatefulSets /\ st \in Statuses
    /\ pods \in [Servers -> Known] /\ ran \in [Servers -> Revisions]
    /\ mem \in Memories
    /\ op \in [at : {"idle", "delete", "wait"}, size : Sizes \cup {NoSize}]
    /\ used \in [edits : 0 .. MaxEdits, restarts : 0 .. MaxRestarts,
                 lost : 0 .. MaxLost, unread : BOOLEAN]

Live(tmpl, part, n) ==
    [at |-> "live", tmpl |-> tmpl, part |-> part, reps |-> N, claim |-> n,
     restore |-> NoRestore]

\* No upgrade, one that was refused before it staged, or one that stopped with
\* the servers from p up on its target.
Init ==
    /\ size \in Sizes /\ pvc = [i \in Servers |-> size]
    /\ mem = NoMemory /\ op = Idle
    /\ used = [edits |-> 0, restarts |-> 0, lost |-> 0, unread |-> FALSE]
    /\ \/ /\ held \in {NotHeld, NotStaged}
          /\ sts = Live(Before, 0, size)
          /\ ran = [i \in Servers |-> Before]
       \/ \E p \in 0 .. N :
             /\ held \in {p} \cup (IF LaggingRecord /\ p < N THEN {p + 1} ELSE {})
             /\ sts = Live(Target, p, size)
             /\ ran = [i \in Servers |-> IF i < p THEN Before ELSE Target]
    /\ pods = ran
    /\ st = [observed |-> TRUE, update |-> sts.tmpl,
             current |-> IF sts.part = 0 THEN sts.tmpl ELSE Before]

-----------------------------------------------------------------------------
(* What the operator reads.                                                *)

Up == {i \in Servers : pods[i] # NoRevision}
Highest == CHOOSE i \in Up : \A j \in Up : j <= i
Lowest == CHOOSE i \in Up : \A j \in Up : i <= j

upgradeHeld == held # NotHeld
restorePending == sts.restore # NoRestore
InPlace == op = Idle /\ sts.at = "live" /\ ~restorePending /\ st.observed
SizesMatch == \A i \in Servers : pvc[i] = size

\* The image hold leaves spec.image.tag at this for the rest of the pass; with
\* neither StatefulSet nor pods the spec's own tag, the upgrade's target, is used.
serverImageInPlace ==
    CASE sts.at # "gone" /\ ~restorePending -> sts.tmpl.image
      [] (sts.at = "gone" \/ restorePending) /\ Up # {} -> pods[Highest].image
      [] OTHER -> IF upgradeHeld THEN "target" ELSE "before"

\* nil reads as 0: the API server's default.
partitionForNewServerStatefulSet(reps) ==
    CASE ~upgradeHeld \/ serverImageInPlace # "target" -> 0
      [] upgradeHeld /\ serverImageInPlace = "target" ->
            IF held = NotStaged THEN reps ELSE held

FirstKnown(a, b) == IF a # NoRevision THEN a ELSE b
LowestRevision == IF Up = {} THEN NoRevision ELSE pods[Lowest]
HighestRevision == IF Up = {} THEN NoRevision ELSE pods[Highest]

\* The StatefulSet as it was: remembered, read from the pods' revision, or, with
\* neither, rendered from the spec (which knows no plugins).
FromMemory ==
    [tmpl |-> mem.sts.tmpl, reps |-> mem.sts.reps, part |-> mem.sts.part,
     restore |-> mem.sts.restore,
     update |-> FirstKnown(mem.st.update, HighestRevision),
     current |-> FirstKnown(mem.st.current, LowestRevision)]
\* Mutant: the ordinal of the highest pod is taken for a count from one.
FromRevision_OffByOne ==
    [tmpl |-> HighestRevision, reps |-> Highest + 2,
     part |-> partitionForNewServerStatefulSet(Highest + 2),
     restore |-> NoRestore,
     update |-> HighestRevision, current |-> LowestRevision]
FromRevision ==
    [tmpl |-> HighestRevision, reps |-> Highest + 1,
     part |-> partitionForNewServerStatefulSet(Highest + 1),
     restore |-> NoRestore,
     update |-> HighestRevision, current |-> LowestRevision]
FromSpec ==
    [tmpl |-> [image |-> serverImageInPlace, plugins |-> FALSE], reps |-> N,
     part |-> partitionForNewServerStatefulSet(N), restore |-> NoRestore,
     update |-> NoRevision, current |-> NoRevision]
\* Mutant: the StatefulSet is always rendered from the spec.
Source_Rendered(read) == FromSpec
Source(read) ==
    CASE mem.known -> FromMemory
      [] ~mem.known /\ Up # {} /\ read -> FromRevision
      [] OTHER -> FromSpec

-----------------------------------------------------------------------------
(* A pass.                                                                 *)

Unobserved(s) == [s EXCEPT !.observed = FALSE]

\* The first of two steps: the template of the servers below the partition,
\* frozen, with what the second step writes back.
holdBelowPartition(s) ==
    [s EXCEPT !.tmpl = s.current, !.part = s.reps,
              !.restore = [part |-> s.part, rev |-> s.update]]
\* Mutant: the StatefulSet is created in one step whatever the partition.
TwoStep_Never(s) == FALSE
TwoStep(s) == s.part > 0 /\ s.current # NoRevision /\ s.current # s.update

\* Reading a ControllerRevision, for the template or for the first step, may
\* fail; the StatefulSet is created without what it would have said.
Create(n) ==
    /\ sts.at = "gone"
    /\ \E read, readBelow \in {TRUE, ~UnreadRevisions} :
         LET s == Source(read)
             c == IF TwoStep(s) /\ readBelow THEN holdBelowPartition(s) ELSE s IN
         /\ sts' = [at |-> "live", tmpl |-> c.tmpl, part |-> c.part,
                    reps |-> c.reps, claim |-> n, restore |-> c.restore]
         /\ mem' = IF c.restore = NoRestore THEN NoMemory ELSE mem
         /\ used' = [used EXCEPT !.unread = @ \/ ~read \/ ~readBelow]
    /\ st' = [observed |-> FALSE, current |-> NoRevision, update |-> NoRevision]

\* Mutant: the annotations of the first step stay on the restored StatefulSet.
restoreHeldTemplate_Annotated ==
    /\ sts.at # "gone" /\ restorePending
    /\ st.observed /\ st.current # NoRevision
    /\ sts' = [sts EXCEPT
                !.tmpl = IF mem.known THEN mem.sts.tmpl ELSE sts.restore.rev,
                !.part = sts.restore.part]
    /\ used' = used
    /\ mem' = NoMemory
    /\ st' = Unobserved(st)

\* The second step, once the controller has recorded the current revision.  The
\* annotations of the remembered StatefulSet come back with its template.
restoreHeldTemplate ==
    /\ sts.at # "gone" /\ restorePending
    /\ st.observed /\ st.current # NoRevision
    /\ \/ /\ sts' = [sts EXCEPT
                    !.tmpl = IF mem.known THEN mem.sts.tmpl ELSE sts.restore.rev,
                    !.part = sts.restore.part,
                    !.restore = IF mem.known THEN mem.sts.restore ELSE NoRestore]
          /\ used' = used
       \/ /\ UnreadRevisions /\ ~mem.known
          /\ sts' = [sts EXCEPT !.restore = NoRestore]
          /\ used' = [used EXCEPT !.unread = TRUE]
    /\ mem' = NoMemory
    /\ st' = Unobserved(st)

\* The template stays: its image is the one in place, and what other controllers
\* wrote into it is kept.
Update ==
    /\ sts.at # "gone" /\ ~restorePending
    /\ sts' = [sts EXCEPT !.reps = N, !.part = IF upgradeHeld THEN @ ELSE 0]
    /\ sts' # sts
    /\ st' = Unobserved(st)
    /\ UNCHANGED <<mem, used>>

Apply == Create(size) \/ restoreHeldTemplate \/ Update

\* comparePVCSizes finds nothing to expand.  (A claim above the size is refused.)
Pass ==
    /\ op = Idle /\ SizesMatch
    /\ Apply
    /\ UNCHANGED <<size, pvc, held, pods, op, ran>>

\* A patch of a claim may fail: the pass ends, and the next one goes on.
expandVolumes ==
    LET smaller == {i \in Servers : pvc[i] < size} IN
    /\ op = Idle /\ smaller # {}
    /\ \E S \in SUBSET smaller :
          /\ S # {}
          /\ pvc' = [i \in Servers |-> IF i \in S THEN size ELSE pvc[i]]
          /\ op' = IF S = smaller THEN [at |-> "delete", size |-> size] ELSE Idle
    /\ UNCHANGED <<size, held, sts, st, pods, mem, ran, used>>

\* Remembered, then deleted; the delete may fail.
orphanDeleteStatefulSet ==
    /\ op.at = "delete"
    /\ \/ /\ sts.at = "gone"
          /\ op' = [op EXCEPT !.at = "wait"]
          /\ UNCHANGED <<sts, mem>>
       \/ /\ sts.at # "gone"
          /\ mem' = [known |-> TRUE, sts |-> sts, st |-> st]
          /\ \/ sts' = [sts EXCEPT !.at = "dying"] /\ op' = [op EXCEPT !.at = "wait"]
             \/ sts' = sts /\ op' = Idle
    /\ UNCHANGED <<size, pvc, held, st, pods, ran, used>>

\* The pass that deleted it creates it again once it is gone,
CreateAgain ==
    /\ op.at = "wait" /\ mem.known
    /\ Create(op.size)
    /\ op' = Idle
    /\ UNCHANGED <<size, pvc, held, pods, ran>>

\* or leaves that to a later one when it has waited long enough.
waitStatefulSetGone ==
    /\ op.at = "wait" /\ op' = Idle
    /\ UNCHANGED <<size, pvc, held, sts, st, pods, mem, ran, used>>

Restart ==
    /\ used.restarts < MaxRestarts
    /\ used' = [used EXCEPT !.restarts = @ + 1]
    /\ mem' = NoMemory /\ op' = Idle
    /\ UNCHANGED <<size, pvc, held, sts, st, pods, ran>>

Operator ==
    \/ Pass \/ expandVolumes \/ orphanDeleteStatefulSet
    \/ CreateAgain \/ waitStatefulSetGone

-----------------------------------------------------------------------------
(* The StatefulSet controller, the garbage collector, and the user.        *)

RevisionFor(i) == IF i < sts.part THEN FirstKnown(st.current, sts.tmpl) ELSE sts.tmpl

ObserveSts ==
    /\ sts.at = "live"
    /\ st' = [observed |-> TRUE, update |-> sts.tmpl,
              current |-> IF \A i \in 0 .. sts.reps - 1 : pods[i] = sts.tmpl
                          THEN sts.tmpl ELSE FirstKnown(st.current, sts.tmpl)]
    /\ st' # st
    /\ UNCHANGED <<size, pvc, held, sts, pods, mem, op, ran, used>>

CreatePod(i) ==
    /\ sts.at = "live" /\ i < sts.reps /\ pods[i] = NoRevision
    /\ pods' = [pods EXCEPT ![i] = RevisionFor(i)]
    /\ UNCHANGED <<size, pvc, held, sts, st, mem, op, ran, used>>

\* From the highest ordinal down, one at a time.
UpdatePod(i) ==
    /\ sts.at = "live" /\ i >= sts.part /\ i < sts.reps
    /\ pods[i] \notin {sts.tmpl, NoRevision}
    /\ \A j \in 0 .. sts.reps - 1 : pods[j] # NoRevision
    /\ \A j \in i + 1 .. sts.reps - 1 : pods[j] = sts.tmpl
    /\ pods' = [pods EXCEPT ![i] = NoRevision]
    /\ UNCHANGED <<size, pvc, held, sts, st, mem, op, ran, used>>

CollectOrphans ==
    /\ sts.at = "dying"
    /\ sts' = [sts EXCEPT !.at = "gone", !.restore = NoRestore]
    /\ UNCHANGED <<size, pvc, held, st, pods, mem, op, ran, used>>

LosePod(i) ==
    /\ used.lost < MaxLost /\ pods[i] # NoRevision
    /\ LostMidway \/ (InPlace /\ SizesMatch)
    /\ used' = [used EXCEPT !.lost = @ + 1]
    /\ pods' = [pods EXCEPT ![i] = NoRevision]
    /\ UNCHANGED <<size, pvc, held, sts, st, mem, op, ran>>

EditSize(n) ==
    /\ used.edits < MaxEdits /\ n # size
    /\ EditsMidway \/ InPlace
    /\ LostMidway \/ Up = Servers
    /\ used' = [used EXCEPT !.edits = @ + 1]
    /\ size' = n
    /\ UNCHANGED <<pvc, held, sts, st, pods, mem, op, ran>>

Kubernetes ==
    \/ ObserveSts \/ CollectOrphans
    \/ \E i \in Servers : CreatePod(i) \/ UpdatePod(i)

Next ==
    \/ Operator \/ Restart \/ Kubernetes
    \/ \E i \in Servers : LosePod(i)
    \/ \E n \in Sizes : EditSize(n)

Spec == Init /\ [][Next]_vars

\* Requeues and watch events bring every pass back; Kubernetes acts.
Fairness ==
    /\ WF_vars(Pass) /\ WF_vars(expandVolumes) /\ WF_vars(Kubernetes)
    /\ WF_vars(orphanDeleteStatefulSet) /\ WF_vars(CreateAgain \/ waitStatefulSetGone)

FairSpec == Spec /\ Fairness

-----------------------------------------------------------------------------
(* Properties.                                                             *)

\* An expansion restarts no server: the only pods that go are lost to something
\* else (operations.md id 171), provided every revision could be read.
RestartStep ==
    \A i \in Servers : pods[i] # NoRevision /\ pods'[i] # pods[i]
       => used.unread \/ used'.lost > used.lost
NoRestart == [][RestartStep]_vars

\* Every server keeps the revision it runs and comes back on it when its pod is
\* lost, before, during and after the expansion, through a restart of the
\* operator (operations.md id 171).
KeepsRevision ==
    ~used.unread => \A i \in Servers : pods[i] \in {NoRevision, ran[i]}

\* Every claim ends up at the size asked for and the StatefulSet back in place,
\* keeping every server on its revision if it could be read, unless the size
\* asked for is smaller than a claim, which the operator refuses.
Expanded ==
    /\ InPlace /\ SizesMatch /\ sts.reps = N
    /\ \A i \in Servers : pods[i] = ran[i] /\ RevisionFor(i) = ran[i]
Refused == \E i \in Servers : pvc[i] > size
ExpansionSettled == Expanded \/ Refused \/ (used.unread /\ InPlace /\ SizesMatch)
ExpansionEnds == <>[]ExpansionSettled

=============================================================================
