----------------------------- MODULE ScaleDown -----------------------------
(***************************************************************************)
(* Changing spec.topology.servers of a running cluster.  A lowered count   *)
(* drains the servers it removes (cordon, settle, deallocate, drop) before *)
(* the StatefulSet's replicas follow; a count set back gives back what the *)
(* drain cordoned; a raised count waits for the pods and volumes of the    *)
(* servers an earlier scale-down removed.                                  *)
(*                                                                         *)
(* A pass copies the cached cluster (PassBegins), takes one drain step on  *)
(* that copy (Drain), and applies the StatefulSet from it (ApplySts); a    *)
(* crash can come before each.  Annotation writes land on the stored       *)
(* cluster, with values computed from the pass's copy.  A server identity  *)
(* is an ordinal and the generation of its data volume.                    *)
(***************************************************************************)
EXTENDS ScaleParameters

VARIABLES
    obj,      \* the stored cluster: the server count and the drain's annotations
    cache,    \* the operator's cached copy of it
    replicas, \* the StatefulSet's spec.replicas
    seen,     \* the operator's cached copy of that
    pods,     \* per ordinal: its pod
    vol,      \* per ordinal: its data volume
    srv,      \* per identity: its state in SHOW SERVERS
    hosts,    \* the servers that host user databases
    hand,     \* the servers an administrator cordoned, no drain having them on record
    known,    \* the servers whose address the operator remembers
    since,    \* per identity: which cordon of the drain cordoned it
    clock,    \* the cordons made, and those whose settle is over
    op,       \* the running pass: where it is, and its copy of the cluster
    used      \* what the environment has done of its bounds

kube == <<replicas, pods, vol>>
neo4j == <<srv, hosts, hand, since>>
vars == <<obj, cache, seen, known, clock, op, used, kube, neo4j>>

Ordinals == 0 .. MaxServers - 1
Ids == Ordinals \X (1 .. MaxGens)
Ord(id) == id[1]
NoVolume == 0
NoTime == 0

Clusters ==
    [spec : 1 .. MaxServers, drain : SUBSET Ids, held : SUBSET Ordinals,
     cord : SUBSET Ids, at : 0 .. MaxCordons]

States == {"None", "Enabled", "Cordoned", "Deallocating", "Dropped", "Gone"}

TypeOK ==
    /\ obj \in Clusters /\ cache \in Clusters
    /\ replicas \in 1 .. MaxServers /\ seen \in 1 .. MaxServers
    /\ pods \in [Ordinals -> {"none", "starting", "up", "terminating"}]
    /\ vol \in [Ordinals -> [gen : 0 .. MaxGens, reclaimed : BOOLEAN]]
    /\ srv \in [Ids -> States]
    /\ hosts \subseteq Ids /\ hand \subseteq Ids /\ known \subseteq Ids
    /\ since \in [Ids -> 0 .. MaxCordons]
    /\ clock \in [cordons : 0 .. MaxCordons, settled : 0 .. MaxCordons]
    /\ op \in [at : {"idle", "drain", "apply"}, copy : Clusters]
    /\ used \in [edits : 0 .. MaxEdits, lost : 0 .. MaxLost, hand : 0 .. MaxHand]

First(o) == <<o, 1>>
Settled(n) == [spec |-> n, drain |-> {}, held |-> {}, cord |-> {}, at |-> NoTime]
Idle == [at |-> "idle", copy |-> Settled(MaxServers)]

Init ==
    /\ obj = Settled(MaxServers) /\ cache = obj
    /\ replicas = MaxServers /\ seen = MaxServers
    /\ pods = [o \in Ordinals |-> "up"]
    /\ vol = [o \in Ordinals |-> [gen |-> 1, reclaimed |-> FALSE]]
    /\ srv = [id \in Ids |-> IF id[2] = 1 THEN "Enabled" ELSE "None"]
    /\ hosts = {First(o) : o \in Ordinals}
    /\ hand = {}
    /\ known = {First(o) : o \in Ordinals}
    /\ since = [id \in Ids |-> 0]
    /\ clock = [cordons |-> 0, settled |-> 0]
    /\ op = Idle
    /\ used = [edits |-> 0, lost |-> 0, hand |-> 0]

-----------------------------------------------------------------------------
(* SHOW SERVERS, with the addresses the operator remembers.                *)

Listed == {id \in Ids : srv[id] \notin {"None", "Gone"}}
Live == {id \in Listed : srv[id] # "Dropped"}

\* A server names its pod while that runs, and until it deallocates.
Reports(id) ==
    /\ srv[id] \in {"Enabled", "Cordoned"}
    /\ pods[Ord(id)] = "up" /\ vol[Ord(id)].gen = id[2]

\* withKnownAddresses: the rows whose ordinal the operator can tell.
Named == known \cup {id \in Ids : Reports(id)}

\* runsInOrdinal: no other row reports the pod's address.
RunsInOrdinal(id) == ~\E j \in Ids : j # id /\ Ord(j) = Ord(id) /\ Reports(j)

-----------------------------------------------------------------------------
(* What a drain step reads and decides, on the pass's copy.                *)

copy == op.copy
ScalingDown == seen > copy.spec
InProgress(c) == c.drain # {} \/ c.held # {}

\* unidentifiedRemovedServerIDs: a row with no known ordinal is removed when
\* another row is named for every ordinal the spec keeps; undecided otherwise.
Unknown == Live \ Named
Undecided ==
    /\ Unknown # {}
    /\ \E o \in 0 .. copy.spec - 1 : ~\E id \in Live \cap Named : Ord(id) = o

\* keptByTheSpec, of the drain set.
Kept(id) == id \in Named /\ Ord(id) < copy.spec /\ RunsInOrdinal(id)

\* Mutant: a set-back in part gives nothing back.
Keep_None == {}

Keep == {id \in copy.drain \cap Live : Kept(id)}

\* Mutant: a server that is down and reports no address is left out.
Targets_Reporting ==
    {id \in Live : Reports(id) /\ Ord(id) >= copy.spec}
        \cup ((copy.drain \cap Live) \ Keep)

\* The drain set: what the spec removes now, and what an earlier pass began
\* with and the spec does not keep.
Targets ==
    {id \in Live \cap Named : Ord(id) >= copy.spec}
        \cup (IF Undecided THEN {} ELSE Unknown)
        \cup ((copy.drain \cap Live) \ Keep)

\* serversPastUndoing: what the drain took and Neo4j cannot give back, in a
\* pod that is kept.
PastUndoing(below, allKept) ==
    {id \in copy.drain \cup copy.cord :
        /\ srv[id] \in {"Deallocating", "Dropped"}
        /\ IF id \in Named THEN Ord(id) < below /\ RunsInOrdinal(id)
                           ELSE allKept}

\* planScaleDownStep
ToCordon == {id \in Targets : srv[id] = "Enabled"}
ToDeallocate == {id \in Targets : srv[id] = "Cordoned"}
ToDrop == {id \in Targets : srv[id] = "Deallocating" /\ id \notin hosts}

\* cordonSettle: what the copy's record says the drain cordoned, not yet
\* ScaleDownSettle ago.
Settling ==
    /\ ToDeallocate \cap copy.cord # {}
    /\ copy.at # NoTime /\ copy.at > clock.settled

\* The annotation writes, on the stored cluster or the copy (c).  Each is left
\* out when the copy (m) has the values already.
HeldPods == copy.spec .. seen - 1
HoldPods(m, c) ==
    IF m.held = HeldPods /\ m.drain = {} THEN c
    ELSE [c EXCEPT !.held = HeldPods, !.drain = {}]
FirstHold(c) == IF InProgress(copy) THEN c ELSE HoldPods(copy, c)
SetDrainServers(m, c) ==
    IF m.drain = Targets /\ m.held = {} THEN c
    ELSE [c EXCEPT !.drain = Targets, !.held = {}]
ClearCordoned(m, c) ==
    IF m.cord = {} /\ m.at = NoTime THEN c
    ELSE [c EXCEPT !.cord = {}, !.at = NoTime]
ClearDrain(m, c) ==
    IF ~InProgress(m) THEN c ELSE [c EXCEPT !.drain = {}, !.held = {}]

\* clearDrainRecords, in two writes: both done, the second failed, the first.
ClearRecords(m, c) ==
    {[stored |-> ClearDrain(m, ClearCordoned(m, c)),
      copied |-> ClearDrain(m, ClearCordoned(m, m))],
     [stored |-> ClearCordoned(m, c),
      copied |-> ClearDrain(m, ClearCordoned(m, m))],
     [stored |-> c, copied |-> ClearCordoned(m, m)]}

-----------------------------------------------------------------------------
(* The operator's pass.                                                    *)

SyncCache ==
    /\ cache # obj /\ cache' = obj
    /\ UNCHANGED <<obj, seen, known, clock, op, used, kube, neo4j>>

SyncSts ==
    /\ seen # replicas /\ seen' = replicas
    /\ UNCHANGED <<obj, cache, known, clock, op, used, kube, neo4j>>

\* removedServerLeftovers: a pod, or a volume handed to a removed pod.
Leftover(o) == pods[o] # "none" \/ vol[o].reclaimed

\* Mutant: the replicas are read from the cache.
HeldCount_Cached ==
    LET left == {o \in seen .. cache.spec - 1 : Leftover(o)}
    IN  IF left = {} THEN cache.spec
        ELSE CHOOSE o \in left : \A n \in left : o <= n

\* holdRaiseForRemovedServers: the server count this pass works on.
HeldCount ==
    LET left == {o \in replicas .. cache.spec - 1 : Leftover(o)}
    IN  IF left = {} THEN cache.spec
        ELSE CHOOSE o \in left : \A n \in left : o <= n

PassBegins ==
    /\ op.at = "idle"
    /\ StaleCopies \/ cache = obj
    /\ StaleSts \/ seen = replicas
    /\ op' = [at |-> "drain", copy |-> [cache EXCEPT !.spec = HeldCount]]
    /\ UNCHANGED <<obj, cache, seen, known, clock, used, kube, neo4j>>

\* The drain step ends: what it stored, and its copy of it.
DrainEnds(stored, copied) ==
    /\ obj' = stored
    /\ op' = [at |-> "apply", copy |-> copied]
    /\ UNCHANGED <<cache, seen, used, kube>>

\* setBackScaleDown with no server on record: Neo4j is not asked.
DrainNothing ==
    /\ op.at = "drain" /\ ~ScalingDown
    /\ copy.drain = {} /\ copy.cord = {}
    /\ DrainEnds(ClearDrain(copy, obj), ClearDrain(copy, copy))
    /\ UNCHANGED <<known, clock, neo4j>>

AsksNeo4j == ScalingDown \/ copy.drain # {} \/ copy.cord # {}

\* Neo4j cannot be reached, or the hold was not stored: the copy holds.
DrainUnreached ==
    /\ op.at = "drain" /\ Refusals /\ AsksNeo4j
    /\ IF ScalingDown
       THEN \E stored \in {obj, FirstHold(obj)} : DrainEnds(stored, FirstHold(copy))
       ELSE DrainEnds(obj, copy)
    /\ UNCHANGED <<known, clock, neo4j>>

AsksServers == op.at = "drain" /\ AsksNeo4j /\ known' = Named

\* A set-back, whole or in part, that comes too late for some servers.
RefuseSetBack ==
    /\ AsksServers
    /\ IF ScalingDown
       THEN /\ PastUndoing(copy.spec, FALSE) # {}
            /\ DrainEnds(FirstHold(obj), FirstHold(copy))
       ELSE /\ PastUndoing(seen, TRUE) # {}
            /\ DrainEnds(obj, copy)
    /\ UNCHANGED <<clock, neo4j>>

Enable(S) ==
    /\ srv' = [id \in Ids |-> IF id \in S THEN "Enabled" ELSE srv[id]]
    /\ hand' = hand \ S
    /\ UNCHANGED <<hosts, since>>

\* Mutant: a set-back releases the hold and enables nothing.
GivesBack_None(ids) == {}

\* giveBackCordoned: of ids, what the copy's record lists and is still Cordoned.
GivesBack(ids) == {id \in ids \cap copy.cord : srv[id] = "Cordoned"}

\* setBackScaleDown: the servers it cordoned are enabled again; ENABLE SERVER
\* may fail on the way, and the records then stay.
SetBack ==
    /\ AsksServers /\ ~ScalingDown /\ PastUndoing(seen, TRUE) = {}
    /\ \E S \in SUBSET GivesBack(copy.cord) :
          /\ Enable(S)
          /\ IF S = GivesBack(copy.cord)
             THEN \E r \in ClearRecords(copy, obj) : DrainEnds(r.stored, r.copied)
             ELSE DrainEnds(obj, copy)
    /\ UNCHANGED clock

Draining == AsksServers /\ ScalingDown /\ PastUndoing(copy.spec, FALSE) = {}

\* A set-back in part: the servers the spec keeps are given back, and the step
\* goes on.  A failed ENABLE SERVER, or write of the record, ends it.
GiveBackKept ==
    LET rest == copy.cord \ Keep
        Given(c) == [c EXCEPT !.cord = rest,
                              !.at = IF rest = {} THEN NoTime ELSE c.at]
    IN  /\ Draining /\ Keep \cap copy.cord # {}
        /\ \E S \in SUBSET GivesBack(Keep) :
              /\ Enable(S)
              /\ \/ /\ S = GivesBack(Keep)
                    /\ obj' = Given(obj)
                    /\ op' = [op EXCEPT !.copy = Given(copy)]
                    /\ UNCHANGED <<cache, seen, used, kube>>
                 \/ DrainEnds(obj, IF S = GivesBack(Keep) THEN Given(copy) ELSE copy)
        /\ UNCHANGED clock

DrainDecides == Draining /\ Keep \cap copy.cord = {}

\* Nothing left to drain: the hold is released.
DrainComplete ==
    /\ DrainDecides /\ Targets = {} /\ ~Undecided
    /\ \E r \in ClearRecords(FirstHold(copy), FirstHold(obj)) :
          DrainEnds(r.stored, r.copied)
    /\ UNCHANGED <<clock, neo4j>>

DrainUndecided ==
    /\ DrainDecides /\ Targets = {} /\ Undecided
    /\ LET m == FirstHold(copy)
       IN  DrainEnds(HoldPods(m, FirstHold(obj)), HoldPods(m, m))
    /\ UNCHANGED <<clock, neo4j>>

\* setDrainServers, then one step of the plan.
Stored == SetDrainServers(FirstHold(copy), FirstHold(obj))
Copied == SetDrainServers(FirstHold(copy), FirstHold(copy))
HasTargets == DrainDecides /\ Targets # {}

\* The floor of system primaries, a dry run Neo4j refuses, or a drain set that
\* could not be stored.
DrainBlocked ==
    /\ HasTargets
    /\ \/ (copy.spec < MinPrimaries \/ Refusals) /\ DrainEnds(Stored, Copied)
       \/ Refusals /\ DrainEnds(FirstHold(obj), Copied)
    /\ UNCHANGED <<clock, neo4j>>

DrainAllowed == HasTargets /\ copy.spec >= MinPrimaries

\* The time of a cordon: the number of cordons so far, up to MaxCordons.
Now == IF clock.cordons < MaxCordons THEN clock.cordons + 1 ELSE MaxCordons

\* Mutant: the record holds this cordon's servers only.
RecordCordon_Latest(c) == [c EXCEPT !.cord = ToCordon, !.at = Now]

\* Mutant: the time stays that of the first cordon.
RecordCordon_FirstTime(c) ==
    [c EXCEPT !.cord = copy.cord \cup ToCordon,
              !.at = IF copy.at = NoTime THEN Now ELSE copy.at]

\* Mutant: the whole drain set is recorded, servers cordoned by hand too.
RecordCordon_Targets(c) == [c EXCEPT !.cord = copy.cord \cup Targets, !.at = Now]

\* The record of the servers the drain cordons, and when.
RecordCordon(c) == [c EXCEPT !.cord = copy.cord \cup ToCordon, !.at = Now]

\* Recorded first, then cordoned one by one, as far as that goes.
DrainCordon ==
    /\ DrainAllowed /\ ToCordon # {}
    /\ clock' = [clock EXCEPT !.cordons = Now]
    /\ \E S \in SUBSET ToCordon :
          /\ srv' = [id \in Ids |-> IF id \in S THEN "Cordoned" ELSE srv[id]]
          /\ since' = [id \in Ids |-> IF id \in S THEN Now ELSE since[id]]
    /\ DrainEnds(RecordCordon(Stored), RecordCordon(Copied))
    /\ UNCHANGED <<hosts, hand>>

DrainSettles ==
    /\ DrainAllowed /\ ToCordon = {} /\ ToDeallocate # {} /\ Settling
    /\ DrainEnds(Stored, Copied)
    /\ UNCHANGED <<clock, neo4j>>

DrainDeallocate ==
    /\ DrainAllowed /\ ToCordon = {} /\ ToDeallocate # {} /\ ~Settling
    /\ srv' = [id \in Ids |-> IF id \in ToDeallocate THEN "Deallocating"
                              ELSE srv[id]]
    /\ DrainEnds(Stored, Copied)
    /\ UNCHANGED <<clock, hosts, hand, since>>

\* DROP SERVER one by one, as far as that goes.
DrainDrop ==
    /\ DrainAllowed /\ ToCordon = {} /\ ToDeallocate = {} /\ ToDrop # {}
    /\ \E S \in SUBSET ToDrop :
          /\ S # {}
          /\ srv' = [id \in Ids |-> IF id \in S THEN "Dropped" ELSE srv[id]]
    /\ DrainEnds(Stored, Copied)
    /\ UNCHANGED <<clock, hosts, hand, since>>

DrainWaits ==
    /\ DrainAllowed /\ ToCordon = {} /\ ToDeallocate = {} /\ ToDrop = {}
    /\ DrainEnds(Stored, Copied)
    /\ UNCHANGED <<clock, neo4j>>

Drain ==
    \/ DrainNothing \/ DrainUnreached \/ RefuseSetBack \/ SetBack \/ GiveBackKept
    \/ DrainComplete \/ DrainUndecided \/ DrainBlocked \/ DrainCordon
    \/ DrainSettles \/ DrainDeallocate \/ DrainDrop \/ DrainWaits

\* createOrUpdateResource: an update from an old read is a conflict, and the
\* replicas are left alone while the copy holds.
ApplySts ==
    /\ op.at = "apply" /\ seen = replicas
    /\ replicas' = IF InProgress(copy) THEN replicas ELSE copy.spec
    /\ op' = Idle
    /\ UNCHANGED <<obj, cache, seen, known, clock, used, pods, vol, neo4j>>

\* The pass ends early: an error, or the operator restarts.
Crash ==
    /\ op.at # "idle"
    /\ op' = Idle
    /\ UNCHANGED <<obj, cache, seen, known, clock, used, kube, neo4j>>

\* A restart with no diagnostics recorded loses the address book.
ForgetAddresses ==
    /\ AddressLoss /\ op.at = "idle" /\ known # {}
    /\ known' = {}
    /\ UNCHANGED <<obj, cache, seen, clock, op, used, kube, neo4j>>

SettleEnds ==
    /\ clock.settled < clock.cordons
    /\ clock' = [clock EXCEPT !.settled = @ + 1]
    /\ UNCHANGED <<obj, cache, seen, known, op, used, kube, neo4j>>

-----------------------------------------------------------------------------
(* The StatefulSet controller, Neo4j, the administrator and the user.      *)

Identity(o) == <<o, vol[o].gen>>
Joined(o) == vol[o].gen # NoVolume /\ srv[Identity(o)] # "None"

\* A pod is created on the volume its ordinal has, or on a new one.
CreatePod(o) ==
    /\ o < replicas /\ pods[o] = "none"
    /\ \E g \in 1 .. MaxGens :
          /\ IF vol[o].gen # NoVolume THEN g = vol[o].gen
             ELSE srv[<<o, g>>] = "None" /\ \A h \in 1 .. g - 1 : srv[<<o, h>>] # "None"
          /\ vol' = [vol EXCEPT ![o] = [gen |-> g, reclaimed |-> FALSE]]
    /\ pods' = [pods EXCEPT ![o] = "starting"]
    /\ UNCHANGED <<obj, cache, seen, known, clock, op, used, replicas, neo4j>>

\* Its server starts.  A new identity joins, enabled, and may be given databases.
StartPod(o) ==
    /\ pods[o] = "starting"
    /\ pods' = [pods EXCEPT ![o] = "up"]
    /\ IF srv[Identity(o)] = "None"
       THEN /\ srv' = [srv EXCEPT ![Identity(o)] = "Enabled"]
            /\ hosts' = hosts \cup {Identity(o)}
       ELSE UNCHANGED <<srv, hosts>>
    /\ UNCHANGED <<obj, cache, seen, known, clock, op, used, replicas, vol, hand, since>>

\* Replicas lowered: the volume is handed to the pod, and the pod deleted.
CondemnPod(o) ==
    /\ o >= replicas /\ pods[o] \in {"starting", "up"}
    /\ pods' = [pods EXCEPT ![o] = "terminating"]
    /\ vol' = [vol EXCEPT ![o].reclaimed = TRUE]
    /\ UNCHANGED <<obj, cache, seen, known, clock, op, used, replicas, neo4j>>

\* A dropped server leaves SHOW SERVERS once it stops.
PodGone(o) ==
    /\ pods[o] = "terminating"
    /\ pods' = [pods EXCEPT ![o] = "none"]
    /\ srv' = IF srv[Identity(o)] = "Dropped"
              THEN [srv EXCEPT ![Identity(o)] = "Gone"] ELSE srv
    /\ UNCHANGED <<obj, cache, seen, known, clock, op, used, replicas, vol,
                   hosts, hand, since>>

VolumeGone(o) ==
    /\ pods[o] = "none" /\ vol[o].reclaimed
    /\ vol' = [vol EXCEPT ![o] = [gen |-> NoVolume, reclaimed |-> FALSE]]
    /\ UNCHANGED <<obj, cache, seen, known, clock, op, used, replicas, pods, neo4j>>

\* A pod is lost and created again on its volume.
LosePod(o) ==
    /\ pods[o] = "up" /\ o < replicas /\ used.lost < MaxLost
    /\ used' = [used EXCEPT !.lost = @ + 1]
    /\ pods' = [pods EXCEPT ![o] = "starting"]
    /\ UNCHANGED <<obj, cache, seen, known, clock, op, replicas, vol, neo4j>>

\* A deallocating server's databases have moved to the others.
Relocated(id) ==
    /\ srv[id] = "Deallocating" /\ id \in hosts
    /\ hosts' = hosts \ {id}
    /\ UNCHANGED <<obj, cache, seen, known, clock, op, used, kube, srv, hand, since>>

\* An administrator cordons a server at any moment.  One the drain has on record
\* and has not cordoned (yet, or at all) is from then on taken for the drain's.
CordonByHand(id) ==
    /\ srv[id] = "Enabled" /\ used.hand < MaxHand
    /\ used' = [used EXCEPT !.hand = @ + 1]
    /\ srv' = [srv EXCEPT ![id] = "Cordoned"]
    /\ hand' = IF id \in obj.cord THEN hand ELSE hand \cup {id}
    /\ UNCHANGED <<obj, cache, seen, known, clock, op, kube, hosts, since>>

EditServers(n) ==
    /\ n # obj.spec /\ used.edits < MaxEdits
    /\ EditsWhileJoining \/ \A o \in 0 .. obj.spec - 1 : Joined(o)
    /\ used' = [used EXCEPT !.edits = @ + 1]
    /\ obj' = [obj EXCEPT !.spec = n]
    /\ UNCHANGED <<cache, seen, known, clock, op, kube, neo4j>>

Kubernetes ==
    \E o \in Ordinals : \/ CreatePod(o) \/ StartPod(o) \/ CondemnPod(o)
                         \/ PodGone(o) \/ VolumeGone(o)

Environment ==
    \/ SettleEnds \/ ForgetAddresses
    \/ Kubernetes \/ \E o \in Ordinals : LosePod(o)
    \/ \E id \in Ids : Relocated(id) \/ CordonByHand(id)
    \/ \E n \in Sizes : EditServers(n)

Next == SyncCache \/ SyncSts \/ PassBegins \/ Drain \/ ApplySts \/ Crash \/ Environment

Spec == Init /\ [][Next]_vars

\* A drain step in which Neo4j and the API server do all they are asked.
Served ==
    \/ DrainNothing \/ RefuseSetBack \/ DrainUndecided \/ DrainSettles \/ DrainWaits
    \/ SetBack /\ obj' = Settled(obj.spec)
    \/ GiveBackKept /\ op'.at = "drain"
    \/ DrainComplete /\ obj' = Settled(obj.spec)
    \/ DrainCordon /\ \A id \in ToCordon : srv'[id] = "Cordoned"
    \/ DrainDeallocate
    \/ DrainDrop /\ \A id \in ToDrop : srv'[id] = "Dropped"
    \/ DrainBlocked /\ copy.spec < MinPrimaries

\* Requeues and wakes bring every pass back, and what fails is asked again and
\* again and in the end served; Kubernetes acts, and time passes.
Fairness ==
    /\ WF_vars(SyncCache \/ SyncSts \/ SettleEnds) /\ WF_vars(PassBegins)
    /\ SF_vars(Served) /\ SF_vars(ApplySts /\ InProgress(copy)) /\ SF_vars(ApplySts /\ ~InProgress(copy))
    /\ WF_vars(Kubernetes \/ \E id \in Ids : Relocated(id))

FairSpec == Spec /\ Fairness

-----------------------------------------------------------------------------
(* Properties.                                                             *)

\* The replicas never fall below a server that was not drained: a server that
\* hosts a user database keeps its pod, and one still a member is never left
\* without (operations.md ids 123, 213).
DrainedBeforeRemoved ==
    /\ \A id \in Live : Ord(id) < replicas
    /\ \A id \in hosts : id \in Live

\* A raised count never starts a pod on the volume of a server Neo4j dropped,
\* which could not rejoin (operations.md id 229).
RevivalStep ==
    \A o \in Ordinals :
       pods[o] = "none" /\ pods'[o] # "none" /\ vol[o].gen # NoVolume
         => srv[Identity(o)] \notin {"Dropped", "Gone"}
NoRevival == [][RevivalStep]_vars

\* Every server the drain cordoned and has not given back is in the stored
\* record, so a set-back finds it: through crashes between the record and the
\* CORDON, further scale-downs and set-backs in part (operations.md id 224).
CordonRecorded ==
    \A id \in Ids : srv[id] = "Cordoned" /\ id \notin hand => id \in obj.cord

\* Only a server the pass's spec removes is deallocated, whatever an earlier
\* pass put into the drain set (operations.md id 213).
KeptStep ==
    \A id \in Ids : srv[id] # srv'[id] /\ srv'[id] = "Deallocating" => Ord(id) >= copy.spec
KeptNotDeallocated == [][KeptStep]_vars

\* A server the drain cordoned is deallocated only once its settle is over, so
\* that a set-back until then can enable it again (operations.md id 231).
SettleStep ==
    \A id \in Ids \ hand : srv[id] # srv'[id] /\ srv'[id] = "Deallocating"
       => since[id] <= clock.settled
SettleRespected == [][SettleStep]_vars

\* A server an administrator cordoned while no drain had it on record is never
\* enabled by the operator, through drains that begin and are set back later:
\* each step of a drain adds to the record what it finds Enabled and nothing else
\* (id 224).  Between the record and the CORDON the code cannot tell whose it is.
HandStep == \A id \in hand : srv'[id] # srv[id] => srv'[id] # "Enabled"
HandCordonKept == [][HandStep]_vars

\* The servers end up being those the user settles on, all enabled but the ones
\* cordoned by hand, nothing on record: unless the count is below the floor, or
\* a set-back came too late, which the operator refuses.
Converged ==
    /\ replicas = obj.spec
    /\ obj = Settled(obj.spec)
    /\ \A o \in Ordinals :
          IF o < obj.spec
          THEN Joined(o) /\ (srv[Identity(o)] = "Enabled" \/ Identity(o) \in hand)
          ELSE pods[o] = "none" /\ vol[o].gen = NoVolume
TooLate ==
    \E id \in Ids : /\ srv[id] \in {"Deallocating", "Dropped"}
                    /\ Ord(id) < obj.spec /\ pods[Ord(id)] # "none"
CountSettled == Converged \/ TooLate \/ obj.spec < MinPrimaries
CountConverges == <>[]CountSettled

=============================================================================
