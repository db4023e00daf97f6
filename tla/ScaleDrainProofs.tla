--------------------------- MODULE ScaleDrainProofs -------------------------
(***************************************************************************)
(* What a drain promises: every cordon is on record, and no server loses   *)
(* its pod before it is drained.                                           *)
(***************************************************************************)
EXTENDS ScaleDownProofs

\* Zenon proves the steps, and SMT the ones with arithmetic or record updates, by name.
USE Zenon

-----------------------------------------------------------------------------
(* Cordons: the record a set-back works from, when a pass starts from the   *)
(* stored cluster.                                                          *)

\* During a drain step the copy is the stored cluster, but for the server count.
Agree ==
  op.at = "drain" => /\ copy.drain = obj.drain /\ copy.held = obj.held
                     /\ copy.cord = obj.cord /\ copy.at = obj.at

\* A server the drain cordoned is on the record.  What is on the record and still serves
\* is in the drain set, whether the CORDON came, failed, or was made by somebody else.
\* A server cordoned by hand before that is not on it.
Pending(id) == srv[id] = "Cordoned" /\ id \notin hand
Claimed(id) == id \in obj.cord /\ srv[id] \in {"Enabled", "Cordoned"}
OnRecord(id) ==
  /\ Pending(id) => id \in obj.cord
  /\ Claimed(id) => id \in obj.drain
  /\ id \in obj.cord => srv[id] # "None"
ByHand(id) == id \in hand => srv[id] \notin {"None", "Enabled"} /\ id \notin obj.cord
RecordInv == Agree /\ \A id \in Ids : OnRecord(id) /\ ByHand(id)

LEMMA RecordInit == Init => RecordInv
<1> SUFFICES ASSUME Init PROVE RecordInv
  OBVIOUS
<1>1. op.at = "idle" /\ obj.cord = {} /\ hand = {}
  BY DEF Init, Idle, Settled
<1>2. \A id \in Ids : srv[id] # "Cordoned"
  BY DEF Init
<1> QED
  BY <1>1, <1>2 DEF RecordInv, Agree, OnRecord, ByHand, Pending, Claimed

\* What is on the record and still serves is a target again, unless it is given back.
LEMMA ClaimedIs ==
  ASSUME TypeOK, RecordInv, op.at = "drain", NEW id \in Ids, Claimed(id)
  PROVE  /\ id \in copy.cord /\ id \in copy.drain /\ id \in Live
         /\ Keep \cap copy.cord = {} => id \in Targets
<1>1. id \in copy.cord /\ id \in copy.drain
  BY DEF RecordInv, Agree, OnRecord, Claimed
<1>2. id \in Live
  BY DEF Live, Listed, Claimed
<1> QED
  BY <1>1, <1>2 DEF Targets

LEMMA PendingIs ==
  ASSUME TypeOK, RecordInv, op.at = "drain", NEW id \in Ids, Pending(id)
  PROVE  /\ Claimed(id) /\ id \in GivesBack(copy.cord)
         /\ id \in Keep => id \in GivesBack(Keep)
<1>1. Claimed(id) /\ srv[id] = "Cordoned"
  BY DEF RecordInv, OnRecord, Pending, Claimed
<1>2. id \in copy.cord
  BY <1>1, ClaimedIs
<1> QED
  BY <1>1, <1>2 DEF GivesBack

\* A drain step that leaves Neo4j and the record of the cordons alone.
LEMMA RecordKept ==
  ASSUME TypeOK, RecordInv, UNCHANGED neo4j, op'.at # "drain", obj'.cord = obj.cord,
         \A id \in Ids : Claimed(id) => id \in obj'.drain
  PROVE  RecordInv'
  BY DEF RecordInv, Agree, OnRecord, ByHand, Pending, Claimed, neo4j

\* A server that was cordoned is enabled, and with that no longer cordoned by hand.
LEMMA Enabled ==
  ASSUME TypeOK, NEW S \in SUBSET Ids, Enable(S), \A id \in S : srv[id] = "Cordoned",
         NEW id \in Ids
  PROVE  /\ Pending(id)' => Pending(id) /\ id \notin S
         /\ srv'[id] \in {"Enabled", "Cordoned"} => srv[id] \in {"Enabled", "Cordoned"}
         /\ srv[id] # "None" => srv'[id] # "None"
         /\ id \in hand' => id \in hand /\ srv'[id] = srv[id]
<1>1. srv'[id] = IF id \in S THEN "Enabled" ELSE srv[id]
  BY DEF Enable
<1> QED
  BY <1>1 DEF Enable, Pending

LEMMA RecordDrain == TypeOK /\ RecordInv /\ Drain => RecordInv'
<1> SUFFICES ASSUME TypeOK, RecordInv, Drain PROVE RecordInv'
  OBVIOUS
<1>0. /\ op.at = "drain" /\ obj \in Clusters /\ copy \in Clusters
      /\ copy.drain = obj.drain /\ copy.held = obj.held /\ copy.cord = obj.cord /\ copy.at = obj.at
  BY DrainEffect, Sets DEF RecordInv, Agree
<1>1. /\ FirstHold(obj) \in Clusters /\ FirstHold(obj).cord = obj.cord
      /\ \A id \in Ids : Claimed(id) => id \in FirstHold(obj).drain
  <2>1. Same(FirstHold(obj), obj) /\ (InProgress(copy) => FirstHold(obj) = obj)
    BY <1>0, FirstHolds
  <2>2. ASSUME NEW id \in Ids, Claimed(id) PROVE id \in copy.drain
    BY <1>0, <2>2, ClaimedIs
  <2> QED
    BY <1>0, <2>1, <2>2 DEF Same, InProgress
<1>2. CASE DrainNothing
  <2>1. obj' = ClearDrain(copy, obj) /\ op'.at = "apply" /\ copy.cord = {}
    BY <1>2 DEF DrainNothing, DrainEnds
  <2>2. \A id \in Ids : ~Claimed(id)
    BY <1>0, <2>1, ClaimedIs
  <2>3. Same(ClearDrain(copy, obj), obj)
    BY <1>0, Clears
  <2> QED
    BY <1>2, <2>1, <2>2, <2>3, RecordKept DEF DrainNothing, Same
<1>3. CASE DrainUnreached \/ RefuseSetBack
  <2>0. \E copied : DrainEnds(obj, copied) \/ DrainEnds(FirstHold(obj), copied)
    BY <1>3 DEF DrainUnreached, RefuseSetBack
  <2>1. UNCHANGED neo4j
    BY <1>3 DEF DrainUnreached, RefuseSetBack
  <2>2. op'.at = "apply"
    BY <2>0, SMT DEF DrainEnds
  <2>3. obj' = obj \/ obj' = FirstHold(obj)
    BY <2>0 DEF DrainEnds
  <2>4. \A id \in Ids : Claimed(id) => id \in obj.drain
    BY DEF RecordInv, OnRecord
  <2> QED
    BY <1>1, <2>1, <2>2, <2>3, <2>4, RecordKept
<1>4. CASE SetBack
  <2>1. PICK S \in SUBSET GivesBack(copy.cord) :
          /\ Enable(S)
          /\ IF S = GivesBack(copy.cord)
             THEN \E r \in ClearRecords(copy, obj) : DrainEnds(r.stored, r.copied)
             ELSE DrainEnds(obj, copy)
    BY <1>4 DEF SetBack
  <2>2. S \in SUBSET Ids /\ (\A id \in S : srv[id] = "Cordoned") /\ op'.at = "apply"
    <3>1. copy.cord \subseteq Ids
      BY <1>0 DEF Clusters
    <3>2. \E stored, copied : DrainEnds(stored, copied)
      BY <2>1
    <3> QED
      BY <2>1, <3>1, <3>2, SMT DEF GivesBack, DrainEnds
  <2>3. CASE obj' = obj
    BY <2>1, <2>2, <2>3, Enabled DEF RecordInv, Agree, OnRecord, ByHand, Claimed
  <2>4. CASE S = GivesBack(copy.cord)
    <3>1. PICK r \in ClearRecords(copy, obj) : obj' = r.stored
      BY <2>1, <2>4 DEF DrainEnds
    <3>2. obj' = obj \/ obj'.cord = {}
      BY <1>0, <3>1, ClearsRecords
    <3>3. \A id \in Ids : ~Pending(id)'
      BY <1>0, <2>1, <2>2, <2>4, Enabled, PendingIs
    <3> QED
      BY <2>1, <2>2, <3>2, <3>3, Enabled DEF RecordInv, Agree, OnRecord, ByHand, Claimed
  <2> QED
    BY <2>1, <2>3, <2>4 DEF DrainEnds
<1>5. CASE GiveBackKept
  <2>1. PICK S \in SUBSET GivesBack(Keep) :
          /\ Enable(S)
          /\ \/ /\ S = GivesBack(Keep)
                /\ obj' = GivenOf(obj) /\ op' = [op EXCEPT !.copy = GivenOf(copy)]
             \/ obj' = obj /\ op'.at = "apply"
    <3>1. PICK S \in SUBSET GivesBack(Keep) :
            /\ Enable(S)
            /\ \/ /\ S = GivesBack(Keep)
                  /\ obj' = GivenOf(obj) /\ op' = [op EXCEPT !.copy = GivenOf(copy)]
               \/ DrainEnds(obj, IF S = GivesBack(Keep) THEN GivenOf(copy) ELSE copy)
      BY <1>5 DEF GiveBackKept, GivenOf, GivenAt, Rest
    <3> QED
      BY <3>1, SMT DEF DrainEnds
  <2>2. S \in SUBSET Ids /\ \A id \in S : srv[id] = "Cordoned"
    <3>1. copy.cord \subseteq Ids
      BY <1>0 DEF Clusters
    <3> QED
      BY <2>1, <3>1 DEF GivesBack
  <2>3. CASE obj' = obj /\ op'.at = "apply"
    BY <2>1, <2>2, <2>3, Enabled DEF RecordInv, Agree, OnRecord, ByHand, Claimed
  <2>4. CASE S = GivesBack(Keep) /\ obj' = GivenOf(obj) /\ op' = [op EXCEPT !.copy = GivenOf(copy)]
    <3>1. Cordons(obj', obj, Rest, GivenAt(obj)) /\ Cordons(GivenOf(copy), copy, Rest, GivenAt(copy))
      BY <1>0, <2>4, GivenIs
    <3>2. copy' = GivenOf(copy) /\ GivenAt(copy) = GivenAt(obj)
      BY <1>0, <2>4 DEF copy, TypeOK, GivenAt
    <3>3. Agree'
      BY <1>0, <3>1, <3>2 DEF Agree, Cordons
    <3>4. \A id \in Ids : Pending(id)' => Pending(id) /\ id \in Rest
      BY <1>0, <2>1, <2>2, <2>4, Enabled, PendingIs, ClaimedIs DEF Rest
    <3>5. Rest \subseteq obj.cord
      BY <1>0 DEF Rest
    <3>6. ASSUME NEW id \in Ids PROVE OnRecord(id)'
      BY <2>1, <2>2, <3>1, <3>4, <3>5, Enabled DEF RecordInv, OnRecord, Cordons, Claimed
    <3>7. ASSUME NEW id \in Ids PROVE ByHand(id)'
      BY <2>1, <2>2, <3>1, <3>5, Enabled DEF RecordInv, ByHand, Cordons
    <3> QED
      BY <3>3, <3>6, <3>7 DEF RecordInv
  <2> QED
    BY <2>1, <2>3, <2>4
<1>6. CASE DrainComplete \/ DrainUndecided
  <2>1. /\ UNCHANGED neo4j /\ op'.at = "apply" /\ Targets = {} /\ Keep \cap copy.cord = {}
    <3>1. \E stored, copied : DrainEnds(stored, copied)
      BY <1>6 DEF DrainComplete, DrainUndecided
    <3>2. DrainDecides /\ UNCHANGED neo4j /\ Targets = {}
      BY <1>6 DEF DrainComplete, DrainUndecided
    <3> QED
      BY <3>1, <3>2, SMT DEF DrainEnds, DrainDecides
  <2>2. \A id \in Ids : ~Claimed(id)
    BY <1>0, <2>1, ClaimedIs
  <2>3. obj'.cord \in {obj.cord, {}}
    <3>1. Same(FirstHold(copy), copy)
      BY <1>0, FirstHolds
    <3>2. CASE DrainComplete
      <4>1. PICK r \in ClearRecords(FirstHold(copy), FirstHold(obj)) : obj' = r.stored
        BY <3>2 DEF DrainComplete, DrainEnds
      <4> QED
        BY <1>1, <3>1, <4>1, ClearsRecords DEF Same
    <3>3. CASE DrainUndecided
      <4>1. Same(HoldPods(FirstHold(copy), FirstHold(obj)), FirstHold(obj))
        BY <1>1, <3>1, HoldsPods DEF Same
      <4> QED
        BY <1>1, <3>3, <4>1 DEF Same, DrainUndecided, DrainEnds
    <3> QED
      BY <1>6, <3>2, <3>3
  <2>4. \A id \in Ids : ~Pending(id)
    BY <2>2 DEF RecordInv, OnRecord, Pending, Claimed
  <2> QED
    BY <2>1, <2>2, <2>3, <2>4 DEF RecordInv, Agree, OnRecord, ByHand, Pending, Claimed, neo4j
<1>7. CASE HasTargets
  <2>1. /\ Stored.cord = obj.cord /\ Stored.drain = Targets
        /\ Stored \in Clusters /\ ScalingDown /\ Keep \cap copy.cord = {}
    BY <1>0, <1>7, StoredIs DEF Same, HasTargets, DrainDecides, Draining
  <2>2. ASSUME NEW id \in Ids, Claimed(id) PROVE id \in Targets
    BY <1>0, <2>1, <2>2, ClaimedIs
  <2>3. CASE DrainBlocked \/ DrainSettles \/ DrainWaits
    <3>1. UNCHANGED neo4j /\ op'.at = "apply" /\ obj' \in {Stored, FirstHold(obj)}
      BY <2>3, SMT DEF DrainBlocked, DrainSettles, DrainWaits, DrainEnds
    <3> QED
      BY <1>1, <2>1, <2>2, <3>1, RecordKept
  <2>4. CASE DrainCordon
    <3>1. PICK S \in SUBSET ToCordon :
             srv' = [id \in Ids |-> IF id \in S THEN "Cordoned" ELSE srv[id]]
      BY <2>4 DEF DrainCordon
    <3>2. /\ hand' = hand /\ op'.at = "apply" /\ obj' = RecordCordon(Stored)
      BY <2>4 DEF DrainCordon, DrainEnds, TypeOK
    <3>3. obj'.drain = Targets /\ obj'.cord = copy.cord \cup ToCordon
      BY <2>1, <3>2, RecordIs DEF Cordons
    <3>4. ToCordon \subseteq Targets /\ \A id \in ToCordon : srv[id] = "Enabled"
      BY DEF ToCordon
    <3>5. ASSUME NEW id \in Ids PROVE OnRecord(id)'
      BY <1>0, <2>2, <3>1, <3>2, <3>3, <3>4 DEF RecordInv, OnRecord, Pending, Claimed
    <3>6. ASSUME NEW id \in Ids PROVE ByHand(id)'
      BY <1>0, <3>1, <3>2, <3>3 DEF RecordInv, ByHand, ToCordon
    <3> QED
      BY <3>2, <3>5, <3>6 DEF RecordInv, Agree
  <2>5. CASE DrainDeallocate \/ DrainDrop
    <3>1. hand' = hand /\ op'.at = "apply" /\ obj' = Stored
      BY <2>5, SMT DEF DrainDeallocate, DrainDrop, DrainEnds
    <3>2. \A id \in Ids : srv'[id] = srv[id] \/ srv'[id] \in {"Deallocating", "Dropped"}
      BY <2>5 DEF DrainDeallocate, DrainDrop
    <3>3. ASSUME NEW id \in Ids PROVE OnRecord(id)'
      BY <2>1, <2>2, <3>1, <3>2 DEF RecordInv, OnRecord, Pending, Claimed
    <3>4. ASSUME NEW id \in Ids PROVE ByHand(id)'
      BY <2>1, <3>1, <3>2 DEF RecordInv, ByHand
    <3> QED
      BY <2>1, <3>1, <3>3, <3>4 DEF RecordInv, Agree
  <2>6. Drain => \/ DrainNothing \/ DrainUnreached \/ RefuseSetBack \/ SetBack \/ GiveBackKept
                 \/ DrainComplete \/ DrainUndecided \/ DrainBlocked \/ DrainCordon
                 \/ DrainSettles \/ DrainDeallocate \/ DrainDrop \/ DrainWaits
    BY DEF Drain
  <2> QED
    BY <1>2, <1>3, <1>4, <1>5, <1>6, <2>3, <2>4, <2>5, <2>6
<1> QED
  BY <1>2, <1>3, <1>4, <1>5, <1>6, <1>7
     DEF Drain, DrainBlocked, DrainCordon, DrainSettles, DrainDeallocate, DrainDrop, DrainWaits,
         DrainAllowed

LEMMA RecordStep == TypeInv /\ RecordInv /\ [Next]_vars /\ ~StaleCopies => RecordInv'
<1> SUFFICES ASSUME TypeOK, Mounted, RecordInv, [Next]_vars, ~StaleCopies PROVE RecordInv'
  BY DEF TypeInv
<1>1. CASE UNCHANGED <<obj, srv, hand>> /\ (op' = op \/ op'.at # "drain")
  BY <1>1 DEF RecordInv, Agree, OnRecord, ByHand, Pending, Claimed, copy
<1>2. CASE Drain
  BY <1>2, RecordDrain
<1>3. CASE PassBegins
  <2>1. UNCHANGED <<obj, srv, hand>> /\ cache = obj
    BY <1>3 DEF PassBegins, neo4j
  <2>2. Resizes(copy', cache, HeldCount)
    BY <1>3, CountWrite, HeldCounts, Sets DEF PassBegins, copy
  <2> QED
    BY <2>1, <2>2 DEF RecordInv, Agree, OnRecord, ByHand, Pending, Claimed, Resizes
<1>4. CASE SettleEnds
  BY <1>1, <1>4 DEF SettleEnds, neo4j
<1>5. ASSUME NEW o \in Ordinals, StartPod(o) \/ PodGone(o) PROVE RecordInv'
  <2>1. UNCHANGED <<obj, op, hand>>
    BY <1>5 DEF StartPod, PodGone
  <2>2. \A id \in Ids : \/ srv'[id] = srv[id]
                        \/ srv[id] = "None" /\ srv'[id] = "Enabled"
                        \/ srv[id] = "Dropped" /\ srv'[id] = "Gone"
    BY <1>5, SMT DEF StartPod, PodGone, TypeOK
  <2> QED
    BY <2>1, <2>2 DEF RecordInv, Agree, OnRecord, ByHand, Pending, Claimed, copy
<1>6. ASSUME NEW i \in Ids, CordonByHand(i) PROVE RecordInv'
  <2>1. /\ UNCHANGED <<obj, op>>
        /\ hand' = IF i \in obj.cord THEN hand ELSE hand \cup {i}
    BY <1>6 DEF CordonByHand
  <2>2. /\ srv[i] = "Enabled"
        /\ \A id \in Ids : srv'[id] = IF id = i THEN "Cordoned" ELSE srv[id]
    BY <1>6 DEF CordonByHand, TypeOK
  <2> QED
    BY <2>1, <2>2 DEF RecordInv, Agree, OnRecord, ByHand, Pending, Claimed, copy
<1>7. ASSUME NEW n \in Sizes, EditServers(n) PROVE RecordInv'
  <2>1. UNCHANGED <<op, srv, hand>>
    BY <1>7 DEF EditServers, neo4j
  <2>2. Resizes(obj', obj, n)
    BY <1>7, CountWrite, Constants, Sets DEF EditServers
  <2> QED
    BY <2>1, <2>2 DEF RecordInv, Agree, OnRecord, ByHand, Pending, Claimed, Resizes, copy
<1>8. CASE SyncCache \/ SyncSts \/ ApplySts \/ Crash \/ ForgetAddresses
  <2>1. UNCHANGED <<obj, neo4j>> /\ (op' = op \/ op' = Idle)
    BY <1>8 DEF SyncCache, SyncSts, ApplySts, Crash, ForgetAddresses
  <2>2. Idle.at # "drain"
    BY DEF Idle
  <2> QED
    BY <1>1, <2>1, <2>2 DEF neo4j
<1>9. ASSUME NEW o \in Ordinals, CreatePod(o) \/ CondemnPod(o) \/ VolumeGone(o) \/ LosePod(o)
      PROVE  RecordInv'
  BY <1>1, <1>9 DEF CreatePod, CondemnPod, VolumeGone, LosePod, neo4j
<1>10. ASSUME NEW i \in Ids, Relocated(i) PROVE RecordInv'
  BY <1>1, <1>10 DEF Relocated
<1>11. CASE UNCHANGED vars
  BY <1>1, <1>11 DEF vars, neo4j
<1> QED
  BY <1>2, <1>3, <1>4, <1>5, <1>6, <1>7, <1>8, <1>9, <1>10, <1>11 DEF Next, Environment, Kubernetes

Recorded == TypeInv /\ RecordInv
LEMMA RecordedKept == Recorded /\ [Next]_vars /\ ~StaleCopies => Recorded'
  BY TypeStep, MountedStep, RecordStep DEF TypeInv, Recorded

\* A set-back finds every server the drain cordoned, and finds no other: the record is
\* written before the CORDON, keeps what earlier steps of the drain cordoned, and is
\* cleared only once those are enabled again or gone, through crashes, failed writes,
\* failed ENABLE SERVER and any sequence of counts.  A pass starts from the stored
\* cluster.
THEOREM CordonRecordedCorrect ==
  ASSUME ~StaleCopies
  PROVE  Spec => []CordonRecorded
<1>1. Init => Recorded
  BY TypeInit, RecordInit DEF Recorded
<1>2. Recorded /\ [Next]_vars => Recorded'
  BY RecordedKept
<1>3. Recorded => CordonRecorded
  BY DEF Recorded, RecordInv, OnRecord, Pending, CordonRecorded
<1> QED
  BY <1>1, <1>2, <1>3, PTL DEF Spec

\* How a step changes what SHOW SERVERS says: a server is enabled when it joins or is
\* given back, deallocated only by the drain, and so on.
LEMMA ServerStep ==
  ASSUME TypeInv, [Next]_vars, NEW id \in Ids, srv'[id] # srv[id]
  PROVE  \/ /\ srv[id] = "None" /\ srv'[id] = "Enabled"
            /\ \E o \in Ordinals : StartPod(o) /\ id = Identity(o)
         \/ srv[id] = "Dropped" /\ srv'[id] = "Gone"
         \/ srv[id] = "Enabled" /\ srv'[id] = "Cordoned"
         \/ /\ srv[id] = "Cordoned" /\ srv'[id] = "Enabled" /\ op.at = "drain" /\ id \in copy.cord
         \/ srv[id] = "Cordoned" /\ srv'[id] = "Deallocating" /\ DrainDeallocate /\ id \in ToDeallocate
         \/ srv[id] = "Deallocating" /\ srv'[id] = "Dropped" /\ DrainDrop /\ id \notin hosts
<1>0. TypeOK
  BY DEF TypeInv
<1>1. ~UNCHANGED neo4j /\ ~UNCHANGED srv
  BY DEF neo4j
<1>2. ASSUME NEW o \in Ordinals, StartPod(o)
      PROVE  srv[id] = "None" /\ srv'[id] = "Enabled" /\ id = Identity(o)
  BY <1>0, <1>2 DEF StartPod, TypeOK
<1>3. ASSUME NEW o \in Ordinals, PodGone(o) PROVE srv[id] = "Dropped" /\ srv'[id] = "Gone"
  BY <1>0, <1>3 DEF PodGone, TypeOK
<1>4. ASSUME NEW i \in Ids, CordonByHand(i) PROVE srv[id] = "Enabled" /\ srv'[id] = "Cordoned"
  BY <1>0, <1>4 DEF CordonByHand, TypeOK
<1>5. CASE SetBack \/ GiveBackKept
  <2>1. op.at = "drain"
    BY <1>5 DEF SetBack, GiveBackKept, Draining, AsksServers
  <2>2. PICK S : /\ S \subseteq GivesBack(copy.cord) \/ S \subseteq GivesBack(Keep)
                 /\ Enable(S)
    BY <1>5 DEF SetBack, GiveBackKept
  <2>3. id \in S /\ srv'[id] = "Enabled"
    BY <2>2 DEF Enable
  <2> QED
    BY <2>1, <2>2, <2>3 DEF GivesBack
<1>6. CASE DrainCordon
  BY <1>6 DEF DrainCordon, ToCordon
<1>7. CASE DrainDeallocate
  BY <1>7 DEF DrainDeallocate, ToDeallocate
<1>8. CASE DrainDrop
  BY <1>8 DEF DrainDrop, ToDrop
<1>9. CASE Drain
  BY <1>1, <1>5, <1>6, <1>7, <1>8, <1>9
     DEF Drain, DrainNothing, DrainUnreached, RefuseSetBack, DrainComplete, DrainUndecided,
         DrainBlocked, DrainSettles, DrainWaits
<1> QED
  BY <1>1, <1>2, <1>3, <1>4, <1>9
     DEF Next, Environment, Kubernetes, vars, neo4j, SyncCache, SyncSts, PassBegins, ApplySts, Crash,
         SettleEnds, ForgetAddresses, Relocated, EditServers, CreatePod, CondemnPod, VolumeGone,
         LosePod

\* The operator enables what it recorded, and it records only what it finds enabled: never
\* a server an administrator had cordoned before, whatever is drained, set back, refused
\* or interrupted later.  Administrators cordon at any moment.
THEOREM HandCordonKeptCorrect ==
  ASSUME ~StaleCopies
  PROVE  Spec => HandCordonKept
<1>1. Init => Recorded
  BY TypeInit, RecordInit DEF Recorded
<1>2. Recorded /\ [Next]_vars => Recorded'
  BY RecordedKept
<1>3. Recorded /\ [Next]_vars => [HandStep]_vars
  <2> SUFFICES ASSUME Recorded, [Next]_vars, NEW id \in hand, srv'[id] # srv[id], srv'[id] = "Enabled"
               PROVE  FALSE
    BY DEF HandStep
  <2>1. id \in Ids /\ srv[id] \notin {"None", "Enabled"} /\ id \notin obj.cord
    BY DEF Recorded, TypeInv, TypeOK, RecordInv, ByHand
  <2>2. op.at = "drain" /\ id \in copy.cord
    BY <2>1, ServerStep DEF Recorded
  <2> QED
    BY <2>1, <2>2 DEF Recorded, RecordInv, Agree
<1> QED
  BY <1>1, <1>2, <1>3, PTL DEF Spec, HandCordonKept

-----------------------------------------------------------------------------
(* Removal: the StatefulSet follows a drain that is complete, when passes    *)
(* read fresh copies and counts change while no server is starting.          *)

\* What a change of the count leaves behind has joined: only such an ordinal is removed,
\* now or by the pass under way, and a volume above the replicas is one of a member.
RemovedOf(o) ==
  /\ obj.spec <= o /\ o < replicas => Joined(o)
  /\ op.at # "idle" /\ copy.spec <= o /\ o < replicas => Joined(o)
  /\ o >= replicas /\ vol[o].gen # NoVolume => srv[Identity(o)] # "None"

\* A pass works on the replicas as they are; one that raises them does so for a spec that
\* still asks for it; and one about to lower them has left no server to drain.
PassInv ==
  op.at # "idle" =>
    /\ seen = replicas
    /\ copy.spec > replicas => obj.spec >= copy.spec
    /\ op.at = "apply" /\ ~InProgress(copy) /\ copy.spec < replicas
         => \A id \in Live : Ord(id) < copy.spec
DrainedInv == (\A o \in Ordinals : RemovedOf(o)) /\ PassInv /\ DrainedBeforeRemoved

Drained == TypeInv /\ VolumeInv /\ DrainedInv
Fresh == ~StaleCopies /\ ~StaleSts /\ ~EditsWhileJoining

LEMMA DrainedInit == Init => DrainedInv
<1> SUFFICES ASSUME Init PROVE DrainedInv
  OBVIOUS
<1>1. op.at = "idle" /\ obj.spec = MaxServers /\ replicas = MaxServers
  BY DEF Init, Idle, Settled
<1>2. \A o \in Ordinals : o < MaxServers /\ First(o) \in Ids /\ srv[First(o)] = "Enabled" /\ o \in Nat
  <2>1. \A o \in Ordinals : o < MaxServers /\ o \in Nat /\ First(o) \in Ids
    BY Constants, SMT DEF Ordinals, First, Ids
  <2>2. \A o \in Ordinals : First(o)[2] = 1
    BY DEF First
  <2>3. \A id \in Ids : id[2] = 1 => srv[id] = "Enabled"
    BY DEF Init
  <2> QED
    BY <2>1, <2>2, <2>3
<1>3. \A id \in Ids : Ord(id) < MaxServers
  BY Constants, SMT DEF Ids, Ord, Ordinals
<1>4. hosts \subseteq Live
  BY <1>2 DEF Init, Live, Listed
<1>5. \A o \in Ordinals : RemovedOf(o)
  BY <1>1, <1>2, Constants, SMT DEF RemovedOf
<1> QED
  BY <1>1, <1>3, <1>4, <1>5 DEF DrainedInv, PassInv, DrainedBeforeRemoved, Live, Listed

\* A drain step that lowers the count and does not leave a hold has nothing to drain.
LEMMA DrainLeavesHold ==
  ASSUME TypeOK, Drain, ScalingDown, op'.at = "apply", ~InProgress(op'.copy)
  PROVE  \A id \in Live : Ord(id) < copy.spec
<1>0. copy \in Clusters /\ Same(FirstHold(copy), copy) /\ InProgress(FirstHold(copy))
  BY Sets, FirstHolds DEF InProgress
<1>1. CASE DrainComplete
  <2>1. ~Undecided /\ Targets = {}
    BY <1>1 DEF DrainComplete
  <2>2. Unknown = {} /\ \A id \in Live \cap Named : ~(Ord(id) >= copy.spec)
    BY <2>1 DEF Targets
  <2>3. Live \subseteq Named /\ Live \subseteq Ids
    BY <2>2, Sets DEF Unknown
  <2>4. \A id \in Ids : Ord(id) \in Nat
    BY Constants, SMT DEF Ids, Ord, Ordinals
  <2> QED
    BY <2>2, <2>3, <2>4, Sets, SMT
<1>2. CASE DrainUnreached \/ RefuseSetBack
  <2>1. op'.copy = FirstHold(copy)
    <3>1. \E stored : DrainEnds(stored, FirstHold(copy))
      BY <1>2 DEF DrainUnreached, RefuseSetBack
    <3> QED
      BY <3>1, SMT DEF DrainEnds
  <2> QED
    BY <1>0, <2>1
<1>3. CASE GiveBackKept
  <2>1. Keep \cap copy.cord # {} /\ op'.copy \in {copy, GivenOf(copy)}
    BY <1>3, SMT DEF GiveBackKept, DrainEnds, GivenOf, GivenAt, Rest, TypeOK
  <2>2. copy.drain # {} /\ GivenOf(copy).drain = copy.drain
    BY <1>0, <2>1, GivenIs DEF Keep, Cordons
  <2> QED
    BY <2>1, <2>2 DEF InProgress
<1>4. CASE DrainUndecided
  <2>1. op'.copy = HoldPods(FirstHold(copy), FirstHold(copy))
    BY <1>4 DEF DrainUndecided, DrainEnds
  <2>2. op'.copy.held = HeldPods /\ HeldPods # {}
    <3>1. FirstHold(copy) \in Clusters
      BY <1>0 DEF Same
    <3>2. HeldPods # {}
      BY Sets, SMT DEF HeldPods, ScalingDown
    <3> QED
      BY <2>1, <3>1, <3>2, HoldsPods
  <2> QED
    BY <2>2 DEF InProgress
<1>5. CASE HasTargets /\ op'.copy.drain = Targets
  BY <1>5 DEF HasTargets, InProgress
<1>6. CASE DrainBlocked \/ DrainSettles \/ DrainDeallocate \/ DrainDrop \/ DrainWaits
  <2>1. HasTargets /\ op'.copy = Copied
    BY <1>6, SMT DEF DrainBlocked, DrainSettles, DrainDeallocate, DrainDrop, DrainWaits, DrainAllowed,
       DrainEnds
  <2> QED
    BY <1>5, <2>1, StoredIs
<1>7. CASE DrainCordon
  <2>1. HasTargets /\ op'.copy = RecordCordon(Copied)
    BY <1>7 DEF DrainCordon, DrainAllowed, DrainEnds
  <2>2. Copied \in Clusters /\ Copied.drain = Targets
    BY <2>1, StoredIs DEF Same
  <2> QED
    BY <1>5, <2>1, <2>2, RecordIs DEF Cordons
<1>8. ~DrainNothing /\ ~SetBack
  BY DEF DrainNothing, SetBack
<1> QED
  BY <1>1, <1>2, <1>3, <1>4, <1>6, <1>7, <1>8 DEF Drain

\* Servers leave what SHOW SERVERS lists as live for good, and join it by starting.
LEMMA LiveStep ==
  ASSUME TypeInv, [Next]_vars, \A o \in Ordinals : ~(StartPod(o) /\ srv[Identity(o)] = "None")
  PROVE  /\ Live' \subseteq Live
         /\ hosts \subseteq Live => hosts' \subseteq Live'
         /\ \A id \in Ids : srv[id] # "None" => srv'[id] # "None"
<1>0. TypeOK
  BY DEF TypeInv
<1>1. ASSUME NEW id \in Ids
      PROVE  /\ id \in Live' => id \in Live
             /\ srv[id] # "None" => srv'[id] # "None"
             /\ id \in Live /\ id \in hosts => id \in Live'
  <2>1. CASE srv'[id] = srv[id]
    BY <2>1 DEF Live, Listed
  <2>2. CASE srv'[id] # srv[id]
    <3>1. ~(srv[id] = "None" /\ srv'[id] = "Enabled" /\ \E o \in Ordinals : StartPod(o) /\ id = Identity(o))
      OBVIOUS
    <3> QED
      BY <2>2, <3>1, ServerStep DEF Live, Listed
  <2> QED
    BY <2>1, <2>2
<1>2. hosts' \subseteq hosts
  <2>1. ASSUME NEW o \in Ordinals, StartPod(o) PROVE hosts' = hosts
    BY <2>1 DEF StartPod
  <2>2. Drain => hosts' = hosts
    BY <1>0, DrainEffect
  <2> QED
    BY <2>1, <2>2
       DEF Next, Environment, Kubernetes, vars, neo4j, SyncCache, SyncSts, PassBegins, ApplySts, Crash,
           SettleEnds, ForgetAddresses, Relocated, CordonByHand, EditServers, CreatePod, CondemnPod,
           PodGone, VolumeGone, LosePod
<1>3. Live' \subseteq Ids /\ Live \subseteq Ids
  BY DEF Live, Listed
<1>4. Live' \subseteq Live
  BY <1>1, <1>3
<1>5. hosts \subseteq Live => hosts' \subseteq Live'
  BY <1>1, <1>2, <1>3
<1> QED
  BY <1>1, <1>4, <1>5

\* An ordinal below the replicas keeps the volume of its member; above them volumes go.
LEMMA VolumesKept ==
  ASSUME Drained, [Next]_vars, NEW o \in Ordinals, vol'[o].gen # vol[o].gen
  PROVE  /\ vol[o].gen # NoVolume => (o >= replicas /\ vol'[o].gen = NoVolume)
         /\ vol[o].gen = NoVolume => o < replicas
         /\ \A n \in Ordinals : ~StartPod(n)
<1>0. TypeOK /\ VolumeOf(o)
  BY DEF Drained, TypeInv, VolumeInv
<1>1. ASSUME NEW n \in Ordinals, StartPod(n) \/ CondemnPod(n) \/ PodGone(n) \/ LosePod(n)
      PROVE  FALSE
  <2>1. \A m \in Ordinals : vol'[m].gen = vol[m].gen
    BY <1>0, <1>1, SMT DEF StartPod, CondemnPod, PodGone, LosePod, TypeOK
  <2> QED
    BY <2>1
<1>2. vol' # vol
  OBVIOUS
<1>3. Drain => vol' = vol
  BY <1>0, DrainEffect DEF kube
<1>4. \E n \in Ordinals : CreatePod(n) \/ VolumeGone(n)
  BY <1>1, <1>2, <1>3
     DEF Next, Environment, Kubernetes, vars, kube, SyncCache, SyncSts, PassBegins, ApplySts, Crash,
         SettleEnds, ForgetAddresses, Relocated, CordonByHand, EditServers
<1>5. CASE \E n \in Ordinals : CreatePod(n)
  <2>0. PICK n \in Ordinals : CreatePod(n)
    BY <1>5
  <2>1. CreatePod(o)
    <3>1. n # o => vol'[o] = vol[o]
      BY <1>0, <2>0 DEF CreatePod, TypeOK
    <3> QED
      BY <2>0, <3>1
  <2>2. pods[o] = "none" /\ o < replicas
    BY <2>1 DEF CreatePod
  <2>3. vol[o].gen = NoVolume
    <3>1. replicas \in Nat /\ o \in Nat
      BY <1>0, Sets, Constants, SMT DEF Ordinals
    <3>2. ~(o >= replicas)
      BY <2>2, <3>1, SMT
    <3> QED
      BY <1>0, <2>2, <3>2 DEF VolumeOf
  <2> QED
    BY <1>1, <2>2, <2>3
<1>6. CASE \E n \in Ordinals : VolumeGone(n)
  <2>0. PICK n \in Ordinals : VolumeGone(n)
    BY <1>6
  <2>1. VolumeGone(o)
    <3>1. n # o => vol'[o] = vol[o]
      BY <1>0, <2>0 DEF VolumeGone, TypeOK
    <3> QED
      BY <2>0, <3>1
  <2>2. vol[o].reclaimed /\ vol'[o].gen = NoVolume
    BY <1>0, <2>1 DEF VolumeGone, TypeOK
  <2> QED
    BY <1>0, <1>1, <2>2 DEF VolumeOf
<1> QED
  BY <1>4, <1>5, <1>6

LEMMA NoneKept ==
  ASSUME TypeInv, [Next]_vars, NEW id \in Ids, srv[id] # "None"
  PROVE  srv'[id] # "None"
  BY ServerStep

LEMMA JoinedKept ==
  ASSUME Drained, [Next]_vars, NEW o \in Ordinals
  PROVE  /\ o < replicas /\ Joined(o) => Joined(o)'
         /\ o >= replicas /\ vol'[o].gen # NoVolume /\ RemovedOf(o) => srv'[Identity(o)'] # "None"
<1>0. TypeInv /\ TypeOK /\ o \in Nat /\ replicas \in Nat
  BY Sets, Constants, SMT DEF Drained, TypeInv, Ordinals
<1>1. vol[o].gen # NoVolume => Identity(o) \in Ids
  BY <1>0, Constants, SMT DEF TypeOK, NoVolume, Identity, Ids
<1>2. CASE vol'[o].gen = vol[o].gen
  <2>1. Identity(o)' = Identity(o)
    BY <1>2 DEF Identity
  <2>2. vol[o].gen # NoVolume /\ srv[Identity(o)] # "None" => srv'[Identity(o)] # "None"
    BY <1>0, <1>1, NoneKept
  <2> QED
    BY <1>2, <2>1, <2>2 DEF Joined, RemovedOf
<1>3. CASE vol'[o].gen # vol[o].gen
  <2>1. /\ vol[o].gen # NoVolume => (o >= replicas /\ vol'[o].gen = NoVolume)
        /\ vol[o].gen = NoVolume => o < replicas
    BY <1>3, VolumesKept
  <2>2. Joined(o) => vol[o].gen # NoVolume
    BY DEF Joined
  <2>3. ~(o < replicas /\ o >= replicas)
    BY <1>0, SMT
  <2> QED
    BY <2>1, <2>2, <2>3
<1> QED
  BY <1>2, <1>3

\* A step of Kubernetes, Neo4j or an administrator.
LEMMA DrainedOutside ==
  ASSUME Drained, [Next]_vars, UNCHANGED <<obj, op, seen, replicas>>
  PROVE  DrainedInv'
<1>0. /\ TypeInv /\ TypeOK /\ VolumeInv /\ replicas \in Nat /\ Ordinals \subseteq Nat /\ copy' = copy
      /\ copy.spec \in Nat /\ \A o \in Ordinals : RemovedOf(o)
  BY Sets, Constants, SMT DEF Drained, TypeInv, Ordinals, copy, DrainedInv
<1>1. \A o \in Ordinals : RemovedOf(o)'
  BY <1>0, JoinedKept DEF RemovedOf
<1>2. CASE \A o \in Ordinals : ~(StartPod(o) /\ srv[Identity(o)] = "None")
  <2>1. Live' \subseteq Live /\ hosts' \subseteq Live'
    <3>1. hosts \subseteq Live
      BY DEF Drained, DrainedInv, DrainedBeforeRemoved
    <3> QED
      BY <1>0, <1>2, <3>1, LiveStep
  <2>2. PassInv'
    BY <1>0, <2>1 DEF Drained, DrainedInv, PassInv, InProgress
  <2>3. DrainedBeforeRemoved'
    BY <2>1 DEF Drained, DrainedInv, DrainedBeforeRemoved
  <2> QED
    BY <1>1, <2>2, <2>3 DEF DrainedInv
<1>3. ASSUME NEW o \in Ordinals, StartPod(o), srv[Identity(o)] = "None" PROVE DrainedInv'
  <2>1. /\ srv' = [srv EXCEPT ![Identity(o)] = "Enabled"] /\ hosts' = hosts \cup {Identity(o)}
        /\ vol' = vol
    BY <1>3 DEF StartPod
  <2>2. vol[o].gen # NoVolume /\ Identity(o) \in Ids /\ Ord(Identity(o)) = o
    <3>1. vol[o].gen # NoVolume
      BY <1>0, <1>3 DEF StartPod, TypeInv, Mounted
    <3>2. vol[o].gen \in 1 .. MaxGens
      BY <1>0, <3>1, Constants, SMT DEF TypeOK, NoVolume
    <3> QED
      BY <3>1, <3>2 DEF Identity, Ids, Ord
  <2>3. Live' = Live \cup {Identity(o)}
    BY <1>0, <2>1, <2>2, SMT DEF Live, Listed, TypeOK
  <2>4. o < replicas /\ (op.at # "idle" => o < copy.spec)
    BY <1>0, <1>3, <2>2, SMT DEF RemovedOf, Joined
  <2>5. PassInv'
    BY <1>0, <2>2, <2>3, <2>4 DEF Drained, DrainedInv, PassInv, InProgress
  <2>6. DrainedBeforeRemoved'
    BY <2>1, <2>2, <2>3, <2>4 DEF Drained, DrainedInv, DrainedBeforeRemoved
  <2> QED
    BY <1>1, <2>5, <2>6 DEF DrainedInv
<1> QED
  BY <1>2, <1>3

LEMMA DrainedStep ==
  ASSUME Fresh, Drained, [Next]_vars
  PROVE  DrainedInv'
<1>0. /\ TypeInv /\ TypeOK /\ VolumeInv /\ replicas \in Nat /\ Ordinals \subseteq Nat
      /\ copy.spec \in 1 .. MaxServers /\ obj.spec \in 1 .. MaxServers /\ MaxServers \in Nat
      /\ obj.spec \in Nat /\ copy.spec \in Nat
      /\ \A o \in Ordinals : RemovedOf(o)
  BY Sets, Constants, SMT DEF Drained, TypeInv, Ordinals, DrainedInv, Clusters
<1>1. CASE UNCHANGED <<obj, op, seen, replicas>>
  BY <1>1, DrainedOutside
<1>2. (\A o \in Ordinals : ~StartPod(o)) => Live' \subseteq Live /\ hosts' \subseteq Live'
  BY <1>0, LiveStep DEF Drained, DrainedInv, DrainedBeforeRemoved
<1>3. CASE SyncSts
  <2>1. UNCHANGED <<obj, op, replicas, pods, vol, srv, hosts>> /\ seen # replicas
    BY <1>3 DEF SyncSts, kube, neo4j
  <2>2. op.at = "idle"
    BY <2>1 DEF Drained, DrainedInv, PassInv
  <2> QED
    BY <2>1, <2>2 DEF Drained, DrainedInv, PassInv, RemovedOf, Joined, Identity, DrainedBeforeRemoved,
       Live, Listed
<1>4. CASE Crash
  <2>1. UNCHANGED <<obj, replicas, pods, vol, srv, hosts>> /\ op'.at = "idle"
    BY <1>4 DEF Crash, kube, neo4j, Idle
  <2> QED
    BY <2>1 DEF Drained, DrainedInv, PassInv, RemovedOf, Joined, Identity, DrainedBeforeRemoved,
       Live, Listed
<1>5. CASE PassBegins
  <2>1. /\ UNCHANGED <<obj, seen, replicas, pods, vol, srv, hosts>> /\ op'.at = "drain"
        /\ cache = obj /\ seen = replicas
    BY <1>5 DEF PassBegins, kube, neo4j, Fresh
  <2>2. copy'.spec = HeldCount
    BY <1>0, <1>5, CountWrite, HeldCounts, Sets DEF PassBegins, copy, Resizes
  <2>3. HeldCount \in Nat /\ HeldCount <= obj.spec /\ (HeldCount = obj.spec \/ HeldCount >= replicas)
    BY <1>0, <2>1, HeldCounts, SMT
  <2>4. UNCHANGED Live /\ \A o \in Ordinals : Joined(o)' <=> Joined(o)
    BY <2>1 DEF Live, Listed, Joined, Identity
  <2>5. \A o \in Ordinals : RemovedOf(o)'
    <3> SUFFICES ASSUME NEW o \in Ordinals PROVE RemovedOf(o)'
      OBVIOUS
    <3>1. RemovedOf(o) /\ o \in Nat /\ Identity(o)' = Identity(o)
      BY <1>0, <2>1 DEF Identity
    <3>2. HeldCount <= o /\ o < replicas => obj.spec <= o
      BY <1>0, <2>3, <3>1, SMT
    <3> QED
      BY <2>1, <2>2, <2>4, <3>1, <3>2 DEF RemovedOf
  <2>6. PassInv'
    BY <1>0, <2>1, <2>2, <2>3 DEF PassInv
  <2> QED
    BY <2>1, <2>4, <2>5, <2>6 DEF Drained, DrainedInv, DrainedBeforeRemoved
<1>6. CASE Drain
  <2>1. /\ UNCHANGED <<seen, replicas, pods, vol>> /\ op.at = "drain" /\ obj'.spec = obj.spec
        /\ copy'.spec = copy.spec /\ copy' = op'.copy
    BY <1>0, <1>6, DrainEffect DEF kube, copy
  <2>2. \A o \in Ordinals : RemovedOf(o)'
    BY <1>0, <2>1, JoinedKept DEF RemovedOf
  <2>3. \A o \in Ordinals : ~StartPod(o)
    BY <1>0, <2>1 DEF StartPod, TypeOK
  <2>4. seen = replicas /\ (copy.spec > replicas => obj.spec >= copy.spec)
    BY <2>1 DEF Drained, DrainedInv, PassInv
  <2>5. ASSUME op'.at = "apply", ~InProgress(copy'), copy.spec < replicas
        PROVE  \A id \in Live : Ord(id) < copy.spec
    <3>1. ScalingDown
      BY <1>0, <2>4, <2>5 DEF ScalingDown
    <3> QED
      BY <1>0, <1>6, <2>1, <2>5, <3>1, DrainLeavesHold
  <2>6. PassInv'
    <3>1. seen' = replicas' /\ (copy'.spec > replicas' => obj'.spec >= copy'.spec)
      BY <2>1, <2>4
    <3>2. ASSUME op'.at = "apply", ~InProgress(copy'), copy'.spec < replicas'
          PROVE  \A id \in Live' : Ord(id) < copy'.spec
      BY <1>2, <2>1, <2>3, <2>5, <3>2
    <3> QED
      BY <3>1, <3>2 DEF PassInv, InProgress
  <2> QED
    BY <1>2, <2>1, <2>2, <2>3, <2>6 DEF Drained, DrainedInv, DrainedBeforeRemoved
<1>7. CASE ApplySts
  <2>1. /\ UNCHANGED <<obj, pods, vol, srv, hosts>> /\ op'.at = "idle" /\ op.at = "apply"
        /\ replicas' = IF InProgress(copy) THEN replicas ELSE copy.spec
    BY <1>7 DEF ApplySts, neo4j, Idle
  <2>2. UNCHANGED Live /\ \A o \in Ordinals : (Joined(o)' <=> Joined(o)) /\ Identity(o)' = Identity(o)
    BY <2>1 DEF Live, Listed, Joined, Identity
  <2>3. CASE replicas' = replicas
    BY <2>1, <2>2, <2>3 DEF Drained, DrainedInv, PassInv, RemovedOf, DrainedBeforeRemoved
  <2>4. CASE ~InProgress(copy) /\ replicas' = copy.spec
    <3>1. /\ copy.spec > replicas => obj.spec >= copy.spec
          /\ copy.spec < replicas => \A id \in Live : Ord(id) < copy.spec
          /\ \A id \in Live : Ord(id) < replicas
      BY <2>1, <2>4 DEF Drained, DrainedInv, PassInv, DrainedBeforeRemoved
    <3>2. ASSUME NEW o \in Ordinals PROVE RemovedOf(o)'
      <4>1. obj.spec <= o /\ o < copy.spec => Joined(o)
        BY <1>0, <3>1, SMT DEF RemovedOf
      <4>2. o >= copy.spec /\ vol[o].gen # NoVolume => srv[Identity(o)] # "None"
        BY <1>0, <2>1, SMT DEF RemovedOf, Joined
      <4> QED
        BY <2>1, <2>2, <2>4, <4>1, <4>2 DEF RemovedOf
    <3>3. \A id \in Live : Ord(id) < copy.spec
      <4>1. \A id \in Live : Ord(id) \in Nat
        BY Constants, SMT DEF Live, Listed, Ids, Ord, Ordinals
      <4> QED
        BY <1>0, <3>1, <4>1, SMT
    <3> QED
      BY <2>1, <2>2, <2>4, <3>2, <3>3 DEF Drained, DrainedInv, PassInv, DrainedBeforeRemoved
  <2> QED
    BY <2>1, <2>3, <2>4
<1>8. ASSUME NEW n \in Sizes, EditServers(n) PROVE DrainedInv'
  <2>1. /\ UNCHANGED <<op, seen, replicas, pods, vol, srv, hosts>>
        /\ \A o \in 0 .. obj.spec - 1 : Joined(o)
    BY <1>8 DEF EditServers, kube, neo4j, Fresh
  <2>2. obj'.spec = n /\ n \in Nat
    BY <1>0, <1>8, CountWrite, Constants, Sets, SMT DEF EditServers, Resizes
  <2>3. /\ UNCHANGED <<Live, copy>>
        /\ \A o \in Ordinals : (Joined(o)' <=> Joined(o)) /\ Identity(o)' = Identity(o)
    BY <2>1 DEF Live, Listed, Joined, Identity, copy
  <2>4. ASSUME NEW o \in Ordinals PROVE RemovedOf(o)'
    <3>1. o < obj.spec => Joined(o)
      BY <1>0, <2>1, SMT
    <3> QED
      BY <1>0, <2>1, <2>2, <2>3, <3>1, SMT DEF RemovedOf
  <2>5. op.at # "idle" => ~(copy.spec > replicas)
    <3> SUFFICES ASSUME op.at # "idle", copy.spec > replicas PROVE FALSE
      OBVIOUS
    <3>1. obj.spec >= copy.spec
      BY DEF Drained, DrainedInv, PassInv
    <3>2. replicas \in Ordinals /\ replicas \in 0 .. obj.spec - 1
      BY <1>0, <3>1, SMT DEF Ordinals
    <3>3. pods[replicas] = "none" /\ ~vol[replicas].reclaimed
      BY <1>0, <3>2, SMT DEF VolumeInv, FreshOf
    <3>4. vol[replicas].gen = NoVolume
      BY <1>0, <3>2, <3>3 DEF VolumeInv, VolumeOf
    <3> QED
      BY <2>1, <3>2, <3>4 DEF Joined
  <2>6. PassInv'
    BY <2>1, <2>3, <2>5 DEF Drained, DrainedInv, PassInv, InProgress
  <2> QED
    BY <2>1, <2>3, <2>4, <2>6 DEF Drained, DrainedInv, DrainedBeforeRemoved
<1> QED
  BY <1>1, <1>3, <1>4, <1>5, <1>6, <1>7, <1>8
     DEF Next, Environment, Kubernetes, vars, kube, SyncCache, SettleEnds, ForgetAddresses, CreatePod,
         StartPod, CondemnPod, PodGone, VolumeGone, LosePod, Relocated, CordonByHand

\* The StatefulSet's replicas never fall below a server that is still a member, and a
\* server that hosts a user database is one: whatever the operator knows of addresses,
\* whatever Neo4j refuses and wherever a pass ends, the replicas are lowered only after a
\* drain step that found no server left to drain, and no server joins above the new count
\* in between.
THEOREM DrainedBeforeRemovedCorrect ==
  ASSUME Fresh
  PROVE  Spec => []DrainedBeforeRemoved
<1>1. Init => Drained
  BY TypeInit, VolumeInit, DrainedInit DEF Drained
<1>2. Drained /\ [Next]_vars => Drained'
  BY TypeStep, MountedStep, VolumeStep, DrainedStep DEF Drained, TypeInv
<1>3. Drained => DrainedBeforeRemoved
  BY DEF Drained, DrainedInv
<1> QED
  BY <1>1, <1>2, <1>3, PTL DEF Spec

=============================================================================
