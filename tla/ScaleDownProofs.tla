--------------------------- MODULE ScaleDownProofs --------------------------
(***************************************************************************)
(* What holds of scaling a cluster for any number of servers, sizes, edits *)
(* and losses.                                                             *)
(***************************************************************************)
EXTENDS ScaleDown, WellFoundedInduction, TLAPS

\* Zenon proves the steps, and SMT the ones with arithmetic or record updates, by name.
USE Zenon

-----------------------------------------------------------------------------
(* Types.                                                                  *)

Below == OpToRel(<, Nat)

\* A set of numbers that is not empty has a smallest one.
LEMMA Least ==
  ASSUME NEW S \in SUBSET Nat, S # {}
  PROVE  \E m \in S : \A n \in S : m <= n
<1>1. \A x, y \in Nat : <<y, x>> \in Below <=> y < x
  BY DEF Below, OpToRel
<1>2. IsWellFoundedOn(Below, Nat)
  BY NatLessThanWellFounded DEF Below
<1>3. PICK m \in S : \A n \in S : ~(<<n, m>> \in Below)
  BY <1>2, WFMin
<1>4. ASSUME NEW n \in S PROVE m <= n
  <2>1. n \in Nat /\ m \in Nat /\ ~(n < m)
    BY <1>1, <1>3
  <2> QED
    BY <2>1, SMT
<1> QED
  BY <1>4

LEMMA Constants ==
  /\ MaxServers \in Nat \ {0} /\ MaxGens \in Nat \ {0} /\ Sizes \subseteq 1 .. MaxServers
  /\ MaxEdits \in Nat /\ MaxLost \in Nat /\ MaxHand \in Nat /\ MaxCordons \in Nat
  BY ScaleAssumption

\* A server count, its servers and the identities they may have.
LEMMA Sets ==
  ASSUME TypeOK
  PROVE  /\ Live \subseteq Ids /\ Named \subseteq Ids /\ Keep \subseteq Ids
         /\ Targets \subseteq Ids /\ HeldPods \subseteq Ordinals
         /\ obj \in Clusters /\ cache \in Clusters /\ copy \in Clusters
         /\ replicas \in Nat /\ seen \in Nat /\ copy.spec \in Nat \ {0}
         /\ Now \in 0 .. MaxCordons
<1>1. obj \in Clusters /\ cache \in Clusters /\ copy \in Clusters
  BY DEF TypeOK, copy
<1>2. /\ replicas \in Nat /\ seen \in Nat /\ copy.spec \in Nat \ {0} /\ seen <= MaxServers
      /\ copy.spec <= MaxServers
  BY <1>1, Constants, SMT DEF TypeOK, Clusters
<1>3. Live \subseteq Ids /\ Named \subseteq Ids
  BY DEF Live, Listed, Named, TypeOK
<1>4. Keep \subseteq Ids
  BY <1>3 DEF Keep
<1>5. Targets \subseteq Ids
  BY <1>3 DEF Targets, Unknown
<1>6. HeldPods \subseteq Ordinals
  BY <1>2, Constants, SMT DEF HeldPods, Ordinals
<1>7. Now \in 0 .. MaxCordons
  BY Constants, SMT DEF Now, TypeOK
<1> QED
  BY <1>1, <1>2, <1>3, <1>4, <1>5, <1>6, <1>7

\* A write of the drain's servers and pods, of the cordons, or of the count.
Same(d, c) == d \in Clusters /\ d.spec = c.spec /\ d.cord = c.cord /\ d.at = c.at
Drains(d, c, D, H) == Same(d, c) /\ d.drain = D /\ d.held = H
Cordons(d, c, C, t) ==
  /\ d \in Clusters /\ d.spec = c.spec /\ d.drain = c.drain /\ d.held = c.held
  /\ d.cord = C /\ d.at = t
Resizes(d, c, n) ==
  /\ d \in Clusters /\ d.spec = n /\ d.drain = c.drain /\ d.held = c.held
  /\ d.cord = c.cord /\ d.at = c.at

LEMMA DrainWrite ==
  ASSUME NEW c \in Clusters, NEW D \in SUBSET Ids, NEW H \in SUBSET Ordinals
  PROVE  /\ Drains([c EXCEPT !.drain = D, !.held = H], c, D, H)
         /\ Drains([c EXCEPT !.held = H, !.drain = D], c, D, H)
  BY DEF Clusters, Drains, Same

LEMMA CordonWrite ==
  ASSUME NEW c \in Clusters, NEW C \in SUBSET Ids, NEW t \in 0 .. MaxCordons
  PROVE  Cordons([c EXCEPT !.cord = C, !.at = t], c, C, t)
  BY DEF Clusters, Cordons

LEMMA CountWrite ==
  ASSUME NEW c \in Clusters, NEW n \in 1 .. MaxServers
  PROVE  Resizes([c EXCEPT !.spec = n], c, n)
  BY DEF Clusters, Resizes

\* The count a pass works on is one: that of the cluster, or the first ordinal above
\* the replicas with something left over.
LEMMA HeldCounts ==
  ASSUME TypeOK
  PROVE  /\ HeldCount \in 1 .. MaxServers /\ HeldCount <= cache.spec
         /\ HeldCount = cache.spec \/ HeldCount >= replicas
         /\ \A o \in replicas .. HeldCount - 1 : ~Leftover(o)
<1> DEFINE left == {o \in replicas .. cache.spec - 1 : Leftover(o)}
<1>1. cache.spec \in 1 .. MaxServers /\ replicas \in 1 .. MaxServers
  BY Sets DEF Clusters, TypeOK
<1>2. CASE left = {}
  BY <1>1, <1>2, Constants, SMT DEF HeldCount
<1>3. CASE left # {}
  <2>1. left \in SUBSET Nat
    BY <1>1, SMT
  <2>2. \E m \in left : \A n \in left : m <= n
    BY <1>3, <2>1, Least
  <2>3. HeldCount \in left /\ \A n \in left : HeldCount <= n
    BY <1>3, <2>2 DEF HeldCount
  <2> QED
    BY <1>1, <2>3, Constants, SMT
<1> QED
  BY <1>2, <1>3

-----------------------------------------------------------------------------
(* What the writes of a drain step leave.                                  *)

LEMMA FirstHolds ==
  ASSUME TypeOK, NEW c \in Clusters
  PROVE  /\ Same(FirstHold(c), c)
         /\ InProgress(copy) => FirstHold(c) = c
         /\ ~InProgress(copy) /\ ScalingDown
              => FirstHold(c).held = HeldPods /\ FirstHold(c).drain = {} /\ HeldPods # {}
<1>1. HeldPods \in SUBSET Ordinals /\ {} \in SUBSET Ids
  BY Sets
<1>2. ScalingDown => HeldPods # {}
  BY Sets, SMT DEF ScalingDown, HeldPods
<1>3. CASE InProgress(copy)
  BY <1>3 DEF FirstHold, Same
<1>4. CASE ~InProgress(copy)
  <2>1. copy.held = {} /\ copy.drain = {}
    BY <1>4 DEF InProgress
  <2>2. FirstHold(c) = IF HeldPods = {} THEN c ELSE [c EXCEPT !.held = HeldPods, !.drain = {}]
    BY <1>4, <2>1 DEF FirstHold, HoldPods
  <2>3. Drains([c EXCEPT !.held = HeldPods, !.drain = {}], c, {}, HeldPods)
    BY <1>1, DrainWrite
  <2> QED
    BY <1>2, <1>4, <2>2, <2>3 DEF Drains, Same
<1> QED
  BY <1>3, <1>4

\* A hold again leaves one in force.
LEMMA HoldsPods ==
  ASSUME TypeOK, NEW m \in Clusters, NEW c \in Clusters
  PROVE  /\ Same(HoldPods(m, c), c)
         /\ m = c => HoldPods(m, c).held = HeldPods /\ HoldPods(m, c).drain = {}
         /\ HoldPods(m, c) = c \/ HoldPods(m, c).drain = {}
<1>1. HeldPods \in SUBSET Ordinals /\ {} \in SUBSET Ids
  BY Sets
<1>2. Drains([c EXCEPT !.held = HeldPods, !.drain = {}], c, {}, HeldPods)
  BY <1>1, DrainWrite
<1> QED
  BY <1>2 DEF HoldPods, Same, Drains

\* The drain set and nothing else.
LEMMA SetsServers ==
  ASSUME TypeOK, NEW m \in Clusters, NEW c \in Clusters
  PROVE  /\ Same(SetDrainServers(m, c), c)
         /\ m.drain = c.drain /\ m.held = c.held
              => SetDrainServers(m, c).drain = Targets /\ SetDrainServers(m, c).held = {}
<1>1. {} \in SUBSET Ordinals /\ Targets \in SUBSET Ids
  BY Sets
<1>2. Drains([c EXCEPT !.drain = Targets, !.held = {}], c, Targets, {})
  BY <1>1, DrainWrite
<1> QED
  BY <1>2 DEF SetDrainServers, Same, Drains

\* What is left once records are cleared: the record of the cordons as it was or
\* empty, the drain set as it was or empty.
LEMMA Clears ==
  ASSUME NEW m \in Clusters, NEW c \in Clusters
  PROVE  /\ ClearDrain(m, c) \in Clusters /\ ClearCordoned(m, c) \in Clusters
         /\ Same(ClearDrain(m, c), c)
         /\ ClearDrain(m, c) = c \/ (ClearDrain(m, c).drain = {} /\ ClearDrain(m, c).held = {})
         /\ ClearCordoned(m, c).spec = c.spec
         /\ ClearCordoned(m, c).drain = c.drain /\ ClearCordoned(m, c).held = c.held
         /\ \/ ClearCordoned(m, c) = c
            \/ ClearCordoned(m, c).cord = {} /\ ClearCordoned(m, c).at = 0
<1>1. {} \in SUBSET Ordinals /\ {} \in SUBSET Ids /\ 0 \in 0 .. MaxCordons
  BY Constants, SMT
<1>2. Drains([c EXCEPT !.drain = {}, !.held = {}], c, {}, {})
  BY <1>1, DrainWrite
<1>3. Cordons([c EXCEPT !.cord = {}, !.at = NoTime], c, {}, NoTime)
  BY <1>1, CordonWrite DEF NoTime
<1> QED
  BY <1>2, <1>3 DEF ClearDrain, ClearCordoned, Same, Drains, Cordons, NoTime

LEMMA ClearsRecords ==
  ASSUME NEW m \in Clusters, NEW c \in Clusters, NEW r \in ClearRecords(m, c)
  PROVE  /\ r.stored \in Clusters /\ r.copied \in Clusters
         /\ r.stored.spec = c.spec /\ r.copied.spec = m.spec
         /\ \/ r.stored.cord = c.cord /\ r.stored.at = c.at /\ r.stored.drain = c.drain
            \/ r.stored.cord \in {c.cord, {}} /\ r.stored.at \in {c.at, 0}
         /\ m.cord = c.cord => r.stored = c \/ r.stored.cord = {}
<1> DEFINE a == ClearCordoned(m, c)
           b == ClearCordoned(m, m)
<1>1. /\ r.stored \in {ClearDrain(m, a), a, c} /\ r.copied \in {ClearDrain(m, b), b}
  BY SMT DEF ClearRecords
<1>2. a \in Clusters /\ b \in Clusters
  BY Clears
<1>3. /\ ClearDrain(m, a) \in Clusters /\ Same(ClearDrain(m, a), a)
      /\ ClearDrain(m, b) \in Clusters /\ Same(ClearDrain(m, b), b)
  BY <1>2, Clears
<1>4. /\ a.spec = c.spec /\ b.spec = m.spec /\ a.cord \in {c.cord, {}} /\ a.at \in {c.at, 0}
  BY Clears, SMT
<1>5. m.cord = c.cord => a.cord = {}
  BY SMT DEF ClearCordoned, Clusters
<1> HIDE DEF a, b
<1> QED
  BY <1>1, <1>2, <1>3, <1>4, <1>5 DEF Same

\* The drain set of a step with targets, stored and copied.
LEMMA StoredIs ==
  ASSUME TypeOK, HasTargets
  PROVE  /\ Same(Stored, obj) /\ Same(Copied, copy)
         /\ Copied.drain = Targets
         /\ copy.drain = obj.drain /\ copy.held = obj.held => Stored.drain = Targets
<1>1. obj \in Clusters /\ copy \in Clusters /\ ScalingDown
  BY Sets DEF HasTargets, DrainDecides, Draining
<1>2. Same(FirstHold(obj), obj) /\ Same(FirstHold(copy), copy)
  BY <1>1, FirstHolds
<1>3. copy.drain = obj.drain /\ copy.held = obj.held
        => FirstHold(obj).drain = FirstHold(copy).drain /\ FirstHold(obj).held = FirstHold(copy).held
  BY <1>1, FirstHolds
<1> DEFINE m == FirstHold(copy)
           c == FirstHold(obj)
<1>4. m \in Clusters /\ c \in Clusters
  BY <1>2 DEF Same
<1>5. Same(Stored, c) /\ Same(Copied, m)
  BY <1>4, SetsServers DEF Stored, Copied
<1>6. /\ Copied.drain = Targets
      /\ m.drain = c.drain /\ m.held = c.held => Stored.drain = Targets
  BY <1>4, SetsServers DEF Stored, Copied
<1> QED
  BY <1>2, <1>3, <1>5, <1>6 DEF Same

\* What a drain step stores and copies.
Passes == [at : {"idle", "drain", "apply"}, copy : Clusters]
Ends(stored, copied) ==
  /\ obj' = stored /\ op'.copy = copied /\ op'.at = "apply" /\ op' \in Passes
  /\ stored \in Clusters /\ copied \in Clusters
  /\ stored.spec = obj.spec /\ copied.spec = copy.spec
  /\ UNCHANGED <<cache, seen, used, kube>>

LEMMA EndsIs ==
  ASSUME NEW stored \in Clusters, NEW copied \in Clusters, DrainEnds(stored, copied),
         stored.spec = obj.spec, copied.spec = copy.spec
  PROVE  Ends(stored, copied)
  BY DEF DrainEnds, Ends, Passes

Rest == copy.cord \ Keep
GivenAt(c) == IF Rest = {} THEN NoTime ELSE c.at
GivenOf(c) == [c EXCEPT !.cord = Rest, !.at = GivenAt(c)]
LEMMA GivenIs ==
  ASSUME TypeOK, NEW c \in Clusters
  PROVE  Cordons(GivenOf(c), c, Rest, GivenAt(c))
<1>1. Rest \in SUBSET Ids /\ GivenAt(c) \in 0 .. MaxCordons
  BY Sets, Constants, SMT DEF Rest, GivenAt, NoTime, Clusters
<1> QED
  BY <1>1, CordonWrite DEF GivenOf

LEMMA RecordIs ==
  ASSUME TypeOK, NEW c \in Clusters
  PROVE  Cordons(RecordCordon(c), c, copy.cord \cup ToCordon, Now)
<1>1. copy.cord \cup ToCordon \in SUBSET Ids /\ Now \in 0 .. MaxCordons
  BY Sets DEF ToCordon, Clusters
<1> QED
  BY <1>1, CordonWrite DEF RecordCordon

\* A step that sets the server states.
LEMMA SrvTypes ==
  ASSUME TypeOK, NEW S, NEW v \in States, srv' = [id \in Ids |-> IF id \in S THEN v ELSE srv[id]]
  PROVE  srv' \in [Ids -> States]
  BY DEF TypeOK

\* How each step of the drain ends.
LEMMA DrainEffect ==
  ASSUME TypeOK, Drain
  PROVE  /\ op.at = "drain" /\ UNCHANGED <<cache, seen, used, kube, hosts>>
         /\ obj' \in Clusters /\ obj'.spec = obj.spec
         /\ op' \in Passes /\ op'.copy.spec = copy.spec /\ op'.at # "idle"
         /\ op'.at = "drain" => GiveBackKept
<1>0. /\ obj \in Clusters /\ copy \in Clusters /\ Same(FirstHold(obj), obj)
      /\ Same(FirstHold(copy), copy)
  BY Sets, FirstHolds
<1> DEFINE Goal(stored, copied) == /\ DrainEnds(stored, copied) /\ stored \in Clusters
                                   /\ copied \in Clusters /\ stored.spec = obj.spec
                                   /\ copied.spec = copy.spec
<1>1. ASSUME NEW stored, NEW copied, Goal(stored, copied), op.at = "drain", hosts' = hosts
      PROVE  /\ op.at = "drain" /\ UNCHANGED <<cache, seen, used, kube, hosts>>
             /\ obj' \in Clusters /\ obj'.spec = obj.spec
             /\ op' \in Passes /\ op'.copy.spec = copy.spec /\ op'.at = "apply"
  BY <1>1, EndsIs DEF Ends
<1>2. CASE DrainNothing
  <2>1. Goal(ClearDrain(copy, obj), ClearDrain(copy, copy))
    BY <1>0, <1>2, Clears, SMT DEF DrainNothing, Same
  <2> QED
    BY <1>1, <1>2, <2>1 DEF DrainNothing, neo4j
<1>3. CASE DrainUnreached \/ RefuseSetBack
  <2>1. \/ Goal(obj, FirstHold(copy)) \/ Goal(FirstHold(obj), FirstHold(copy))
        \/ Goal(obj, copy)
    BY <1>0, <1>3 DEF DrainUnreached, RefuseSetBack, Same
  <2> QED
    BY <1>1, <1>3, <2>1 DEF DrainUnreached, RefuseSetBack, AsksServers, neo4j
<1>4. CASE SetBack
  <2>1. Goal(obj, copy) \/ \E r \in ClearRecords(copy, obj) : Goal(r.stored, r.copied)
    BY <1>0, <1>4, ClearsRecords, SMT DEF SetBack
  <2> QED
    BY <1>1, <1>4, <2>1 DEF SetBack, AsksServers, Enable
<1>5. CASE GiveBackKept
  <2>0. /\ GivenOf(copy) \in Clusters /\ GivenOf(copy).spec = copy.spec
        /\ GivenOf(obj) \in Clusters /\ GivenOf(obj).spec = obj.spec
    BY <1>0, GivenIs DEF Cordons
  <2>1. hosts' = hosts /\ op.at = "drain"
    BY <1>5 DEF GiveBackKept, Enable, Draining, AsksServers
  <2>2. \/ Goal(obj, copy) \/ Goal(obj, GivenOf(copy))
        \/ /\ obj' = GivenOf(obj) /\ op' = [op EXCEPT !.copy = GivenOf(copy)]
           /\ UNCHANGED <<cache, seen, used, kube>>
    BY <1>0, <1>5, <2>0 DEF GiveBackKept, GivenOf, GivenAt, Rest
  <2>3. ASSUME obj' = GivenOf(obj), op' = [op EXCEPT !.copy = GivenOf(copy)]
        PROVE  /\ obj' \in Clusters /\ obj'.spec = obj.spec
               /\ op' \in Passes /\ op'.copy.spec = copy.spec /\ op'.at = "drain"
    <3>1. op \in Passes
      BY DEF TypeOK, Passes
    <3>2. op'.copy = GivenOf(copy) /\ op'.at = "drain" /\ op' \in Passes
      BY <2>0, <2>1, <2>3, <3>1 DEF Passes
    <3> QED
      BY <2>0, <2>3, <3>2
  <2> QED
    BY <1>1, <1>5, <2>1, <2>2, <2>3
<1>6. CASE DrainComplete
  <2>1. \E r \in ClearRecords(FirstHold(copy), FirstHold(obj)) : Goal(r.stored, r.copied)
    BY <1>0, <1>6, ClearsRecords, SMT DEF DrainComplete, Same
  <2> QED
    BY <1>1, <1>6, <2>1 DEF DrainComplete, DrainDecides, Draining, AsksServers, neo4j
<1>7. CASE DrainUndecided
  <2>1. /\ Same(HoldPods(FirstHold(copy), FirstHold(obj)), FirstHold(obj))
        /\ Same(HoldPods(FirstHold(copy), FirstHold(copy)), FirstHold(copy))
    BY <1>0, HoldsPods, SMT DEF Same
  <2>2. Goal(HoldPods(FirstHold(copy), FirstHold(obj)), HoldPods(FirstHold(copy), FirstHold(copy)))
    BY <1>0, <1>7, <2>1 DEF DrainUndecided, Same
  <2> QED
    BY <1>1, <1>7, <2>2 DEF DrainUndecided, DrainDecides, Draining, AsksServers, neo4j
<1>8. CASE DrainBlocked \/ DrainSettles \/ DrainDeallocate \/ DrainDrop \/ DrainWaits
  <2>1. HasTargets /\ op.at = "drain"
    BY <1>8 DEF DrainBlocked, DrainSettles, DrainDeallocate, DrainDrop, DrainWaits, DrainAllowed,
       HasTargets, DrainDecides, Draining, AsksServers
  <2>2. Goal(Stored, Copied) \/ Goal(FirstHold(obj), Copied)
    BY <1>0, <1>8, <2>1, StoredIs DEF Same, DrainBlocked, DrainSettles, DrainDeallocate, DrainDrop,
       DrainWaits
  <2> QED
    BY <1>1, <1>8, <2>1, <2>2 DEF DrainBlocked, DrainSettles, DrainDeallocate, DrainDrop, DrainWaits,
       neo4j
<1>9. CASE DrainCordon
  <2>1. HasTargets /\ op.at = "drain"
    BY <1>9 DEF DrainCordon, DrainAllowed, HasTargets, DrainDecides, Draining, AsksServers
  <2>2. Stored \in Clusters /\ Copied \in Clusters /\ Stored.spec = obj.spec /\ Copied.spec = copy.spec
    BY <2>1, StoredIs DEF Same
  <2>3. Goal(RecordCordon(Stored), RecordCordon(Copied))
    BY <1>9, <2>2, RecordIs DEF DrainCordon, Cordons
  <2> QED
    BY <1>1, <1>9, <2>1, <2>3 DEF DrainCordon
<1> QED
  BY <1>2, <1>3, <1>4, <1>5, <1>6, <1>7, <1>8, <1>9 DEF Drain

\* What a drain step does in Neo4j.
LEMMA DrainNeo4j ==
  ASSUME TypeOK, Drain
  PROVE  /\ srv' \in [Ids -> States] /\ since' \in [Ids -> 0 .. MaxCordons]
         /\ hand' \subseteq hand /\ known' \subseteq Ids
         /\ clock' \in [cordons : 0 .. MaxCordons, settled : 0 .. MaxCordons]
<1>0. known' \subseteq Ids
  <2>1. known' = Named \/ known' = known
    BY DEF Drain, DrainNothing, DrainUnreached, RefuseSetBack, SetBack, GiveBackKept,
       DrainComplete, DrainUndecided, DrainBlocked, DrainCordon, DrainSettles, DrainDeallocate,
       DrainDrop, DrainWaits, DrainAllowed, HasTargets, DrainDecides, Draining, AsksServers
  <2> QED
    BY <2>1, Sets DEF TypeOK
<1>1. CASE UNCHANGED <<clock, neo4j>>
  BY <1>0, <1>1 DEF neo4j, TypeOK
<1>2. CASE SetBack \/ GiveBackKept
  <2>1. clock' = clock /\ since' = since /\ hand' \subseteq hand
    BY <1>2 DEF SetBack, GiveBackKept, Enable
  <2>2. PICK S : srv' = [id \in Ids |-> IF id \in S THEN "Enabled" ELSE srv[id]]
    BY <1>2 DEF SetBack, GiveBackKept, Enable
  <2>3. "Enabled" \in States
    BY DEF States
  <2> QED
    BY <1>0, <2>1, <2>2, <2>3, SrvTypes DEF TypeOK
<1>3. CASE DrainCordon
  <2>1. PICK S : /\ srv' = [id \in Ids |-> IF id \in S THEN "Cordoned" ELSE srv[id]]
                 /\ since' = [id \in Ids |-> IF id \in S THEN Now ELSE since[id]]
    BY <1>3 DEF DrainCordon
  <2>2. clock' = [clock EXCEPT !.cordons = Now] /\ hand' = hand
    BY <1>3 DEF DrainCordon
  <2>3. clock' \in [cordons : 0 .. MaxCordons, settled : 0 .. MaxCordons]
    BY <2>2, Sets DEF TypeOK
  <2>4. since' \in [Ids -> 0 .. MaxCordons]
    BY <2>1, Sets DEF TypeOK
  <2>5. "Cordoned" \in States
    BY DEF States
  <2> QED
    BY <1>0, <2>1, <2>2, <2>3, <2>4, <2>5, SrvTypes
<1>4. CASE DrainDeallocate \/ DrainDrop
  <2>1. UNCHANGED <<clock, hand, since>>
    BY <1>4 DEF DrainDeallocate, DrainDrop
  <2>2. "Deallocating" \in States /\ "Dropped" \in States
    BY DEF States
  <2>3. CASE DrainDeallocate
    BY <1>0, <2>1, <2>2, <2>3, SrvTypes DEF TypeOK, DrainDeallocate
  <2>4. CASE DrainDrop
    <3>1. PICK S : srv' = [id \in Ids |-> IF id \in S THEN "Dropped" ELSE srv[id]]
      BY <2>4 DEF DrainDrop
    <3> QED
      BY <1>0, <2>1, <2>2, <3>1, SrvTypes DEF TypeOK
  <2> QED
    BY <1>4, <2>3, <2>4
<1> QED
  BY <1>1, <1>2, <1>3, <1>4
     DEF Drain, DrainNothing, DrainUnreached, RefuseSetBack, DrainComplete, DrainUndecided,
         DrainBlocked, DrainSettles, DrainWaits

\* A pod runs on a volume of its ordinal.
Mounted == \A o \in Ordinals : pods[o] # "none" => vol[o].gen # NoVolume
TypeInv == TypeOK /\ Mounted

LEMMA TypeInit == Init => TypeInv
<1> SUFFICES ASSUME Init PROVE TypeInv
  OBVIOUS
<1>1. Settled(MaxServers) \in Clusters
  BY Constants, SMT DEF Settled, Clusters, NoTime
<1>2. /\ vol \in [Ordinals -> [gen : 0 .. MaxGens, reclaimed : BOOLEAN]]
      /\ clock \in [cordons : 0 .. MaxCordons, settled : 0 .. MaxCordons]
      /\ used \in [edits : 0 .. MaxEdits, lost : 0 .. MaxLost, hand : 0 .. MaxHand]
      /\ since \in [Ids -> 0 .. MaxCordons] /\ srv \in [Ids -> States]
      /\ pods \in [Ordinals -> {"none", "starting", "up", "terminating"}]
  BY Constants, SMT DEF Init, States
<1>3. \A o \in Ordinals : First(o) \in Ids
  BY Constants, SMT DEF First, Ids
<1> QED
  BY <1>1, <1>2, <1>3, Constants, SMT DEF Init, TypeOK, Idle, TypeInv, Mounted, NoVolume

LEMMA TypeStep == TypeInv /\ [Next]_vars => TypeOK'
<1> SUFFICES ASSUME TypeOK, Mounted, [Next]_vars PROVE TypeOK'
  BY DEF TypeInv
<1>0. /\ op \in Passes /\ Idle \in Passes /\ obj \in Clusters /\ cache \in Clusters
  <2>1. Settled(MaxServers) \in Clusters
    BY Constants, SMT DEF Settled, Clusters, NoTime
  <2> QED
    BY <2>1 DEF TypeOK, Passes, Idle
<1>1. CASE Drain
  BY <1>1, DrainEffect, DrainNeo4j DEF TypeOK, Passes, kube
<1>2. CASE PassBegins
  <2>1. [cache EXCEPT !.spec = HeldCount] \in Clusters
    BY <1>0, HeldCounts, CountWrite DEF Resizes
  <2>2. op' \in Passes
    BY <1>2, <2>1 DEF PassBegins, Passes
  <2> QED
    BY <1>2, <2>2 DEF PassBegins, TypeOK, Passes, kube, neo4j
<1>3. CASE ApplySts
  <2>1. replicas' \in 1 .. MaxServers
    BY <1>3 DEF ApplySts, TypeOK, copy, Clusters
  <2> QED
    BY <1>0, <1>3, <2>1 DEF ApplySts, TypeOK, Passes, neo4j
<1>4. CASE SyncCache \/ SyncSts \/ Crash
  BY <1>0, <1>4 DEF SyncCache, SyncSts, Crash, TypeOK, Passes, kube, neo4j
<1>5. CASE SettleEnds
  <2>1. clock' \in [cordons : 0 .. MaxCordons, settled : 0 .. MaxCordons]
    BY <1>5, Constants, SMT DEF SettleEnds, TypeOK
  <2> QED
    BY <1>5, <2>1 DEF SettleEnds, TypeOK, kube, neo4j
<1>6. CASE ForgetAddresses
  BY <1>6 DEF ForgetAddresses, TypeOK, kube, neo4j
<1>7. ASSUME NEW o \in Ordinals, CreatePod(o) PROVE TypeOK'
  <2>1. pods' \in [Ordinals -> {"none", "starting", "up", "terminating"}]
    BY <1>7 DEF CreatePod, TypeOK
  <2>2. vol' \in [Ordinals -> [gen : 0 .. MaxGens, reclaimed : BOOLEAN]]
    <3>1. PICK g \in 1 .. MaxGens : vol' = [vol EXCEPT ![o] = [gen |-> g, reclaimed |-> FALSE]]
      BY <1>7 DEF CreatePod
    <3>2. [gen |-> g, reclaimed |-> FALSE] \in [gen : 0 .. MaxGens, reclaimed : BOOLEAN]
      BY Constants, SMT
    <3> QED
      BY <3>1, <3>2 DEF TypeOK
  <2> QED
    BY <1>7, <2>1, <2>2 DEF CreatePod, TypeOK, neo4j
<1>8. ASSUME NEW o \in Ordinals, StartPod(o) PROVE TypeOK'
  <2>1. pods' \in [Ordinals -> {"none", "starting", "up", "terminating"}]
    BY <1>8 DEF StartPod, TypeOK
  <2>2. srv' \in [Ids -> States] /\ hosts' \subseteq Ids
    <3>1. vol[o].gen \in 1 .. MaxGens
      BY <1>8, Constants, SMT DEF StartPod, TypeOK, Mounted, NoVolume
    <3>2. Identity(o) \in Ids
      BY <3>1 DEF Identity, Ids
    <3> QED
      BY <1>8, <3>2, SMT DEF StartPod, TypeOK, States
  <2> QED
    BY <1>8, <2>1, <2>2 DEF StartPod, TypeOK
<1>9. ASSUME NEW o \in Ordinals, CondemnPod(o) \/ VolumeGone(o) PROVE TypeOK'
  <2>1. pods' \in [Ordinals -> {"none", "starting", "up", "terminating"}]
    BY <1>9 DEF CondemnPod, VolumeGone, TypeOK
  <2>2. vol' \in [Ordinals -> [gen : 0 .. MaxGens, reclaimed : BOOLEAN]]
    <3>1. PICK v : vol' = [vol EXCEPT ![o] = v] /\ v \in [gen : 0 .. MaxGens, reclaimed : BOOLEAN]
      <4>1. CASE CondemnPod(o)
        <5>1. vol[o] \in [gen : 0 .. MaxGens, reclaimed : BOOLEAN]
          BY DEF TypeOK
        <5>2. [vol[o] EXCEPT !.reclaimed = TRUE] \in [gen : 0 .. MaxGens, reclaimed : BOOLEAN]
          BY <5>1
        <5>3. vol' = [vol EXCEPT ![o] = [vol[o] EXCEPT !.reclaimed = TRUE]]
          BY <4>1 DEF CondemnPod
        <5> QED
          BY <5>2, <5>3
      <4>2. CASE VolumeGone(o)
        <5>1. [gen |-> NoVolume, reclaimed |-> FALSE] \in [gen : 0 .. MaxGens, reclaimed : BOOLEAN]
          BY Constants, SMT DEF NoVolume
        <5> QED
          BY <4>2, <5>1 DEF VolumeGone
      <4> QED
        BY <1>9, <4>1, <4>2
    <3> QED
      BY <3>1 DEF TypeOK
  <2> QED
    BY <1>9, <2>1, <2>2, SMT DEF CondemnPod, VolumeGone, TypeOK, neo4j
<1>10. ASSUME NEW o \in Ordinals, PodGone(o) PROVE TypeOK'
  <2>1. pods' \in [Ordinals -> {"none", "starting", "up", "terminating"}]
    BY <1>10 DEF PodGone, TypeOK
  <2>2. srv' \in [Ids -> States]
    BY <1>10 DEF PodGone, TypeOK, States
  <2> QED
    BY <1>10, <2>1, <2>2 DEF PodGone, TypeOK
<1>11. ASSUME NEW o \in Ordinals, LosePod(o) PROVE TypeOK'
  <2>1. pods' \in [Ordinals -> {"none", "starting", "up", "terminating"}]
    BY <1>11 DEF LosePod, TypeOK
  <2>2. used' \in [edits : 0 .. MaxEdits, lost : 0 .. MaxLost, hand : 0 .. MaxHand]
    BY <1>11, Constants, SMT DEF LosePod, TypeOK
  <2> QED
    BY <1>11, <2>1, <2>2 DEF LosePod, TypeOK, neo4j
<1>12. ASSUME NEW id \in Ids, Relocated(id) PROVE TypeOK'
  BY <1>12 DEF Relocated, TypeOK, kube
<1>13. ASSUME NEW id \in Ids, CordonByHand(id) PROVE TypeOK'
  <2>1. srv' \in [Ids -> States] /\ hand' \subseteq Ids
    BY <1>13 DEF CordonByHand, TypeOK, States
  <2>2. used' \in [edits : 0 .. MaxEdits, lost : 0 .. MaxLost, hand : 0 .. MaxHand]
    BY <1>13, Constants, SMT DEF CordonByHand, TypeOK
  <2> QED
    BY <1>13, <2>1, <2>2 DEF CordonByHand, TypeOK, kube
<1>14. ASSUME NEW n \in Sizes, EditServers(n) PROVE TypeOK'
  <2>1. obj' \in Clusters
    BY <1>0, <1>14, CountWrite, Constants DEF EditServers, Resizes
  <2>2. used' \in [edits : 0 .. MaxEdits, lost : 0 .. MaxLost, hand : 0 .. MaxHand]
    BY <1>14, Constants, SMT DEF EditServers, TypeOK
  <2> QED
    BY <1>14, <2>1, <2>2 DEF EditServers, TypeOK, kube, neo4j
<1>15. CASE UNCHANGED vars
  BY <1>15 DEF vars, TypeOK, kube, neo4j
<1> QED
  BY <1>1, <1>2, <1>3, <1>4, <1>5, <1>6, <1>7, <1>8, <1>9, <1>10, <1>11, <1>12, <1>13, <1>14, <1>15
     DEF Next, Environment, Kubernetes

LEMMA MountedStep == TypeInv /\ [Next]_vars => Mounted'
<1> SUFFICES ASSUME TypeOK, Mounted, [Next]_vars PROVE Mounted'
  BY DEF TypeInv
<1>1. CASE pods' = pods /\ vol' = vol
  BY <1>1 DEF Mounted
<1>2. ASSUME NEW o \in Ordinals, CreatePod(o) PROVE Mounted'
  BY <1>2, SMT DEF CreatePod, Mounted, TypeOK, NoVolume
<1>3. ASSUME NEW o \in Ordinals, StartPod(o) \/ CondemnPod(o) \/ PodGone(o) PROVE Mounted'
  <2>1. \A n \in Ordinals : vol'[n].gen = vol[n].gen
    BY <1>3, SMT DEF StartPod, CondemnPod, PodGone, TypeOK
  <2>2. \A n \in Ordinals : pods[n] = "none" => pods'[n] = "none"
    BY <1>3 DEF StartPod, CondemnPod, PodGone, TypeOK
  <2> QED
    BY <2>1, <2>2 DEF Mounted
<1>4. ASSUME NEW o \in Ordinals, VolumeGone(o) PROVE Mounted'
  BY <1>4 DEF VolumeGone, Mounted, TypeOK
<1>5. ASSUME NEW o \in Ordinals, LosePod(o) PROVE Mounted'
  BY <1>5 DEF LosePod, Mounted, TypeOK
<1>6. CASE Drain
  BY <1>1, <1>6, DrainEffect DEF kube
<1> QED
  BY <1>1, <1>2, <1>3, <1>4, <1>5, <1>6
     DEF Next, Environment, Kubernetes, vars, kube, SyncCache, SyncSts, PassBegins, ApplySts, Crash,
         SettleEnds, ForgetAddresses, Relocated, CordonByHand, EditServers

\* Every variable keeps its type: the replicas and every count a pass works on stay
\* between 1 and the largest size, whatever is left over of removed servers.
THEOREM TypeCorrect == Spec => []TypeOK
<1>1. TypeInv /\ [Next]_vars => TypeInv'
  BY TypeStep, MountedStep DEF TypeInv
<1>2. TypeInv => TypeOK
  BY DEF TypeInv
<1> QED
  BY <1>1, <1>2, TypeInit, PTL DEF Spec

-----------------------------------------------------------------------------
(* Volumes: a raised count waits for what removed servers left.            *)

\* A pod that goes takes its volume along, and one that was lost keeps it: an ordinal
\* without a pod has no volume, or one that was handed to a removed pod, and such an
\* ordinal is above the replicas.
VolumeOf(o) ==
  /\ pods[o] = "terminating" => vol[o].reclaimed
  /\ pods[o] = "none" => (vol[o].reclaimed \/ vol[o].gen = NoVolume)
  /\ vol[o].reclaimed => o >= replicas

\* A pass that raises the count does so over ordinals with nothing left.
FreshOf(o) ==
  op.at # "idle" /\ o >= replicas /\ o < copy.spec => (pods[o] = "none" /\ ~vol[o].reclaimed)
VolumeInv == \A o \in Ordinals : VolumeOf(o) /\ FreshOf(o)

LEMMA VolumeInit == Init => VolumeInv
  BY Constants, SMT DEF Init, VolumeInv, VolumeOf, FreshOf, Ordinals, Idle

LEMMA VolumeStep == TypeOK /\ VolumeInv /\ [Next]_vars => VolumeInv'
<1> SUFFICES ASSUME TypeOK, VolumeInv, [Next]_vars PROVE VolumeInv'
  OBVIOUS
<1>0. replicas \in Nat /\ copy.spec \in Nat /\ Ordinals \subseteq Nat
  BY Sets, Constants, SMT DEF Ordinals
<1>1. CASE UNCHANGED <<op, kube>>
  <2>1. UNCHANGED <<op, copy, replicas, pods, vol>>
    BY <1>1 DEF kube, copy
  <2> QED
    BY <2>1 DEF VolumeInv, VolumeOf, FreshOf
<1>2. CASE Crash
  BY <1>2 DEF Crash, kube, Idle, VolumeInv, VolumeOf, FreshOf
<1>3. CASE Drain
  <2>1. UNCHANGED <<replicas, pods, vol>> /\ op.at # "idle" /\ copy'.spec = copy.spec
    BY <1>3, DrainEffect DEF kube, copy
  <2> QED
    BY <2>1 DEF VolumeInv, VolumeOf, FreshOf
<1>4. CASE PassBegins
  <2>1. UNCHANGED <<replicas, pods, vol>> /\ copy'.spec = HeldCount
    BY <1>4, CountWrite, HeldCounts, Sets DEF PassBegins, kube, copy, Resizes
  <2>2. ASSUME NEW o \in Ordinals, o >= replicas, o < HeldCount PROVE pods[o] = "none" /\ ~vol[o].reclaimed
    <3>1. o \in replicas .. HeldCount - 1
      BY <1>0, <2>2, HeldCounts, SMT
    <3> QED
      BY <3>1, HeldCounts DEF Leftover
  <2> QED
    BY <2>1, <2>2 DEF VolumeInv, VolumeOf, FreshOf
<1>5. CASE ApplySts
  <2>1. pods' = pods /\ vol' = vol /\ op'.at = "idle" /\ op.at # "idle"
    BY <1>5 DEF ApplySts, Idle
  <2>2. replicas' = replicas \/ replicas' = copy.spec
    BY <1>5 DEF ApplySts
  <2>3. ASSUME NEW o \in Ordinals PROVE VolumeOf(o)'
    <3>1. vol[o].reclaimed => o >= replicas /\ ~(op.at # "idle" /\ o >= replicas /\ o < copy.spec)
      BY DEF VolumeInv, VolumeOf, FreshOf
    <3>2. vol[o].reclaimed => o >= copy.spec
      BY <1>0, <2>1, <3>1, SMT
    <3>3. vol[o].reclaimed => o >= replicas'
      BY <2>2, <3>1, <3>2
    <3> QED
      BY <2>1, <3>3 DEF VolumeInv, VolumeOf
  <2> QED
    BY <2>1, <2>3 DEF VolumeInv, FreshOf
<1>6. ASSUME NEW o \in Ordinals, \/ CreatePod(o) \/ StartPod(o) \/ CondemnPod(o) \/ PodGone(o)
                                \/ VolumeGone(o) \/ LosePod(o)
      PROVE  VolumeInv'
  <2>1. UNCHANGED <<op, copy, replicas>>
    BY <1>6 DEF CreatePod, StartPod, CondemnPod, PodGone, VolumeGone, LosePod, copy
  <2>2. \A n \in Ordinals : n # o => pods'[n] = pods[n] /\ vol'[n] = vol[n]
    BY <1>6 DEF CreatePod, StartPod, CondemnPod, PodGone, VolumeGone, LosePod, TypeOK
  <2>3. VolumeOf(o) /\ FreshOf(o)
    BY DEF VolumeInv
  <2>4. CASE CreatePod(o)
    <3>1. pods'[o] = "starting" /\ ~vol'[o].reclaimed /\ o < replicas
      BY <2>4, SMT DEF CreatePod, TypeOK
    <3>2. ~(o >= replicas)
      BY <1>0, <3>1, SMT
    <3> QED
      BY <2>1, <2>2, <3>1, <3>2 DEF VolumeInv, VolumeOf, FreshOf
  <2>5. CASE StartPod(o) \/ LosePod(o)
    <3>1. pods[o] # "none" /\ pods'[o] \in {"starting", "up"} /\ vol' = vol
      BY <2>5 DEF StartPod, LosePod, TypeOK
    <3> QED
      BY <2>1, <2>2, <2>3, <3>1 DEF VolumeInv, VolumeOf, FreshOf
  <2>6. CASE CondemnPod(o)
    <3>1. pods[o] # "none" /\ pods'[o] = "terminating" /\ vol'[o].reclaimed /\ o >= replicas
      BY <2>6, SMT DEF CondemnPod, TypeOK
    <3> QED
      BY <2>1, <2>2, <2>3, <3>1 DEF VolumeInv, VolumeOf, FreshOf
  <2>7. CASE PodGone(o)
    <3>1. pods[o] = "terminating" /\ pods'[o] = "none" /\ vol' = vol
      BY <2>7 DEF PodGone, TypeOK
    <3> QED
      BY <2>1, <2>2, <2>3, <3>1 DEF VolumeInv, VolumeOf, FreshOf
  <2>8. CASE VolumeGone(o)
    <3>1. pods[o] = "none" /\ pods' = pods /\ ~vol'[o].reclaimed /\ vol'[o].gen = NoVolume
      BY <2>8 DEF VolumeGone, TypeOK
    <3> QED
      BY <2>1, <2>2, <2>3, <3>1 DEF VolumeInv, VolumeOf, FreshOf
  <2> QED
    BY <1>6, <2>4, <2>5, <2>6, <2>7, <2>8
<1> QED
  BY <1>1, <1>2, <1>3, <1>4, <1>5, <1>6
     DEF Next, Environment, Kubernetes, vars, SyncCache, SyncSts, SettleEnds, ForgetAddresses,
         Relocated, CordonByHand, EditServers

\* A pod is created only where no volume is left, so never on that of a dropped server:
\* the count a pass works on stops below the first ordinal above the replicas that has
\* a pod or a handed-over volume, also on old copies of the cluster and the StatefulSet.
THEOREM NoRevivalCorrect == Spec => NoRevival
<1>1. TypeInv /\ VolumeInv /\ [Next]_vars => (TypeInv /\ VolumeInv)'
  BY TypeStep, MountedStep, VolumeStep DEF TypeInv
<1>2. TypeInv /\ VolumeInv /\ [Next]_vars => [RevivalStep]_vars
  <2> SUFFICES ASSUME TypeOK, VolumeInv, [Next]_vars, NEW o \in Ordinals,
                      pods[o] = "none", pods'[o] # "none", vol[o].gen # NoVolume
               PROVE  FALSE
    BY DEF RevivalStep, TypeInv
  <2>1. replicas \in Nat /\ Ordinals \subseteq Nat
    BY Sets, Constants, SMT DEF Ordinals
  <2>2. CASE pods' = pods
    BY <2>2
  <2>3. ASSUME NEW n \in Ordinals, \/ StartPod(n) \/ CondemnPod(n) \/ PodGone(n) \/ LosePod(n)
        PROVE  FALSE
    BY <2>3 DEF StartPod, CondemnPod, PodGone, LosePod, TypeOK
  <2>4. ASSUME NEW n \in Ordinals, CreatePod(n) PROVE FALSE
    <3>1. n = o /\ o < replicas
      BY <2>4 DEF CreatePod, TypeOK
    <3>2. o >= replicas
      BY DEF VolumeInv, VolumeOf
    <3> QED
      BY <2>1, <3>1, <3>2, SMT
  <2>5. CASE Drain
    BY <2>2, <2>5, DrainEffect DEF kube
  <2> QED
    BY <2>2, <2>3, <2>4, <2>5
       DEF Next, Environment, Kubernetes, vars, kube, SyncCache, SyncSts, PassBegins, ApplySts, Crash,
           SettleEnds, ForgetAddresses, Relocated, CordonByHand, EditServers, VolumeGone
<1> QED
  BY <1>1, <1>2, TypeInit, VolumeInit, PTL DEF Spec, NoRevival

=============================================================================
