----------------------- MODULE StorageExpansionProofs -----------------------
(***************************************************************************)
(* That an expansion restarts no server and that every server keeps the    *)
(* revision it runs, for any number of servers.  The types come first.     *)
(***************************************************************************)
EXTENDS StorageExpansion, WellFoundedInduction, TLAPS

\* Zenon proves the steps, and SMT the ones with arithmetic or record updates, by name.
USE Zenon

(* Numbers and the pods that are up.                                       *)

\* A set of numbers has a least element.
LEMMA LeastExists ==
  ASSUME NEW T, T \subseteq Nat, T # {}
  PROVE  \E x \in T : \A y \in T : x <= y
<1> DEFINE R == OpToRel(<, Nat)
<1>1. IsWellFoundedOn(R, Nat)
  BY NatLessThanWellFounded
<1>2. \A x, y \in Nat : <<y, x>> \in R <=> y < x
  BY DEF OpToRel
<1>3. \E x \in T : \A y \in T : ~(<<y, x>> \in R)
  <2> HIDE DEF R
  <2> QED
    BY <1>1, WFMin
<1> HIDE DEF R
<1>4. PICK x \in T : \A y \in T : ~(<<y, x>> \in R)
  BY <1>3
<1>5. \A y \in T : ~(y < x)
  BY <1>2, <1>4
<1> QED
  BY <1>5, SMT

\* A set of ordinals has a greatest element.
LEMMA GreatestExists ==
  ASSUME NEW n \in Nat, NEW T, T \subseteq 0 .. n, T # {}
  PROVE  \E x \in T : \A y \in T : y <= x
<1> DEFINE U == {n - x : x \in T}
<1>1. U \subseteq Nat
  BY SMT DEF U
<1>2. U # {}
  <2>1. PICK x : x \in T
    OBVIOUS
  <2>2. n - x \in U
    BY <2>1
  <2> QED
    BY <2>2
<1>3. PICK u \in U : \A v \in U : u <= v
  <2> HIDE DEF U
  <2> QED
    BY <1>1, <1>2, LeastExists
<1>4. PICK x \in T : u = n - x
  BY <1>3
<1>5. \A y \in T : n - y \in U
  OBVIOUS
<1> HIDE DEF U
<1>6. ASSUME NEW y \in T PROVE y <= x
  <2>1. n - x <= n - y
    BY <1>3, <1>4, <1>5
  <2>2. x \in Int /\ y \in Int
    BY <1>4, SMT
  <2> QED
    BY <2>1, <2>2, SMT
<1> QED
  BY <1>4, <1>6

LEMMA NumbersOf == N \in Nat /\ N >= 1 /\ N - 1 \in Nat /\ Servers = 0 .. N - 1
  BY ExpansionAssumption, SMT DEF Servers

\* The highest and the lowest pod the operator reads are pods.
LEMMA Ends ==
  ASSUME Up # {}
  PROVE  /\ Highest \in Up /\ \A j \in Up : j <= Highest
         /\ Lowest \in Up /\ \A j \in Up : Lowest <= j
<1>1. Up \subseteq 0 .. N - 1 /\ Up \subseteq Nat
  BY NumbersOf, SMT DEF Up
<1>2. \E i \in Up : \A j \in Up : j <= i
  BY <1>1, NumbersOf, GreatestExists
<1>3. \E i \in Up : \A j \in Up : i <= j
  BY <1>1, NumbersOf, LeastExists
<1> QED
  BY <1>2, <1>3 DEF Highest, Lowest

\* With every pod there, they are the last and the first server's.
LEMMA AllUp ==
  ASSUME Up = Servers
  PROVE  Highest = N - 1 /\ Lowest = 0 /\ Up # {}
<1>1. Up = 0 .. N - 1
  BY NumbersOf
<1>2. N - 1 \in Up /\ 0 \in Up
  BY <1>1, NumbersOf, SMT
<1>3. Highest \in Up /\ Lowest \in Up /\ N - 1 <= Highest /\ Lowest <= 0
  BY <1>2, Ends
<1> QED
  BY <1>1, <1>2, <1>3, NumbersOf, SMT

-----------------------------------------------------------------------------
(* Types.                                                                  *)

\* A status that has a current revision has an update revision, and a pass that expands
\* has read a size.
TypeInv ==
    /\ TypeOK
    /\ op.at # "idle" => op.size \in Sizes
    /\ st.update = NoRevision => st.current = NoRevision
    /\ mem.known /\ mem.st.update = NoRevision => mem.st.current = NoRevision

\* What a StatefulSet is created from.
Sources ==
    [tmpl : Revisions, reps : 1 .. N, part : 0 .. N, restore : Restores,
     update : Known, current : Known]

LEMMA Constants ==
  /\ Before \in Revisions /\ Target \in Revisions /\ Before # Target
  /\ NoRevision \notin Revisions /\ NoRevision \in Known /\ Revisions \subseteq Known
  /\ NoRestore \in Restores /\ \A p \in 0 .. N, r \in Revisions : [part |-> p, rev |-> r] # NoRestore
<1>1. /\ Before \in Revisions /\ Target \in Revisions /\ Before # Target
      /\ NoRevision \notin Revisions
  BY DEF Before, Target, NoRevision, Revisions
<1>2. \A p \in 0 .. N, r \in Revisions : [part |-> p, rev |-> r] # NoRestore
  BY <1>1 DEF NoRestore
<1> QED
  BY <1>1, <1>2 DEF Known, Restores

LEMMA LiveType ==
  ASSUME NEW t \in Revisions, NEW p \in 0 .. N, NEW n \in Sizes
  PROVE  Live(t, p, n) \in StatefulSets
  BY NumbersOf, Constants, SMT DEF Live, StatefulSets

LEMMA TypeInit == Init => TypeInv
<1> SUFFICES ASSUME Init PROVE TypeInv
  OBVIOUS
<1>1. /\ size \in Sizes /\ pvc \in [Servers -> Sizes]
      /\ mem \in Memories /\ ~mem.known /\ op.at = "idle"
      /\ op \in [at : {"idle", "delete", "wait"}, size : Sizes \cup {NoSize}]
  BY DEF Init, Memories, NoMemory, Idle
<1>2. used \in [edits : 0 .. MaxEdits, restarts : 0 .. MaxRestarts,
                lost : 0 .. MaxLost, unread : BOOLEAN]
  BY ExpansionAssumption, SMT DEF Init
<1>3. /\ held \in {NotHeld, NotStaged} \cup 0 .. N
      /\ sts \in StatefulSets /\ ran \in [Servers -> Revisions]
  <2>1. CASE /\ held \in {NotHeld, NotStaged}
             /\ sts = Live(Before, 0, size)
             /\ ran = [i \in Servers |-> Before]
    BY <1>1, <2>1, LiveType, Constants, NumbersOf, SMT
  <2>2. CASE \E p \in 0 .. N :
               /\ held \in {p} \cup (IF LaggingRecord /\ p < N THEN {p + 1} ELSE {})
               /\ sts = Live(Target, p, size)
               /\ ran = [i \in Servers |-> IF i < p THEN Before ELSE Target]
    <3>1. PICK p \in 0 .. N :
               /\ held \in {p} \cup (IF LaggingRecord /\ p < N THEN {p + 1} ELSE {})
               /\ sts = Live(Target, p, size)
               /\ ran = [i \in Servers |-> IF i < p THEN Before ELSE Target]
      BY <2>2
    <3>2. held \in 0 .. N
      BY <3>1, NumbersOf, SMT
    <3> QED
      BY <1>1, <3>1, <3>2, LiveType, Constants
  <2> QED
    BY <2>1, <2>2 DEF Init
<1>4. st \in Statuses /\ st.update # NoRevision
  BY <1>3, Constants DEF Init, Statuses, StatefulSets
<1>5. pods \in [Servers -> Known]
  BY <1>3, Constants DEF Init
<1> QED
  BY <1>1, <1>2, <1>3, <1>4, <1>5 DEF TypeInv, TypeOK

LEMMA PodsRead ==
  ASSUME TypeInv
  PROVE  /\ HighestRevision \in Known /\ LowestRevision \in Known
         /\ HighestRevision = NoRevision <=> Up = {}
         /\ LowestRevision = NoRevision <=> Up = {}
         /\ Up # {} => Highest + 1 \in 1 .. N /\ pods[Highest].image \in {"before", "target"}
<1>1. pods \in [Servers -> Known]
  BY DEF TypeInv, TypeOK
<1>2. CASE Up = {}
  BY <1>2, Constants DEF HighestRevision, LowestRevision
<1>3. CASE Up # {}
  <2>1. Highest \in Up /\ Lowest \in Up
    BY <1>3, Ends
  <2>2. Highest \in Servers /\ pods[Highest] \in Revisions
    BY <1>1, <2>1 DEF Up, Known
  <2>3. Lowest \in Servers /\ pods[Lowest] \in Revisions
    BY <1>1, <2>1 DEF Up, Known
  <2>4. Highest + 1 \in 1 .. N
    BY <2>2, NumbersOf, SMT
  <2>5. pods[Highest].image \in {"before", "target"}
    BY <2>2 DEF Revisions
  <2> QED
    BY <1>3, <2>2, <2>3, <2>4, <2>5, Constants DEF HighestRevision, LowestRevision
<1> QED
  BY <1>2, <1>3

LEMMA PartitionType ==
  ASSUME TypeInv, NEW reps \in 1 .. N
  PROVE  partitionForNewServerStatefulSet(reps) \in 0 .. N
<1>1. held \in {NotHeld, NotStaged} \cup 0 .. N
  BY DEF TypeInv, TypeOK
<1> QED
  BY <1>1, NumbersOf, SMT DEF partitionForNewServerStatefulSet, upgradeHeld, NotHeld, NotStaged

LEMMA ImageType ==
  ASSUME TypeInv
  PROVE  serverImageInPlace \in {"before", "target"}
<1>1. sts.tmpl.image \in {"before", "target"}
  BY DEF TypeInv, TypeOK, StatefulSets, Revisions
<1> QED
  BY <1>1, PodsRead DEF serverImageInPlace

LEMMA MemoryType ==
  ASSUME TypeInv, mem.known
  PROVE  mem.sts \in StatefulSets /\ mem.st \in Statuses
<1>1. mem \in [known : {TRUE}, sts : StatefulSets, st : Statuses] \cup {NoMemory}
  BY DEF TypeInv, TypeOK, Memories
<1>2. mem # NoMemory
  BY SMT DEF NoMemory
<1> QED
  BY <1>1, <1>2

LEMMA SourceType ==
  ASSUME TypeInv, NEW read \in BOOLEAN
  PROVE  /\ Source(read) \in Sources
         /\ Source(read).update = NoRevision => Source(read).current = NoRevision
<1>1. CASE mem.known
  <2>1. mem.sts \in StatefulSets /\ mem.st \in Statuses
    BY <1>1, MemoryType
  <2>2. /\ mem.sts.tmpl \in Revisions /\ mem.sts.reps \in 1 .. N /\ mem.sts.part \in 0 .. N
        /\ mem.sts.restore \in Restores
    BY <2>1 DEF StatefulSets
  <2>3. /\ FirstKnown(mem.st.update, HighestRevision) \in Known
        /\ FirstKnown(mem.st.current, LowestRevision) \in Known
    BY <2>1, PodsRead DEF Statuses, FirstKnown
  <2>4. FirstKnown(mem.st.update, HighestRevision) = NoRevision
          => FirstKnown(mem.st.current, LowestRevision) = NoRevision
    BY <1>1, PodsRead DEF FirstKnown, TypeInv
  <2> QED
    BY <1>1, <2>2, <2>3, <2>4 DEF Source, FromMemory, Sources
<1>2. CASE ~mem.known /\ Up # {} /\ read
  <2>1. /\ HighestRevision \in Revisions /\ LowestRevision \in Known /\ Highest + 1 \in 1 .. N
        /\ HighestRevision # NoRevision
    BY <1>2, PodsRead DEF Known
  <2>2. partitionForNewServerStatefulSet(Highest + 1) \in 0 .. N
    BY <2>1, PartitionType
  <2>3. Source(read) = FromRevision
    BY <1>2 DEF Source
  <2> QED
    BY <2>1, <2>2, <2>3, Constants, SMT DEF FromRevision, Sources
<1>3. CASE ~mem.known /\ ~(Up # {} /\ read)
  <2>1. Source(read) = FromSpec
    BY <1>3 DEF Source
  <2>2. [image |-> serverImageInPlace, plugins |-> FALSE] \in Revisions
    BY ImageType DEF Revisions
  <2>3. partitionForNewServerStatefulSet(N) \in 0 .. N
    BY PartitionType, NumbersOf, SMT
  <2> QED
    BY <2>1, <2>2, <2>3, Constants, NumbersOf, SMT DEF FromSpec, Sources
<1> QED
  BY <1>1, <1>2, <1>3

\* What a pass writes of the StatefulSet, its status, the memory and the bounds.
Writes == <<sts, st, mem, used>>
WritesType ==
    /\ sts \in StatefulSets /\ st \in Statuses /\ mem \in Memories
    /\ used \in [edits : 0 .. MaxEdits, restarts : 0 .. MaxRestarts,
                 lost : 0 .. MaxLost, unread : BOOLEAN]
    /\ st.update = NoRevision => st.current = NoRevision
    /\ mem.known /\ mem.st.update = NoRevision => mem.st.current = NoRevision

LEMMA CreateType ==
  ASSUME TypeInv, NEW n \in Sizes, Create(n)
  PROVE  WritesType'
<1>1. PICK read, readBelow \in {TRUE, ~UnreadRevisions} :
         LET s == Source(read)
             c == IF TwoStep(s) /\ readBelow THEN holdBelowPartition(s) ELSE s IN
         /\ sts' = [at |-> "live", tmpl |-> c.tmpl, part |-> c.part,
                    reps |-> c.reps, claim |-> n, restore |-> c.restore]
         /\ mem' = IF c.restore = NoRestore THEN NoMemory ELSE mem
         /\ used' = [used EXCEPT !.unread = @ \/ ~read \/ ~readBelow]
  BY DEF Create
<1>0. read \in BOOLEAN /\ readBelow \in BOOLEAN
  BY ExpansionAssumption
<1> DEFINE s == Source(read)
           c == IF TwoStep(s) /\ readBelow THEN holdBelowPartition(s) ELSE s
<1>2. s \in Sources /\ (s.update = NoRevision => s.current = NoRevision)
  BY <1>0, SourceType
<1>3. /\ c.tmpl \in Revisions /\ c.part \in 0 .. N /\ c.reps \in 1 .. N /\ c.restore \in Restores
  <2> HIDE DEF s
  <2>1. CASE TwoStep(s) /\ readBelow
    <3>1. s.current \in Revisions /\ s.update \in Revisions
      BY <1>2, <2>1 DEF TwoStep, Sources, Known
    <3>2. [part |-> s.part, rev |-> s.update] \in Restores
      BY <1>2, <3>1 DEF Sources, Restores
    <3>3. /\ c.tmpl = s.current /\ c.part = s.reps /\ c.reps = s.reps
          /\ c.restore = [part |-> s.part, rev |-> s.update]
      BY <1>2, <2>1 DEF holdBelowPartition, Sources
    <3> HIDE DEF c
    <3> QED
      BY <1>2, <3>1, <3>2, <3>3, NumbersOf, SMT DEF Sources
  <2>2. CASE ~(TwoStep(s) /\ readBelow)
    BY <1>2, <2>2 DEF Sources
  <2> QED
    BY <2>1, <2>2
<1>4. sts' = [at |-> "live", tmpl |-> c.tmpl, part |-> c.part,
              reps |-> c.reps, claim |-> n, restore |-> c.restore]
  BY <1>1
<1>5. sts' \in StatefulSets
  <2> HIDE DEF c
  <2> QED
    BY <1>3, <1>4 DEF StatefulSets
<1>6. mem' \in {NoMemory, mem}
  BY <1>1
<1>7. used' \in [edits : 0 .. MaxEdits, restarts : 0 .. MaxRestarts,
                 lost : 0 .. MaxLost, unread : BOOLEAN]
  BY <1>0, <1>1 DEF TypeInv, TypeOK
<1>8. st' \in Statuses /\ st'.current = NoRevision
  BY Constants DEF Create, Statuses
<1>9. /\ mem' \in Memories
      /\ mem'.known /\ mem'.st.update = NoRevision => mem'.st.current = NoRevision
  <2>1. CASE mem' = NoMemory
    <3>1. ~mem'.known
      BY <2>1 DEF NoMemory
    <3> QED
      BY <2>1, <3>1 DEF Memories
  <2>2. CASE mem' = mem
    BY <2>2 DEF TypeInv, TypeOK
  <2> QED
    BY <1>6, <2>1, <2>2
<1> QED
  BY <1>5, <1>7, <1>8, <1>9 DEF WritesType

LEMMA NoMemoryType ==
  ASSUME mem' = NoMemory
  PROVE  mem' \in Memories /\ ~mem'.known
  BY DEF NoMemory, Memories

LEMMA StatusKept ==
  ASSUME TypeInv, st' = Unobserved(st)
  PROVE  st' \in Statuses /\ st'.update = st.update /\ st'.current = st.current /\ ~st'.observed
<1>1. st \in Statuses
  BY DEF TypeInv, TypeOK
<1> QED
  BY <1>1 DEF Unobserved, Statuses

LEMMA RestoreType ==
  ASSUME TypeInv, restoreHeldTemplate
  PROVE  WritesType'
<1>1. sts \in StatefulSets /\ sts.restore \in Restores /\ sts.restore # NoRestore
  BY DEF TypeInv, TypeOK, StatefulSets, restoreHeldTemplate, restorePending
<1>2. sts.restore.part \in 0 .. N /\ sts.restore.rev \in Revisions
  BY <1>1 DEF Restores
<1>3. mem.known => mem.sts.tmpl \in Revisions /\ mem.sts.restore \in Restores
  BY MemoryType DEF StatefulSets
<1>4. sts' \in StatefulSets
  <2>1. CASE sts' = [sts EXCEPT !.restore = NoRestore]
    BY <1>1, <2>1, Constants DEF StatefulSets
  <2>2. ASSUME NEW t \in Revisions, NEW q \in Restores,
               sts' = [sts EXCEPT !.tmpl = t, !.part = sts.restore.part, !.restore = q]
        PROVE  sts' \in StatefulSets
    BY <1>1, <1>2, <2>2 DEF StatefulSets
  <2>3. /\ (IF mem.known THEN mem.sts.tmpl ELSE sts.restore.rev) \in Revisions
        /\ (IF mem.known THEN mem.sts.restore ELSE NoRestore) \in Restores
    BY <1>2, <1>3, Constants
  <2> QED
    BY <2>1, <2>2, <2>3 DEF restoreHeldTemplate
<1>5. used' \in [edits : 0 .. MaxEdits, restarts : 0 .. MaxRestarts,
                 lost : 0 .. MaxLost, unread : BOOLEAN]
  BY DEF restoreHeldTemplate, TypeInv, TypeOK
<1>6. mem' \in Memories /\ ~mem'.known
  BY NoMemoryType DEF restoreHeldTemplate
<1>7. st' \in Statuses /\ st'.update = st.update /\ st'.current = st.current
  BY StatusKept DEF restoreHeldTemplate
<1> QED
  BY <1>4, <1>5, <1>6, <1>7 DEF WritesType, TypeInv

LEMMA UpdateType ==
  ASSUME TypeInv, Update
  PROVE  WritesType'
<1>1. sts' \in StatefulSets
  <2>1. sts \in StatefulSets
    BY DEF TypeInv, TypeOK
  <2>2. (IF upgradeHeld THEN sts.part ELSE 0) \in 0 .. N
    BY <2>1, NumbersOf, SMT DEF StatefulSets
  <2>3. ASSUME NEW q \in 0 .. N, sts' = [sts EXCEPT !.reps = N, !.part = q]
        PROVE  sts' \in StatefulSets
    <3>1. N \in 1 .. N
      BY NumbersOf, SMT
    <3> QED
      BY <2>1, <2>3, <3>1 DEF StatefulSets
  <2>4. CASE upgradeHeld
    BY <2>1, <2>3, <2>4 DEF Update, StatefulSets
  <2>5. CASE ~upgradeHeld
    BY <2>2, <2>3, <2>5 DEF Update
  <2> QED
    BY <2>4, <2>5
<1>2. st' \in Statuses /\ st'.update = st.update /\ st'.current = st.current
  BY StatusKept DEF Update
<1> QED
  BY <1>1, <1>2 DEF Update, WritesType, TypeInv, TypeOK

\* Neither a pod nor a claim is of another type.
LEMMA TypeStep == TypeInv /\ [Next]_vars => TypeInv'
<1> SUFFICES ASSUME TypeInv, [Next]_vars PROVE TypeInv'
  OBVIOUS
<1>0. /\ size \in Sizes /\ pvc \in [Servers -> Sizes] /\ sts \in StatefulSets /\ st \in Statuses
      /\ pods \in [Servers -> Known] /\ mem \in Memories
      /\ op \in [at : {"idle", "delete", "wait"}, size : Sizes \cup {NoSize}]
      /\ used \in [edits : 0 .. MaxEdits, restarts : 0 .. MaxRestarts,
                   lost : 0 .. MaxLost, unread : BOOLEAN]
  BY DEF TypeInv, TypeOK
<1>1. CASE Pass
  <2>1. WritesType'
    BY <1>0, <1>1, CreateType, RestoreType, UpdateType DEF Pass, Apply
  <2> QED
    BY <1>1, <2>1 DEF Pass, WritesType, TypeInv, TypeOK
<1>2. CASE expandVolumes
  <2>1. pvc' \in [Servers -> Sizes]
    BY <1>0, <1>2 DEF expandVolumes
  <2>2. /\ op' \in [at : {"idle", "delete", "wait"}, size : Sizes \cup {NoSize}]
        /\ op'.at # "idle" => op'.size \in Sizes
    BY <1>0, <1>2, SMT DEF expandVolumes, Idle
  <2> QED
    BY <1>2, <2>1, <2>2 DEF expandVolumes, TypeInv, TypeOK
<1>3. CASE orphanDeleteStatefulSet
  <2>1. sts' \in StatefulSets
    BY <1>0, <1>3 DEF orphanDeleteStatefulSet, StatefulSets
  <2>2. /\ op' \in [at : {"idle", "delete", "wait"}, size : Sizes \cup {NoSize}]
        /\ op'.at # "idle" => op'.size \in Sizes
    BY <1>0, <1>3, SMT DEF orphanDeleteStatefulSet, Idle, TypeInv
  <2>3. mem' \in Memories /\ (mem'.known /\ mem'.st.update = NoRevision => mem'.st.current = NoRevision)
    <3>1. CASE mem' = mem
      BY <1>0, <3>1 DEF TypeInv
    <3>2. CASE mem' = [known |-> TRUE, sts |-> sts, st |-> st]
      BY <1>0, <3>2 DEF TypeInv, Memories
    <3> QED
      BY <1>3, <3>1, <3>2 DEF orphanDeleteStatefulSet
  <2> QED
    BY <1>3, <2>1, <2>2, <2>3 DEF orphanDeleteStatefulSet, TypeInv, TypeOK
<1>4. CASE CreateAgain
  <2>1. op.size \in Sizes
    BY <1>4 DEF CreateAgain, TypeInv
  <2>2. WritesType' /\ op' = Idle
    BY <1>4, <2>1, CreateType DEF CreateAgain
  <2> QED
    BY <1>4, <2>2, SMT DEF CreateAgain, WritesType, TypeInv, TypeOK, Idle
<1>5. CASE waitStatefulSetGone
  BY <1>5 DEF waitStatefulSetGone, TypeInv, TypeOK, Idle
<1>6. CASE Restart
  <2>1. mem' \in Memories /\ ~mem'.known
    BY <1>6, NoMemoryType DEF Restart
  <2>2. used' \in [edits : 0 .. MaxEdits, restarts : 0 .. MaxRestarts,
                   lost : 0 .. MaxLost, unread : BOOLEAN]
    BY <1>0, <1>6, ExpansionAssumption, SMT DEF Restart
  <2> QED
    BY <1>6, <2>1, <2>2 DEF Restart, TypeInv, TypeOK, Idle
<1>7. CASE ObserveSts
  <2>1. st' \in Statuses /\ st'.update # NoRevision
    <3>1. sts.tmpl \in Revisions /\ FirstKnown(st.current, sts.tmpl) \in Known
      BY <1>0, Constants DEF StatefulSets, Statuses, FirstKnown
    <3> QED
      BY <1>7, <3>1, Constants DEF ObserveSts, Statuses
  <2> QED
    BY <1>7, <2>1 DEF ObserveSts, TypeInv, TypeOK
<1>8. CASE CollectOrphans
  BY <1>8, Constants DEF CollectOrphans, TypeInv, TypeOK, StatefulSets
<1>9. ASSUME NEW i \in Servers, CreatePod(i) \/ UpdatePod(i) \/ LosePod(i) PROVE TypeInv'
  <2>1. RevisionFor(i) \in Known
    BY <1>0, Constants DEF RevisionFor, FirstKnown, StatefulSets, Statuses
  <2>2. pods' \in [Servers -> Known]
    BY <1>0, <1>9, <2>1, Constants DEF CreatePod, UpdatePod, LosePod
  <2>3. used' \in [edits : 0 .. MaxEdits, restarts : 0 .. MaxRestarts,
                   lost : 0 .. MaxLost, unread : BOOLEAN]
    BY <1>0, <1>9, ExpansionAssumption, SMT DEF CreatePod, UpdatePod, LosePod
  <2> QED
    BY <1>9, <2>2, <2>3 DEF CreatePod, UpdatePod, LosePod, TypeInv, TypeOK
<1>10. ASSUME NEW n \in Sizes, EditSize(n) PROVE TypeInv'
  <2>1. used' \in [edits : 0 .. MaxEdits, restarts : 0 .. MaxRestarts,
                   lost : 0 .. MaxLost, unread : BOOLEAN]
    BY <1>0, <1>10, ExpansionAssumption, SMT DEF EditSize
  <2> QED
    BY <1>10, <2>1 DEF EditSize, TypeInv, TypeOK
<1>11. CASE UNCHANGED vars
  BY <1>11 DEF vars, TypeInv, TypeOK
<1> QED
  BY <1>1, <1>2, <1>3, <1>4, <1>5, <1>6, <1>7, <1>8, <1>9, <1>10, <1>11
     DEF Next, Operator, Kubernetes

\* Every variable keeps its type for any number of servers and sizes, whatever fails to be
\* read, is edited or is lost: what the StatefulSet is created from always has a template,
\* a replica count and a partition, also when no pod and no memory of it is left.
THEOREM TypeCorrect == Spec => []TypeOK
<1>1. TypeInv => TypeOK
  BY DEF TypeInv
<1> QED
  BY <1>1, TypeInit, TypeStep, PTL DEF Spec

-----------------------------------------------------------------------------
(* Revisions.  The record of the stopped upgrade is the partition, and     *)
(* neither edits nor lost pods come in the middle of an expansion.         *)

Calm == ~LaggingRecord /\ ~EditsMidway /\ ~LostMidway

\* The servers run what the stopped upgrade left them.
StoppedAt ==
    \/ held \in {NotHeld, NotStaged} /\ \A i \in Servers : ran[i] = Before
    \/ held \in 0 .. N /\ \A i \in Servers : ran[i] = IF i < held THEN Before ELSE Target

\* With this template and partition every server keeps what it runs.
Fits(tmpl, part) ==
    /\ \A i \in Servers : ran[i] = IF i < part THEN Before ELSE tmpl
    /\ part # 0 => tmpl = Target /\ held = part
Whole(s) == s.reps = N /\ s.restore = NoRestore /\ Fits(s.tmpl, s.part)
CurrentOf(s) == IF s.part = 0 THEN s.tmpl ELSE Before
Observed(s, t) == t.update = s.tmpl /\ t.current = CurrentOf(s)

\* The StatefulSet, there or going, is as it was,
Kept ==
    /\ Whole(sts)
    /\ sts.at = "live" /\ st.observed => Observed(sts, st)
    /\ sts.at = "live" => st.current = CurrentOf(sts) \/ (sts.part = 0 /\ st.current = NoRevision)
\* or it is between the two steps of its creation.
Frozen ==
    /\ sts.at = "live" /\ sts.tmpl = Before /\ sts.part = N /\ sts.reps = N
    /\ sts.restore # NoRestore /\ sts.restore.rev = Target
    /\ sts.restore.part # 0 /\ Fits(Target, sts.restore.part)
    /\ mem.known => mem.sts.tmpl = Target
    /\ st.current = Before \/ (~st.observed /\ st.current = NoRevision)
MemoryTrue == mem.known => Whole(mem.sts) /\ Observed(mem.sts, mem.st)

\* An expansion begins with the StatefulSet in place and every pod there, and no pod is
\* missing until it has ended.
Placed == sts.at = "live" /\ ~restorePending /\ st.observed
Smaller == \E i \in Servers : pvc[i] < size
Expanding ==
    /\ Up = Servers \/ (InPlace /\ SizesMatch)
    /\ Smaller \/ op.at = "delete" => Placed
    /\ op.at # "idle" => ~Smaller
OnRevision == \A i \in Servers : pods[i] \in {NoRevision, ran[i]}
Safe == StoppedAt /\ (Kept \/ Frozen) /\ MemoryTrue /\ Expanding /\ OnRevision

LEMMA SafeInit ==
  ASSUME Calm, Init
  PROVE  Safe
<1>0. ~mem.known /\ op = Idle /\ op.at = "idle" /\ pods = ran /\ pvc = [i \in Servers |-> size]
  BY DEF Init, NoMemory, Idle
<1>1. ~Smaller /\ SizesMatch
  <2>1. size \in Nat
    BY ExpansionAssumption DEF Init
  <2> QED
    BY <1>0, <2>1, SMT DEF Smaller, SizesMatch
<1>2. PICK t \in {Before, Target}, p \in 0 .. N :
        /\ sts = Live(t, p, size) /\ StoppedAt /\ Fits(t, p)
  <2>1. CASE /\ held \in {NotHeld, NotStaged}
             /\ sts = Live(Before, 0, size)
             /\ ran = [i \in Servers |-> Before]
    <3>1. StoppedAt /\ Fits(Before, 0)
      BY <2>1 DEF StoppedAt, Fits
    <3> QED
      BY <2>1, <3>1, NumbersOf, SMT
  <2>2. CASE \E p \in 0 .. N :
               /\ held \in {p} \cup (IF LaggingRecord /\ p < N THEN {p + 1} ELSE {})
               /\ sts = Live(Target, p, size)
               /\ ran = [i \in Servers |-> IF i < p THEN Before ELSE Target]
    <3>1. PICK p \in 0 .. N :
               /\ held = p
               /\ sts = Live(Target, p, size)
               /\ ran = [i \in Servers |-> IF i < p THEN Before ELSE Target]
      BY <2>2 DEF Calm
    <3>2. StoppedAt /\ Fits(Target, p)
      BY <3>1 DEF StoppedAt, Fits
    <3> QED
      BY <3>1, <3>2
  <2> QED
    BY <2>1, <2>2 DEF Init
<1>3. /\ sts.at = "live" /\ sts.tmpl = t /\ sts.part = p /\ sts.reps = N
      /\ sts.restore = NoRestore
  BY <1>2 DEF Live
<1>4. st.observed /\ st.update = t /\ st.current = CurrentOf(sts)
  BY <1>3 DEF Init, CurrentOf
<1>5. Kept
  BY <1>2, <1>3, <1>4 DEF Kept, Whole, Observed
<1>6. InPlace /\ OnRevision
  BY <1>0, <1>3, <1>4 DEF InPlace, restorePending, OnRevision
<1> QED
  BY <1>0, <1>1, <1>2, <1>5, <1>6 DEF Safe, MemoryTrue, Expanding

\* What the StatefulSet is created from, when every revision could be read, is what it was.
LEMMA SourceFits ==
  ASSUME TypeInv, Safe, sts.at = "gone"
  PROVE  LET s == Source(TRUE) IN
         /\ Whole(s) /\ Observed(s, s)
         /\ mem.known => mem.sts.tmpl = s.tmpl
<1>1. Up = Servers /\ Up # {} /\ Highest = N - 1 /\ Lowest = 0
  BY AllUp DEF Safe, Expanding, InPlace
<1>2. \A i \in Servers : pods[i] = ran[i]
  BY <1>1 DEF Safe, OnRevision, Up
<1>3. 0 \in Servers /\ N - 1 \in Servers
  BY NumbersOf, SMT
<1>4. CASE mem.known
  <2>1. Whole(mem.sts) /\ Observed(mem.sts, mem.st)
    BY <1>4 DEF Safe, MemoryTrue
  <2>2. mem.sts.tmpl # NoRevision /\ CurrentOf(mem.sts) # NoRevision
    BY <1>4, MemoryType, Constants DEF StatefulSets, CurrentOf
  <2>3. /\ Source(TRUE).tmpl = mem.sts.tmpl /\ Source(TRUE).reps = mem.sts.reps
        /\ Source(TRUE).part = mem.sts.part /\ Source(TRUE).restore = mem.sts.restore
        /\ Source(TRUE).update = mem.sts.tmpl /\ Source(TRUE).current = CurrentOf(mem.sts)
    BY <1>4, <2>1, <2>2 DEF Source, FromMemory, FirstKnown, Observed
  <2> QED
    BY <2>1, <2>3 DEF Whole, Observed, CurrentOf
<1>5. CASE ~mem.known
  <2>1. HighestRevision = ran[N - 1] /\ LowestRevision = ran[0]
    BY <1>1, <1>2, <1>3 DEF HighestRevision, LowestRevision
  <2>2. serverImageInPlace = ran[N - 1].image
    BY <1>1, <1>2, <1>3 DEF serverImageInPlace
  <2>3. /\ Source(TRUE).tmpl = ran[N - 1] /\ Source(TRUE).reps = N
        /\ Source(TRUE).part = partitionForNewServerStatefulSet(N)
        /\ Source(TRUE).restore = NoRestore
        /\ Source(TRUE).update = ran[N - 1] /\ Source(TRUE).current = ran[0]
    <3>1. Highest + 1 = N
      BY <1>1, NumbersOf, SMT
    <3> QED
      BY <1>1, <1>5, <2>1, <3>1 DEF Source, FromRevision
  <2>4. Fits(ran[N - 1], partitionForNewServerStatefulSet(N))
    <3>1. CASE /\ held \in 0 .. N - 1 /\ ran[N - 1] = Target
               /\ \A i \in Servers : ran[i] = IF i < held THEN Before ELSE Target
      <4>1. partitionForNewServerStatefulSet(N) = held
        BY <2>2, <3>1, NumbersOf, SMT
           DEF partitionForNewServerStatefulSet, upgradeHeld, NotHeld, NotStaged, Target
      <4> QED
        BY <3>1, <4>1 DEF Fits
    <3>2. CASE \A i \in Servers : ran[i] = Before
      <4>1. partitionForNewServerStatefulSet(N) = 0
        BY <1>3, <2>2, <3>2, SMT DEF partitionForNewServerStatefulSet, Before
      <4> QED
        BY <1>3, <3>2, <4>1 DEF Fits
    <3>3. CASE held = N /\ \A i \in Servers : ran[i] = IF i < held THEN Before ELSE Target
      <4>1. \A i \in Servers : i < N
        BY NumbersOf, SMT
      <4> QED
        BY <3>2, <3>3, <4>1
    <3>4. CASE held \in 0 .. N - 1 /\ \A i \in Servers : ran[i] = IF i < held THEN Before ELSE Target
      <4>1. ~(N - 1 < held)
        BY <3>4, NumbersOf, SMT
      <4> QED
        BY <1>3, <3>1, <3>4, <4>1
    <3>5. held \in 0 .. N => held = N \/ held \in 0 .. N - 1
      BY NumbersOf, SMT
    <3> QED
      BY <3>2, <3>3, <3>4, <3>5 DEF Safe, StoppedAt
  <2>5. ran[0] = IF partitionForNewServerStatefulSet(N) = 0 THEN ran[N - 1] ELSE Before
    <3>1. partitionForNewServerStatefulSet(N) \in 0 .. N
      BY PartitionType, NumbersOf, SMT
    <3> QED
      BY <1>3, <2>4, <3>1, SMT DEF Fits
  <2> QED
    BY <1>5, <2>3, <2>4, <2>5 DEF Whole, Observed, CurrentOf
<1> QED
  BY <1>4, <1>5

\* The StatefulSet is created as it was, in one step or in the first of two.
LEMMA CreateSafe ==
  ASSUME TypeInv, Safe, NEW n \in Sizes, Create(n), ~used'.unread,
         UNCHANGED <<held, pods, ran>>
  PROVE  (Kept \/ Frozen)' /\ MemoryTrue'
<1>1. PICK read, readBelow \in {TRUE, ~UnreadRevisions} :
         LET s == Source(read)
             c == IF TwoStep(s) /\ readBelow THEN holdBelowPartition(s) ELSE s IN
         /\ sts' = [at |-> "live", tmpl |-> c.tmpl, part |-> c.part,
                    reps |-> c.reps, claim |-> n, restore |-> c.restore]
         /\ mem' = IF c.restore = NoRestore THEN NoMemory ELSE mem
         /\ used' = [used EXCEPT !.unread = @ \/ ~read \/ ~readBelow]
  BY DEF Create
<1>2. read /\ readBelow
  <2>1. used'.unread = (used.unread \/ ~read \/ ~readBelow)
    BY <1>1 DEF TypeInv, TypeOK
  <2> QED
    BY <2>1
<1>3. read = TRUE /\ readBelow = TRUE
  BY <1>2, ExpansionAssumption
<1>0. sts.at = "gone"
  BY DEF Create
<1>a. PICK s \in Sources : s = Source(TRUE)
  BY <1>0, SourceType
<1>4. /\ Whole(s) /\ Observed(s, s)
      /\ mem.known => mem.sts.tmpl = s.tmpl
  BY <1>a, <1>0, SourceFits
<1>5. /\ s.tmpl \in Revisions /\ s.part \in 0 .. N /\ s.reps = N /\ s.restore = NoRestore
      /\ s.update = s.tmpl /\ s.current = CurrentOf(s) /\ Fits(s.tmpl, s.part)
  <2> QED
    BY <1>4 DEF Sources, Whole, Observed
<1>6. st' = [observed |-> FALSE, current |-> NoRevision, update |-> NoRevision]
  BY DEF Create
<1>7. mem' \in {NoMemory, mem} /\ MemoryTrue'
  <2>1. mem' \in {NoMemory, mem}
    BY <1>1
  <2>2. CASE mem' = NoMemory
    BY <2>2 DEF MemoryTrue, NoMemory
  <2>3. CASE mem' = mem
    BY <2>3 DEF Safe, MemoryTrue, Whole, Fits, Observed, CurrentOf
  <2> QED
    BY <2>1, <2>2, <2>3
<1>8. CASE s.part = 0
  <2>1. ~TwoStep(s)
    BY <1>8, <1>5, SMT DEF TwoStep
  <2>2. sts' = [at |-> "live", tmpl |-> s.tmpl, part |-> s.part,
                reps |-> s.reps, claim |-> n, restore |-> s.restore]
    BY <1>1, <1>3, <1>a, <2>1
  <2> QED
    BY <1>5, <1>6, <1>7, <1>8, <2>2 DEF Kept, Whole, Fits
<1>9. CASE s.part # 0
  <2>1. s.tmpl = Target /\ s.current = Before /\ s.update = Target /\ held = s.part
    <3> QED
      BY <1>5, <1>9 DEF Fits, CurrentOf
  <2>2. TwoStep(s)
    <3>1. s.part > 0
      BY <1>5, <1>9, NumbersOf, SMT
    <3> QED
      BY <2>1, <3>1, Constants DEF TwoStep
  <2>3. /\ sts' = [at |-> "live", tmpl |-> holdBelowPartition(s).tmpl,
                   part |-> holdBelowPartition(s).part, reps |-> holdBelowPartition(s).reps,
                   claim |-> n, restore |-> holdBelowPartition(s).restore]
    BY <1>1, <1>3, <1>a, <2>2
  <2>4. /\ holdBelowPartition(s).tmpl = Before /\ holdBelowPartition(s).part = N
        /\ holdBelowPartition(s).reps = N
        /\ holdBelowPartition(s).restore = [part |-> s.part, rev |-> Target]
    <3> QED
      BY <1>4, <1>5, <2>1 DEF holdBelowPartition, Sources
  <2>5. [part |-> s.part, rev |-> Target] # NoRestore
    BY <1>5, Constants
  <2>6. mem'.known => mem'.sts.tmpl = Target
    BY <1>4, <1>7, <2>1, SMT DEF NoMemory
  <2>7. \A i \in Servers : ran'[i] = IF i < s.part THEN Before ELSE Target
    BY <1>5, <2>1 DEF Fits
  <2>8. held' = s.part
    BY <2>1
  <2>9. /\ sts'.at = "live" /\ sts'.tmpl = Before /\ sts'.part = N /\ sts'.reps = N
        /\ sts'.restore = [part |-> s.part, rev |-> Target]
    BY <2>3, <2>4
  <2>10. sts'.restore # NoRestore /\ sts'.restore.rev = Target /\ sts'.restore.part = s.part
    BY <2>5, <2>9, SMT
  <2>11. ~st'.observed /\ st'.current = NoRevision
    BY <1>6
  <2>12. \A i \in Servers : ran'[i] = IF i < sts'.restore.part THEN Before ELSE Target
    BY <2>7, <2>10
  <2> QED
    BY <1>7, <1>9, <2>6, <2>8, <2>9, <2>10, <2>11, <2>12 DEF Frozen, Fits
<1> QED
  BY <1>7, <1>8, <1>9

\* The second step brings back the template and the partition.
LEMMA RestoreSafe ==
  ASSUME TypeInv, Safe, restoreHeldTemplate, ~used'.unread, UNCHANGED <<held, pods, ran>>
  PROVE  Kept' /\ MemoryTrue'
<1>1. Frozen /\ st.current = Before
  BY DEF Safe, Kept, Whole, Frozen, restoreHeldTemplate, restorePending
<1>2. mem.known => mem.sts.restore = NoRestore
  BY DEF Safe, MemoryTrue, Whole
<1>3. sts' = [sts EXCEPT !.tmpl = Target, !.part = sts.restore.part, !.restore = NoRestore]
  <2>1. ~(used' = [used EXCEPT !.unread = TRUE])
    BY DEF TypeInv, TypeOK
  <2>2. sts' = [sts EXCEPT
                    !.tmpl = IF mem.known THEN mem.sts.tmpl ELSE sts.restore.rev,
                    !.part = sts.restore.part,
                    !.restore = IF mem.known THEN mem.sts.restore ELSE NoRestore]
    BY <2>1 DEF restoreHeldTemplate
  <2> QED
    BY <1>1, <1>2, <2>2 DEF Frozen
<1>4. /\ sts'.tmpl = Target /\ sts'.part = sts.restore.part /\ sts'.restore = NoRestore
      /\ sts'.reps = N
  BY <1>1, <1>3 DEF TypeInv, TypeOK, StatefulSets, Frozen
<1>5. ~st'.observed /\ st'.current = Before
  BY <1>1, StatusKept DEF restoreHeldTemplate
<1>6. ~mem'.known
  BY NoMemoryType DEF restoreHeldTemplate
<1>7. /\ \A i \in Servers : ran'[i] = IF i < sts'.part THEN Before ELSE sts'.tmpl
      /\ sts'.part # 0 /\ held' = sts'.part
  BY <1>1, <1>4 DEF Frozen, Fits
<1> QED
  BY <1>4, <1>5, <1>6, <1>7 DEF Kept, Whole, Fits, CurrentOf, MemoryTrue

\* Replicas and partition are what an update would make them.
LEMMA UpdateNever ==
  ASSUME TypeInv, Safe
  PROVE  ~Update
<1>1. CASE Kept
  <2>1. sts.reps = N /\ (IF upgradeHeld THEN sts.part ELSE 0) = sts.part
    <3>1. sts.reps = N /\ (sts.part # 0 => held = sts.part)
      BY <1>1 DEF Kept, Whole, Fits
    <3>2. sts.part \in 0 .. N
      BY DEF TypeInv, TypeOK, StatefulSets
    <3> QED
      BY <3>1, <3>2, NumbersOf, SMT DEF upgradeHeld, NotHeld
  <2>2. sts \in StatefulSets
    BY DEF TypeInv, TypeOK
  <2>3. [sts EXCEPT !.reps = N, !.part = IF upgradeHeld THEN sts.part ELSE 0] = sts
    BY <2>1, <2>2 DEF StatefulSets
  <2> QED
    BY <2>3, SMT DEF Update
<1>2. CASE Frozen
  BY <1>2 DEF Frozen, Update, restorePending
<1> QED
  BY <1>1, <1>2 DEF Safe

\* What a step of the operator does to the StatefulSet.
LEMMA OperatorSafe ==
  ASSUME TypeInv, Safe, Operator, ~used'.unread
  PROVE  (Kept \/ Frozen)' /\ MemoryTrue'
<1>1. size \in Sizes /\ (op.at # "idle" => op.size \in Sizes)
  BY DEF TypeInv, TypeOK
<1>4. CASE Pass
  <2>1. UNCHANGED <<held, pods, ran>>
    BY <1>4 DEF Pass
  <2>2. CASE Create(size)
    BY <1>1, <2>1, <2>2, CreateSafe
  <2>3. CASE restoreHeldTemplate
    BY <2>1, <2>3, RestoreSafe
  <2> QED
    BY <1>4, <2>2, <2>3, UpdateNever DEF Pass, Apply
<1>5. CASE expandVolumes \/ waitStatefulSetGone
  <2>1. UNCHANGED <<held, sts, st, pods, mem, ran>>
    BY <1>5 DEF expandVolumes, waitStatefulSetGone
  <2> QED
    BY <2>1 DEF Safe, Kept, Frozen, MemoryTrue, Whole, Fits, Observed, CurrentOf
<1>6. CASE orphanDeleteStatefulSet
  <2>1. Placed /\ sts.at = "live" /\ Kept /\ Observed(sts, st)
    BY <1>6 DEF orphanDeleteStatefulSet, Safe, Expanding, Placed, Frozen, Kept, restorePending
  <2>2. mem' = [known |-> TRUE, sts |-> sts, st |-> st] /\ UNCHANGED <<held, st, ran>>
    BY <1>6, <2>1 DEF orphanDeleteStatefulSet
  <2>3. MemoryTrue'
    BY <2>1, <2>2 DEF MemoryTrue, Kept, Whole, Fits, Observed, CurrentOf
  <2>4. CASE sts' = sts
    BY <2>1, <2>2, <2>3, <2>4 DEF Kept, Whole, Fits, Observed, CurrentOf
  <2>5. CASE sts' = [sts EXCEPT !.at = "dying"]
    <3>1. sts'.at = "dying" /\ sts'.tmpl = sts.tmpl /\ sts'.part = sts.part
          /\ sts'.reps = sts.reps /\ sts'.restore = sts.restore
      BY <2>5 DEF TypeInv, TypeOK, StatefulSets
    <3> QED
      BY <2>1, <2>2, <2>3, <3>1 DEF Kept, Whole, Fits
  <2> QED
    BY <1>6, <2>1, <2>4, <2>5 DEF orphanDeleteStatefulSet
<1>7. CASE CreateAgain
  <2>1. Create(op.size) /\ op.size \in Sizes /\ UNCHANGED <<held, pods, ran>>
    BY <1>1, <1>7 DEF CreateAgain
  <2> QED
    BY <2>1, CreateSafe
<1> QED
  BY <1>4, <1>5, <1>6, <1>7 DEF Operator

\* With the StatefulSet in place a pass has nothing to apply.
LEMMA OperatorBusy ==
  ASSUME TypeInv, Safe, Apply
  PROVE  sts.at = "gone" \/ restorePending
  BY UpdateNever DEF Apply, Create, restoreHeldTemplate

\* An expansion is run with every pod there.
LEMMA OperatorExpands ==
  ASSUME TypeInv, Safe, Operator
  PROVE  Expanding' /\ UNCHANGED <<held, pods, ran>>
<1>1. UNCHANGED <<size, held, pods, ran>> /\ size \in Nat /\ pvc \in [Servers -> Nat]
  BY ExpansionAssumption
     DEF Operator, Pass, expandVolumes, orphanDeleteStatefulSet, CreateAgain,
         waitStatefulSetGone, TypeInv, TypeOK
<1>2. Up' = Up /\ Idle.at = "idle"
  BY <1>1 DEF Up, Idle
<1>3. CASE Pass
  <2>1. ~InPlace
    BY <1>3, OperatorBusy DEF Pass, InPlace
  <2>2. ~Smaller' /\ op' = op /\ op.at = "idle"
    BY <1>1, <1>2, <1>3, SMT DEF Pass, Smaller, SizesMatch
  <2> QED
    BY <1>1, <1>2, <2>1, <2>2 DEF Safe, Expanding
<1>4. CASE expandVolumes
  <2>1. Smaller /\ ~SizesMatch /\ op.at = "idle"
    BY <1>1, <1>2, <1>4, SMT DEF expandVolumes, Smaller, SizesMatch
  <2>2. Up = Servers /\ Placed
    BY <2>1 DEF Safe, Expanding
  <2>3. Placed'
    BY <1>4, <2>2 DEF expandVolumes, Placed, restorePending
  <2>4. op'.at # "idle" => ~Smaller'
    BY <1>1, <1>2, <1>4, SMT DEF expandVolumes, Smaller
  <2> QED
    BY <1>1, <1>2, <2>2, <2>3, <2>4 DEF Expanding
<1>5. CASE orphanDeleteStatefulSet \/ CreateAgain \/ waitStatefulSetGone
  <2>1. op.at # "idle" /\ op # Idle
    BY <1>2, <1>5 DEF orphanDeleteStatefulSet, CreateAgain, waitStatefulSetGone
  <2>2. Up = Servers /\ ~Smaller
    BY <2>1 DEF Safe, Expanding, InPlace
  <2>3. pvc' = pvc /\ op'.at # "delete"
    BY <1>2, <1>5 DEF orphanDeleteStatefulSet, CreateAgain, waitStatefulSetGone, TypeInv, TypeOK
  <2> QED
    BY <1>1, <1>2, <2>2, <2>3 DEF Expanding, Smaller
<1> QED
  BY <1>1, <1>3, <1>4, <1>5 DEF Operator

\* What its controller and the garbage collector do to the StatefulSet and its status.
LEMMA ObserveSafe ==
  ASSUME TypeInv, Safe, ObserveSts
  PROVE  Safe'
<1>0. UNCHANGED <<size, pvc, held, sts, pods, mem, op, ran, used>> /\ sts.at = "live"
  BY DEF ObserveSts
<1>1. /\ st'.observed /\ st'.update = sts.tmpl
      /\ st'.current = IF \A i \in 0 .. sts.reps - 1 : pods[i] = sts.tmpl
                       THEN sts.tmpl ELSE FirstKnown(st.current, sts.tmpl)
  BY DEF ObserveSts
<1>2. sts.tmpl # NoRevision /\ Before # NoRevision /\ Target # Before
  BY Constants DEF TypeInv, TypeOK, StatefulSets
<1>3. ASSUME Kept PROVE Kept'
  <2>1. CASE sts.part = 0
    <3>1. st'.current = sts.tmpl
      BY <1>0, <1>1, <1>3, <2>1 DEF Kept, CurrentOf, FirstKnown
    <3> QED
      BY <1>0, <1>1, <1>3, <2>1, <3>1 DEF Kept, Whole, Fits, Observed, CurrentOf
  <2>2. CASE sts.part # 0
    <3>1. 0 \in Servers /\ 0 < sts.part /\ 0 \in 0 .. sts.reps - 1
      BY <1>3, <2>2, NumbersOf, SMT DEF TypeInv, TypeOK, StatefulSets, Kept, Whole
    <3>2. ran[0] = Before /\ sts.tmpl = Target
      BY <1>3, <2>2, <3>1 DEF Kept, Whole, Fits
    <3>3. pods[0] # sts.tmpl
      BY <1>2, <3>1, <3>2, Constants DEF Safe, OnRevision
    <3>4. st.current = Before
      BY <1>0, <1>3, <2>2 DEF Kept, CurrentOf
    <3>5. st'.current = Before
      BY <1>1, <1>2, <3>1, <3>3, <3>4 DEF FirstKnown
    <3> QED
      BY <1>0, <1>1, <1>3, <2>2, <3>5 DEF Kept, Whole, Fits, Observed, CurrentOf
  <2> QED
    BY <2>1, <2>2
<1>4. ASSUME Frozen PROVE Frozen'
  <2>1. st'.current = Before
    BY <1>1, <1>2, <1>4 DEF Frozen, FirstKnown
  <2> QED
    BY <1>0, <1>4, <2>1 DEF Frozen, Fits
<1>5. (Kept \/ Frozen)'
  BY <1>3, <1>4 DEF Safe
<1>6. StoppedAt' /\ MemoryTrue' /\ OnRevision'
  BY <1>0 DEF Safe, StoppedAt, MemoryTrue, OnRevision, Whole, Fits, Observed, CurrentOf
<1>7. Expanding'
  BY <1>0, <1>1
     DEF Safe, Expanding, Up, InPlace, SizesMatch, Smaller, Placed, restorePending
<1> QED
  BY <1>5, <1>6, <1>7 DEF Safe

LEMMA CollectSafe ==
  ASSUME TypeInv, Safe, CollectOrphans
  PROVE  Safe'
<1>0. UNCHANGED <<size, pvc, held, st, pods, mem, op, ran, used>> /\ sts.at = "dying"
  BY DEF CollectOrphans
<1>1. /\ sts'.at = "gone" /\ sts'.restore = NoRestore /\ sts'.tmpl = sts.tmpl
      /\ sts'.part = sts.part /\ sts'.reps = sts.reps
  BY DEF CollectOrphans, TypeInv, TypeOK, StatefulSets
<1>2. Kept'
  BY <1>0, <1>1 DEF Safe, Kept, Frozen, Whole, Fits
<1>3. StoppedAt' /\ MemoryTrue' /\ OnRevision'
  BY <1>0 DEF Safe, StoppedAt, MemoryTrue, OnRevision, Whole, Fits, Observed, CurrentOf
<1>4. Up = Servers /\ ~Smaller /\ op.at # "delete"
  BY <1>0 DEF Safe, Expanding, InPlace, Placed
<1>5. Expanding'
  BY <1>0, <1>4 DEF Expanding, Up, Smaller
<1> QED
  BY <1>2, <1>3, <1>5 DEF Safe

\* A pod comes back on the revision its server ran, and none is replaced.
LEMMA PodSafe ==
  ASSUME Calm, TypeInv, Safe, NEW i \in Servers, CreatePod(i) \/ LosePod(i)
  PROVE  Safe'
<1>0. /\ UNCHANGED <<size, pvc, held, sts, st, mem, op, ran>>
      /\ pods \in [Servers -> Known]
  BY DEF CreatePod, LosePod, TypeInv, TypeOK
<1>1. InPlace /\ SizesMatch /\ Kept
  <2>1. InPlace /\ SizesMatch
    <3>1. CASE CreatePod(i)
      BY <3>1 DEF CreatePod, Up, Safe, Expanding
    <3>2. CASE LosePod(i)
      BY <3>2 DEF LosePod, Calm
    <3> QED
      BY <3>1, <3>2
  <2> QED
    BY <2>1 DEF InPlace, Safe, Frozen, restorePending
<1>2. RevisionFor(i) = ran[i]
  <2>1. sts.part \in 0 .. N /\ i \in Nat
    BY NumbersOf, SMT DEF TypeInv, TypeOK, StatefulSets
  <2>2. i < sts.part => st.current = Before /\ sts.part # 0
    BY <1>1, <2>1, SMT DEF Kept, CurrentOf, InPlace
  <2> QED
    BY <1>1, <2>1, <2>2, Constants DEF RevisionFor, FirstKnown, Kept, Whole, Fits
<1>3. OnRevision'
  BY <1>0, <1>2 DEF Safe, OnRevision, CreatePod, LosePod
<1>4. Kept' /\ StoppedAt' /\ MemoryTrue'
  BY <1>0, <1>1 DEF Safe, Kept, StoppedAt, MemoryTrue, Whole, Fits, Observed, CurrentOf
<1>5. Expanding'
  BY <1>0, <1>1
     DEF Safe, Expanding, InPlace, SizesMatch, Smaller, Placed, restorePending
<1> QED
  BY <1>3, <1>4, <1>5 DEF Safe

LEMMA UpdatePodNever ==
  ASSUME TypeInv, Safe, NEW i \in Servers
  PROVE  ~UpdatePod(i)
<1>1. i \in Nat /\ i < N /\ sts.part \in 0 .. N /\ N \in Nat
  BY NumbersOf, SMT DEF TypeInv, TypeOK, StatefulSets
<1>2. ASSUME Kept, i >= sts.part PROVE pods[i] \in {sts.tmpl, NoRevision}
  <2>1. ~(i < sts.part)
    BY <1>1, <1>2, SMT
  <2>2. ran[i] = sts.tmpl
    BY <1>2, <2>1 DEF Kept, Whole, Fits
  <2> QED
    BY <2>2 DEF Safe, OnRevision
<1>3. ASSUME Frozen PROVE ~(i >= sts.part)
  BY <1>1, <1>3, SMT DEF Frozen
<1>4. UpdatePod(i) => i >= sts.part /\ pods[i] \notin {sts.tmpl, NoRevision}
  BY DEF UpdatePod
<1> QED
  BY <1>2, <1>3, <1>4 DEF Safe

\* Once a revision could not be read nothing more is promised.
LEMMA UnreadKept ==
  ASSUME TypeInv, used.unread, [Next]_vars
  PROVE  used'.unread
<1>1. used \in [edits : 0 .. MaxEdits, restarts : 0 .. MaxRestarts,
                lost : 0 .. MaxLost, unread : BOOLEAN]
  BY DEF TypeInv, TypeOK
<1>2. ASSUME NEW n, Create(n) PROVE used'.unread
  BY <1>1, <1>2 DEF Create
<1>3. CASE Operator
  BY <1>1, <1>2, <1>3
     DEF Operator, Pass, Apply, restoreHeldTemplate, Update, expandVolumes,
         orphanDeleteStatefulSet, CreateAgain, waitStatefulSetGone
<1>4. CASE ~Operator
  BY <1>1, <1>4
     DEF Next, Restart, Kubernetes, ObserveSts, CollectOrphans, CreatePod, UpdatePod,
         LosePod, EditSize, vars
<1> QED
  BY <1>3, <1>4

LEMMA SafeStep ==
  ASSUME Calm, TypeInv, Safe, [Next]_vars, ~used'.unread
  PROVE  Safe'
<1>1. CASE Operator
  <2>1. UNCHANGED <<held, pods, ran>> /\ Expanding'
    BY <1>1, OperatorExpands
  <2>2. StoppedAt' /\ OnRevision'
    BY <2>1 DEF Safe, StoppedAt, OnRevision
  <2>3. (Kept \/ Frozen)' /\ MemoryTrue'
    BY <1>1, OperatorSafe
  <2> QED
    BY <2>1, <2>2, <2>3 DEF Safe
<1>2. CASE Restart
  <2>1. ~mem'.known /\ op' = Idle /\ Idle.at = "idle" /\ UNCHANGED <<size, pvc, held, sts, st, pods, ran>>
    BY <1>2 DEF Restart, NoMemory, Idle
  <2>2. StoppedAt' /\ MemoryTrue' /\ OnRevision'
    BY <2>1 DEF Safe, StoppedAt, MemoryTrue, OnRevision
  <2>3. (Kept \/ Frozen)'
    BY <2>1 DEF Safe, Kept, Frozen, Whole, Fits, Observed, CurrentOf
  <2>4. Expanding'
    BY <2>1 DEF Safe, Expanding, Up, InPlace, SizesMatch, Smaller, Placed, restorePending
  <2> QED
    BY <2>2, <2>3, <2>4 DEF Safe
<1>3. CASE Kubernetes
  BY <1>3, ObserveSafe, CollectSafe, PodSafe, UpdatePodNever DEF Kubernetes
<1>4. ASSUME NEW i \in Servers, LosePod(i) PROVE Safe'
  BY <1>4, PodSafe
<1>5. ASSUME NEW n \in Sizes, EditSize(n) PROVE Safe'
  <2>1. /\ UNCHANGED <<pvc, held, sts, st, pods, mem, op, ran>>
        /\ InPlace /\ Up = Servers /\ Idle.at = "idle"
    BY <1>5 DEF EditSize, Calm, Idle
  <2>2. StoppedAt' /\ MemoryTrue' /\ OnRevision' /\ (Kept \/ Frozen)'
    BY <2>1 DEF Safe, StoppedAt, MemoryTrue, OnRevision, Kept, Frozen, Whole, Fits,
                Observed, CurrentOf
  <2>3. Expanding'
    BY <2>1 DEF Expanding, Up, InPlace, Placed, restorePending
  <2> QED
    BY <2>2, <2>3 DEF Safe
<1>6. CASE UNCHANGED vars
  <2>1. UNCHANGED <<size, pvc, held, sts, st, pods, mem, op, ran>>
    BY <1>6 DEF vars
  <2>2. StoppedAt' /\ MemoryTrue' /\ OnRevision' /\ (Kept \/ Frozen)'
    BY <2>1 DEF Safe, StoppedAt, MemoryTrue, OnRevision, Kept, Frozen, Whole, Fits,
                Observed, CurrentOf
  <2>3. Expanding'
    BY <2>1 DEF Safe, Expanding, Up, InPlace, SizesMatch, Smaller, Placed, restorePending
  <2> QED
    BY <2>2, <2>3 DEF Safe
<1> QED
  BY <1>1, <1>2, <1>3, <1>4, <1>5, <1>6 DEF Next

\* While every revision could be read.
SafeInv == TypeInv /\ (used.unread \/ Safe)

LEMMA SafeInvariant ==
  ASSUME Calm
  PROVE  Spec => []SafeInv
<1>1. Init => SafeInv
  BY TypeInit, SafeInit DEF SafeInv
<1>2. SafeInv /\ [Next]_vars => SafeInv'
  <2> SUFFICES ASSUME SafeInv, [Next]_vars PROVE SafeInv'
    OBVIOUS
  <2>1. TypeInv /\ TypeInv'
    BY TypeStep DEF SafeInv
  <2>2. CASE used.unread
    BY <2>1, <2>2, UnreadKept DEF SafeInv
  <2>3. CASE Safe
    BY <2>1, <2>3, SafeStep DEF SafeInv
  <2> QED
    BY <2>2, <2>3 DEF SafeInv
<1> QED
  BY <1>1, <1>2, PTL DEF Spec

\* Every server keeps the revision it runs and comes back on it, through any number of
\* expansions, restarts of the operator and lost pods, in a cluster of any size and with
\* an upgrade stopped at any partition: the StatefulSet an expansion creates, from memory
\* or from the pods, in one step or in two, is the one it deleted (operations.md id 171).
THEOREM KeepsRevisionCorrect ==
  ASSUME Calm
  PROVE  Spec => []KeepsRevision
<1>1. SafeInv => KeepsRevision
  BY DEF SafeInv, Safe, OnRevision, KeepsRevision
<1> QED
  BY <1>1, SafeInvariant, PTL

\* No step of the operator or of the StatefulSet controller takes a pod away, also while
\* a StatefulSet is held at another template between the two steps of its creation.
THEOREM NoRestartCorrect ==
  ASSUME Calm
  PROVE  Spec => NoRestart
<1>1. SafeInv /\ [Next]_vars => [RestartStep]_vars
  <2> SUFFICES ASSUME SafeInv, [Next]_vars, ~used.unread PROVE [RestartStep]_vars
    BY DEF RestartStep
  <2>1. TypeInv /\ Safe
    BY DEF SafeInv
  <2>2. CASE pods' = pods
    BY <2>2 DEF RestartStep
  <2>3. ASSUME NEW i \in Servers, CreatePod(i) PROVE RestartStep
    BY <2>1, <2>3 DEF CreatePod, RestartStep, TypeInv, TypeOK
  <2>4. ASSUME NEW i \in Servers, LosePod(i) PROVE RestartStep
    <3>1. used'.lost > used.lost
      BY <2>1, <2>4, ExpansionAssumption, SMT DEF LosePod, TypeInv, TypeOK
    <3> QED
      BY <3>1 DEF RestartStep
  <2>5. CASE Operator
    BY <2>1, <2>2, <2>5, OperatorExpands
  <2>6. CASE Restart \/ ObserveSts \/ CollectOrphans \/ \E n \in Sizes : EditSize(n)
    BY <2>2, <2>6 DEF Restart, ObserveSts, CollectOrphans, EditSize
  <2>7. CASE UNCHANGED vars
    BY <2>7
  <2> QED
    BY <2>1, <2>3, <2>4, <2>5, <2>6, <2>7, UpdatePodNever DEF Next, Kubernetes
<1> QED
  BY <1>1, SafeInvariant, PTL DEF Spec, NoRestart

=============================================================================
