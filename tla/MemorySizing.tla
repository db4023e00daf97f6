--------------------------- MODULE MemorySizing ---------------------------
(***************************************************************************)
(* How the operator sizes a server's memory: the rules that admit a        *)
(* cluster's sizes (memory_validator.go) and the heap, page cache and      *)
(* transaction limits it then writes into neo4j.conf (memory_config.go,    *)
(* the transaction limits of resources/cluster.go).                        *)
(*                                                                         *)
(* Sizes are counted in tenths of a mebibyte, so that the percentages the  *)
(* operator takes of a whole mebibyte are exact.                           *)
(***************************************************************************)
EXTENDS Integers, FiniteSets, FiniteSetsExt

CONSTANTS Limits,    \* container memory limits, in MiB
          Sizes      \* sizes a user writes, in MiB

MiB == 10
GiB == 1024 * MiB

MinHeapSize == 256 * MiB
MaxHeapSize == 31 * GiB
MinPageCacheSize == 128 * MiB
DefaultMemoryLimit == 2 * GiB
minEnterpriseMemoryBytes == GiB

\* A size in a settings map: absent, in a spelling every parser reads ("512m",
\* "4G"), or in one that Neo4j and the validator read and the renderer's own
\* parsers do not ("512MB", "1GiB").
None == [form |-> "none", n |-> 0]
Plain(n) == [form |-> "plain", n |-> n]
Written == {None} \cup {[form |-> f, n |-> s * MiB] : f \in {"plain", "long"}, s \in Sizes}

\* What a user writes: spec.resources (0: a resources block without a memory
\* limit; -1: no block) and whether it requests memory, the sizes in spec.config and in
\* spec.propertySharding.config, and the number of servers.
Specs == [limit : {-1, 0} \cup {l * MiB : l \in Limits},
          heap : Written, initial : {None, Plain(GiB)}, cache : Written,
          shardHeap : {None} \cup {Plain(s * MiB) : s \in Sizes},
          tx : {None, Plain(GiB)}, requests : BOOLEAN, servers : {3, 4}]

VARIABLES spec,   \* the cluster's memory settings
          at      \* "new", "refused" or "rendered"

vars == <<spec, at>>

----------------------------------------------------------------------------
(* Admission.                                                              *)

\* Neo4j's byte sizes; a size that is not there weighs nothing.
parseMemoryToBytes(w) == w.n

sized(s) == {s.heap, s.cache, s.tx} # {None}

hasAnyMemorySetting(s) == s.requests \/ sized(s)

\* Mutant of the next: the page cache is not weighed.
validateNeo4jMemorySettings_HeapOnly(s) ==
  parseMemoryToBytes(s.heap) + Max({s.limit \div 4, 512 * MiB}) <= s.limit

\* The sizes in spec.config against the limit: a quarter of it, and at least
\* 512 MiB, is left to the system.
validateNeo4jMemorySettings(s) ==
  LET heap == parseMemoryToBytes(s.heap)
      cache == parseMemoryToBytes(s.cache)
  IN /\ (s.tx # None /\ heap > 0) => parseMemoryToBytes(s.tx) <= heap
     /\ heap + cache + Max({s.limit \div 4, 512 * MiB}) <= s.limit
     /\ heap > 0 => heap >= MinHeapSize
     /\ cache > 0 => cache >= MinPageCacheSize

ValidateResourcesAndConfig(s) ==
  CASE s.limit = -1 -> TRUE
    [] s.limit = 0 -> ~hasAnyMemorySetting(s)
    [] OTHER -> /\ sized(s) => validateNeo4jMemorySettings(s)
                /\ s.limit >= minEnterpriseMemoryBytes

\* More than three servers need two gibibytes each.
validateMemoryAllocation(s) == (s.limit > 0 /\ s.servers > 3) => s.limit >= 2 * GiB

Validate(s) == ValidateResourcesAndConfig(s) /\ validateMemoryAllocation(s)

----------------------------------------------------------------------------
(* Rendering.                                                              *)

\* The limit the container gets.
Limit(s) == IF s.limit > 0 THEN s.limit ELSE DefaultMemoryLimit

\* Mutant of the next: rounded up.
Round_Up(b, unit) == (b + unit - 1) \div unit

\* Round half to even, as Go's %.0f does.
Round(b, unit) ==
  LET q == b \div unit
      twice == 2 * (b % unit)
  IN IF twice > unit \/ (twice = unit /\ q % 2 = 1) THEN q + 1 ELSE q

\* Whole gibibytes from one gibibyte on, whole mebibytes below.
formatMemorySize(b) ==
  LET n == Max({b, 0})
      unit == IF n >= GiB THEN GiB ELSE MiB
  IN Plain(Round(n, unit) * unit)

\* 0 for a spelling they do not know.
parseMemorySize(w) == IF w.form = "plain" THEN w.n ELSE 0

calculateSystemMemoryReserved(limit) == IF limit <= 2 * GiB THEN 256 * MiB ELSE 512 * MiB

\* A container too small for both minimums.
tightest(available) ==
  CASE available > MinHeapSize -> [heap |-> MinHeapSize, cache |-> available - MinHeapSize]
    [] available >= 64 * MiB -> [heap |-> available - 64 * MiB, cache |-> 64 * MiB]
    [] OTHER -> [heap |-> MinHeapSize, cache |-> 64 * MiB]

\* Half the container for the heap and a quarter for the page cache; a small
\* container gives up page cache first.
CalculateOptimalMemorySettings(limit) ==
  LET heap == Min({Max({limit \div 2, MinHeapSize}), MaxHeapSize})
      cache == Max({limit \div 4, MinPageCacheSize})
      available == limit - calculateSystemMemoryReserved(limit)
  IN CASE heap + cache <= available -> [heap |-> heap, cache |-> cache]
       [] available <= MinHeapSize + MinPageCacheSize -> tightest(available)
       [] available - heap >= MinPageCacheSize -> [heap |-> heap, cache |-> available - heap]
       [] OTHER -> [heap |-> available - MinPageCacheSize, cache |-> MinPageCacheSize]

\* From four gibibytes on: 60% and 30%, both reduced in proportion to what the
\* reserve leaves.
CalculateOptimalMemoryForNeo4j526Plus(limit) ==
  LET heap == Min({(limit * 6) \div 10, MaxHeapSize})
      cache == (limit * 3) \div 10
      available == limit - calculateSystemMemoryReserved(limit)
  IN CASE limit < 4 * GiB -> CalculateOptimalMemorySettings(limit)
       [] heap + cache <= available -> [heap |-> heap, cache |-> cache]
       [] OTHER -> [heap |-> (heap * available) \div (heap + cache),
                    cache |-> (cache * available) \div (heap + cache)]

\* Mutant of the next: a heap in propertySharding.config is not read back.
UserHeap_ConfigOnly(s) == s.heap

\* spec.config first, then spec.propertySharding.config.
UserHeap(s) == IF s.heap # None THEN s.heap ELSE s.shardHeap

\* Mutant of the next: the initial size is derived on its own.
HeapInitial_Derived(s) ==
  IF s.initial # None THEN s.initial
  ELSE formatMemorySize(CalculateOptimalMemoryForNeo4j526Plus(Limit(s)).heap)

HeapInitial(s) == IF s.initial # None THEN s.initial ELSE UserHeap(s)

\* A user's page cache and initial size count only beside a user's heap.
GetMemoryConfigForCluster(s) ==
  LET half == Max({parseMemorySize(UserHeap(s)) \div 2, MinPageCacheSize})
      derived == CalculateOptimalMemoryForNeo4j526Plus(Limit(s))
  IN IF UserHeap(s) # None
     THEN [initial |-> HeapInitial(s), max |-> UserHeap(s),
           cache |-> CASE s.cache # None -> s.cache
                       [] UserHeap(s).form = "plain" -> formatMemorySize(half)
                       [] OTHER -> Plain(MinPageCacheSize)]
     ELSE [initial |-> formatMemorySize(derived.heap), max |-> formatMemorySize(derived.heap),
           cache |-> formatMemorySize(derived.cache)]

parseMemoryString(w) == IF w.form = "plain" THEN w.n ELSE 0

\* Exact in its unit, or to one decimal of it.
formatMemorySizeForNeo4j(b) ==
  Plain(IF b >= GiB /\ b % GiB # 0 THEN (Round(b * 10, GiB) * GiB) \div 10 ELSE b)

\* Mutant of the next: the share of the container, not of the heap.
calculateTransactionMemoryLimit_OfLimit(heap, s) ==
  IF s.tx # None THEN s.tx ELSE formatMemorySizeForNeo4j((Limit(s) * 7) \div 10)

\* Seven tenths of the heap; a heap it cannot read gives two gibibytes.
calculateTransactionMemoryLimit(heap, s) ==
  CASE s.tx # None -> s.tx
    [] parseMemoryString(heap) = 0 -> Plain(2 * GiB)
    [] OTHER -> formatMemorySizeForNeo4j((parseMemoryString(heap) * 7) \div 10)

\* A tenth of that for one transaction, and at least 256 MiB.
calculatePerTransactionLimit(heap, s) ==
  LET total == parseMemoryString(calculateTransactionMemoryLimit(heap, s))
  IN formatMemorySizeForNeo4j(Max({total \div 10, 256 * MiB}))

\* Half of it for one database.
calculatePerDatabaseLimit(heap, s) ==
  formatMemorySizeForNeo4j(parseMemoryString(calculateTransactionMemoryLimit(heap, s)) \div 2)

\* What neo4j.conf says.
Rendered(s) ==
  LET m == GetMemoryConfigForCluster(s)
  IN [initial |-> m.initial, max |-> m.max, cache |-> m.cache,
      tx |-> calculateTransactionMemoryLimit(m.max, s),
      perTx |-> calculatePerTransactionLimit(m.max, s),
      perDatabase |-> calculatePerDatabaseLimit(m.max, s)]

----------------------------------------------------------------------------

Init == spec \in Specs /\ at = "new"

Refuse == at = "new" /\ ~Validate(spec) /\ at' = "refused" /\ UNCHANGED spec
Render == at = "new" /\ Validate(spec) /\ at' = "rendered" /\ UNCHANGED spec

Next == Refuse \/ Render

Spec == Init /\ [][Next]_vars

----------------------------------------------------------------------------
(* Properties.                                                             *)

TypeOK == spec \in Specs /\ at \in {"new", "refused", "rendered"}

rendered == at = "rendered"

\* Sizes the user wrote, both in spec.config, against a limit the user wrote,
\* never exceed it once admitted (validateNeo4jMemorySettings).
WrittenSizesFit ==
  (rendered /\ spec.limit > 0 /\ spec.heap # None /\ spec.cache # None)
    => Rendered(spec).max.n + Rendered(spec).cache.n <= spec.limit

\* A heap the user wrote in either map never meets an initial size the operator
\* derived: without one of the user's, the JVM starts at the maximum
\* (UserMemorySetting; a larger initial size stops the JVM).
HeapCoherent ==
  rendered => \/ Rendered(spec).initial = Rendered(spec).max
              \/ Rendered(spec).initial = spec.initial

\* The heap that runs is the one the user wrote, in whichever map.
HeapHonoured ==
  rendered => \A w \in {spec.heap, spec.shardHeap} \ {None} :
                Rendered(spec).max = w \/ (w = spec.shardHeap /\ spec.heap # None)

\* Neither all transactions, nor those of a database, nor one alone get more
\* memory than the heap they run in, unless the user said so, or wrote a heap
\* below the smallest one or in a spelling the renderer cannot read
\* (calculateTransactionMemoryLimit and the two limits taken from it).
TransactionsFitHeap ==
  (rendered /\ spec.tx = None /\ parseMemoryString(Rendered(spec).max) >= MinHeapSize)
    => \A w \in {Rendered(spec).tx, Rendered(spec).perTx, Rendered(spec).perDatabase} :
         w.n <= Rendered(spec).max.n

\* With nothing but a limit of whole gibibytes, the heap and the page cache
\* together stay within it: rounding each to whole gibibytes may use up the
\* system's reserve and no more (formatMemorySize).
DerivedSizesFit ==
  (rendered /\ UserHeap(spec) = None /\ Limit(spec) % GiB = 0)
    => Rendered(spec).max.n + Rendered(spec).cache.n <= Limit(spec)
=============================================================================
