------------------------ MODULE DatabaseNamesProofs ------------------------
(***************************************************************************)
(* The three controllers of names implement the registry of NameRegistry,  *)
(* for any CRs, names and bounds: a slot is freed only while no CR that    *)
(* reports Ready holds it.                                                 *)
(***************************************************************************)
EXTENDS DatabaseNames, TLAPS

\* Zenon proves the steps, and SMT the ones with arithmetic or record updates, by name.
USE Zenon

\* A stored object, and a pass, without the bounds a model checker needs.
Copies ==
    [born : Nat, del : BOOLEAN, fin : BOOLEAN, name : DbNames \cup AliasNames \cup CompNames,
     tgt : DbNames \cup {"none"}, gen : Nat, phase : {"None", "Pending", "Failed", "Ready"},
     at : Nat, imp : BOOLEAN]
Ons == [Constituents -> DbNames \cup {"none"}]
Passes == [at : Steps \ {"idle"}, cr : CRs, copy : Copies, on : Ons] \cup {NoPass}

ObjectOf(c, o) == o \in Copies /\ o.name \in NamesOf(c) /\ o.tgt \in TargetsOf(c)

\* An outcome is of a generation the CR has had.
ObjTypes ==
    /\ obj \in [CRs -> Copies]
    /\ \A c \in CRs : ObjectOf(c, obj[c]) /\ obj[c].at <= obj[c].gen
CacheTypes == cache \in [CRs -> Copies] /\ \A c \in CRs : ObjectOf(c, cache[c])
PassTypes ==
    /\ pass \in [Kinds -> Passes]
    /\ \A k \in Kinds : pass[k] # NoPass =>
          KindOf(pass[k].cr) = k /\ ObjectOf(pass[k].cr, pass[k].copy)
WorldTypes ==
    /\ host \in [cr : {"ready", "down", "leaving", "gone"}, answers : BOOLEAN]
    /\ used \in [changes : Nat, outages : Nat, crashes : Nat]
NeoTypes ==
    /\ db \in [DbNames -> [up : BOOLEAN, by : CRs \cup {"none", "admin"}, runs : 0 .. 2]]
    /\ alias \in [AliasNames -> DbNames \cup {"none"}]
    /\ comp \in [CompNames -> [up : BOOLEAN, on : Ons]]
Types == ObjTypes /\ CacheTypes /\ PassTypes /\ WorldTypes /\ NeoTypes

\* What a CR that is Ready claims, the cache has.
ClaimSeen(c) == Owns(obj[c]) => Live(cache[c]) /\ cache[c].name = obj[c].name

\* A pass for a CR that is going sends no statement but its drop, and its CR is not Ready;
\* what it drops, no CR of the kind that is Ready claims.
Serving == {"look", "create", "import", "record", "list", "wire", "prune", "report"}
PassSafe(k) ==
    pass[k] # NoPass =>
      /\ pass[k].at \in Serving => ~pass[k].copy.del
      /\ pass[k].copy.del => ~Owns(obj[pass[k].cr])
      /\ pass[k].at = "drop" =>
           /\ pass[k].copy.del
           /\ \A d \in CRs : KindOf(d) = k /\ Owns(obj[d]) => obj[d].name # pass[k].copy.name

Inv == Types /\ (\A c \in CRs : ClaimSeen(c)) /\ \A k \in Kinds : PassSafe(k)

-----------------------------------------------------------------------------
(* What the parts of a step do.                                            *)

LEMMA KindNames ==
  ASSUME NEW c \in CRs
  PROVE  /\ KindOf(c) \in Kinds
         /\ KindOf(c) = "database" => NamesOf(c) = DbNames
         /\ KindOf(c) = "alias" => NamesOf(c) = AliasNames /\ TargetsOf(c) = DbNames
         /\ KindOf(c) = "composite" => NamesOf(c) = CompNames /\ TargetsOf(c) = DbNames
         /\ NamesOf(c) \subseteq DbNames \cup AliasNames \cup CompNames /\ NamesOf(c) # {}
         /\ TargetsOf(c) \subseteq DbNames \cup {"none"} /\ TargetsOf(c) # {}
<1>1. c \in Databases \/ c \in Aliases \/ c \in Composites
  BY DEF CRs
<1>2. /\ c \in Databases => c \notin Aliases /\ c \notin Composites
      /\ c \in Aliases => c \notin Composites
  BY NamesAssumption
<1>3. CASE c \in Databases
  BY <1>2, <1>3, NamesAssumption DEF KindOf, Kinds, NamesOf, TargetsOf
<1>4. CASE c \in Aliases
  BY <1>2, <1>4, NamesAssumption DEF KindOf, Kinds, NamesOf, TargetsOf
<1>5. CASE c \in Composites
  BY <1>2, <1>5, NamesAssumption DEF KindOf, Kinds, NamesOf, TargetsOf
<1> QED
  BY <1>1, <1>3, <1>4, <1>5

LEMMA AbsentType ==
  ASSUME NEW c \in CRs
  PROVE  ObjectOf(c, Absent(c)) /\ Absent(c).at <= Absent(c).gen /\ ~Live(Absent(c))
<1>1. (CHOOSE n \in NamesOf(c) : TRUE) \in NamesOf(c)
  BY KindNames
<1>2. (CHOOSE t \in TargetsOf(c) : TRUE) \in TargetsOf(c)
  BY KindNames
<1> QED
  BY <1>1, <1>2, KindNames, SMT DEF Absent, ObjectOf, Copies, Live, Exists

\* At most the object of one CR changes, and it does not claim its name.
Yields(c) == ObjTypes' /\ (\A d \in CRs : obj'[d] = obj[d] \/ (d = c /\ ~Owns(obj'[d])))

LEMMA WriteStatusYields ==
  ASSUME ObjTypes, NEW c \in CRs, NEW phase \in {"Pending", "Failed", "Ready"},
         obj' \in {obj, [obj EXCEPT ![c].phase = phase, ![c].at = obj[c].gen]}
  PROVE  /\ ObjTypes'
         /\ phase # "Ready" => Yields(c)
         /\ \A d \in CRs \ {c} : obj'[d] = obj[d]
         /\ obj' # obj => Owns(obj'[c]) <=> Live(obj[c]) /\ phase = "Ready"
         /\ obj'[c].name = obj[c].name
<1>1. CASE obj' = obj
  BY <1>1 DEF ObjTypes, Yields
<1>2. CASE obj' = [obj EXCEPT ![c].phase = phase, ![c].at = obj[c].gen]
  <2>1. obj[c] \in Copies /\ ObjectOf(c, obj[c])
    BY DEF ObjTypes
  <2>2. obj'[c] = [obj[c] EXCEPT !.phase = phase, !.at = obj[c].gen]
    BY <1>2 DEF ObjTypes
  <2>3. /\ obj'[c] \in Copies /\ obj'[c].name = obj[c].name /\ obj'[c].tgt = obj[c].tgt
        /\ obj'[c].at = obj'[c].gen /\ obj'[c].phase = phase /\ obj'[c].born = obj[c].born
        /\ obj'[c].del = obj[c].del
    BY <2>1, <2>2 DEF Copies
  <2>4. \A d \in CRs \ {c} : obj'[d] = obj[d]
    BY <1>2 DEF ObjTypes
  <2>5. Owns(obj'[c]) <=> Live(obj[c]) /\ phase = "Ready"
    BY <2>3 DEF Owns, Live, Exists
  <2>6. obj' \in [CRs -> Copies]
    BY <1>2, <2>1, <2>3 DEF ObjTypes
  <2>7. obj'[c].at <= obj'[c].gen
    BY <2>3, SMT DEF Copies
  <2>8. ObjTypes'
    BY <2>1, <2>3, <2>4, <2>6, <2>7 DEF ObjTypes, ObjectOf
  <2> QED
    BY <2>3, <2>4, <2>5, <2>8 DEF Yields
<1> QED
  BY <1>1, <1>2

\* A status that is not Ready.
LEMMA StatusYields ==
  ASSUME ObjTypes, NEW c \in CRs,
         \/ WriteStatus(c, "Pending") \/ WriteStatus(c, "Failed")
         \/ WaitForHost(c) \/ Unreachable(c) \/ UNCHANGED obj
  PROVE  Yields(c)
<1>1. CASE UNCHANGED obj
  BY <1>1 DEF ObjTypes, Yields
<1>2. CASE WriteStatus(c, "Failed")
  <2>1. obj' \in {obj, [obj EXCEPT ![c].phase = "Failed", ![c].at = obj[c].gen]}
    BY <1>2 DEF WriteStatus
  <2> QED
    BY <2>1, WriteStatusYields
<1>3. CASE WriteStatus(c, "Pending") \/ WaitForHost(c)
  <2>1. obj' \in {obj, [obj EXCEPT ![c].phase = "Pending", ![c].at = obj[c].gen]}
    BY <1>3 DEF WriteStatus, WaitForHost
  <2> QED
    BY <2>1, WriteStatusYields
<1> QED
  BY <1>1, <1>2, <1>3 DEF Unreachable

\* The pass of a kind goes on, or ends.
Ends(k) == pass'[k] = NoPass /\ \A j \in Kinds \ {k} : pass'[j] = pass[j]
Goes(k, step) ==
    /\ pass'[k] # NoPass /\ pass'[k].at = step
    /\ pass'[k].cr = pass[k].cr /\ pass'[k].copy = pass[k].copy
    /\ \A j \in Kinds \ {k} : pass'[j] = pass[j]

LEMMA Going ==
  ASSUME PassTypes, NEW k \in Kinds, pass[k].at # "idle"
  PROVE  /\ pass[k] # NoPass /\ pass[k].cr \in CRs /\ KindOf(pass[k].cr) = k
         /\ ObjectOf(pass[k].cr, pass[k].copy)
  BY SMT DEF PassTypes, Passes, NoPass

LEMMA GoMoves ==
  ASSUME PassTypes, NEW k \in Kinds, pass[k].at # "idle", NEW step \in Steps \ {"idle"}, Go(k, step)
  PROVE  PassTypes' /\ Goes(k, step)
<1>1. pass[k] \in [at : Steps \ {"idle"}, cr : CRs, copy : Copies, on : Ons]
  BY SMT DEF PassTypes, Passes, NoPass
<1>2. pass' = [pass EXCEPT ![k].at = step]
  BY DEF Go
<1>3. pass'[k] = [pass[k] EXCEPT !.at = step] /\ \A j \in Kinds \ {k} : pass'[j] = pass[j]
  BY <1>2 DEF PassTypes
<1>4. /\ pass'[k] \in [at : Steps \ {"idle"}, cr : CRs, copy : Copies, on : Ons]
      /\ pass'[k].at = step /\ pass'[k].cr = pass[k].cr /\ pass'[k].copy = pass[k].copy
  BY <1>1, <1>3
<1>5. pass'[k] # NoPass /\ pass[k] # NoPass
  BY <1>1, <1>4, SMT DEF NoPass
<1>6. pass' \in [Kinds -> Passes]
  BY <1>2, <1>4 DEF PassTypes, Passes
<1> QED
  BY <1>3, <1>4, <1>5, <1>6, SMT DEF PassTypes, Goes

LEMMA EndEnds ==
  ASSUME PassTypes, NEW k \in Kinds, NEW requeue, EndPass(k, requeue)
  PROVE  PassTypes' /\ Ends(k)
<1>1. pass' = [pass EXCEPT ![k] = NoPass]
  BY DEF EndPass
<1> QED
  BY <1>1 DEF PassTypes, Passes, Ends

\* No CR becomes Ready, and none that stays Ready claims another name.
Quiet == ObjTypes' /\ \A d \in CRs : Owns(obj'[d]) => Owns(obj[d]) /\ obj'[d].name = obj[d].name

LEMMA YieldsQuiet ==
  ASSUME NEW c \in CRs, Yields(c)
  PROVE  Quiet
  BY DEF Yields, Quiet

\* Where a pass may go.
Advances(k) ==
    \/ Ends(k)
    \/ \E step \in Serving : Goes(k, step) /\ ~pass[k].copy.del
    \/ Goes(k, "release")
    \/ Goes(k, "drop") /\ pass[k].copy.del /\ ~KeptFor(pass[k].cr, pass[k].copy)

\* What the cache has of the claims is enough for a drop: no CR of the kind becomes Ready
\* before it, since the worker of the kind is the one that drops.
LEMMA Advanced ==
  ASSUME Inv, NEW k \in Kinds, pass[k].at # "idle", UNCHANGED cache, Quiet, Advances(k)
  PROVE  (\A c \in CRs : ClaimSeen(c)') /\ (\A j \in Kinds : PassSafe(j)')
<1>1. ASSUME NEW c \in CRs PROVE ClaimSeen(c)'
  BY DEF Inv, ClaimSeen, Quiet
<1>2. ASSUME NEW j \in Kinds \ {k} PROVE PassSafe(j)'
  <2>1. pass'[j] = pass[j] /\ PassSafe(j)
    BY <1>2 DEF Inv, Advances, Ends, Goes
  <2>2. pass[j] # NoPass => pass[j].cr \in CRs
    BY <1>2 DEF Inv, Types, PassTypes, Passes
  <2> QED
    BY <2>1, <2>2 DEF PassSafe, Quiet
<1>3. PassSafe(k)'
  <2>1. /\ pass[k] # NoPass /\ pass[k].cr \in CRs /\ KindOf(pass[k].cr) = k /\ PassSafe(k)
    BY Going DEF Inv, Types
  <2>2. CASE Ends(k)
    BY <2>2 DEF Ends, PassSafe
  <2>3. ASSUME NEW step \in Serving, Goes(k, step), ~pass[k].copy.del PROVE PassSafe(k)'
    BY <2>3 DEF Goes, PassSafe, Serving
  <2>4. CASE Goes(k, "release")
    BY <2>1, <2>4 DEF Goes, PassSafe, Serving, Quiet
  <2>5. CASE Goes(k, "drop") /\ pass[k].copy.del /\ ~KeptFor(pass[k].cr, pass[k].copy)
    <3>1. ASSUME NEW d \in CRs, KindOf(d) = k, Owns(obj[d]) PROVE obj[d].name # pass[k].copy.name
      <4>1. d # pass[k].cr
        BY <2>1, <2>5, <3>1 DEF PassSafe
      <4>2. ClaimSeen(d)
        BY DEF Inv
      <4> QED
        BY <2>1, <2>5, <3>1, <4>1, <4>2 DEF ClaimSeen, KeptFor, Contests, SameName, Live
    <3>2. ~Owns(obj'[pass[k].cr])
      BY <2>1, <2>5 DEF PassSafe, Quiet
    <3>3. \A d \in CRs : KindOf(d) = k /\ Owns(obj'[d]) => obj'[d].name # pass[k].copy.name
      BY <3>1 DEF Quiet
    <3> QED
      BY <2>5, <3>2, <3>3 DEF Goes, PassSafe, Serving
  <2> QED
    BY <2>2, <2>3, <2>4, <2>5 DEF Advances
<1> QED
  BY <1>1, <1>2, <1>3

-----------------------------------------------------------------------------
(* The steps of a pass that no statement of Neo4j's changes.               *)

\* The pass leaves Neo4j alone, and its CR as it is or not Ready.
Answers(k) ==
    /\ pass[k].at # "idle" /\ PassTypes' /\ Advances(k) /\ Yields(pass[k].cr)
    /\ UNCHANGED <<cache, host, used>>

LEMMA EndAnswers ==
  ASSUME Inv, NEW k \in Kinds, pass[k].at # "idle", NEW requeue, EndPass(k, requeue),
         Yields(pass[k].cr), UNCHANGED <<cache, host, used>>
  PROVE  Answers(k)
  BY EndEnds DEF Inv, Types, Answers, Advances

LEMMA GoAnswers ==
  ASSUME Inv, NEW k \in Kinds, pass[k].at # "idle", UNCHANGED <<obj, cache, host, used>>,
         \/ Go(k, "release")
         \/ \E step \in Serving : Go(k, step) /\ ~pass[k].copy.del
         \/ Go(k, "drop") /\ pass[k].copy.del /\ ~KeptFor(pass[k].cr, pass[k].copy)
  PROVE  Answers(k)
<1>1. PassTypes /\ pass[k].cr \in CRs /\ ObjTypes
  BY Going DEF Inv, Types
<1>2. Serving \subseteq Steps \ {"idle"} /\ {"release", "drop"} \subseteq Steps \ {"idle"}
  BY DEF Serving, Steps
<1>3. Yields(pass[k].cr)
  BY <1>1, StatusYields
<1>4. PassTypes' /\ Advances(k)
  <2>1. CASE Go(k, "release")
    BY <1>1, <1>2, <2>1, GoMoves DEF Advances
  <2>2. ASSUME NEW step \in Serving, Go(k, step), ~pass[k].copy.del
        PROVE  PassTypes' /\ Advances(k)
    BY <1>1, <1>2, <2>2, GoMoves DEF Advances
  <2>3. CASE Go(k, "drop") /\ pass[k].copy.del /\ ~KeptFor(pass[k].cr, pass[k].copy)
    BY <1>1, <1>2, <2>3, GoMoves DEF Advances
  <2> QED
    BY <2>1, <2>2, <2>3
<1> QED
  BY <1>3, <1>4 DEF Answers

LEMMA CheckAnswers ==
  ASSUME Inv, NEW k \in Kinds, Check(k) \/ Away(k)
  PROVE  Answers(k) /\ UNCHANGED neo4j
<1>0. /\ pass[k].at # "idle" /\ UNCHANGED <<cache, host, used>> /\ UNCHANGED neo4j
  BY DEF Check, Away
<1>1. pass[k].cr \in CRs /\ ObjTypes
  BY <1>0, Going DEF Inv, Types
<1>2. CASE /\ EndPass(k, TRUE) \/ EndPass(k, FALSE)
           /\ \/ WriteStatus(pass[k].cr, "Pending") \/ WriteStatus(pass[k].cr, "Failed")
              \/ WaitForHost(pass[k].cr) \/ Unreachable(pass[k].cr)
  <2>1. Yields(pass[k].cr)
    BY <1>1, <1>2, StatusYields
  <2> QED
    BY <1>0, <1>2, <2>1, EndAnswers
<1>3. CASE Go(k, "look") /\ UNCHANGED obj /\ ~pass[k].copy.del
  <2>1. "look" \in Serving
    BY DEF Serving
  <2> QED
    BY <1>0, <1>3, <2>1, GoAnswers
<1> QED
  BY <1>2, <1>3 DEF Check, Away

LEMMA BlockedAnswers ==
  ASSUME Inv, NEW k \in Kinds, pass[k].at # "idle", Blocked(k), UNCHANGED <<cache, host, used>>
  PROVE  Answers(k)
<1>1. pass[k].cr \in CRs /\ ObjTypes
  BY Going DEF Inv, Types
<1>2. CASE Go(k, "release") /\ UNCHANGED obj
  BY <1>2, GoAnswers
<1>3. CASE WriteStatus(pass[k].cr, "Failed") /\ EndPass(k, TRUE)
  BY <1>1, <1>3, StatusYields, EndAnswers
<1> QED
  BY <1>2, <1>3 DEF Blocked

LEMMA DeletionAnswers ==
  ASSUME Inv, NEW k \in Kinds, CheckDeletion(k) \/ Release(k)
  PROVE  Answers(k) /\ UNCHANGED neo4j
<1>0. /\ pass[k].at # "idle" /\ UNCHANGED <<cache, host, used>> /\ UNCHANGED neo4j
  BY DEF CheckDeletion, Release
<1>1. pass[k].cr \in CRs /\ ObjTypes
  BY <1>0, Going DEF Inv, Types
<1>2. CASE CheckDeletion(k)
  <2>1. CASE Go(k, "release") /\ UNCHANGED obj
    BY <1>0, <2>1, GoAnswers
  <2>2. CASE /\ Go(k, "drop") /\ UNCHANGED obj /\ pass[k].copy.del
             /\ ~KeptFor(pass[k].cr, pass[k].copy)
    BY <1>0, <2>2, GoAnswers
  <2>3. CASE Blocked(k)
    BY <1>0, <2>3, BlockedAnswers
  <2> QED
    BY <1>0, <1>2, <2>1, <2>2, <2>3 DEF CheckDeletion
<1>3. CASE Release(k)
  <2> DEFINE c == pass[k].cr
  <2>1. obj' \in {obj, [obj EXCEPT ![c] = Absent(c)]} /\ EndPass(k, FALSE)
    BY <1>3 DEF Release
  <2>2. Yields(c)
    <3>1. CASE obj' = obj
      BY <3>1, <1>1, StatusYields
    <3>2. CASE obj' = [obj EXCEPT ![c] = Absent(c)]
      <4>1. ObjectOf(c, Absent(c)) /\ Absent(c).at <= Absent(c).gen /\ ~Live(Absent(c))
        BY <1>1, AbsentType
      <4>2. obj'[c] = Absent(c) /\ \A d \in CRs \ {c} : obj'[d] = obj[d]
        BY <1>1, <3>2 DEF ObjTypes
      <4>3. obj' \in [CRs -> Copies]
        BY <1>1, <3>2, <4>1 DEF ObjTypes, ObjectOf
      <4> HIDE DEF c
      <4> QED
        BY <1>1, <4>1, <4>2, <4>3 DEF ObjTypes, Yields, Owns
    <3> QED
      BY <2>1, <3>1, <3>2
  <2> QED
    BY <1>0, <2>1, <2>2, EndAnswers
<1> QED
  BY <1>2, <1>3

\* A pass that serves its CR is not one of a CR that is going.
LEMMA ServingPass ==
  ASSUME Inv, NEW k \in Kinds, pass[k].at \in Serving
  PROVE  /\ pass[k].at # "idle" /\ ~pass[k].copy.del /\ pass[k].cr \in CRs
         /\ KindOf(pass[k].cr) = k /\ ObjectOf(pass[k].cr, pass[k].copy) /\ ObjTypes
<1>1. pass[k].at # "idle"
  BY DEF Serving
<1>2. pass[k] # NoPass /\ PassSafe(k)
  BY <1>1, Going DEF Inv, Types
<1> QED
  BY <1>1, <1>2, Going DEF Inv, Types, PassSafe

\* A pass that serves goes on serving, or ends with a status that is not Ready.
LEMMA ServingAnswers ==
  ASSUME Inv, NEW k \in Kinds, pass[k].at \in Serving, UNCHANGED <<cache, host, used>>,
         \/ (\E step \in Serving : Go(k, step)) /\ UNCHANGED obj
         \/ /\ WriteStatus(pass[k].cr, "Pending") \/ WriteStatus(pass[k].cr, "Failed")
            /\ EndPass(k, TRUE)
         \/ EndPass(k, TRUE) /\ UNCHANGED obj
  PROVE  Answers(k)
<1>1. pass[k].at # "idle" /\ ~pass[k].copy.del /\ pass[k].cr \in CRs /\ ObjTypes
  BY ServingPass
<1>2. CASE (\E step \in Serving : Go(k, step)) /\ UNCHANGED obj
  BY <1>1, <1>2, GoAnswers
<1>3. CASE Yields(pass[k].cr) /\ EndPass(k, TRUE)
  BY <1>1, <1>3, EndAnswers
<1> QED
  BY <1>1, <1>2, <1>3, StatusYields

LEMMA LookAnswers ==
  ASSUME Inv, LookForDatabase \/ LookForAlias \/ LookForComposite
  PROVE  \E k \in Kinds : Answers(k) /\ UNCHANGED neo4j
<1>1. CASE LookForDatabase
  <2>1. /\ pass["database"].at \in Serving /\ "database" \in Kinds /\ UNCHANGED <<obj, cache, host, used>>
        /\ UNCHANGED neo4j
    BY <1>1 DEF LookForDatabase, Serving, Kinds
  <2>2. \E step \in Serving : Go("database", step)
    BY <1>1 DEF LookForDatabase, Serving
  <2> QED
    BY <2>1, <2>2, ServingAnswers
<1>2. CASE LookForAlias
  <2>1. /\ pass["alias"].at \in Serving /\ "alias" \in Kinds /\ UNCHANGED <<cache, host, used>>
        /\ UNCHANGED neo4j
    BY <1>2 DEF LookForAlias, Serving, Kinds
  <2>2. \/ (\E step \in Serving : Go("alias", step)) /\ UNCHANGED obj
        \/ WriteStatus(pass["alias"].cr, "Pending") /\ EndPass("alias", TRUE)
    BY <1>2 DEF LookForAlias, Serving
  <2> QED
    BY <2>1, <2>2, ServingAnswers
<1>3. CASE LookForComposite
  <2>1. /\ pass["composite"].at \in Serving /\ "composite" \in Kinds /\ UNCHANGED <<cache, host, used>>
        /\ UNCHANGED neo4j
    BY <1>3 DEF LookForComposite, Serving, Kinds
  <2>2. \/ (\E step \in Serving : Go("composite", step)) /\ UNCHANGED obj
        \/ WriteStatus(pass["composite"].cr, "Failed") /\ EndPass("composite", TRUE)
    BY <1>3 DEF LookForComposite, Serving
  <2> QED
    BY <2>1, <2>2, ServingAnswers
<1> QED
  BY <1>1, <1>2, <1>3

-----------------------------------------------------------------------------
(* The statements, as what they do to the slots.                           *)

SlotFacts ==
    /\ There \subseteq Slots
    /\ \A n \in DbNames : <<"database", n>> \in Slots /\ (<<"database", n>> \in There <=> db[n].up)
    /\ \A a \in AliasNames : <<"alias", a>> \in Slots /\ (<<"alias", a>> \in There <=> alias[a] # "none")
    /\ \A q \in CompNames : <<"composite", q>> \in Slots /\ (<<"composite", q>> \in There <=> comp[q].up)
    /\ \A s \in Slots : \/ \E n \in DbNames : s = <<"database", n>>
                        \/ \E a \in AliasNames : s = <<"alias", a>>
                        \/ \E q \in CompNames : s = <<"composite", q>>

LEMMA SlotsAre == SlotFacts
<1>1. \A s \in Slots : \/ \E n \in DbNames : s = <<"database", n>>
                       \/ \E a \in AliasNames : s = <<"alias", a>>
                       \/ \E q \in CompNames : s = <<"composite", q>>
  BY SMT DEF Slots
<1>2. There \subseteq Slots
  BY DEF There
<1>3. \A n \in DbNames : <<"database", n>> \in Slots /\ (<<"database", n>> \in There <=> db[n].up)
  BY DEF Slots, There
<1>4. \A a \in AliasNames : <<"alias", a>> \in Slots /\ (<<"alias", a>> \in There <=> alias[a] # "none")
  BY DEF Slots, There
<1>5. \A q \in CompNames : <<"composite", q>> \in Slots /\ (<<"composite", q>> \in There <=> comp[q].up)
  BY DEF Slots, There
<1> QED
  BY <1>1, <1>2, <1>3, <1>4, <1>5 DEF SlotFacts

LEMMA SlotsStay == SlotFacts /\ SlotFacts'
  BY SlotsAre, PTL

\* What is there, but for one slot, stays.
LEMMA SlotsSame ==
  ASSUME NEW t,
         \A n \in DbNames : <<"database", n>> # t => db'[n].up = db[n].up,
         \A a \in AliasNames : <<"alias", a>> # t => (alias'[a] # "none" <=> alias[a] # "none"),
         \A q \in CompNames : <<"composite", q>> # t => comp'[q].up = comp[q].up
  PROVE  \A s : s # t => (s \in There' <=> s \in There)
<1>1. ASSUME NEW s \in Slots, s # t PROVE s \in There' <=> s \in There
  BY <1>1, SlotsStay, SMT DEF SlotFacts
<1> QED
  BY <1>1, SlotsStay DEF SlotFacts

LEMMA SlotsAll ==
  ASSUME \A n \in DbNames : db'[n].up = db[n].up,
         \A a \in AliasNames : alias'[a] # "none" <=> alias[a] # "none",
         \A q \in CompNames : comp'[q].up = comp[q].up
  PROVE  There' = There
<1>1. ASSUME NEW s \in Slots PROVE s \in There' <=> s \in There
  BY SlotsStay, SMT DEF SlotFacts
<1>2. There \subseteq Slots /\ There' \subseteq Slots
  BY SlotsStay DEF SlotFacts
<1> QED
  BY <1>1, <1>2

\* The worker of a kind acts on the names of its kind.
LEMMA PassNames ==
  ASSUME Inv, NEW k \in Kinds, pass[k].at # "idle"
  PROVE  /\ k = "database" => pass[k].copy.name \in DbNames
         /\ k = "alias" => pass[k].copy.name \in AliasNames
         /\ k = "composite" => pass[k].copy.name \in CompNames
         /\ k # "database" => pass[k].copy.tgt \in DbNames
         /\ pass[k].cr \in CRs
         /\ <<k, pass[k].copy.name>> \in Slots
<1>1. pass[k].cr \in CRs /\ KindOf(pass[k].cr) = k /\ ObjectOf(pass[k].cr, pass[k].copy)
  BY Going DEF Inv, Types
<1>2. /\ k = "database" => pass[k].copy.name \in DbNames
      /\ k = "alias" => pass[k].copy.name \in AliasNames /\ pass[k].copy.tgt \in DbNames
      /\ k = "composite" => pass[k].copy.name \in CompNames /\ pass[k].copy.tgt \in DbNames
  BY <1>1, KindNames DEF ObjectOf
<1> QED
  BY <1>1, <1>2, SlotsAre DEF Kinds, SlotFacts

\* A statement fills at most the slot of the pass that sends it.
Fills(t) == NeoTypes' /\ \A s : s # t => (s \in There' <=> s \in There)
Slot(k) == <<k, pass[k].copy.name>>

LEMMA DatabaseStatements ==
  ASSUME Inv, CreateDatabase \/ ImportInitialData
  PROVE  /\ Answers("database") /\ "database" \in Kinds
         /\ Fills(Slot("database")) /\ (obj' = obj \/ There' = There)
         /\ Slot("database") \in There => There' = There
<1>0. /\ pass["database"].at \in Serving /\ "database" \in Kinds /\ UNCHANGED <<cache, host, used>>
      /\ alias' = alias /\ comp' = comp
  BY DEF CreateDatabase, ImportInitialData, Serving, Kinds
<1>1. /\ pass["database"].copy.name \in DbNames /\ pass["database"].cr \in CRs /\ NeoTypes
  BY <1>0, ServingPass, PassNames DEF Inv, Types
<1>2. Answers("database")
  <2>1. \/ (\E step \in Serving : Go("database", step)) /\ UNCHANGED obj
        \/ WriteStatus(pass["database"].cr, "Failed") /\ EndPass("database", TRUE)
    BY DEF CreateDatabase, ImportInitialData, Serving
  <2> QED
    BY <1>0, <2>1, ServingAnswers
<1> DEFINE n == pass["database"].copy.name
<1>3. CASE CreateDatabase
  <2>1. /\ db' \in [DbNames -> [up : BOOLEAN, by : CRs \cup {"none", "admin"}, runs : 0 .. 2]]
        /\ db'[n].up /\ \A m \in DbNames \ {n} : db'[m] = db[m]
    BY <1>1, <1>3, SMT DEF CreateDatabase, Created, NeoTypes
  <2>2. NeoTypes'
    BY <1>0, <1>1, <2>1 DEF NeoTypes
  <2>3. \A s : s # <<"database", n>> => (s \in There' <=> s \in There)
    <3>1. \A m \in DbNames : <<"database", m>> # <<"database", n>> => db'[m].up = db[m].up
      BY <2>1
    <3> HIDE DEF n
    <3> QED
      BY <1>0, <3>1, SlotsSame
  <2>4. obj' = obj /\ <<"database", n>> \in There'
    BY <1>1, <1>3, <2>1, SlotsStay DEF CreateDatabase, SlotFacts
  <2> QED
    BY <1>0, <1>2, <2>2, <2>3, <2>4, SMT DEF Fills, Slot
<1>4. CASE ImportInitialData
  <2>1. /\ db' \in [DbNames -> [up : BOOLEAN, by : CRs \cup {"none", "admin"}, runs : 0 .. 2]]
        /\ \A m \in DbNames : db'[m].up = db[m].up
    <3>1. CASE db' = db
      BY <1>1, <3>1 DEF NeoTypes
    <3>2. CASE db' = Imported(n)
      <4>1. db[n] \in [up : BOOLEAN, by : CRs \cup {"none", "admin"}, runs : 0 .. 2]
        BY <1>1 DEF NeoTypes
      <4>2. db' = [db EXCEPT ![n] = [db[n] EXCEPT !.runs = IF db[n].runs = 2 THEN 2 ELSE db[n].runs + 1]]
        BY <3>2 DEF Imported
      <4>3. (IF db[n].runs = 2 THEN 2 ELSE db[n].runs + 1) \in 0 .. 2
        BY <4>1, SMT
      <4> HIDE DEF n
      <4> QED
        BY <1>1, <4>1, <4>2, <4>3 DEF NeoTypes
    <3> QED
      BY <1>4, <3>1, <3>2 DEF ImportInitialData
  <2>2. NeoTypes'
    BY <1>0, <1>1, <2>1 DEF NeoTypes
  <2>3. There' = There
    BY <1>0, <2>1, SlotsAll
  <2> QED
    BY <1>0, <1>2, <2>2, <2>3 DEF Fills
<1> QED
  BY <1>3, <1>4

LEMMA AliasStatements ==
  ASSUME Inv, PointAlias
  PROVE  /\ Answers("alias") /\ "alias" \in Kinds
         /\ Fills(Slot("alias")) /\ (obj' = obj \/ There' = There)
         /\ Slot("alias") \in There => There' = There
<1>0. /\ pass["alias"].at \in Serving /\ "alias" \in Kinds /\ UNCHANGED <<cache, host, used>>
      /\ db' = db /\ comp' = comp
  BY DEF PointAlias, Serving, Kinds
<1>1. /\ pass["alias"].copy.name \in AliasNames /\ pass["alias"].copy.tgt \in DbNames /\ NeoTypes
  BY <1>0, ServingPass, PassNames DEF Inv, Types
<1>2. Answers("alias")
  <2>1. \/ (\E step \in Serving : Go("alias", step)) /\ UNCHANGED obj
        \/ WriteStatus(pass["alias"].cr, "Failed") /\ EndPass("alias", TRUE)
    BY DEF PointAlias, Serving
  <2> QED
    BY <1>0, <2>1, ServingAnswers
<1> DEFINE n == pass["alias"].copy.name
<1>3. CASE alias' = Aliased(n, pass["alias"].copy.tgt) /\ obj' = obj
  <2>1. /\ alias' \in [AliasNames -> DbNames \cup {"none"}] /\ alias'[n] # "none"
        /\ \A m \in AliasNames \ {n} : alias'[m] = alias[m]
    BY <1>1, <1>3, NamesAssumption DEF Aliased, NeoTypes
  <2>2. NeoTypes'
    BY <1>0, <1>1, <2>1 DEF NeoTypes
  <2>3. \A s : s # <<"alias", n>> => (s \in There' <=> s \in There)
    <3>1. \A m \in AliasNames : <<"alias", m>> # <<"alias", n>> => (alias'[m] # "none" <=> alias[m] # "none")
      BY <2>1
    <3> HIDE DEF n
    <3> QED
      BY <1>0, <3>1, SlotsSame
  <2>4. <<"alias", n>> \in There'
    BY <1>1, <2>1, SlotsStay DEF SlotFacts
  <2> QED
    BY <1>0, <1>2, <1>3, <2>2, <2>3, <2>4, SMT DEF Fills, Slot
<1>4. CASE alias' = alias
  <2>1. There' = There /\ NeoTypes'
    BY <1>0, <1>1, <1>4, SlotsAll DEF NeoTypes
  <2> QED
    BY <1>0, <1>2, <2>1 DEF Fills
<1> QED
  BY <1>3, <1>4 DEF PointAlias

\* Of the statements on a composite only its creation fills its slot.
LEMMA CompositeStatements ==
  ASSUME Inv, CreateComposite \/ WireConstituent \/ PruneConstituents
  PROVE  /\ Answers("composite") /\ "composite" \in Kinds
         /\ Fills(Slot("composite")) /\ (obj' = obj \/ There' = There)
         /\ Slot("composite") \in There => There' = There
<1>0. /\ pass["composite"].at \in Serving /\ "composite" \in Kinds /\ UNCHANGED <<cache, host, used>>
      /\ db' = db /\ alias' = alias
  BY DEF CreateComposite, WireConstituent, PruneConstituents, Serving, Kinds
<1>1. /\ pass["composite"].copy.name \in CompNames /\ pass["composite"].copy.tgt \in DbNames /\ NeoTypes
  BY <1>0, ServingPass, PassNames DEF Inv, Types
<1>2. Answers("composite")
  <2>1. \/ (\E step \in Serving : Go("composite", step)) /\ UNCHANGED obj
        \/ WriteStatus(pass["composite"].cr, "Failed") /\ EndPass("composite", TRUE)
    BY DEF CreateComposite, WireConstituent, PruneConstituents, Serving
  <2> QED
    BY <1>0, <2>1, ServingAnswers
<1> DEFINE n == pass["composite"].copy.name
           Shape == [up : BOOLEAN, on : Ons]
<1>a. comp \in [CompNames -> Shape] /\ comp[n] \in Shape
  BY <1>1 DEF NeoTypes
<1>3. CASE comp' = Composed(n) /\ obj' = obj
  <2>1. comp' = [comp EXCEPT ![n] = [comp[n] EXCEPT !.up = TRUE]]
    BY <1>3 DEF Composed
  <2>2. [comp[n] EXCEPT !.up = TRUE] \in Shape /\ [comp[n] EXCEPT !.up = TRUE].up = TRUE
    BY <1>a
  <2>3. /\ comp' \in [CompNames -> Shape] /\ comp'[n].up
        /\ \A m \in CompNames \ {n} : comp'[m] = comp[m]
    <3> HIDE DEF n, Shape
    <3> QED
      BY <1>1, <1>a, <2>1, <2>2 DEF n
  <2>4. NeoTypes'
    BY <1>0, <1>1, <2>3 DEF NeoTypes
  <2>5. \A s : s # <<"composite", n>> => (s \in There' <=> s \in There)
    <3>1. \A m \in CompNames : <<"composite", m>> # <<"composite", n>> => comp'[m].up = comp[m].up
      BY <2>3
    <3> HIDE DEF n
    <3> QED
      BY <1>0, <3>1, SlotsSame
  <2>6. <<"composite", n>> \in There'
    BY <1>1, <2>3, SlotsStay DEF SlotFacts
  <2> QED
    BY <1>0, <1>2, <1>3, <2>4, <2>5, <2>6, SMT DEF Fills, Slot
<1>4. CASE \E on \in Ons : comp' = [comp EXCEPT ![n] = [comp[n] EXCEPT !.on = on]]
  <2>1. PICK on \in Ons : comp' = [comp EXCEPT ![n] = [comp[n] EXCEPT !.on = on]]
    BY <1>4
  <2>2. [comp[n] EXCEPT !.on = on] \in Shape /\ [comp[n] EXCEPT !.on = on].up = comp[n].up
    BY <1>a
  <2>3. comp' \in [CompNames -> Shape] /\ \A m \in CompNames : comp'[m].up = comp[m].up
    BY <1>1, <1>a, <2>1, <2>2
  <2>4. There' = There /\ NeoTypes'
    BY <1>0, <1>1, <2>3, SlotsAll DEF NeoTypes
  <2> QED
    BY <1>0, <1>2, <2>4 DEF Fills
<1>5. CASE comp' = comp
  <2>1. There' = There /\ NeoTypes'
    BY <1>0, <1>1, <1>5, SlotsAll DEF NeoTypes
  <2> QED
    BY <1>0, <1>2, <2>1 DEF Fills
<1>6. comp' \in {Wired(n, pass["composite"].copy.tgt), Unwired(n)} =>
        \E on \in Ons : comp' = [comp EXCEPT ![n] = [comp[n] EXCEPT !.on = on]]
  <2>1. comp[n].on \in Ons
    BY <1>a
  <2>2. [comp[n].on EXCEPT !["listed"] = pass["composite"].copy.tgt] \in Ons
    BY <1>1, <2>1 DEF Ons, Constituents
  <2>3. [comp[n].on EXCEPT !["stray"] = "none"] \in Ons
    BY <2>1 DEF Ons, Constituents
  <2>4. Wired(n, pass["composite"].copy.tgt)
          = [comp EXCEPT ![n] = [comp[n] EXCEPT
                !.on = [comp[n].on EXCEPT !["listed"] = pass["composite"].copy.tgt]]]
    BY DEF Wired
  <2>5. Unwired(n) = [comp EXCEPT ![n] = [comp[n] EXCEPT
                        !.on = [comp[n].on EXCEPT !["stray"] = "none"]]]
    BY DEF Unwired
  <2> QED
    BY <2>2, <2>3, <2>4, <2>5
<1> QED
  BY <1>3, <1>4, <1>5, <1>6 DEF CreateComposite, WireConstituent, PruneConstituents

-----------------------------------------------------------------------------
(* Every step keeps the invariant and is a step of the registry.           *)

Refines == [Registry!Next]_(Registry!registry)

LEMMA AnswersKeeps ==
  ASSUME Inv, NEW k \in Kinds, Answers(k), NeoTypes'
  PROVE  Inv'
<1>1. Quiet
  BY YieldsQuiet, Going DEF Answers, Inv, Types
<1>2. (\A c \in CRs : ClaimSeen(c)') /\ (\A j \in Kinds : PassSafe(j)')
  BY <1>1, Advanced DEF Answers
<1>3. CacheTypes' /\ WorldTypes'
  BY DEF Answers, Inv, Types, CacheTypes, WorldTypes
<1> QED
  BY <1>1, <1>2, <1>3 DEF Inv, Types, Quiet, Answers

LEMMA HoldsYields ==
  ASSUME NEW c \in CRs, Yields(c)
  PROVE  Holds' \in {Holds, [Holds EXCEPT ![c] = {}]}
<1>1. \A d \in CRs \ {c} : obj'[d] = obj[d]
  BY DEF Yields
<1>2. CASE obj'[c] = obj[c]
  BY <1>1, <1>2 DEF Holds
<1>3. CASE ~Owns(obj'[c])
  BY <1>1, <1>3 DEF Holds
<1> QED
  BY <1>2, <1>3 DEF Yields

\* The CR of the pass may no longer answer for its slot; nothing goes.
LEMMA AnswersRefines ==
  ASSUME Inv, NEW k \in Kinds, Answers(k), There' = There
  PROVE  Refines
<1>1. pass[k].cr \in CRs /\ Yields(pass[k].cr) /\ UNCHANGED <<host, used>>
  BY Going DEF Answers, Inv, Types
<1>2. Holds' \in {Holds, [Holds EXCEPT ![pass[k].cr] = {}]}
  BY <1>1, HoldsYields
<1>3. CASE Holds' = Holds
  BY <1>1, <1>3 DEF Refines, Registry!registry
<1>4. CASE Holds' = [Holds EXCEPT ![pass[k].cr] = {}]
  <2>1. Registry!LetGo
    BY <1>1, <1>4 DEF Registry!LetGo
  <2> QED
    BY <2>1 DEF Refines, Registry!Next
<1> QED
  BY <1>2, <1>3, <1>4

\* A slot is filled.
LEMMA FillsRefines ==
  ASSUME Inv, NEW k \in Kinds, Answers(k), obj' = obj, Fills(Slot(k)),
         Slot(k) \in There => There' = There
  PROVE  Refines
<1>1. Holds' = Holds /\ UNCHANGED <<host, used>>
  BY DEF Holds, Answers
<1>2. Slot(k) \in Slots
  BY PassNames DEF Answers, Slot
<1>3. CASE There' = There
  BY <1>3, AnswersRefines
<1>4. CASE There' # There
  <2>1. Slot(k) \in Slots \ There /\ Slot(k) \in There'
    BY <1>2, <1>4, SMT DEF Fills
  <2>2. There' = There \cup {Slot(k)}
    BY <2>1 DEF Fills
  <2>3. Registry!Give
    BY <1>1, <2>1, <2>2 DEF Registry!Give
  <2> QED
    BY <2>3 DEF Refines, Registry!Next
<1> QED
  BY <1>3, <1>4

\* What is dropped, no CR answers for.
LEMMA DropRefines ==
  ASSUME Inv, NEW k \in Kinds, Drop(k)
  PROVE  Inv' /\ Refines
<1>0. pass[k].at = "drop" /\ pass[k].at # "idle" /\ UNCHANGED <<cache, host, used>> /\ NeoTypes
  BY DEF Drop, Inv, Types
<1> DEFINE n == pass[k].copy.name
<1>1. CASE Blocked(k) /\ UNCHANGED neo4j
  <2>1. Answers(k) /\ NeoTypes' /\ There' = There
    BY <1>0, <1>1, BlockedAnswers, SlotsAll DEF neo4j, NeoTypes
  <2> QED
    BY <2>1, AnswersKeeps, AnswersRefines
<1>2. CASE /\ db' = IF k = "database" THEN Dropped(n) ELSE db
           /\ alias' = IF k = "alias" THEN Unaliased(n) ELSE alias
           /\ comp' = IF k = "composite" THEN Decomposed(n) ELSE comp
           /\ Go(k, "release") /\ UNCHANGED obj
  <2>1. Answers(k)
    BY <1>0, <1>2, GoAnswers
  <2>2. /\ k = "database" => n \in DbNames
        /\ k = "alias" => n \in AliasNames
        /\ k = "composite" => n \in CompNames
        /\ <<k, n>> \in Slots
    BY <1>0, PassNames
  <2>3. NoDb \in [up : BOOLEAN, by : CRs \cup {"none", "admin"}, runs : 0 .. 2] /\ ~NoDb.up
    BY SMT DEF NoDb
  <2>4. NoComp \in [up : BOOLEAN, on : Ons] /\ ~NoComp.up
    BY DEF NoComp, Ons
  <2>5. /\ db' \in [DbNames -> [up : BOOLEAN, by : CRs \cup {"none", "admin"}, runs : 0 .. 2]]
        /\ k = "database" => ~db'[n].up
        /\ \A m \in DbNames : <<"database", m>> # <<k, n>> => db'[m] = db[m]
    BY <1>0, <1>2, <2>2, <2>3 DEF Dropped, NeoTypes
  <2>6. /\ alias' \in [AliasNames -> DbNames \cup {"none"}]
        /\ k = "alias" => alias'[n] = "none"
        /\ \A m \in AliasNames : <<"alias", m>> # <<k, n>> => alias'[m] = alias[m]
    BY <1>0, <1>2, <2>2 DEF Unaliased, NeoTypes
  <2>7. /\ comp' \in [CompNames -> [up : BOOLEAN, on : Ons]]
        /\ k = "composite" => ~comp'[n].up
        /\ \A m \in CompNames : <<"composite", m>> # <<k, n>> => comp'[m] = comp[m]
    BY <1>0, <1>2, <2>2, <2>4 DEF Decomposed, NeoTypes
  <2>8. NeoTypes'
    BY <2>5, <2>6, <2>7 DEF NeoTypes
  <2>9. There' = There \ {<<k, n>>}
    <3>1. \A s : s # <<k, n>> => (s \in There' <=> s \in There)
      BY <2>5, <2>6, <2>7, SlotsSame
    <3>2. <<k, n>> \notin There'
      BY <2>2, <2>5, <2>6, <2>7, SlotsStay, SMT DEF SlotFacts, Kinds
    <3> HIDE DEF n
    <3> QED
      BY <3>1, <3>2
  <2>10. \A c \in CRs : <<k, n>> \notin Holds[c]
    <3>1. \A d \in CRs : KindOf(d) = k /\ Owns(obj[d]) => obj[d].name # n
      BY <1>0, Going DEF Inv, Types, PassSafe
    <3> HIDE DEF n
    <3> QED
      BY <3>1 DEF Holds
  <2>11. Holds' = Holds
    BY <1>2 DEF Holds
  <2>12. Refines
    <3>1. CASE <<k, n>> \in There
      <4>1. Registry!Free
        BY <1>0, <2>9, <2>10, <2>11, <3>1 DEF Registry!Free
      <4> QED
        BY <4>1 DEF Refines, Registry!Next
    <3>2. CASE <<k, n>> \notin There
      <4>1. There' = There
        BY <2>9, <3>2
      <4> QED
        BY <2>1, <4>1, AnswersRefines
    <3> QED
      BY <3>1, <3>2
  <2> QED
    BY <2>1, <2>8, <2>12, AnswersKeeps
<1> QED
  BY <1>1, <1>2 DEF Drop

\* A pass that reports Ready read its CR as it is: the cache has its claim.
LEMMA ReportRefines ==
  ASSUME Inv, NEW k \in Kinds, Report(k)
  PROVE  Inv' /\ Refines
<1>0. /\ pass[k].at \in Serving /\ UNCHANGED <<cache, host, used>> /\ UNCHANGED neo4j
      /\ EndPass(k, TRUE)
  BY DEF Report, Serving
<1> DEFINE c == pass[k].cr
<1>1. c \in CRs /\ KindOf(c) = k /\ ObjTypes /\ PassTypes
  BY <1>0, ServingPass DEF Inv, Types
<1>2. obj' = obj \/ (Current(c) /\ obj' = [obj EXCEPT ![c].phase = "Ready", ![c].at = obj[c].gen])
  BY DEF Report, WriteStatus
<1>3. /\ ObjTypes' /\ \A d \in CRs \ {c} : obj'[d] = obj[d]
      /\ obj' # obj => (Owns(obj'[c]) <=> Live(obj[c]))
      /\ obj'[c].name = obj[c].name
  <2>1. obj' \in {obj, [obj EXCEPT ![c].phase = "Ready", ![c].at = obj[c].gen]}
    BY <1>2
  <2> HIDE DEF c
  <2> QED
    BY <1>1, <2>1, WriteStatusYields
<1>4. PassTypes' /\ Ends(k)
  BY <1>0, <1>1, EndEnds
<1>5. NeoTypes' /\ CacheTypes' /\ WorldTypes' /\ There' = There
  BY <1>0, SlotsAll DEF neo4j, Inv, Types, NeoTypes, CacheTypes, WorldTypes
<1>6. ASSUME NEW d \in CRs PROVE ClaimSeen(d)'
  <2>1. CASE obj'[d] = obj[d]
    BY <1>0, <2>1 DEF Inv, ClaimSeen
  <2>2. CASE d = c /\ obj' # obj
    BY <1>0, <1>2, <1>3, <2>2 DEF Current, ClaimSeen
  <2> QED
    BY <1>3, <2>1, <2>2
<1>7. ASSUME NEW j \in Kinds PROVE PassSafe(j)'
  <2>1. CASE j = k
    BY <1>4, <2>1 DEF Ends, PassSafe
  <2>2. CASE j # k
    <3>1. pass'[j] = pass[j] /\ PassSafe(j)
      BY <1>4, <2>2 DEF Ends, Inv
    <3>2. pass[j] # NoPass => pass[j].cr \in CRs /\ KindOf(pass[j].cr) = j
      BY <1>1 DEF PassTypes, Passes
    <3>3. \A d \in CRs : KindOf(d) = j => obj'[d] = obj[d]
      BY <1>1, <1>3, <2>2
    <3> QED
      BY <3>1, <3>2, <3>3 DEF PassSafe
  <2> QED
    BY <2>1, <2>2
<1>8. Inv'
  BY <1>3, <1>4, <1>5, <1>6, <1>7 DEF Inv, Types
<1>9. Refines
  <2>1. CASE obj' = obj
    <3>1. Holds' = Holds
      BY <2>1 DEF Holds
    <3> QED
      BY <1>0, <1>5, <3>1 DEF Refines, Registry!registry
  <2>2. CASE obj' # obj /\ Live(obj[c])
    <3>1. Holds' = [Holds EXCEPT ![c] = {<<k, obj[c].name>>}]
      BY <1>1, <1>3, <2>2 DEF Holds
    <3>2. <<k, obj[c].name>> \in Slots
      <4>1. obj[c].name \in NamesOf(c)
        BY <1>1 DEF ObjTypes, ObjectOf
      <4> QED
        BY <1>1, <4>1, KindNames, SlotsAre DEF Kinds, SlotFacts
    <3>3. Registry!Hold
      BY <1>0, <1>1, <1>5, <3>1, <3>2 DEF Registry!Hold
    <3> QED
      BY <3>3 DEF Refines, Registry!Next
  <2>3. CASE obj' # obj /\ ~Live(obj[c])
    <3>1. Holds' = [Holds EXCEPT ![c] = {}]
      BY <1>1, <1>3, <2>3 DEF Holds
    <3>2. Registry!LetGo
      BY <1>0, <1>1, <1>5, <3>1 DEF Registry!LetGo
    <3> QED
      BY <3>2 DEF Refines, Registry!Next
  <2> QED
    BY <2>1, <2>2, <2>3
<1> QED
  BY <1>8, <1>9

\* A write that leaves the claims alone: a finalizer, a record of the import.
LEMMA SameClaims ==
  ASSUME ObjTypes, NEW c \in CRs, obj' \in {[obj EXCEPT ![c].fin = TRUE], [obj EXCEPT ![c].imp = TRUE]}
  PROVE  Quiet /\ Holds' = Holds
<1>1. obj[c] \in Copies /\ ObjectOf(c, obj[c]) /\ obj[c].at <= obj[c].gen
  BY DEF ObjTypes
<1>2. obj'[c] \in {[obj[c] EXCEPT !.fin = TRUE], [obj[c] EXCEPT !.imp = TRUE]}
      /\ \A d \in CRs \ {c} : obj'[d] = obj[d]
  BY DEF ObjTypes
<1>3. /\ obj'[c] \in Copies /\ obj'[c].name = obj[c].name /\ obj'[c].tgt = obj[c].tgt
      /\ obj'[c].at = obj[c].at /\ obj'[c].gen = obj[c].gen /\ obj'[c].phase = obj[c].phase
      /\ obj'[c].born = obj[c].born /\ obj'[c].del = obj[c].del
  BY <1>1, <1>2 DEF Copies
<1>4. obj' \in [CRs -> Copies]
  BY <1>1, <1>3 DEF ObjTypes
<1>5. ObjTypes'
  BY <1>1, <1>2, <1>3, <1>4 DEF ObjTypes, ObjectOf
<1>6. \A d \in CRs : (Owns(obj'[d]) <=> Owns(obj[d])) /\ obj'[d].name = obj[d].name
  BY <1>2, <1>3 DEF Owns, Live, Exists
<1> QED
  BY <1>5, <1>6 DEF Quiet, Holds

LEMMA RecordRefines ==
  ASSUME Inv, RecordImport
  PROVE  Inv' /\ Refines
<1> DEFINE k == "database"
<1>0. /\ pass[k].at \in Serving /\ k \in Kinds /\ UNCHANGED <<cache, host, used>> /\ UNCHANGED neo4j
  BY DEF RecordImport, Serving, Kinds
<1>1. NeoTypes' /\ CacheTypes' /\ WorldTypes' /\ There' = There
  BY <1>0, SlotsAll DEF neo4j, Inv, Types, NeoTypes, CacheTypes, WorldTypes
<1>2. CASE EndPass(k, TRUE) /\ UNCHANGED obj
  BY <1>0, <1>1, <1>2, ServingAnswers, AnswersKeeps, AnswersRefines
<1>3. CASE obj' = [obj EXCEPT ![pass[k].cr].imp = TRUE] /\ Go(k, "report")
  <2>1. pass[k].at # "idle" /\ ~pass[k].copy.del /\ pass[k].cr \in CRs /\ ObjTypes /\ PassTypes
    BY <1>0, ServingPass DEF Inv, Types
  <2>2. Quiet /\ Holds' = Holds
    BY <1>3, <2>1, SameClaims
  <2>3. "report" \in Serving /\ "report" \in Steps \ {"idle"}
    BY DEF Serving, Steps
  <2>4. PassTypes' /\ Advances(k)
    BY <1>0, <1>3, <2>1, <2>3, GoMoves DEF Advances
  <2>5. (\A c \in CRs : ClaimSeen(c)') /\ (\A j \in Kinds : PassSafe(j)')
    BY <1>0, <2>1, <2>2, <2>4, Advanced
  <2>6. Inv'
    BY <1>1, <2>2, <2>4, <2>5 DEF Inv, Types, Quiet
  <2> QED
    BY <1>0, <1>1, <2>2, <2>6 DEF Refines, Registry!registry
<1> QED
  BY <1>2, <1>3 DEF RecordImport

LEMMA ListRefines ==
  ASSUME Inv, ListConstituents
  PROVE  Inv' /\ Refines
<1> DEFINE k == "composite"
           Shape == [at : Steps \ {"idle"}, cr : CRs, copy : Copies, on : Ons]
           on == comp[pass[k].copy.name].on
<1>0. /\ pass[k].at \in Serving /\ k \in Kinds /\ UNCHANGED <<obj, cache, host, used>> /\ UNCHANGED neo4j
  BY DEF ListConstituents, Serving, Kinds
<1>1. NeoTypes' /\ CacheTypes' /\ WorldTypes' /\ There' = There
  BY <1>0, SlotsAll DEF neo4j, Inv, Types, NeoTypes, CacheTypes, WorldTypes
<1>2. pass[k].at # "idle" /\ ~pass[k].copy.del /\ pass[k].cr \in CRs /\ ObjTypes /\ PassTypes
  BY <1>0, ServingPass DEF Inv, Types
<1>3. pass[k] \in Shape /\ on \in Ons
  <2>1. pass[k] \in Shape
    BY <1>0, <1>2, SMT DEF PassTypes, Passes, NoPass
  <2>2. pass[k].copy.name \in CompNames
    BY <1>0, <1>2, PassNames
  <2>3. comp \in [CompNames -> [up : BOOLEAN, on : Ons]]
    BY DEF Inv, Types, NeoTypes
  <2> QED
    BY <2>1, <2>2, <2>3
<1>4. pass' = [pass EXCEPT ![k] = [pass[k] EXCEPT !.on = on, !.at = "wire"]]
  BY DEF ListConstituents
<1>5. /\ pass'[k] \in Shape /\ pass'[k].at = "wire" /\ pass'[k].cr = pass[k].cr
      /\ pass'[k].copy = pass[k].copy
  <2>1. pass'[k] = [pass[k] EXCEPT !.on = on, !.at = "wire"]
    BY <1>0, <1>2, <1>4 DEF PassTypes
  <2>2. "wire" \in Steps \ {"idle"}
    BY DEF Steps
  <2> HIDE DEF on, k
  <2> QED
    BY <1>3, <2>1, <2>2
<1>6. pass'[k] # NoPass /\ pass[k] # NoPass /\ \A j \in Kinds \ {k} : pass'[j] = pass[j]
  BY <1>2, <1>4, <1>5, SMT DEF NoPass, PassTypes
<1>7. PassTypes' /\ Goes(k, "wire")
  <2>1. pass' \in [Kinds -> Passes]
    BY <1>2, <1>4, <1>5 DEF PassTypes, Passes
  <2> HIDE DEF on, k
  <2> QED
    BY <1>2, <1>5, <1>6, <2>1 DEF PassTypes, Goes
<1>8. Answers(k)
  <2>1. Yields(pass[k].cr)
    BY <1>0, <1>2, StatusYields
  <2>2. "wire" \in Serving
    BY DEF Serving
  <2> QED
    BY <1>0, <1>2, <1>7, <2>1, <2>2 DEF Answers, Advances
<1> QED
  BY <1>0, <1>1, <1>8, AnswersKeeps, AnswersRefines

-----------------------------------------------------------------------------
(* The steps of no pass.                                                   *)

LEMMA QuietKeeps ==
  ASSUME Inv, Quiet, UNCHANGED <<cache, pass>>, WorldTypes', NeoTypes'
  PROVE  Inv'
<1>1. ASSUME NEW c \in CRs PROVE ClaimSeen(c)'
  BY DEF Inv, ClaimSeen, Quiet
<1>2. ASSUME NEW j \in Kinds PROVE PassSafe(j)'
  <2>1. PassSafe(j) /\ pass'[j] = pass[j]
    BY DEF Inv
  <2>2. pass[j] # NoPass => pass[j].cr \in CRs
    BY DEF Inv, Types, PassTypes, Passes
  <2> QED
    BY <2>1, <2>2 DEF PassSafe, Quiet
<1>3. CacheTypes' /\ PassTypes'
  BY DEF Inv, Types, CacheTypes, PassTypes
<1> QED
  BY <1>1, <1>2, <1>3 DEF Inv, Types, Quiet

LEMMA OutsideRefines ==
  ASSUME Quiet, host' # host \/ used' # used
  PROVE  Refines
<1>1. /\ DOMAIN Holds' = CRs /\ \A c \in CRs : Holds'[c] \subseteq Holds[c]
  BY DEF Holds, Quiet
<1>2. There' \in SUBSET Slots
  BY SlotsStay DEF SlotFacts
<1>3. Registry!Outside
  BY <1>1, <1>2 DEF Registry!Outside
<1> QED
  BY <1>3 DEF Refines, Registry!Next

LEMMA Unmoved ==
  ASSUME Inv, UNCHANGED obj
  PROVE  Quiet /\ Holds' = Holds
  BY DEF Inv, Types, ObjTypes, Quiet, Holds

LEMMA BeginRefines ==
  ASSUME Inv, NEW c \in CRs, Begin(c)
  PROVE  Inv' /\ Refines
<1> DEFINE k == KindOf(c)
<1>0. k \in Kinds /\ UNCHANGED <<cache, host, used>> /\ UNCHANGED neo4j /\ pass[k] = NoPass
  BY KindNames DEF Begin
<1>1. NeoTypes' /\ CacheTypes' /\ WorldTypes' /\ There' = There
  BY <1>0, SlotsAll DEF neo4j, Inv, Types, NeoTypes, CacheTypes, WorldTypes
<1>2. CASE UNCHANGED pass /\ obj' \in {obj, [obj EXCEPT ![c].fin = TRUE]}
  <2>1. Quiet /\ Holds' = Holds
    BY <1>2, Unmoved, SameClaims DEF Inv, Types
  <2>2. Inv'
    BY <1>0, <1>1, <1>2, <2>1, QuietKeeps
  <2> QED
    BY <1>0, <1>1, <2>1, <2>2 DEF Refines, Registry!registry
<1>3. CASE /\ pass' = [pass EXCEPT ![k] = [at |-> "check", cr |-> c, copy |-> cache[c],
                                           on |-> NoComp.on]]
           /\ UNCHANGED obj
  <2>1. Quiet /\ Holds' = Holds
    BY <1>3, Unmoved
  <2> DEFINE p == [at |-> "check", cr |-> c, copy |-> cache[c], on |-> NoComp.on]
  <2>2. pass'[k] = p /\ \A j \in Kinds \ {k} : pass'[j] = pass[j]
    BY <1>0, <1>3 DEF Inv, Types, PassTypes
  <2>3. ObjectOf(c, cache[c]) /\ cache[c] \in Copies
    BY DEF Inv, Types, CacheTypes
  <2>4. p \in [at : Steps \ {"idle"}, cr : CRs, copy : Copies, on : Ons]
    BY <2>3 DEF Steps, NoComp, Ons
  <2>5. PassTypes'
    <3>1. pass' \in [Kinds -> Passes]
      BY <1>3, <2>4 DEF Inv, Types, PassTypes, Passes
    <3>2. p.cr = c /\ p.copy = cache[c]
      OBVIOUS
    <3>3. ASSUME NEW j \in Kinds, pass'[j] # NoPass
          PROVE  KindOf(pass'[j].cr) = j /\ ObjectOf(pass'[j].cr, pass'[j].copy)
      BY <2>2, <2>3, <3>2, <3>3 DEF Inv, Types, PassTypes
    <3> QED
      BY <3>1, <3>3 DEF PassTypes
  <2>6. ASSUME NEW j \in Kinds PROVE PassSafe(j)'
    <3>1. CASE j # k
      <4>1. PassSafe(j) /\ pass'[j] = pass[j]
        BY <2>2, <3>1 DEF Inv
      <4>2. obj' = obj
        BY <1>3
      <4> QED
        BY <4>1, <4>2 DEF PassSafe
    <3>2. CASE j = k
      <4>1. pass'[j].at = "check" /\ pass'[j].cr = c /\ pass'[j].copy = cache[c]
        BY <2>2, <3>2, SMT
      <4>2. ClaimSeen(c)
        BY DEF Inv
      <4> QED
        BY <1>3, <4>1, <4>2 DEF PassSafe, Serving, ClaimSeen, Live
    <3> QED
      BY <3>1, <3>2
  <2>7. \A d \in CRs : ClaimSeen(d)'
    BY <1>0, <1>3 DEF Inv, ClaimSeen
  <2>8. Inv'
    BY <1>1, <2>1, <2>5, <2>6, <2>7 DEF Inv, Types, Quiet
  <2> QED
    BY <1>0, <1>1, <2>1, <2>8 DEF Refines, Registry!registry
<1> QED
  BY <1>2, <1>3 DEF Begin

LEMMA UserRefines ==
  ASSUME Inv, NEW c \in CRs, UserCreates(c) \/ UserEdits(c) \/ UserDeletes(c)
  PROVE  Inv' /\ Refines
<1>0. /\ UNCHANGED <<cache, pass, host>> /\ UNCHANGED neo4j
      /\ used' = [used EXCEPT !.changes = @ + 1]
  BY DEF UserCreates, UserEdits, UserDeletes, Change
<1>1. NeoTypes' /\ WorldTypes' /\ used' # used
  <2>1. used \in [changes : Nat, outages : Nat, crashes : Nat]
    BY DEF Inv, Types, WorldTypes
  <2>2. used' \in [changes : Nat, outages : Nat, crashes : Nat] /\ used'.changes # used.changes
    BY <1>0, <2>1, SMT
  <2> QED
    BY <1>0, <2>2 DEF neo4j, Inv, Types, NeoTypes, WorldTypes
<1>2. ObjTypes /\ obj[c] \in Copies /\ ObjectOf(c, obj[c]) /\ obj[c].at <= obj[c].gen
  BY DEF Inv, Types, ObjTypes
<1>3. ASSUME NEW o, obj' = [obj EXCEPT ![c] = o], ObjectOf(c, o), o.at <= o.gen, ~Owns(o)
      PROVE  Quiet
  <2>1. obj'[c] = o /\ \A d \in CRs \ {c} : obj'[d] = obj[d]
    BY <1>2, <1>3 DEF ObjTypes
  <2>2. obj' \in [CRs -> Copies]
    BY <1>2, <1>3 DEF ObjTypes, ObjectOf
  <2>3. ObjTypes'
    BY <1>2, <1>3, <2>1, <2>2 DEF ObjTypes
  <2> QED
    BY <1>3, <2>1, <2>3 DEF Quiet
<1>4. Quiet
  <2>1. CASE UserCreates(c)
    <3>1. PICK n \in NamesOf(c), t \in TargetsOf(c), b \in Born \ {0} :
             obj' = [obj EXCEPT ![c] = [Absent(c) EXCEPT !.born = b, !.gen = 1, !.name = n, !.tgt = t]]
      BY <2>1 DEF UserCreates
    <3> DEFINE o == [Absent(c) EXCEPT !.born = b, !.gen = 1, !.name = n, !.tgt = t]
    <3>2. b \in Nat
      BY NamesAssumption, SMT DEF Born
    <3>3. o \in Copies /\ o.name = n /\ o.tgt = t /\ o.at = 0 /\ o.gen = 1
      <4>1. Absent(c) \in Copies /\ Absent(c).at = 0
        BY AbsentType DEF ObjectOf, Absent
      <4> QED
        BY <3>2, <4>1, KindNames DEF Copies
    <3>4. ObjectOf(c, o) /\ o.at <= o.gen /\ ~Owns(o)
      BY <3>3, SMT DEF ObjectOf, Owns
    <3> HIDE DEF o
    <3> QED
      BY <1>3, <3>1, <3>4 DEF o
  <2>2. CASE UserEdits(c)
    <3>1. PICK n \in NamesOf(c), t \in TargetsOf(c) :
             obj' = [obj EXCEPT ![c].name = n, ![c].tgt = t, ![c].gen = @ + 1]
      BY <2>2 DEF UserEdits
    <3> DEFINE o == [obj[c] EXCEPT !.name = n, !.tgt = t, !.gen = obj[c].gen + 1]
    <3>2. obj' = [obj EXCEPT ![c] = o]
      BY <1>2, <3>1 DEF ObjTypes
    <3>3. o \in Copies /\ o.name = n /\ o.tgt = t /\ o.at = obj[c].at /\ o.gen = obj[c].gen + 1
      <4>1. /\ n \in DbNames \cup AliasNames \cup CompNames /\ t \in DbNames \cup {"none"}
            /\ obj[c].gen + 1 \in Nat
        BY <1>2, KindNames, SMT DEF Copies
      <4> QED
        BY <1>2, <4>1 DEF Copies
    <3>4. ObjectOf(c, o) /\ o.at <= o.gen /\ o.at # o.gen
      BY <1>2, <3>3, SMT DEF ObjectOf, Copies
    <3> HIDE DEF o
    <3> QED
      BY <1>3, <3>2, <3>4 DEF Owns
  <2>3. CASE UserDeletes(c)
    <3>1. CASE obj' = [obj EXCEPT ![c] = Absent(c)]
      BY <1>3, <3>1, AbsentType DEF Owns
    <3>2. CASE obj' = [obj EXCEPT ![c].del = TRUE]
      <4> DEFINE o == [obj[c] EXCEPT !.del = TRUE]
      <4>1. obj' = [obj EXCEPT ![c] = o]
        BY <3>2
      <4>2. /\ o \in Copies /\ o.name = obj[c].name /\ o.tgt = obj[c].tgt /\ o.at = obj[c].at
            /\ o.gen = obj[c].gen /\ o.del
        BY <1>2 DEF Copies
      <4> HIDE DEF o
      <4> QED
        BY <1>2, <1>3, <4>1, <4>2 DEF ObjectOf, Owns, Live
    <3> QED
      BY <2>3, <3>1, <3>2 DEF UserDeletes
  <2> QED
    BY <2>1, <2>2, <2>3
<1> QED
  BY <1>0, <1>1, <1>4, QuietKeeps, OutsideRefines

LEMMA WatchRefines ==
  ASSUME Inv, \/ \E c \in CRs : Sync(c) \/ GraceOver(c)
              \/ Restart
  PROVE  Inv' /\ Refines
<1>0. UNCHANGED <<obj, host>> /\ UNCHANGED neo4j
  BY DEF Sync, GraceOver, Restart
<1>1. NeoTypes' /\ There' = There /\ ObjTypes' /\ Quiet /\ Holds' = Holds
  BY <1>0, SlotsAll, Unmoved DEF neo4j, Inv, Types, NeoTypes, ObjTypes
<1>2. ASSUME NEW c \in CRs, Sync(c) PROVE Inv' /\ Refines
  <2>1. cache' = [cache EXCEPT ![c] = obj[c]] /\ UNCHANGED <<pass, host, used>>
    BY <1>2 DEF Sync
  <2>2. cache'[c] = obj[c] /\ \A d \in CRs \ {c} : cache'[d] = cache[d]
    BY <2>1 DEF Inv, Types, CacheTypes
  <2>3. ObjectOf(c, obj[c]) /\ obj[c] \in Copies
    BY DEF Inv, Types, ObjTypes
  <2>4. CacheTypes' /\ PassTypes' /\ WorldTypes'
    BY <2>1, <2>2, <2>3 DEF Inv, Types, CacheTypes, PassTypes, WorldTypes
  <2>5. \A d \in CRs : ClaimSeen(d)'
    BY <1>0, <2>2 DEF Inv, ClaimSeen, Owns
  <2>6. \A k \in Kinds : PassSafe(k)'
    BY <1>0, <2>1 DEF Inv, PassSafe
  <2>7. Inv'
    BY <1>1, <2>4, <2>5, <2>6 DEF Inv, Types
  <2> QED
    BY <1>0, <1>1, <2>1, <2>7 DEF Refines, Registry!registry
<1>3. ASSUME NEW c \in CRs, GraceOver(c) PROVE Inv' /\ Refines
  <2>1. UNCHANGED <<cache, pass, host, used>>
    BY <1>3 DEF GraceOver
  <2>2. WorldTypes'
    BY <2>1 DEF Inv, Types, WorldTypes
  <2>3. Inv'
    BY <1>1, <2>1, <2>2, QuietKeeps
  <2> QED
    BY <1>0, <1>1, <2>1, <2>3 DEF Refines, Registry!registry
<1>4. CASE Restart
  <2>1. /\ used' = [used EXCEPT !.crashes = @ + 1] /\ pass' = [k \in Kinds |-> NoPass]
        /\ cache' = obj
    BY <1>4 DEF Restart
  <2>2. used' \in [changes : Nat, outages : Nat, crashes : Nat] /\ used' # used
    BY <2>1, SMT DEF Inv, Types, WorldTypes
  <2>3. CacheTypes' /\ PassTypes' /\ WorldTypes'
    BY <1>0, <2>1, <2>2 DEF Inv, Types, ObjTypes, CacheTypes, PassTypes, Passes, WorldTypes
  <2>4. (\A d \in CRs : ClaimSeen(d)') /\ (\A k \in Kinds : PassSafe(k)')
    BY <1>0, <2>1 DEF ClaimSeen, PassSafe, Owns
  <2>5. Inv'
    BY <1>1, <2>3, <2>4 DEF Inv, Types
  <2> QED
    BY <1>1, <2>2, <2>5, OutsideRefines
<1> QED
  BY <1>2, <1>3, <1>4

LEMMA HostRefines ==
  ASSUME Inv, \/ HostDown \/ HostBack \/ HostSilent \/ HostAnswers \/ HostDeleted
              \/ HostGone \/ HostCreated \/ Admin
  PROVE  Inv' /\ Refines
<1>0. UNCHANGED <<obj, cache, pass>>
  BY DEF HostDown, HostBack, HostSilent, HostAnswers, HostDeleted, HostGone, HostCreated, Admin
<1>1. Quiet
  BY <1>0, Unmoved
<1>2. /\ host \in [cr : {"ready", "down", "leaving", "gone"}, answers : BOOLEAN]
      /\ used \in [changes : Nat, outages : Nat, crashes : Nat] /\ NeoTypes
  BY DEF Inv, Types, WorldTypes
<1>3. CASE Admin
  <2>1. used' \in [changes : Nat, outages : Nat, crashes : Nat] /\ used' # used /\ host' = host
    BY <1>2, <1>3, SMT DEF Admin, Change
  <2>2. NeoTypes'
    <3>1. ASSUME NEW n \in DbNames, db' = [db EXCEPT ![n] = NoDb], UNCHANGED <<alias, comp>>
          PROVE  NeoTypes'
      <4>1. NoDb \in [up : BOOLEAN, by : CRs \cup {"none", "admin"}, runs : 0 .. 2]
        BY SMT DEF NoDb
      <4> QED
        BY <1>2, <3>1, <4>1 DEF NeoTypes
    <3>2. ASSUME NEW a \in AliasNames, NEW n \in DbNames, alias' = [alias EXCEPT ![a] = n],
                 UNCHANGED <<db, comp>>
          PROVE  NeoTypes'
      BY <1>2, <3>2 DEF NeoTypes
    <3>3. ASSUME NEW q \in CompNames, NEW n \in DbNames, comp' = [comp EXCEPT ![q].on["stray"] = n],
                 UNCHANGED <<db, alias>>
          PROVE  NeoTypes'
      <4> DEFINE on == [comp[q].on EXCEPT !["stray"] = n]
      <4>1. comp[q] \in [up : BOOLEAN, on : Ons]
        BY <1>2 DEF NeoTypes
      <4>2. on \in Ons
        BY <4>1 DEF Ons
      <4>3. comp' = [comp EXCEPT ![q] = [comp[q] EXCEPT !.on = on]]
        BY <3>3
      <4> HIDE DEF on
      <4>4. [comp[q] EXCEPT !.on = on] \in [up : BOOLEAN, on : Ons]
        BY <4>1, <4>2
      <4>5. comp' \in [CompNames -> [up : BOOLEAN, on : Ons]]
        BY <1>2, <4>3, <4>4 DEF NeoTypes
      <4>6. UNCHANGED <<db, alias>>
        BY <3>3
      <4> QED
        BY <1>2, <4>5, <4>6 DEF NeoTypes
    <3> QED
      BY <1>3, <3>1, <3>2, <3>3 DEF Admin
  <2>3. WorldTypes'
    BY <1>2, <2>1 DEF WorldTypes
  <2> QED
    BY <1>0, <1>1, <2>1, <2>2, <2>3, QuietKeeps, OutsideRefines
<1>4. CASE ~Admin
  <2>1. /\ host' \in [cr : {"ready", "down", "leaving", "gone"}, answers : BOOLEAN] /\ host' # host
    <3>1. \/ \E cr \in {"ready", "down", "leaving"} : cr # host.cr /\ host' = [host EXCEPT !.cr = cr]
          \/ host' = [host EXCEPT !.answers = ~host.answers]
          \/ host.cr = "leaving" /\ host' = [cr |-> "gone", answers |-> FALSE]
      BY <1>2, <1>4 DEF HostDown, HostBack, HostSilent, HostAnswers, HostDeleted, HostGone,
                        HostCreated, HostCR
    <3>2. ASSUME NEW cr \in {"ready", "down", "leaving"}, cr # host.cr, host' = [host EXCEPT !.cr = cr]
          PROVE  host'.cr = cr /\ host' \in [cr : {"ready", "down", "leaving", "gone"}, answers : BOOLEAN]
      BY <1>2, <3>2
    <3>3. ASSUME host' = [host EXCEPT !.answers = ~host.answers]
          PROVE  /\ host'.answers # host.answers
                 /\ host' \in [cr : {"ready", "down", "leaving", "gone"}, answers : BOOLEAN]
      BY <1>2, <3>3
    <3>4. ASSUME host.cr = "leaving", host' = [cr |-> "gone", answers |-> FALSE]
          PROVE  /\ host'.cr # host.cr
                 /\ host' \in [cr : {"ready", "down", "leaving", "gone"}, answers : BOOLEAN]
      BY <3>4
    <3> QED
      BY <3>1, <3>2, <3>3, <3>4, SMT
  <2>2. used' \in [changes : Nat, outages : Nat, crashes : Nat]
    BY <1>2, <1>4, SMT DEF HostDown, HostBack, HostSilent, HostAnswers, HostDeleted, HostGone,
                      HostCreated, Outage
  <2>3. NeoTypes'
    <3>1. CASE UNCHANGED neo4j
      BY <1>2, <3>1 DEF neo4j, NeoTypes
    <3>2. CASE HostCreated
      <4>1. NoDb \in [up : BOOLEAN, by : CRs \cup {"none", "admin"}, runs : 0 .. 2]
        BY SMT DEF NoDb
      <4>2. NoComp \in [up : BOOLEAN, on : Ons]
        BY DEF NoComp, Ons
      <4> QED
        BY <1>2, <3>2, <4>1, <4>2 DEF HostCreated, NeoTypes
    <3> QED
      BY <1>4, <3>1, <3>2
         DEF HostDown, HostBack, HostSilent, HostAnswers, HostDeleted, HostGone
  <2> QED
    BY <1>0, <1>1, <2>1, <2>2, <2>3, QuietKeeps, OutsideRefines DEF WorldTypes
<1> QED
  BY <1>3, <1>4

-----------------------------------------------------------------------------
LEMMA InvInit ==
  ASSUME Init
  PROVE  Inv /\ Registry!Init
<1>1. ObjTypes /\ CacheTypes /\ \A c \in CRs : ~Owns(obj[c])
  <2>1. \A c \in CRs : /\ obj[c] = Absent(c) /\ ObjectOf(c, Absent(c))
                       /\ Absent(c).at <= Absent(c).gen /\ ~Live(Absent(c))
    BY AbsentType DEF Init
  <2>2. obj \in [CRs -> Copies] /\ cache = obj
    BY <2>1 DEF Init, ObjectOf
  <2> QED
    BY <2>1, <2>2 DEF ObjTypes, CacheTypes, Owns
<1>2. PassTypes /\ \A k \in Kinds : pass[k] = NoPass
  BY DEF Init, PassTypes, Passes
<1>3. WorldTypes
  BY DEF Init, WorldTypes
<1>4. NeoTypes
  <2>1. db \in [DbNames -> [up : BOOLEAN, by : CRs \cup {"none", "admin"}, runs : 0 .. 2]]
    BY SMT DEF Init, NoDb
  <2>2. alias \in [AliasNames -> DbNames \cup {"none"}]
    BY DEF Init
  <2>3. comp \in [CompNames -> [up : BOOLEAN, on : Ons]]
    BY DEF Init, NoComp, Ons
  <2> QED
    BY <2>1, <2>2, <2>3 DEF NeoTypes
<1>5. There \in SUBSET Slots /\ Holds = [c \in CRs |-> {}]
  BY <1>1, SlotsAre DEF SlotFacts, Holds
<1> QED
  BY <1>1, <1>2, <1>3, <1>4, <1>5 DEF Inv, Types, ClaimSeen, PassSafe, Registry!Init

LEMMA InvStep ==
  ASSUME Inv, [Next]_vars
  PROVE  Inv' /\ Refines
<1>0. "database" \in Kinds /\ "alias" \in Kinds /\ "composite" \in Kinds
  BY DEF Kinds
<1>1. ASSUME NEW k \in Kinds, Answers(k), UNCHANGED neo4j PROVE Inv' /\ Refines
  <2>1. NeoTypes' /\ There' = There
    BY <1>1, SlotsAll DEF neo4j, Inv, Types, NeoTypes
  <2> QED
    BY <1>1, <2>1, AnswersKeeps, AnswersRefines
<1>2. ASSUME NEW k \in Kinds, Check(k) \/ Away(k) \/ CheckDeletion(k) \/ Release(k)
      PROVE  Inv' /\ Refines
  BY <1>1, <1>2, CheckAnswers, DeletionAnswers
<1>3. CASE LookForDatabase \/ LookForAlias \/ LookForComposite
  BY <1>1, <1>3, LookAnswers
<1>4. ASSUME NEW k \in Kinds, Answers(k), Fills(Slot(k)), obj' = obj \/ There' = There,
             Slot(k) \in There => There' = There
      PROVE  Inv' /\ Refines
  BY <1>4, AnswersKeeps, AnswersRefines, FillsRefines DEF Fills
<1>5. CASE CreateDatabase \/ ImportInitialData
  BY <1>4, <1>5, DatabaseStatements
<1>6. CASE PointAlias
  BY <1>4, <1>6, AliasStatements
<1>7. CASE CreateComposite \/ WireConstituent \/ PruneConstituents
  BY <1>4, <1>7, CompositeStatements
<1>8. ASSUME NEW k \in Kinds, Drop(k) \/ Report(k) PROVE Inv' /\ Refines
  BY <1>8, DropRefines, ReportRefines
<1>9. CASE DatabaseController \/ AliasController \/ CompositeController
  BY <1>0, <1>2, <1>3, <1>5, <1>6, <1>7, <1>8, <1>9, RecordRefines, ListRefines
     DEF DatabaseController, ReconcileDatabase, DatabaseHostUnreachable, ReportDatabaseReady,
         DeleteDatabase, AliasController, ReconcileAlias, AliasTargetUnreachable, ReportAlias,
         DeleteAlias, CompositeController, ReconcileComposite, CompositeTargetUnreachable,
         ReportComposite, DeleteComposite
<1>10. CASE UNCHANGED vars
  <2>1. /\ UNCHANGED <<obj, cache, pass, host, used>> /\ UNCHANGED neo4j
    BY <1>10 DEF vars
  <2>2. NeoTypes' /\ There' = There /\ WorldTypes' /\ Quiet /\ Holds' = Holds
    BY <2>1, SlotsAll, Unmoved DEF neo4j, Inv, Types, NeoTypes, WorldTypes
  <2> QED
    BY <2>1, <2>2, QuietKeeps DEF Refines, Registry!registry
<1>11. CASE \E c \in CRs : Begin(c) \/ UserCreates(c) \/ UserEdits(c) \/ UserDeletes(c)
  BY <1>11, BeginRefines, UserRefines
<1>12. CASE \/ \E c \in CRs : Sync(c) \/ GraceOver(c)
            \/ Restart
  BY <1>12, WatchRefines
<1>13. CASE \/ HostDown \/ HostBack \/ HostSilent \/ HostAnswers \/ HostDeleted
            \/ HostGone \/ HostCreated \/ Admin
  BY <1>13, HostRefines
<1> QED
  BY <1>9, <1>10, <1>11, <1>12, <1>13 DEF Next

\* The controllers of databases, aliases and composites implement the registry of names,
\* for any CRs, names, targets and bounds on what happens around them: what goes, other
\* than by a hand or an event outside the operator, no CR that reports Ready answers for
\* at that moment.  The claims a deletion reads are those of a cache that lags, and the
\* statement is a later step: a CR is Ready only for a claim the cache has, and the worker
\* that would report another one Ready is the one that drops.
THEOREM ImplementsCorrect == Spec => Implements
<1>1. Init => Inv /\ Registry!Init
  BY InvInit
<1>2. Inv /\ [Next]_vars => Inv' /\ Refines
  BY InvStep
<1> QED
  BY <1>1, <1>2, PTL DEF Spec, Implements, Registry!Spec, Refines

\* What a pass drops is nothing another CR of its kind reports Ready.
THEOREM DropSparesCorrect == Spec => DropSpares
<1>1. Inv => DropStep
  BY Going DEF Inv, Types, PassSafe, DropStep
<1>2. Init => Inv
  BY InvInit
<1>3. Inv /\ [Next]_vars => Inv'
  BY InvStep
<1> QED
  BY <1>1, <1>2, <1>3, PTL DEF Spec, DropSpares

=============================================================================
