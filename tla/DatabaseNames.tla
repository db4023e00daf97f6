--------------------------- MODULE DatabaseNames ---------------------------
(***************************************************************************)
(* The custom resources (CRs) that give a name in Neo4j: Neo4jDatabase,    *)
(* Neo4jDatabaseAlias and Neo4jCompositeDatabase.  The oldest CR of a kind *)
(* owns a name, the others report a duplicate and act on nothing; a        *)
(* finalizer drops what the CR gave, unless another CR still gives it, the *)
(* target took it, or the grace period is over.                            *)
(*                                                                         *)
(* Each kind has one worker: the passes of one kind never overlap, those   *)
(* of different kinds do.  A pass reads its CR and the claims of its kind  *)
(* from the kind's cache, which lags the API server and never goes back,   *)
(* and a pass runs only when something queued its CR.  Every statement is  *)
(* a step of its own, and the target may stop answering before each.       *)
(***************************************************************************)
EXTENDS Integers, FiniteSets, Sequences

CONSTANTS
    Databases, Aliases, Composites, \* the CRs of each kind, by metadata.name
    DbNames, AliasNames, CompNames, \* the names they may give, as Neo4j folds them
    Dotted,       \* the alias names in the namespace of a composite
    Retained,     \* the CRs whose deletionPolicy is Retain
    Importing,    \* the Neo4jDatabases with spec.initialData
    KeepVolumes,  \* storage.retentionPolicy of the target is Retain
    Casts,        \* what a behaviour may have: its CRs, the fates of the target, its bounds
    MaxChanges,   \* the largest bound on changes by the user and the admin
    MaxAge        \* bound on the places in the order of creation

\* A CR is of one kind, and "none" is the name of no database.
ASSUME NamesAssumption ==
    /\ Databases \cap Aliases = {} /\ (Databases \cup Aliases) \cap Composites = {}
    /\ DbNames # {} /\ AliasNames # {} /\ CompNames # {} /\ "none" \notin DbNames
    /\ MaxAge \in Nat

VARIABLES
    obj,     \* per CR: the stored object
    cache,   \* per CR: the copy in the cache of its kind
    overdue, \* the CRs whose deletion has lasted longer than its grace period
    queue,   \* the CRs queued for a pass, first in, first out
    pass,    \* per kind: the running pass
    host,    \* the clusterRef target: its CR and whether it answers
    db,      \* per database name: the database in Neo4j
    alias,   \* per alias name: the database it resolves to
    comp,    \* per composite name: its constituents, or that it does not exist
    cast,    \* [crs, names, standing, fates, changes, outages, crashes]
    used     \* what the environment has done of its bounds

neo4j == <<db, alias, comp>>
vars == <<obj, cache, overdue, queue, pass, host, neo4j, cast, used>>

CRs == Databases \cup Aliases \cup Composites
Kinds == {"database", "alias", "composite"}
KindOf(c) == IF c \in Databases THEN "database" ELSE IF c \in Aliases THEN "alias" ELSE "composite"
NamesOf(c) ==
    CASE c \in Databases -> DbNames [] c \in Aliases -> AliasNames [] c \in Composites -> CompNames
TargetsOf(c) == IF c \in Databases THEN {"none"} ELSE DbNames

\* The work queues: a CR is in one at most once, and a batch enters in any order.
Queued == {queue[i] : i \in DOMAIN queue}
Without(c) == SelectSeq(queue, LAMBDA d : d # c)
Orders(S) == {p \in [1 .. Cardinality(S) -> S] : \A i, j \in DOMAIN p : p[i] = p[j] => i = j}
Enqueue(S) == \E p \in Orders(S \ Queued) : queue' = queue \o p
IsNext(c) == \E i \in DOMAIN queue : queue[i] = c /\ \A j \in 1 .. i - 1 : KindOf(queue[j]) # KindOf(c)

Generations == 0 .. MaxChanges + 1
Born == 0 .. MaxAge               \* creation order; 0: no such object

\* Of a CR: its age, deletion, spec and the outcome its status records.
Objects(c) ==
    [born : Born, del : BOOLEAN, fin : BOOLEAN, name : NamesOf(c),
     tgt : TargetsOf(c), gen : Generations, phase : {"None", "Pending", "Failed", "Ready"},
     at : Generations, imp : BOOLEAN]

Absent(c) ==
    [born |-> 0, del |-> FALSE, fin |-> FALSE,
     name |-> CHOOSE n \in NamesOf(c) : TRUE, tgt |-> CHOOSE t \in TargetsOf(c) : TRUE,
     gen |-> 0, phase |-> "None", at |-> 0, imp |-> FALSE]

Constituents == {"listed", "stray"}   \* the one spec.constituents gives, and another
NoDb == [up |-> FALSE, by |-> "none", runs |-> 0]
NoComp == [up |-> FALSE, on |-> [k \in Constituents |-> "none"]]
Steps == {"idle", "check", "look", "create", "import", "record", "list", "wire", "prune",
          "report", "drop", "release"}
NoPass == [at |-> "idle"]

TypeOK ==
    /\ DOMAIN obj = CRs /\ DOMAIN cache = CRs
    /\ \A c \in CRs : obj[c] \in Objects(c) /\ cache[c] \in Objects(c)
    /\ overdue \subseteq CRs /\ Queued \subseteq CRs /\ Len(queue) = Cardinality(Queued)
    /\ \A k \in Kinds : pass[k] = NoPass \/
          /\ pass[k].at \in Steps \ {"idle"} /\ KindOf(pass[k].cr) = k
          /\ pass[k].copy \in Objects(pass[k].cr) /\ pass[k].copy.born > 0
          /\ pass[k].on \in [Constituents -> DbNames \cup {"none"}]
    /\ host \in [cr : {"ready", "down", "leaving", "gone"}, answers : BOOLEAN]
    /\ db \in [DbNames -> [up : BOOLEAN, by : CRs \cup {"none", "admin"}, runs : 0 .. 2]]
    /\ alias \in [AliasNames -> DbNames \cup {"none"}]
    /\ comp \in [CompNames -> [up : BOOLEAN, on : [Constituents -> DbNames \cup {"none"}]]]
    /\ cast \in Casts
    /\ used.changes \in 0 .. cast.changes /\ used.outages \in 0 .. cast.outages
    /\ used.crashes \in 0 .. cast.crashes /\ cast.changes <= MaxChanges

Init ==
    /\ obj = [c \in CRs |-> Absent(c)] /\ cache = obj
    /\ overdue = {} /\ queue = <<>>
    /\ pass = [k \in Kinds |-> NoPass]
    /\ host = [cr |-> "ready", answers |-> TRUE]
    /\ alias = [a \in AliasNames |-> "none"]
    /\ comp = [q \in CompNames |-> NoComp]
    /\ cast \in Casts
    /\ db = [n \in DbNames |-> IF n \in cast.standing THEN [up |-> TRUE, by |-> "admin", runs |-> 0] ELSE NoDb]
    /\ used = [changes |-> 0, outages |-> 0, crashes |-> 0]

-----------------------------------------------------------------------------
(* Claims on a name, as a pass reads them from the cache of its kind.      *)

Exists(o) == o.born > 0
Live(o) == Exists(o) /\ ~o.del
Owns(o) == Live(o) /\ o.phase = "Ready" /\ o.at = o.gen

\* sameName: another CR of the kind gives the name; Neo4j folds the case, and
\* every CR here has the same target.
SameName(c, d, o) == c # d /\ KindOf(c) = KindOf(d) /\ Exists(cache[d]) /\ cache[d].name = o.name

\* ownsOver: the older CR, by its place in the order of creation.
OwnsOver(o, p) == o.born < p.born

\* nameOwner: a CR that is being deleted contests nothing.
Contests(c, d, o) == SameName(c, d, o) /\ ~cache[d].del

Duplicate(c, o) == \E d \in CRs : Contests(c, d, o) /\ OwnsOver(cache[d], o)

\* Mutant: only an older claim keeps what a deletion would drop.
KeptFor_Older(c, o) == Duplicate(c, o)

\* keptFor: some other live CR still gives the name.
KeptFor(c, o) == \E d \in CRs : Contests(c, d, o)

\* Mutant: the watch passes creations and edits, and no deletion.
ClaimChanged_NotDeleted(old, new) ==
    Exists(new) /\ (old.born # new.born \/ old.gen # new.gen)

\* nameClaimChanged: created or gone, a new spec, a deletion that starts.
ClaimChanged(old, new) == old.born # new.born \/ old.gen # new.gen \/ old.del # new.del

\* othersOfTheName, of the old and the new object.
OthersOfTheName(c, old, new, objects) ==
    {d \in CRs : /\ d # c /\ KindOf(d) = KindOf(c) /\ Exists(objects[d])
                 /\ \/ Exists(old) /\ objects[d].name = old.name
                    \/ Exists(new) /\ objects[d].name = new.name}

-----------------------------------------------------------------------------
(* The target and the statements a pass sends it.                          *)

Found == host.cr # "gone"
\* clusterAcceptsWork, and the standalone's status.ready.
AcceptsWork == host.cr \in {"ready", "leaving"}
Serves == Found /\ host.answers

\* settleByTarget: the target is gone or going, and its volumes with it.
TargetTakesIt == host.cr \in {"leaving", "gone"} /\ ~KeepVolumes

\* A database with an alias on it is not dropped.
Refused(n) ==
    \/ \E a \in AliasNames : alias[a] = n
    \/ \E q \in CompNames, k \in Constituents : comp[q].on[k] = n

\* What the statements read, and what they make of the databases, the aliases
\* and the composites.
DatabaseExists(n) == db[n].up
Created(n, c) == IF db[n].up THEN db ELSE [db EXCEPT ![n] = [up |-> TRUE, by |-> c, runs |-> 0]]
Imported(n) == [db EXCEPT ![n].runs = IF @ = 2 THEN 2 ELSE @ + 1]   \* counted to two
Dropped(n) == [db EXCEPT ![n] = NoDb]
ShowAlias(a) == alias[a]
Aliased(a, n) == [alias EXCEPT ![a] = n]
Unaliased(a) == [alias EXCEPT ![a] = "none"]
ShowComposite(q) == comp[q].up
Composed(q) == [comp EXCEPT ![q].up = TRUE]
Wired(q, n) == [comp EXCEPT ![q].on["listed"] = n]
Unwired(q) == [comp EXCEPT ![q].on["stray"] = "none"]
Decomposed(q) == [comp EXCEPT ![q] = NoComp]

\* aliasInNamespace: a dotted alias holds the namespace of the composite.
NamespaceBlocker == \E a \in Dotted : ShowAlias(a) # "none"

-----------------------------------------------------------------------------
(* Ends of a pass.                                                         *)

\* The pass of kind k ends; its CR stays queued when the pass asks for it.
EndPass(k, requeue) ==
    /\ pass' = [pass EXCEPT ![k] = NoPass]
    /\ Enqueue(IF requeue THEN {pass[k].cr} ELSE {})

\* writeStatus: reads the CR again, from the cache, and writes the outcome at
\* the generation it read.  An object that moved is a conflict.
Current(c) == Exists(obj[c]) /\ cache[c] = obj[c]
WriteStatus(c, phase) ==
    obj' = IF Current(c) THEN [obj EXCEPT ![c].phase = phase, ![c].at = obj[c].gen] ELSE obj

\* settledAtGeneration: an outcome of the CR's own, which an outage keeps.
Settled(o) == o.phase \in {"Ready", "Failed"} /\ o.at = o.gen

\* recordTargetWait.
WaitForHost(c) ==
    obj' = IF Current(c) /\ ~Settled(cache[c])
             THEN [obj EXCEPT ![c].phase = "Pending", ![c].at = obj[c].gen] ELSE obj

\* The target reads Ready and does not answer: a wait, and a failure of the
\* CR's own once it has lasted.
Unreachable(c) == WaitForHost(c) \/ WriteStatus(c, "Failed")

\* The target stopped answering in the middle of a pass.
Away(k) ==
    /\ pass[k].at \in {"look", "create", "import", "list", "wire", "prune"} /\ ~Serves
    /\ Unreachable(pass[k].cr) /\ EndPass(k, TRUE)
    /\ UNCHANGED <<cache, overdue, host, neo4j, cast, used>>

-----------------------------------------------------------------------------
(* The passes.                                                             *)

Go(k, step) == pass' = [pass EXCEPT ![k].at = step] /\ UNCHANGED queue

\* Mutant: a CR the cache does not have is not let go.
Begin_Gone(c) ==
    LET k == KindOf(c) IN
    /\ IsNext(c) /\ pass[k] = NoPass
    /\ pass' = [pass EXCEPT ![k] = [at |-> "check", cr |-> c, copy |-> cache[c], on |-> NoComp.on]]
    /\ queue' = Without(c)
    /\ UNCHANGED <<obj, cache, overdue, host, neo4j, cast, used>>

\* A pass starts: a CR without its finalizer gets it, and nothing else, until
\* the patch brings it back; a CR that is going and holds none is let go.
Begin(c) ==
    LET k == KindOf(c) IN
    /\ IsNext(c) /\ pass[k] = NoPass
    /\ IF Exists(cache[c]) /\ cache[c].fin
         THEN /\ pass' = [pass EXCEPT ![k] = [at |-> "check", cr |-> c, copy |-> cache[c],
                                              on |-> NoComp.on]]
              /\ queue' = Without(c) /\ UNCHANGED obj
         ELSE /\ obj' = IF Live(cache[c]) /\ Live(obj[c]) THEN [obj EXCEPT ![c].fin = TRUE] ELSE obj
              /\ queue' = IF Live(cache[c]) /\ ~Live(obj[c]) THEN Append(Without(c), c) ELSE Without(c)
              /\ UNCHANGED pass
    /\ UNCHANGED <<cache, overdue, host, neo4j, cast, used>>

\* What every kind asks before its first statement: does an older CR own the
\* name, is the target there, Ready, and answering.
Check(k) ==
    LET c == pass[k].cr IN
    /\ pass[k].at = "check" /\ ~pass[k].copy.del
    /\ \/ /\ Duplicate(c, pass[k].copy)
          /\ WriteStatus(c, "Failed") /\ EndPass(k, FALSE)
       \/ /\ ~Duplicate(c, pass[k].copy) /\ ~Found
          /\ WriteStatus(c, "Pending") /\ EndPass(k, TRUE)
       \/ /\ ~Duplicate(c, pass[k].copy) /\ Found /\ ~AcceptsWork
          /\ WaitForHost(c) /\ EndPass(k, TRUE)
       \/ /\ ~Duplicate(c, pass[k].copy) /\ AcceptsWork /\ ~host.answers
          /\ Unreachable(c) /\ EndPass(k, TRUE)
       \/ /\ ~Duplicate(c, pass[k].copy) /\ AcceptsWork /\ host.answers
          /\ Go(k, "look") /\ UNCHANGED obj
    /\ UNCHANGED <<cache, overdue, host, neo4j, cast, used>>

\* ensureDatabase: SHOW DATABASES, then CREATE DATABASE when it is not there.
LookForDatabase ==
    LET p == pass["database"] IN
    /\ p.at = "look" /\ Serves
    /\ Go("database", IF ~DatabaseExists(p.copy.name) THEN "create"
                      ELSE IF p.cr \in Importing /\ ~p.copy.imp THEN "import" ELSE "report")
    /\ UNCHANGED <<obj, cache, overdue, host, neo4j, cast, used>>

CreateDatabase ==
    LET p == pass["database"] IN
    /\ p.at = "create" /\ Serves
    /\ db' = Created(p.copy.name, p.cr)
    /\ Go("database", IF p.cr \in Importing /\ ~p.copy.imp THEN "import" ELSE "report")
    /\ UNCHANGED <<obj, cache, overdue, host, alias, comp, cast, used>>

\* importInitialData: the statements run, and only then is it recorded.
ImportInitialData ==
    LET p == pass["database"] IN
    /\ p.at = "import" /\ Serves
    /\ \/ /\ db[p.copy.name].up
          /\ db' = Imported(p.copy.name)
          /\ Go("database", "record") /\ UNCHANGED obj
       \/ /\ ~db[p.copy.name].up
          /\ WriteStatus(p.cr, "Failed") /\ EndPass("database", TRUE) /\ UNCHANGED db
    /\ UNCHANGED <<cache, overdue, host, alias, comp, cast, used>>

\* status.dataImported, written on the pass's copy: a conflict when the CR moved.
RecordImport ==
    LET p == pass["database"] IN
    /\ p.at = "record"
    /\ \/ /\ obj[p.cr] = p.copy
          /\ obj' = [obj EXCEPT ![p.cr].imp = TRUE] /\ Go("database", "report")
       \/ /\ obj[p.cr] # p.copy
          /\ EndPass("database", TRUE) /\ UNCHANGED obj
    /\ UNCHANGED <<cache, overdue, host, neo4j, cast, used>>

\* The alias controller: waits for the target database, then creates the alias
\* or points it at its target.
LookForAlias ==
    LET p == pass["alias"] IN
    /\ p.at = "look" /\ Serves
    /\ \/ /\ DatabaseExists(p.copy.tgt)
          /\ Go("alias", IF ShowAlias(p.copy.name) = p.copy.tgt THEN "report" ELSE "create")
          /\ UNCHANGED obj
       \/ /\ ~db[p.copy.tgt].up
          /\ WriteStatus(p.cr, "Pending") /\ EndPass("alias", TRUE)
    /\ UNCHANGED <<cache, overdue, host, neo4j, cast, used>>

PointAlias ==
    LET p == pass["alias"] IN
    /\ p.at = "create" /\ Serves
    /\ \/ /\ db[p.copy.tgt].up
          /\ alias' = Aliased(p.copy.name, p.copy.tgt)
          /\ Go("alias", "report") /\ UNCHANGED obj
       \/ /\ ~db[p.copy.tgt].up
          /\ WriteStatus(p.cr, "Failed") /\ EndPass("alias", TRUE) /\ UNCHANGED alias
    /\ UNCHANGED <<cache, overdue, host, db, comp, cast, used>>

\* The composite controller, step 1: the composite, before any constituent.  A
\* dotted alias in its namespace stands in the way.
LookForComposite ==
    LET p == pass["composite"] IN
    /\ p.at = "look" /\ Serves
    /\ \/ /\ ShowComposite(p.copy.name) \/ ~NamespaceBlocker
          /\ Go("composite", IF ShowComposite(p.copy.name) THEN "list" ELSE "create") /\ UNCHANGED obj
       \/ /\ ~ShowComposite(p.copy.name) /\ NamespaceBlocker
          /\ WriteStatus(p.cr, "Failed") /\ EndPass("composite", TRUE)
    /\ UNCHANGED <<cache, overdue, host, neo4j, cast, used>>

CreateComposite ==
    LET p == pass["composite"] IN
    /\ p.at = "create" /\ Serves
    /\ comp' = Composed(p.copy.name)
    /\ Go("composite", "list")
    /\ UNCHANGED <<obj, cache, overdue, host, db, alias, cast, used>>

\* classifyAliases: the constituents of the composite, as SHOW ALIASES lists them.
ListConstituents ==
    LET p == pass["composite"] IN
    /\ p.at = "list" /\ Serves
    /\ pass' = [pass EXCEPT !["composite"].on = comp[p.copy.name].on, !["composite"].at = "wire"]
    /\ UNCHANGED <<obj, cache, overdue, queue, host, neo4j, cast, used>>

\* Step 2: a constituent that is missing is created, unless its database is
\* missing too; one that drifted is pointed at its database.
WireConstituent ==
    LET p == pass["composite"] IN
    /\ p.at = "wire" /\ Serves
    /\ \/ /\ p.on["listed"] = p.copy.tgt \/ (p.on["listed"] = "none" /\ ~db[p.copy.tgt].up)
          /\ Go("composite", "prune") /\ UNCHANGED <<obj, comp>>
       \/ /\ p.on["listed"] # p.copy.tgt /\ db[p.copy.tgt].up /\ comp[p.copy.name].up
          /\ comp' = Wired(p.copy.name, p.copy.tgt) /\ Go("composite", "prune") /\ UNCHANGED obj
       \/ /\ p.on["listed"] # p.copy.tgt /\ (p.on["listed"] # "none" \/ db[p.copy.tgt].up)
          /\ ~db[p.copy.tgt].up \/ ~comp[p.copy.name].up
          /\ WriteStatus(p.cr, "Failed") /\ EndPass("composite", TRUE) /\ UNCHANGED comp
    /\ UNCHANGED <<cache, overdue, host, db, alias, cast, used>>

\* undesiredConstituents: those of the listing that spec does not name.
PruneConstituents ==
    LET p == pass["composite"] IN
    /\ p.at = "prune" /\ Serves
    /\ comp' = IF p.on["stray"] = "none" THEN comp ELSE Unwired(p.copy.name)
    /\ Go("composite", "report")
    /\ UNCHANGED <<obj, cache, overdue, host, db, alias, cast, used>>

\* The pass was served to its end: Ready, and another pass later.
Report(k) ==
    /\ pass[k].at = "report"
    /\ WriteStatus(pass[k].cr, "Ready") /\ EndPass(k, TRUE)
    /\ UNCHANGED <<cache, overdue, host, neo4j, cast, used>>

-----------------------------------------------------------------------------
(* Deletion.                                                               *)

\* Mutant: no grace period ends the retries.
Blocked_Forever(k) == WriteStatus(pass[k].cr, "Failed") /\ EndPass(k, TRUE)

\* deletionCleanup.blocked: tries again until the grace period is over, then
\* leaves it all behind.
Blocked(k) ==
    \/ pass[k].cr \in overdue /\ Go(k, "release") /\ UNCHANGED obj
    \/ pass[k].cr \notin overdue /\ WriteStatus(pass[k].cr, "Failed") /\ EndPass(k, TRUE)

\* A Neo4jDatabase tries whatever the target's status says; the others wait for Ready.
Reaches(k) == Serves /\ (k = "database" \/ AcceptsWork)

\* handleDeletion, up to the statement.
CheckDeletion(k) ==
    LET c == pass[k].cr
        left == c \in Retained \/ KeptFor(c, pass[k].copy) \/ TargetTakesIt
    IN
    /\ pass[k].at = "check" /\ pass[k].copy.del
    /\ \/ left /\ Go(k, "release") /\ UNCHANGED obj
       \/ ~left /\ Reaches(k) /\ Go(k, "drop") /\ UNCHANGED obj
       \/ ~left /\ ~Reaches(k) /\ Blocked(k)
    /\ UNCHANGED <<cache, overdue, host, neo4j, cast, used>>

\* DROP DATABASE, DROP ALIAS, DROP COMPOSITE DATABASE ... CASCADE ALIASES.
Drop(k) ==
    LET n == pass[k].copy.name
        refused == ~Serves \/ (k = "database" /\ Refused(n))
    IN
    /\ pass[k].at = "drop"
    /\ \/ refused /\ Blocked(k) /\ UNCHANGED neo4j
       \/ /\ ~refused
          /\ db' = IF k = "database" THEN Dropped(n) ELSE db
          /\ alias' = IF k = "alias" THEN Unaliased(n) ELSE alias
          /\ comp' = IF k = "composite" THEN Decomposed(n) ELSE comp
          /\ Go(k, "release") /\ UNCHANGED obj
    /\ UNCHANGED <<cache, overdue, host, cast, used>>

\* removeFinalizer: the last one lets the object go.
Release(k) ==
    LET c == pass[k].cr IN
    /\ pass[k].at = "release"
    /\ obj' = IF obj[c].born = pass[k].copy.born THEN [obj EXCEPT ![c] = Absent(c)] ELSE obj
    /\ overdue' = overdue \ {c}
    /\ EndPass(k, FALSE)
    /\ UNCHANGED <<cache, host, neo4j, cast, used>>

-----------------------------------------------------------------------------
(* The user, the API server, the target, the admin and the operator's life.*)

Change == used.changes < cast.changes /\ used' = [used EXCEPT !.changes = @ + 1]
Ages == {obj[c].born : c \in CRs} \cup {cache[c].born : c \in CRs}
          \cup {pass[k].copy.born : k \in {j \in Kinds : pass[j] # NoPass}}

\* Two CRs created in one second are in the order of their UIDs.
UserCreates(c) ==
    /\ Change /\ c \in cast.crs /\ ~Exists(obj[c])
    /\ \E n \in NamesOf(c) \cap cast.names, t \in TargetsOf(c) \cap (cast.names \cup {"none"}),
          b \in Born \ ({0} \cup Ages) :
          obj' = [obj EXCEPT ![c] =
                    [Absent(c) EXCEPT !.born = b, !.gen = 1, !.name = n, !.tgt = t]]
    /\ UNCHANGED <<cache, overdue, queue, pass, host, neo4j, cast>>

UserEdits(c) ==
    /\ Change /\ Live(obj[c])
    /\ \E n \in NamesOf(c) \cap cast.names, t \in TargetsOf(c) \cap (cast.names \cup {"none"}) :
          /\ <<n, t>> # <<obj[c].name, obj[c].tgt>>
          /\ obj' = [obj EXCEPT ![c].name = n, ![c].tgt = t, ![c].gen = @ + 1]
    /\ UNCHANGED <<cache, overdue, queue, pass, host, neo4j, cast>>

UserDeletes(c) ==
    /\ Change /\ Live(obj[c])
    /\ obj' = IF obj[c].fin THEN [obj EXCEPT ![c].del = TRUE] ELSE [obj EXCEPT ![c] = Absent(c)]
    /\ UNCHANGED <<cache, overdue, queue, pass, host, neo4j, cast>>

\* The watch brings a CR to the cache, queues it, and queues the CRs of the
\* kind that give the same name when its claim on the name changed.
Sync(c) ==
    LET seen == [cache EXCEPT ![c] = obj[c]] IN
    /\ cache[c] # obj[c]
    /\ cache' = seen
    /\ Enqueue({c} \cup IF ClaimChanged(cache[c], obj[c])
                          THEN OthersOfTheName(c, cache[c], obj[c], seen) ELSE {})
    /\ UNCHANGED <<obj, overdue, pass, host, neo4j, cast, used>>

GraceOver(c) ==
    /\ obj[c].del /\ c \notin overdue /\ overdue' = overdue \cup {c}
    /\ UNCHANGED <<obj, cache, queue, pass, host, neo4j, cast, used>>

\* The CR of the target changes: its dependents are queued.
HostCR(cr) == host' = [host EXCEPT !.cr = cr]
                /\ Enqueue({c \in CRs : Exists(cache[c])})
Outage == used.outages < cast.outages /\ used' = [used EXCEPT !.outages = @ + 1]

HostDown ==
    /\ "outage" \in cast.fates /\ Outage /\ host.cr = "ready" /\ HostCR("down")
    /\ UNCHANGED <<obj, cache, overdue, pass, neo4j, cast>>
HostBack ==
    /\ host.cr = "down" /\ host.answers /\ HostCR("ready")
    /\ UNCHANGED <<obj, cache, overdue, pass, neo4j, cast, used>>
HostSilent ==
    /\ "outage" \in cast.fates /\ Outage /\ host.answers /\ host.cr \in {"ready", "down"}
    /\ host' = [host EXCEPT !.answers = FALSE]
    /\ UNCHANGED <<obj, cache, overdue, queue, pass, neo4j, cast>>
HostAnswers ==
    /\ ~host.answers /\ host.cr \in {"ready", "down"} /\ host' = [host EXCEPT !.answers = TRUE]
    /\ UNCHANGED <<obj, cache, overdue, queue, pass, neo4j, cast, used>>
HostDeleted ==
    /\ "delete" \in cast.fates /\ Outage /\ host.cr \in {"ready", "down"} /\ HostCR("leaving")
    /\ UNCHANGED <<obj, cache, overdue, pass, neo4j, cast>>
HostGone ==
    /\ host.cr = "leaving"
    /\ host' = [cr |-> "gone", answers |-> FALSE]
    /\ Enqueue({c \in CRs : Exists(cache[c])})
    /\ UNCHANGED <<obj, cache, overdue, pass, neo4j, cast, used>>
\* A new target by the name: over the volumes, where they were kept.
HostCreated ==
    /\ "create" \in cast.fates /\ host.cr = "gone" /\ HostCR("down")
    /\ db' = IF KeepVolumes THEN db ELSE [n \in DbNames |-> NoDb]
    /\ alias' = IF KeepVolumes THEN alias ELSE [a \in AliasNames |-> "none"]
    /\ comp' = IF KeepVolumes THEN comp ELSE [q \in CompNames |-> NoComp]
    /\ UNCHANGED <<obj, cache, overdue, pass, cast, used>>

\* By hand, in Neo4j: a database dropped, an alias moved, a constituent added.
Admin ==
    /\ Change /\ Serves
    /\ \/ \E n \in DbNames : /\ db[n].up /\ ~Refused(n)
                             /\ db' = [db EXCEPT ![n] = NoDb] /\ UNCHANGED <<alias, comp>>
       \/ \E a \in AliasNames, n \in DbNames :
             /\ alias[a] # n /\ db[n].up
             /\ alias' = [alias EXCEPT ![a] = n] /\ UNCHANGED <<db, comp>>
       \/ \E q \in CompNames, n \in DbNames :
             /\ comp[q].up /\ db[n].up /\ comp[q].on["stray"] = "none"
             /\ comp' = [comp EXCEPT ![q].on["stray"] = n] /\ UNCHANGED <<db, alias>>
    /\ UNCHANGED <<obj, cache, overdue, queue, pass, host, cast>>

\* The operator restarts, or another replica takes the lease.
Restart ==
    /\ used.crashes < cast.crashes /\ used' = [used EXCEPT !.crashes = @ + 1]
    /\ pass' = [k \in Kinds |-> NoPass]
    /\ cache' = obj /\ queue' \in Orders({c \in CRs : Exists(obj[c])})
    /\ UNCHANGED <<obj, overdue, host, neo4j, cast>>

-----------------------------------------------------------------------------
(* The three controllers.                                                  *)

ReconcileDatabase == Check("database") \/ LookForDatabase
DatabaseHostUnreachable == Away("database")
ReportDatabaseReady == Report("database")
DeleteDatabase == CheckDeletion("database") \/ Drop("database") \/ Release("database")
DatabaseController ==
    \/ ReconcileDatabase \/ CreateDatabase \/ ImportInitialData \/ RecordImport
    \/ DatabaseHostUnreachable \/ ReportDatabaseReady \/ DeleteDatabase

ReconcileAlias == Check("alias") \/ LookForAlias
AliasTargetUnreachable == Away("alias")
ReportAlias == Report("alias")
DeleteAlias == CheckDeletion("alias") \/ Drop("alias") \/ Release("alias")
AliasController ==
    ReconcileAlias \/ PointAlias \/ AliasTargetUnreachable \/ ReportAlias \/ DeleteAlias

ReconcileComposite == Check("composite") \/ LookForComposite \/ CreateComposite
CompositeTargetUnreachable == Away("composite")
ReportComposite == Report("composite")
DeleteComposite == CheckDeletion("composite") \/ Drop("composite") \/ Release("composite")
CompositeController ==
    \/ ReconcileComposite \/ ListConstituents \/ WireConstituent \/ PruneConstituents
    \/ CompositeTargetUnreachable \/ ReportComposite \/ DeleteComposite

Next ==
    \/ \E c \in CRs : \/ Begin(c) \/ Sync(c) \/ GraceOver(c)
                      \/ UserCreates(c) \/ UserEdits(c) \/ UserDeletes(c)
    \/ DatabaseController \/ AliasController \/ CompositeController
    \/ HostDown \/ HostBack \/ HostSilent \/ HostAnswers \/ HostDeleted \/ HostGone \/ HostCreated
    \/ Admin \/ Restart

Spec == Init /\ [][Next]_vars

\* Every pass runs on and a queued CR gets one (the queue is fair), the watch
\* delivers, time passes, an outage ends.  The user and the admin owe nothing.
Recovers == HostBack \/ HostAnswers \/ HostGone \/ HostCreated
FairSpec ==
    /\ Spec
    /\ WF_vars(DatabaseController) /\ WF_vars(AliasController) /\ WF_vars(CompositeController)
    /\ WF_vars(\E c \in Databases : Begin(c)) /\ WF_vars(\E c \in Aliases : Begin(c))
    /\ WF_vars(\E c \in Composites : Begin(c))
    /\ WF_vars(\E c \in CRs : Sync(c) \/ GraceOver(c)) /\ WF_vars(Recovers)

-----------------------------------------------------------------------------
(* Properties.                                                             *)

\* What a pass drops is nothing another CR of its kind reports Ready: the
\* claims are read before the statement, from a cache that lags, and the drop
\* is a later step.
DropStep ==
    \A k \in Kinds : pass[k].at = "drop" /\ neo4j' # neo4j =>
       \A d \in CRs : d # pass[k].cr /\ KindOf(d) = k /\ Owns(obj[d])
                        => obj[d].name # pass[k].copy.name
DropSpares == [][DropStep]_vars

\* The oldest live CR of its kind by its name.
NameOwner(c) ==
    \A d \in CRs : c # d /\ KindOf(c) = KindOf(d) /\ Live(obj[d]) /\ obj[d].name = obj[c].name
                     => obj[c].born < obj[d].born

Given(c) ==
    CASE c \in Databases -> Owns(obj[c]) /\ db[obj[c].name].up
      [] c \in Aliases -> IF db[obj[c].tgt].up THEN Owns(obj[c]) /\ alias[obj[c].name] = obj[c].tgt
                                               ELSE obj[c].phase = "Pending"
      [] c \in Composites -> \/ ~db[obj[c].tgt].up
                             \/ NamespaceBlocker
                             \/ /\ Owns(obj[c]) /\ comp[obj[c].name].up
                                /\ comp[obj[c].name].on = [listed |-> obj[c].tgt, stray |-> "none"]

\* Once the user, the admin and the target have settled, every CR that owns its
\* name is Ready with what it gives in Neo4j as its spec says, and every other
\* says so: a duplicate has no timer, so this rests on the watch that wakes it.
HostUp == host.cr = "ready" /\ host.answers
NamesSettled ==
    \A c \in CRs : Live(obj[c]) =>
        IF NameOwner(c) THEN Given(c) ELSE obj[c].phase = "Failed" /\ obj[c].at = obj[c].gen

\* A deletion ends, whatever the target and Neo4j do: by its grace period.
NoneDeleting == \A c \in CRs : ~obj[c].del

\* Every deletion ends, and with the target back every name settles.
NamesSettle == <>[]NoneDeleting /\ (<>[]HostUp => <>[]NamesSettled)

-----------------------------------------------------------------------------
(* The registry of names this implements: what is there, and who answers   *)
(* for it.                                                                 *)

Slots == ({"database"} \X DbNames) \cup ({"alias"} \X AliasNames) \cup ({"composite"} \X CompNames)
There ==
    {s \in Slots : CASE s[1] = "database" -> db[s[2]].up
                     [] s[1] = "alias" -> alias[s[2]] # "none"
                     [] s[1] = "composite" -> comp[s[2]].up}
Holds == [c \in CRs |-> IF Owns(obj[c]) THEN {<<KindOf(c), obj[c].name>>} ELSE {}]

Registry == INSTANCE NameRegistry
    WITH Clients <- CRs, there <- There, holds <- Holds, world <- <<host, used>>

\* The three controllers keep a registry of names: what goes, other than by a
\* hand or an event outside the operator, is held by no CR at that moment.
Implements == Registry!Spec
====
