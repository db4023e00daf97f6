---------------------------- MODULE MCResources ----------------------------
(* Custom resources for something another system keeps: part "managed" is  *)
(* AuraManaged (what Aura is to keep as the spec says), part "action" is   *)
(* AuraActions (what Aura is to do once), part "replica" is                *)
(* ReplicaDatabase.  Each scene of theirs is a starting point with what    *)
(* may happen from it.                                                     *)
EXTENDS Integers, Sequences

VARIABLES part, cr, cache, pass, cloud, secret, env, left, queue, db, host
all == <<part, cr, cache, pass, cloud, secret, env, left, queue, db, host>>

(* The scenes of AuraManaged. *)

Defs == INSTANCE AuraManaged WITH Ids <- 1 .. 3, Scenes <- {}
Policies == Defs!Policies

Kept(kind) ==
    [kind |-> kind, life |-> "live", fin |-> FALSE, halt |-> FALSE, gen |-> 1, name |-> "a",
     value |-> "small", format |-> "neo4j-driver", sleep |-> FALSE, multi |-> FALSE, may |-> Policies,
     destroy |-> TRUE, hold |-> FALSE, import |-> Defs!None, note |-> Defs!None, id |-> Defs!None,
     phase |-> "none", seen |-> 0]
Around == [creds |-> TRUE, org |-> TRUE, site |-> "known", multi |-> TRUE, hired |-> FALSE,
           offers |-> TRUE, late |-> FALSE]
Hired == [Around EXCEPT !.hired = TRUE]
Budget == [codes |-> {}, lost |-> 0, unwritten |-> 0, crash |-> 0,
           lag |-> FALSE, over |-> FALSE, may |-> {}]
There(kind, value) ==
    <<[kind |-> kind, name |-> "a", value |-> value, multi |-> FALSE, state |-> "running",
       next |-> "running", born |-> ""]>>
Scene(o, c, e, b) == [cr |-> o, env |-> e, left |-> b, cloud |-> c]

\* Every kind through faults of every sort, then deleted.
Faulty ==
    {Scene(Kept(k), IF k = "orgmember" THEN There(k, "large") ELSE <<>>, Hired,
           [Budget EXCEPT !.lost = 1, !.codes = {"400"}, !.crash = 1, !.lag = k # "database",
                          !.may = {"delete"}]) : k \in Defs!Kinds}
\* A running resource is edited, drifts, sleeps and wakes.
Edits ==
    {Scene(Kept("instance"), <<>>, Around, [Budget EXCEPT !.crash = 1, !.unwritten = 1, !.may = m]) :
        m \in {{"name", "value"}, {"sleep", "wake"}, {"drift", "format"}}}
    \cup {Scene(Kept(k), <<>>, Hired, [Budget EXCEPT !.lag = TRUE, !.codes = {"400", "409"}, !.may = m]) :
            k \in {"filter", "projectmember"}, m \in {{"value"}, {"name"}, {"drift"}}}
\* Something with the name is there already.
Adopted ==
    {Scene([Kept(k) EXCEPT !.may = m, !.destroy = d], There(k, v), Around,
           [Budget EXCEPT !.lag = m # {},
                          !.may = {"delete", IF k = "invite" THEN "revoked" ELSE "removed"}]) :
        k \in Defs!Kinds \ {"database"}, m \in {{}, Policies}, d \in BOOLEAN,
        v \in {"small", "large"}}
\* Credentials, organization and host come late or go before the deletion.
Late(k) == CASE k = "filter" -> {"org set", "site known"}
             [] k = "database" -> {"site known", "site gone"}
             [] k \in Defs!Members -> {"hired"}
             [] OTHER -> {}
Turns ==
    {Scene([Kept(k) EXCEPT !.destroy = d], <<>>,
           [Around EXCEPT !.org = k # "filter",
                          !.site = IF k \in {"filter", "database"} THEN "unknown" ELSE "known"],
           [Budget EXCEPT !.may = {"creds lost", "creds back", "delete"} \cup Late(k)]) :
        k \in Defs!Kinds, d \in BOOLEAN}
\* A refused spec is corrected at any moment; an organization, a combination the
\* project offers, come late; an instance of the name is not multi-database.
Refusals ==
    {Scene([Kept(k) EXCEPT !.value = "bad", !.multi = k = "instance"], <<>>, Around,
           [Budget EXCEPT !.codes = {"5xx"}, !.crash = 1, !.lag = TRUE, !.may = {"fix"}]) :
        k \in {"instance", "invite"}}
    \cup {Scene([Kept("instance") EXCEPT !.multi = m], c, [Around EXCEPT !.org = FALSE, !.offers = FALSE],
                [Budget EXCEPT !.crash = 1, !.may = {"org set", "offered", "name"}]) :
             m \in BOOLEAN, c \in {<<>>, There("instance", "small")}}
    \cup {Scene(Kept("database"), <<>>, [Around EXCEPT !.multi = b],
                [Budget EXCEPT !.codes = {"multi-db-only"}, !.may = {"name", "delete"}]) : b \in BOOLEAN}
\* Protection and halts hold a deletion until they are lifted.
Held ==
    {Scene([Kept(k) EXCEPT !.hold = k = "instance"], <<>>, Around,
           [Budget EXCEPT !.lag = k = "invite", !.codes = {"key-active"},
                          !.may = {"halt", "resume", "unhold", "delete"}]) :
        k \in {"instance", "key", "invite"}}
\* An instance imported by its id.
Imported ==
    {Scene([Kept("instance") EXCEPT !.import = 1, !.may = m], There("instance", "small"), Around,
           [Budget EXCEPT !.lag = TRUE, !.may = {"value", "delete"}]) : m \in {{}, Policies}}

Managed == INSTANCE AuraManaged WITH Ids <- 1 .. 3,
    Scenes <- Faulty \cup Edits \cup Adopted \cup Turns \cup Refusals \cup Held \cup Imported

(* The scenes of AuraActions. *)

ADefs == INSTANCE AuraActions WITH Jobs <- 1 .. 4, Scenes <- {}, aura <- cloud

Once(kind) ==
    [kind |-> kind, phase |-> "", id |-> ADefs!None, note |-> ADefs!None, reason |-> "",
     begun |-> FALSE, paused |-> FALSE, creates |-> TRUE]
Found == [creds |-> TRUE, target |-> TRUE, source |-> TRUE, database |-> TRUE, missed |-> FALSE]
Faultless == [codes |-> {}, lost |-> 0, unwritten |-> 0, crash |-> 0, faults |-> 0, lag |-> FALSE,
              others |-> FALSE, ends |-> {}, may |-> {}]
Ask(o, e, i, b) ==
    [cr |-> o, env |-> e, inst |-> i, left |-> [b EXCEPT !.faults = b.lost + b.unwritten + b.crash]]

\* Every kind through errors, lost answers, lost writes and a crash.
FaultyAsks ==
    {Ask(Once(k), Found, "running",
         [Faultless EXCEPT !.codes = c, !.lost = 1, !.unwritten = 1, !.crash = 1, !.ends = {"Failed"}]) :
        k \in ADefs!Kinds \ {"provider"}, c \in {{"404", "409", "5xx"}, {"400"}}}
\* A cached copy that lags.
LaggingAsks ==
    {Ask(Once(k), Found, "running",
         [Faultless EXCEPT !.codes = {"5xx"}, !.unwritten = 1, !.crash = 1, !.lag = TRUE]) :
        k \in ADefs!Kinds}
\* What the references lead to comes late, and goes.
Missing(m, c) ==
    [Found EXCEPT !.creds = ("creds" \in m => c), !.target = ("target" \in m => c),
                  !.source = ("source" \in m => c), !.database = ("database" \in m => c)]
TurningAsks ==
    {Ask(Once(k), Missing(m, c), "running",
         [Faultless EXCEPT !.crash = 1, !.may = m,
            !.ends = {"InProgress", IF k = "snapshot" THEN "Cancelled" ELSE "Failed"}]) :
        k \in ADefs!Kinds, c \in BOOLEAN,
        m \in {{"creds", "target"}, {"source", "database"}, {"creds", "pause", "resume"}}}
    \cup {Ask([Once(k) EXCEPT !.creates = FALSE], Found, "running", Faultless) :
            k \in {"databasebackup", "databaserestore"}}
\* Someone resizes the instance, or lets it sleep, while it is restored.
SharedAsks ==
    {Ask(Once(k), Found, i, [Faultless EXCEPT !.crash = 1, !.others = TRUE, !.may = m]) :
        k \in {"restore", "databaserestore"}, i \in {"running", "updating"},
        m \in {{"resize"}, {"sleep", "wake"}}}

Action == INSTANCE AuraActions WITH Jobs <- 1 .. 4, aura <- cloud,
    Scenes <- FaultyAsks \cup LaggingAsks \cup TurningAsks \cup SharedAsks

(* The scenes of ReplicaDatabase. *)

Copy(mode, upstream, policy, deleted, hand, crashes, lost, outages) ==
    [mode |-> mode, upstream |-> upstream, policy |-> policy,
     left |-> [made |-> 1, deleted |-> deleted, hand |-> hand, crashes |-> crashes,
               lost |-> lost, late |-> hand, outages |-> outages]]

\* A promotion with a crash and a write that fails; one by hand; seeding from
\* backups; an upstream that comes late and a target that goes away; deletions,
\* kept and not.
Replica == INSTANCE ReplicaDatabase WITH
    Scenes <- {Copy("network", TRUE, "Delete", 0, 0, 1, 1, 0),
               Copy("network", TRUE, "Delete", 0, 1, 0, 1, 0),
               Copy("backup", FALSE, "Retain", 0, 0, 0, 1, 0),
               Copy("network", FALSE, "Delete", 0, 0, 0, 0, 1),
               Copy("network", TRUE, "Retain", 1, 1, 0, 0, 0),
               Copy("network", TRUE, "Delete", 1, 0, 0, 0, 0)},
    rep <- cr, promo <- cloud, seen <- cache, rpass <- pass, ppass <- secret

NoDatabase == queue = 0 /\ db = 0 /\ host = 0
Init == \/ part = "managed" /\ Managed!Init /\ NoDatabase
        \/ part = "action" /\ Action!Init /\ secret = 0 /\ NoDatabase
        \/ part = "replica" /\ Replica!Init

\* A step of one part leaves the other parts' variables alone.
InManaged(A) == part = "managed" /\ A /\ UNCHANGED <<part, queue, db, host>>
InAction(A) == part = "action" /\ A /\ UNCHANGED <<part, secret, queue, db, host>>
InReplica(A) == part = "replica" /\ A /\ UNCHANGED part

Next == InManaged(Managed!Next) \/ InAction(Action!Next) \/ InReplica(Replica!Next)

\* As part never changes, fairness of a disjunction over the parts is fairness
\* of each.
Fairness ==
    /\ WF_all(\/ InManaged(Managed!Steps) \/ InAction(Action!BeginPass)
              \/ InReplica(Replica!ReplicaController))
    /\ WF_all(\/ InManaged(Managed!WriteGivenUp)
              \/ InAction(Action!Post \/ Action!Get \/ Action!CallFails)
              \/ InReplica(Replica!PromotionController))
    /\ WF_all(InManaged(Managed!Deliver) \/ InAction(Action!Deliver) \/ InReplica(Replica!Sync))
    /\ WF_all(InManaged(Managed!Settle) \/ InAction(Action!Settle) \/ InReplica(Replica!Offered))
    /\ WF_all(\/ InManaged(Managed!GraceOver) \/ InAction(Action!patchStatus)
              \/ InReplica(Replica!Recovers))
FairSpec == Init /\ [][Next]_all /\ Fairness

\* Nothing is made twice: a name stands for one thing in Aura, and what is done
\* once is asked for once unless its answer was lost.  And nothing is reported
\* Completed that is not: backups, restores and promotions.
NothingTwice == /\ part = "managed" => Managed!OnePerName
                /\ part = "action" => Action!AskedOnce
CompletedTrue == /\ part = "action" => Action!CompletedIsComplete /\ Action!CompletedIsRestored
                 /\ part = "replica" => Replica!CompletedIsPromoted

\* The password Aura shows once stays in a Secret that keeps its format, only what
\* the resource asked for is destroyed, and a recorded thing is not left behind.
NothingLost == [][part = "managed" => /\ Managed!PasswordStep /\ Managed!DestroyStep
                                      /\ Managed!LeaveStep]_all

\* A request goes out only once marked and is not sent again when its outcome was
\* missed; what ended stays ended, and a promoted replica stays promoted.
FinalStays == [][/\ part = "action" => Action!SendStep /\ Action!ResendStep /\ Action!EndedStep
                 /\ part = "replica" => Replica!TerminalStep]_all

\* Each comes to its end: what is kept is as the spec says or excused (or its
\* correction landed while the spec before it was refused), deletions end, an
\* action that is served ends, a promotion is noticed and completed.
ResourcesSettle ==
    /\ <>[](/\ part = "managed" => /\ Managed!NoneDeleting
                                   /\ Managed!Served \/ Managed!Excused \/ Managed!Overtaken
            /\ part = "replica" => Replica!Noticed /\ Replica!Promoted)
    /\ []<>(part = "action" => Action!Served \/ Action!Allowed)
          => <>[](part = "action" => Action!Over(cr))
=============================================================================
