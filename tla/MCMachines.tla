----------------------------- MODULE MCMachines -----------------------------
(* What changes the servers of a running cluster: that it ends, and what  *)
(* it spares on the way.  part says which instance a behaviour is of:      *)
(*   ends  - an upgrade of three servers, edited on the way;               *)
(*   drain - two edits of the server count, Neo4j refusing or not there;   *)
(*   grow  - StorageExpansion itself with the constants of the cfg: two    *)
(*           expansions, at any point an upgrade may have stopped at;      *)
(*   plugin - Neo4jPlugins and their cluster, in the scenes below.         *)
EXTENDS StorageExpansion, TLC

CONSTANT NoValue

VARIABLES part, obj, cache, set, stat, live, store, seen, vol, srv, hosts,
          hand, known, since, clock, pass, done
other == <<obj, cache, set, stat, live, store, seen, vol, srv, hosts,
           hand, known, since, clock, pass, done>>
all == <<part, vars, other>>

Ends  == INSTANCE RollingUpgrade WITH
           N <- 3, Tags <- 1 .. 3, FirstTag <- 1, Unpullable <- {}, Crashing <- {2},
           AutoPause <- FALSE, HealthChecks <- TRUE, GatedUpdate <- TRUE,
           LowerEdits <- FALSE, EditsInFlight <- TRUE,
           MaxEdits <- 2, MaxLost <- 0, MaxTimeouts <- 1,
           sts <- set, st <- stat, pods <- live, op <- pass, used <- done
Drain == INSTANCE ScaleDown WITH
           MaxServers <- 3, MaxGens <- 2, Sizes <- {1, 3}, MinPrimaries <- 1,
           StaleCopies <- FALSE, StaleSts <- FALSE, AddressLoss <- FALSE,
           EditsWhileJoining <- FALSE, Refusals <- TRUE,
           MaxEdits <- 2, MaxLost <- 0, MaxHand <- 0, MaxCordons <- 2,
           replicas <- set, pods <- live, op <- pass, used <- done
(* The scenes of Plugins: a cluster of two servers, up to two Neo4jPlugins. *)

NoConf == [k \in {"k"} |-> NoValue]
P(name) == [name |-> name, deps |-> {}, mode |-> "Managed", conf |-> NoConf, enabled |-> TRUE]
With(name, deps, v) == [P(name) EXCEPT !.deps = deps, !.conf = [k \in {"k"} |-> v]]
T(list, procs, fleet, image) ==
    [list |-> list, procs |-> procs, conf |-> NoConf, fleet |-> fleet, image |-> image]
Plain == T(NoValue, NoValue, FALSE, "old")
Still == [edits |-> <<{}, {}>>, delete |-> {}, create |-> {}, targets |-> {}, hand |-> 0, lag |-> {}]
Only(a, l) == [here |-> {1}, specs |-> <<a, a>>, target |-> Plain, left |-> l]
Both(a, b, l) == [here |-> {1, 2}, specs |-> <<a, b>>, target |-> Plain, left |-> l]

\* A dependency of one plugin is the other plugin; two Neo4jPlugins of one name.
SharedDep == Both(With("apoc", {"gds"}, NoValue), P("gds"), [Still EXCEPT !.delete = {2}])
Drops == Both(With("apoc", {"gds"}, NoValue), P("gds"), [Still EXCEPT !.edits[1] = {P("apoc")}])
Twins == Both(With("apoc", {}, "v"), [P("apoc") EXCEPT !.mode = "VerifiedDownload"],
              [Still EXCEPT !.edits[1] = {[With("apoc", {}, "v") EXCEPT !.enabled = FALSE]}])
\* The cluster sets NEO4J_PLUGINS itself, then no longer; or comes to.
GivesBack == [Only(P("apoc"), [Still EXCEPT !.targets = {Plain}])
                EXCEPT !.target = T({"apoc"}, {"apoc"}, FALSE, "old")]
TakesOver == Only(With("apoc", {}, "v"), [Still EXCEPT !.targets = {T({"gds"}, NoValue, TRUE, "old")}])
\* Fleet management is switched on and off; a plugin that depends on it no longer does.
WithFleet == T(NoValue, NoValue, TRUE, "old")
FleetOff == [Only(P("apoc"), [Still EXCEPT !.targets = {Plain}]) EXCEPT !.target = WithFleet]
FleetOn == Only(With("apoc", {"fleet"}, NoValue), [Still EXCEPT !.targets = {WithFleet}])
FleetDep == [Only(With("apoc", {"fleet"}, NoValue), [Still EXCEPT !.edits[1] = {P("apoc")}])
               EXCEPT !.target = WithFleet]
\* Servers fail with a setting of the plugin; it is corrected, or deleted.
Breaks == Only(With("apoc", {}, "bad"), [Still EXCEPT !.edits[1] = {P("apoc")}])
Removed == Only(With("apoc", {}, "bad"), [Still EXCEPT !.delete = {1}])
\* The image comes to refuse the plugin; the list is emptied by hand; the plugin is
\* deleted and created again.
ImageRefuses == Only(P("apoc"), [Still EXCEPT !.targets = {T(NoValue, NoValue, FALSE, "new")}])
Emptied == Only(P("apoc"), [Still EXCEPT !.hand = 1])
Again == Only(With("apoc", {}, "v"), [Still EXCEPT !.delete = {1}, !.create = {1}])
Lagging(sc, k) == [sc EXCEPT !.left.lag = {k}]

Plugin == INSTANCE Plugins WITH
    Crs <- {1, 2}, Names <- {"apoc", "gds", "fleet"}, Settings <- {"k"}, Values <- {"v", "bad"},
    Bad <- "bad", Fleet <- "fleet", Servers <- {0, 1},
    Refuses <- ("old" :> {} @@ "new" :> {"apoc"}),
    Scenes <- {SharedDep, Drops, Twins, TakesOver, FleetOff, FleetOn, FleetDep, ImageRefuses, Emptied}
                \cup {Lagging(Breaks, k) : k \in {"sts", "status"}}
                \cup {Lagging(sc, "plugins") : sc \in {Removed, Again}}
                \cup {Lagging(GivesBack, k) : k \in {"sts", "target"}},
    plug <- obj, plugc <- cache, tgt <- store, tgtc <- stat, sts <- set, stsc <- seen,
    pod <- live, queue <- hosts, tpass <- vol, left <- done

notEnds == <<seen, vol, srv, hosts, hand, known, since, clock>>
notDrain == <<stat, store>>
notPlugin == <<srv, hand, known, since, clock>>

NoServers == srv = 0 /\ hand = 0 /\ known = 0 /\ since = 0 /\ clock = 0
MCInit ==
    /\ Init
    /\ \/ /\ part = "grow" /\ obj = 0 /\ cache = 0 /\ set = 0 /\ stat = 0 /\ live = 0
          /\ store = 0 /\ seen = 0 /\ vol = 0 /\ hosts = 0 /\ pass = 0 /\ done = 0
          /\ NoServers
       \/ /\ held = NotHeld /\ \A n \in Sizes : size >= n
          /\ \/ /\ part = "ends" /\ Ends!Init
                /\ seen = 0 /\ vol = 0 /\ hosts = 0 /\ NoServers
             \/ part = "drain" /\ Drain!Init /\ stat = 0 /\ store = 0
             \/ part = "plugin" /\ Plugin!Init /\ NoServers

\* A step of one part leaves the other parts' variables alone.
InEnds(A) == part = "ends" /\ A /\ UNCHANGED <<part, vars, notEnds>>
InDrain(A) == part = "drain" /\ A /\ UNCHANGED <<part, vars, notDrain>>
InGrow(A) == part = "grow" /\ A /\ UNCHANGED <<part, other>>
InPlugin(A) == part = "plugin" /\ A /\ UNCHANGED <<part, vars, notPlugin>>

MCNext == InEnds(Ends!Next) \/ InDrain(Drain!Next) \/ InGrow(Next) \/ InPlugin(Plugin!Next)

\* The fairness of the four components: as part never changes, fairness of a
\* disjunction over the parts is fairness of each.
MCFairness ==
    /\ WF_all(\/ InEnds(Ends!SyncCache \/ Ends!ObserveSts)
              \/ InDrain(Drain!SyncCache \/ Drain!SyncSts \/ Drain!SettleEnds)
              \/ InGrow(Pass)
              \/ InPlugin(Plugin!ObserveSts \/ Plugin!SyncPlugins \/ Plugin!SyncTarget \/ Plugin!SyncSts))
    /\ WF_all(\/ InEnds(Ends!Kubelets) \/ InDrain(Drain!PassBegins) \/ InGrow(expandVolumes)
              \/ InPlugin(Plugin!Prompt /\ (Plugin!Write \/ Plugin!Finish)))
    /\ WF_all(\/ InEnds(Ends!StartUpgrade \/ Ends!Retarget \/ Ends!NormalPass)
              \/ InDrain(Drain!Kubernetes \/ \E id \in Drain!Ids : Drain!Relocated(id))
              \/ InGrow(Kubernetes)
              \/ InPlugin(Plugin!Prompt /\ Plugin!TargetController))
    /\ WF_all(\/ InEnds(Ends!StagingTimeout \/ Ends!RollingTimeout)
              \/ InGrow(orphanDeleteStatefulSet))
    /\ WF_all(InEnds(Ends!PassDecides) \/ InGrow(CreateAgain \/ waitStatefulSetGone))
    /\ SF_all(\/ InEnds(Ends!StagingWrite \/ Ends!RollingWrite) \/ InDrain(Drain!Served)
              \/ InPlugin(Plugin!Prompt /\ Plugin!Kubernetes))
    /\ SF_all(\/ InEnds(Ends!StagingRecord \/ Ends!RollingRecord)
              \/ InDrain(Drain!ApplySts /\ Drain!InProgress(Drain!copy))
              \/ InPlugin(Plugin!Prompt /\ Plugin!Reconcile(1)))
    /\ SF_all(\/ InDrain(Drain!ApplySts /\ ~Drain!InProgress(Drain!copy))
              \/ InPlugin(Plugin!Prompt /\ Plugin!Reconcile(2)))
MCSpec == MCInit /\ [][MCNext]_all /\ MCFairness

\* A server the drain cordoned is deallocated only once its settle is over.
SettleRespected == [][part = "drain" => Drain!SettleStep]_all

\* A Ready plugin keeps its entries in the shared list, and says Ready only when
\* the servers run it.
PluginsServed == [][part = "plugin" => Plugin!EntryStep /\ Plugin!ReadyStep]_all

\* An upgrade whose images start finishes, the servers come to the count asked
\* for, an expansion ends with every claim at its size, and the plugins settle on
\* what is asked of them and give broken servers back.
MachinesEnd ==
    <>[](/\ part = "ends" /\ Ends!Startable => Ends!Upgraded
         /\ part = "drain" => Drain!CountSettled
         /\ part = "grow" => ExpansionSettled
         /\ part = "plugin" => Plugin!Broken \/ (Plugin!Done /\ Plugin!arePodsReady))
=============================================================================
