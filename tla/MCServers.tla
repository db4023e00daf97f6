----------------------------- MODULE MCServers -----------------------------
(* What the servers are configured with, and a restore of one.  part says  *)
(* which component a behaviour is of:                                      *)
(*   cluster - ClusterConfig;                                              *)
(*   alone   - Standalone;                                                 *)
(*   restore - RestoreJob itself with the constants of the cfg: one        *)
(*             restore, edited or deleted at any moment, or a write failing*)
(* A scene is a starting point with what may happen from it.               *)
EXTENDS RestoreJob, Sequences

VARIABLES part, spec, status, map, set, pods, cert, frozen, memory, pass, env, left
other == <<spec, status, map, set, pods, cert, frozen, memory, pass, env, left>>
all == <<part, vars, other>>

(* The scenes of ClusterConfig. *)

Defs == INSTANCE ClusterConfig WITH MaxServers <- 3, Scenes <- {}, sts <- set

C0 == [conf |-> [k \in Defs!Settings |-> 0], servers |-> 2, min |-> 2, env |-> FALSE,
       crit |-> 0, rest |-> "ok", late |-> FALSE]
Set(s, k, v) == [s EXCEPT !.conf[k] = v]
Calmly == [edits |-> <<>>, paced |-> FALSE, calm |-> FALSE, refuse |-> 0, lost |-> 0,
         unstamped |-> 0, lose |-> 0, renew |-> 0, lag |-> 0, crash |-> 0, missed |-> FALSE]
Running(s, edits, l) ==
    [was |-> s, spec |-> s, runs |-> TRUE, map |-> Defs!stamped(Defs!NoMap, Defs!BuildConfigMap(s)),
     left |-> [l EXCEPT !.edits = edits]]

Created == [was |-> C0, spec |-> C0, runs |-> FALSE, map |-> Defs!NoMap,
            left |-> [Calmly EXCEPT !.crash = 1, !.lag = 1]]
LiveEdits == Running(C0, <<Set(C0, "dyn", 1), Set(C0, "dyn", 2)>>,
                     [Calmly EXCEPT !.refuse = 1, !.crash = 1])
Calm == Running(C0, <<Set(C0, "dyn", 1), [Set(C0, "dyn", 1) EXCEPT !.servers = 3]>>,
                [Calmly EXCEPT !.calm = TRUE, !.paced = TRUE])
Fixed == Running(C0, <<Set(C0, "fixed", 1), Set(C0, "fixed", 2)>>, [Calmly EXCEPT !.crash = 1])
FixedLost == Running(C0, <<Set(C0, "fixed", 1), Set(C0, "fixed", 2)>>,
                     [Calmly EXCEPT !.lost = 1, !.unstamped = 1])
Overridden == Running([C0 EXCEPT !.env = TRUE],
                      <<[Set(C0, "dyn", 1) EXCEPT !.env = TRUE], Set(C0, "dyn", 1)>>, Calmly)
Lagging == Running(C0, <<Set(C0, "dyn", 1)>>, [Calmly EXCEPT !.lag = 1, !.refuse = 1])
Grows == Running([C0 EXCEPT !.min = 0], <<[C0 EXCEPT !.min = 0, !.servers = 3]>>,
                 [Calmly EXCEPT !.crash = 1])
Shrinks == Running([C0 EXCEPT !.servers = 3], <<C0, [C0 EXCEPT !.servers = 3]>>,
                   [Calmly EXCEPT !.paced = TRUE, !.calm = TRUE])
Waits == Running(C0, <<Set(C0, "timeout", 1), Set(Set(C0, "timeout", 1), "dyn", 1)>>,
                 [Calmly EXCEPT !.lose = 1, !.paced = TRUE])
\* A cluster an earlier release of the operator left.
Older == [Running([C0 EXCEPT !.late = TRUE], <<>>, [Calmly EXCEPT !.calm = TRUE, !.renew = 1])
            EXCEPT !.map.jvm = TRUE, !.map.late = FALSE, !.map.deferred = FALSE]
Renewed == Running([C0 EXCEPT !.late = TRUE], <<>>, [Calmly EXCEPT !.renew = 1, !.lag = 1])
Stuck == Running(C0, <<[C0 EXCEPT !.rest = "bad"], [C0 EXCEPT !.rest = "other"]>>,
                 [Calmly EXCEPT !.lose = 1])
Bigger == Running(C0, <<[C0 EXCEPT !.crit = 1], [C0 EXCEPT !.crit = 1, !.rest = "other"]>>,
                  [Calmly EXCEPT !.lag = 1])

(* The scenes of Standalone. *)

S0 == [dyn |-> 0, stat |-> 0, tag |-> 1, own |-> FALSE, ident |-> FALSE, size |-> 1, net |-> 1,
       extra |-> FALSE, check |-> FALSE, retain |-> FALSE]
Quiet == [edits |-> {}, fail |-> 0, record |-> 0, restart |-> 0, crash |-> 0, delete |-> 0,
          bolt |-> 0, class |-> 0, expandable |-> 0, plugin |-> 0,
          unread |-> 0, forgot |-> FALSE, older |-> FALSE,
          lag |-> FALSE, paced |-> FALSE, calm |-> FALSE]

\* Settings change one after the other, with an operator restart or upgrade.
OneByOne == [spec |-> S0,
         left |-> [Quiet EXCEPT !.edits = {[S0 EXCEPT !.dyn = 1], [S0 EXCEPT !.dyn = 1, !.stat = 1]},
                                !.crash = 1, !.paced = TRUE, !.calm = TRUE]]
\* Settings and variables change while copies trail and steps fail.
Trailing == [spec |-> S0,
          left |-> [Quiet EXCEPT !.edits = {[S0 EXCEPT !.dyn = 1, !.own = TRUE]},
                                 !.record = 1, !.lag = TRUE]]
\* A workload identity comes and goes.
Ident == [spec |-> S0,
          left |-> [Quiet EXCEPT !.edits = {[S0 EXCEPT !.ident = TRUE], S0},
                                 !.crash = 1, !.lag = TRUE, !.paced = TRUE]]
\* A plugin is installed around a storage expansion; installed and
\* removed while the server restarts.
Plug == [spec |-> S0,
         left |-> [Quiet EXCEPT !.edits = {[S0 EXCEPT !.size = 2]}, !.plugin = 1, !.crash = 1,
                                !.unread = 1, !.paced = TRUE]]
Unplug == [spec |-> S0, left |-> [Quiet EXCEPT !.plugin = 2, !.restart = 1, !.paced = TRUE]]
\* An upgrade whose check may refuse, or one of whose steps fails.
Checked == [Quiet EXCEPT !.edits = {[S0 EXCEPT !.check = TRUE, !.tag = 2]}, !.lag = TRUE]
Check == [spec |-> [S0 EXCEPT !.check = TRUE], left |-> [Checked EXCEPT !.bolt = 1]]
CheckFails == [spec |-> [S0 EXCEPT !.check = TRUE], left |-> [Checked EXCEPT !.fail = 1]]
\* Volumes that cannot grow or would shrink, a StorageClass that is missing.
Volumes == [spec |-> [S0 EXCEPT !.extra = TRUE],
            left |-> [Quiet EXCEPT !.edits = {[S0 EXCEPT !.size = 2, !.net = 2, !.extra = TRUE], S0},
                                   !.class = 1, !.expandable = 1]]
\* A release that recorded less is followed by this one; a setting is changed.
Followed == [spec |-> S0,
             left |-> [Quiet EXCEPT !.edits = {[S0 EXCEPT !.dyn = 1]}, !.crash = 1, !.older = TRUE,
                                    !.paced = TRUE, !.calm = TRUE]]
\* Deleted at any moment, its volumes kept or not.
Kept  == [spec |-> [S0 EXCEPT !.retain = TRUE],
          left |-> [Quiet EXCEPT !.delete = 1, !.fail = 1, !.lag = TRUE]]
Removed == [spec |-> S0,
          left |-> [Quiet EXCEPT !.edits = {[S0 EXCEPT !.net = 2, !.extra = TRUE]},
                                 !.delete = 1, !.crash = 1]]

Cluster == INSTANCE ClusterConfig WITH MaxServers <- 3,
             Scenes <- {Created, LiveEdits, Calm, Fixed, FixedLost, Overridden, Lagging, Grows,
                        Shrinks, Waits, Older, Renewed, Stuck, Bigger},
             sts <- set
Single == INSTANCE Standalone WITH
             Scenes <- {OneByOne, Trailing, Ident, Plug, Unplug, Check, CheckFails, Volumes, Followed,
                        Kept, Removed},
             cr <- spec, cm <- map, sts <- set, pod <- pods, vol <- cert, kids <- frozen,
             mem <- memory, seen <- status

MCInit ==
    /\ Init
    /\ \/ /\ \A r \in Restores : ~cr[r].here /\ cr[r].spec = "stop"
          /\ \/ part = "cluster" /\ Cluster!Init /\ env = 0
             \/ part = "alone" /\ Single!Init
       \/ /\ part = "restore" /\ spec = 0 /\ status = 0 /\ map = 0 /\ set = 0 /\ pods = 0
          /\ cert = 0 /\ frozen = 0 /\ memory = 0 /\ pass = 0 /\ env = 0 /\ left = 0

\* A step of one part leaves the other parts' variables alone.
InCluster(A) == part = "cluster" /\ A /\ UNCHANGED <<part, vars, env>>
InAlone(A) == part = "alone" /\ A /\ UNCHANGED <<part, vars>>
InRestore(A) == part = "restore" /\ A /\ UNCHANGED <<part, other>>

MCNext == \/ InCluster(Cluster!Next) \/ InAlone(Single!Next)
          \/ InRestore(Next /\ used'.changes + used'.faults <= 1)

\* As part never changes, fairness of a disjunction over the parts is fairness
\* of each.
MCFairness ==
    /\ WF_all(\/ InCluster(Cluster!PassStep) \/ InAlone(Single!PassStep)
              \/ InRestore(\E r \in Restores : Reconcile(r) \/ Pass(r)))
    /\ WF_all(\/ InCluster(Cluster!Kubernetes)
              \/ InAlone(Single!Collect \/ Single!Roll \/ Single!PodReady)
              \/ InRestore(Collects))
    /\ WF_all(\/ InCluster(\E i \in Cluster!Ordinals : Cluster!Project(i))
              \/ InAlone(Single!PluginWrites)
              \/ InRestore(StandalonePass))
    /\ WF_all(\/ InCluster(\E k \in {"map", "sts"} : Cluster!CatchUp(k))
              \/ InAlone(Single!SyncConf \/ Single!SyncStatefulSet)
              \/ InRestore(\E r \in Restores : SyncCache(r)))
    /\ WF_all(InCluster(Cluster!Tick \/ Cluster!GiveUp))
MCSpec == MCInit /\ [][MCNext]_all /\ MCFairness

\* A setting changed in the spec reaches every server and each knows the system
\* primaries, unless the restart stamp was lost; RestartPending names what waits for
\* a restart, a renewed certificate is presented, and a standalone comes to rest at
\* what its spec says.
ServersSettle ==
    <>[](/\ part = "cluster" => /\ Cluster!AllServe /\ Cluster!AllKnown
                                /\ Cluster!Told /\ Cluster!AllPresent
         /\ part = "alone" => Single!AtRest)

\* No server restarts for a change that needs none: a setting applied at run
\* time, a release of the operator, a re-rendering.
SparesServers == [][/\ part = "cluster" => Cluster!RollStep
                    /\ part = "alone" => Single!RestartStep]_all

\* A standalone keeps its plugin, its volume and the identity its pod names
\* through re-creations and deletions.
StandaloneKept == [][part = "alone" => /\ Single!PluginStep /\ Single!VolumeStep
                                       /\ Single!IdentityServed']_all
=============================================================================
