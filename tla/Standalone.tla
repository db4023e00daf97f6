----------------------------- MODULE Standalone -----------------------------
(***************************************************************************)
(* Neo4jEnterpriseStandalone: one server, its ConfigMap, its StatefulSet,  *)
(* its volume and the objects around them.  A pass renders neo4j.conf and  *)
(* applies what the running server can take without a restart, writes the  *)
(* ConfigMap, the Services, the StatefulSet and the status, in that order; *)
(* any of the writes may fail and end the pass.                            *)
(*                                                                         *)
(* neo4j.conf is four settings: one Neo4j changes at runtime (dyn), one it *)
(* reads at startup (stat), one a Neo4jPlugin adds (plug) and one that no  *)
(* restart depends on (note: comments, what a release adds for the next    *)
(* restart).  A hash of it is the settings it covers.                      *)
(*                                                                         *)
(* The operator reads the ConfigMap and the StatefulSet from copies (seen) *)
(* that trail the API server; a write of either is refused when the copy   *)
(* it was computed from is not the stored object.                          *)
(***************************************************************************)
EXTENDS Naturals, FiniteSets

CONSTANT Scenes     \* the situations Init starts from

VARIABLES
    cr,     \* the Neo4jEnterpriseStandalone
    cm,     \* its ConfigMap
    sts,    \* its StatefulSet: pod template and the records beside it
    pod,    \* the server: the template and the settings it runs with
    vol,    \* its volume
    kids,   \* the objects around it, each as of the spec.net it was built from
    seen,   \* the operator's copies of cm, sts and the StatefulSet's status
    pass,   \* the controller's pass: where it is, the standalone it read
    mem,    \* deletedStatefulSets: the StatefulSet an expansion deleted
    env,    \* release of the operator, plugin installed, Bolt answers, StorageClass exists
    left    \* how many of each outside event may still happen

vars == <<cr, cm, sts, pod, vol, kids, seen, pass, mem, env, left>>

NoValue == 9
Conf    == [dyn : 0..1, stat : 0..1, plug : BOOLEAN, note : 0..1]
NoConf  == [dyn |-> NoValue, stat |-> NoValue, plug |-> FALSE, note |-> NoValue]
SemOf(c) == [dyn |-> c.dyn, stat |-> c.stat, plug |-> c.plug]
NoSem   == SemOf(NoConf)

\* net: what the Services, the Ingress and the MCP server are built from.
StandaloneSpecs == [dyn : 0..1, stat : 0..1, tag : 1..2, own : BOOLEAN, ident : BOOLEAN, size : 1..2,
          net : 1..2, extra : BOOLEAN, check : BOOLEAN, retain : BOOLEAN]

Phases == {"", "Pending", "Ready", "Failed"}

Standalone == [exists : BOOLEAN, fin : BOOLEAN, deleting : BOOLEAN, spec : StandaloneSpecs, gen : 1..4,
               phase : Phases, observed : 0..4, version : 0..2]

\* own, foreign: a variable of spec.env, one another controller wrote.
Template    == [tag : 0..2, own : BOOLEAN, ident : BOOLEAN, foreign : BOOLEAN, stamp : Conf \cup {NoConf}]
NoTemplate  == [tag |-> 0, own |-> FALSE, ident |-> FALSE, foreign |-> FALSE, stamp |-> NoConf]
StatefulSet == [exists : BOOLEAN, tmpl : Template, hash : Template, owned : BOOLEAN,
                sem : [dyn : {0, 1, NoValue}, stat : {0, 1, NoValue}, plug : BOOLEAN]]
NoSts       == [exists |-> FALSE, tmpl |-> NoTemplate, hash |-> NoTemplate, owned |-> FALSE, sem |-> NoSem]

Kids  == {"service", "route", "certificate", "ingress", "policy", "monitor", "mcp", "account"}
NoKids == [k \in Kids |-> 0]
Unowned == [NoKids EXCEPT !["monitor"] = kids["monitor"]]
NoPod == [exists |-> FALSE, ready |-> FALSE, tmpl |-> NoTemplate, runs |-> NoSem]
Steps == {"idle", "conf", "record", "write", "kids", "upgrade", "storage", "expand", "sts", "more", "status"}

TypeOK ==
    /\ cr \in Standalone /\ cr.observed <= cr.gen
    /\ cm \in Conf \cup {NoConf}
    /\ sts \in StatefulSet
    /\ pod.exists \in BOOLEAN /\ pod.ready \in BOOLEAN /\ pod.tmpl \in Template
    /\ vol \in 0..2
    /\ kids \in [Kids -> 0..2]
    /\ seen.cm \in Conf \cup {NoConf} /\ seen.sts \in StatefulSet
    /\ pass.at \in Steps /\ pass.copy \in Standalone
    /\ mem \in StatefulSet

InitNew == \E s \in Scenes :
    /\ ~s.left.older
    /\ cr = [exists |-> TRUE, fin |-> FALSE, deleting |-> FALSE, spec |-> s.spec, gen |-> 1,
             phase |-> "", observed |-> 0, version |-> 0]
    /\ cm = NoConf /\ sts = NoSts /\ vol = 0
    /\ pod = NoPod /\ kids = NoKids
    /\ seen = [cm |-> NoConf, sts |-> NoSts, ready |-> FALSE, rolled |-> FALSE]
    /\ pass = [at |-> "idle", copy |-> cr]
    /\ mem = NoSts
    /\ env = [release |-> 0, plugin |-> FALSE, bolt |-> TRUE, class |-> TRUE, expandable |-> TRUE]
    /\ left = s.left

\* A standalone that serves under a release that recorded no semantic hash; the
\* next one, which adds a setting for the next restart, has just started.
InitOlder == \E s \in Scenes :
    LET conf == [dyn |-> s.spec.dyn, stat |-> s.spec.stat, plug |-> FALSE, note |-> 0]
        tmpl == [tag |-> s.spec.tag, own |-> s.spec.own, ident |-> FALSE, foreign |-> FALSE, stamp |-> conf]
    IN
    /\ s.left.older
    /\ cr = [exists |-> TRUE, fin |-> TRUE, deleting |-> FALSE, spec |-> s.spec, gen |-> 1,
             phase |-> "Ready", observed |-> 1, version |-> s.spec.tag]
    /\ cm = conf /\ vol = s.spec.size
    /\ sts = [exists |-> TRUE, tmpl |-> tmpl, hash |-> tmpl, owned |-> s.spec.own, sem |-> NoSem]
    /\ pod = [exists |-> TRUE, ready |-> TRUE, tmpl |-> tmpl, runs |-> SemOf(conf)]
    /\ kids = [NoKids EXCEPT !["service"] = s.spec.net]
    /\ seen = [cm |-> cm, sts |-> sts, ready |-> TRUE, rolled |-> TRUE]
    /\ pass = [at |-> "idle", copy |-> cr]
    /\ mem = NoSts
    /\ env = [release |-> 1, plugin |-> FALSE, bolt |-> TRUE, class |-> TRUE, expandable |-> TRUE]
    /\ left = s.left

Init == InitNew \/ InitOlder

Rolled == sts.exists /\ pod.exists /\ pod.tmpl = sts.tmpl

\* Without lag the copies are current whenever the pass takes a step.
Current == seen.cm = cm /\ seen.sts = sts /\ seen.ready = (pod.exists /\ pod.ready) /\ seen.rolled = Rolled
At(step) == pass.at = step /\ (left.lag \/ Current)
Goto(step) == pass' = [pass EXCEPT !.at = step]
Spends(what) == left[what] > 0 /\ left' = [left EXCEPT ![what] = @ - 1]

(* What the pass renders. *)
renderStandaloneConfigMap(spec) == [dyn |-> spec.dyn, stat |-> spec.stat, plug |-> FALSE, note |-> env.release]
collectStandalonePluginConf == env.plugin
mergeStandaloneConf(conf, plug) == [conf EXCEPT !.plug = plug]
desiredStandaloneConfigMap(spec) == mergeStandaloneConf(renderStandaloneConfigMap(spec), collectStandalonePluginConf)

withoutDeferredConf(c) == SemOf(c)

statefulSetSettled == seen.sts.exists /\ seen.ready /\ seen.rolled


setFailedStatus_Next ==
    cr' = IF cr.exists THEN [cr EXCEPT !.phase = "Failed", !.observed = cr.gen + 1] ELSE cr

\* The pass ends; Failed is written with the generation the pass read.
setFailedStatus ==
    cr' = IF cr.exists THEN [cr EXCEPT !.phase = "Failed", !.observed = pass.copy.gen] ELSE cr

FailsWith(step) == At(step) /\ setFailedStatus /\ Goto("idle")

(* Reconcile. *)
Begin ==
    /\ At("idle") /\ cr.exists /\ ~cr.deleting
    /\ IF ~cr.fin THEN cr' = [cr EXCEPT !.fin = TRUE] /\ UNCHANGED pass
       ELSE IF ~env.class THEN cr' = [cr EXCEPT !.phase = "Failed", !.observed = cr.gen] /\ UNCHANGED pass
       ELSE pass' = [at |-> "conf", copy |-> cr] /\ UNCHANGED cr
    /\ UNCHANGED <<cm, sts, pod, vol, kids, seen, mem, env, left>>

\* The write of a step is refused by the API server.
StepFails ==
    /\ Spends("fail")
    /\ \E step \in {"conf", "write", "kids", "storage", "expand", "sts", "more", "status"} : FailsWith(step)
    /\ UNCHANGED <<cm, sts, pod, vol, kids, seen, mem, env>>

Merged == desiredStandaloneConfigMap(pass.copy.spec)
ConfMoves == seen.cm # NoConf /\ withoutDeferredConf(seen.cm) # withoutDeferredConf(Merged)

\* boltStandaloneLiveConfigApplier: every changed setting must be dynamic.
ApplyLive ==
    /\ pass.copy.phase = "Ready" /\ statefulSetSettled
    /\ pod.ready /\ env.bolt
    /\ seen.cm.stat = Merged.stat /\ seen.cm.plug = Merged.plug

\* What each object is built as: its content is the spec.net it follows, when asked for.
createTLSCertificate(spec)      == spec.net
createService(spec)             == spec.net
createIngress(spec)             == spec.net
BuildRouteForStandalone(spec)   == spec.net
BuildNetworkPolicyForStandalone(spec) == spec.net
BuildMCPDeploymentForStandalone(spec) == spec.net
Follows(k, what, spec, built) == [k EXCEPT ![what] = IF spec.extra THEN built ELSE @]

reconcileTLSCertificate(k, spec) == Follows(k, "certificate", spec, createTLSCertificate(spec))

\* reconcileConfigMap, up to the write: a change of dynamic settings reaches the
\* running server, then its record goes on the StatefulSet.
ApplyConf ==
    /\ At("conf")
    /\ IF ConfMoves /\ ApplyLive
       THEN pod' = [pod EXCEPT !.runs.dyn = Merged.dyn] /\ Goto("record")
       ELSE Goto("write") /\ UNCHANGED pod
    /\ kids' = reconcileTLSCertificate(kids, pass.copy.spec)
    /\ UNCHANGED <<cr, cm, sts, vol, seen, mem, env, left>>

\* applyStandaloneConfLive: the record; without it the pass goes on.
RecordLive ==
    /\ At("record") /\ Goto("write")
    /\ \/ /\ sts = seen.sts
          /\ sts' = [sts EXCEPT !.sem = SemOf(Merged)] /\ UNCHANGED left
       \/ /\ sts # seen.sts /\ UNCHANGED <<sts, left>>
       \/ Spends("record") /\ UNCHANGED sts
    /\ UNCHANGED <<cr, cm, pod, vol, kids, seen, mem, env>>

WriteConf ==
    /\ At("write")
    /\ IF seen.cm = cm
       THEN cm' = Merged /\ Goto("kids") /\ UNCHANGED cr
       ELSE setFailedStatus /\ Goto("idle") /\ UNCHANGED cm
    /\ UNCHANGED <<sts, pod, vol, kids, seen, mem, env, left>>

(* The objects around the server. *)
reconcileRoute(k, spec) == Follows(k, "route", spec, BuildRouteForStandalone(spec))
reconcileService(k, spec) == reconcileRoute([k EXCEPT !["service"] = createService(spec)], spec)
\* An MCP object that exists is left as it is.
createOrUpdateMCPResource(old, new) == IF old = 0 THEN new ELSE old
reconcileMCP(k, spec) ==
    Follows(k, "mcp", spec, createOrUpdateMCPResource(k["mcp"], BuildMCPDeploymentForStandalone(spec)))
reconcileIngress(k, spec)        == Follows(k, "ingress", spec, createIngress(spec))
reconcileNetworkPolicy(k, spec)  == Follows(k, "policy", spec, BuildNetworkPolicyForStandalone(spec))
reconcileServiceMonitor(k, spec) == Follows(k, "monitor", spec, spec.net)


ensureStandaloneServiceAccount_FirstOnly(k, spec) ==
    [k EXCEPT !["account"] = IF spec.ident /\ ~seen.sts.exists THEN 1 ELSE @]

ensureStandaloneServiceAccount(k, spec) ==
    [k EXCEPT !["account"] = IF spec.ident THEN 1 ELSE @]
cleanupStandaloneServiceAccount(k, spec) ==
    [k EXCEPT !["account"] = IF spec.ident \/ seen.sts.tmpl.ident THEN @ ELSE 0]

WriteServices ==
    /\ At("kids") /\ Goto("upgrade")
    /\ kids' = reconcileMCP(reconcileService(kids, pass.copy.spec), pass.copy.spec)
    /\ UNCHANGED <<cr, cm, sts, pod, vol, seen, mem, env, left>>

(* Upgrade. *)
isStandaloneUpgradeRequired ==
    /\ pass.copy.version # 0 /\ pass.copy.version # pass.copy.spec.tag
    /\ sts.exists /\ sts.tmpl.tag # pass.copy.spec.tag

preUpgradeHealthCheck ==
    /\ pass.copy.spec.check /\ pass.copy.phase = "Ready"
    /\ ~(pod.ready /\ env.bolt)

CheckUpgrade ==
    /\ At("upgrade")
    /\ Goto(IF isStandaloneUpgradeRequired /\ preUpgradeHealthCheck THEN "idle" ELSE "storage")
    /\ UNCHANGED <<cr, cm, sts, pod, vol, kids, seen, mem, env, left>>

(* Storage: reconcileStandaloneStorageExpansion. *)
CheckStorage ==
    /\ At("storage")
    /\ LET want == pass.copy.spec.size IN
       \/ (vol = 0 \/ vol = want) /\ Goto("sts") /\ UNCHANGED <<cr, vol>>
       \/ vol > want /\ setFailedStatus /\ Goto("idle") /\ UNCHANGED vol
       \/ /\ vol # 0 /\ vol < want
          /\ IF env.expandable THEN vol' = want /\ Goto("expand") /\ UNCHANGED cr
             ELSE setFailedStatus /\ Goto("idle") /\ UNCHANGED vol
    /\ UNCHANGED <<cm, sts, pod, kids, seen, mem, env, left>>

\* Remembered, deleted without its pod, and created again by this pass once the
\* copy shows it gone, else by the next.
orphanDeleteStandaloneStatefulSet ==
    /\ At("expand")
    /\ IF seen.sts.exists
       THEN /\ mem' = seen.sts /\ sts' = NoSts
            /\ \/ Goto("sts") /\ seen' = [seen EXCEPT !.sts = NoSts, !.ready = FALSE, !.rolled = FALSE]
               \/ Goto("idle") /\ UNCHANGED seen
       ELSE Goto("idle") /\ UNCHANGED <<mem, sts, seen>>
    /\ UNCHANGED <<cr, cm, pod, vol, kids, env, left>>

(* The StatefulSet. *)

renderedConfStamp_Fresh == seen.cm
renderedConfStamp_Kept ==
    IF seen.sts.tmpl.stamp # NoConf THEN seen.sts.tmpl.stamp ELSE seen.cm

\* The live stamp is kept when what it stands for is the same settings; without a
\* record of them, when it is that of the conf less what waits for a restart.
renderedConfStamp ==
    LET live == seen.sts.tmpl.stamp IN
    IF seen.cm # NoConf /\ live # NoConf /\ live # seen.cm
       /\ \/ seen.sts.sem = SemOf(seen.cm)
          \/ seen.sts.sem = NoSem /\ live = [seen.cm EXCEPT !.note = 0]
    THEN live ELSE seen.cm

buildEnvVars(spec) == spec.own
createStatefulSet(spec) ==
    [tag |-> spec.tag, own |-> buildEnvVars(spec), ident |-> spec.ident, foreign |-> FALSE,
     stamp |-> renderedConfStamp]


Source_Spec(wanted, read) == [NoSts EXCEPT !.tmpl = wanted]

\* What a StatefulSet created again starts from: remembered, or the revision the
\* server runs, which carries no record of who owns what; the spec when there is
\* no server or its revision cannot be read.
Source(wanted, read) ==
    IF mem.exists THEN mem
    ELSE [NoSts EXCEPT !.tmpl = IF pod.exists /\ read THEN pod.tmpl ELSE wanted]

\* A read of the revision that fails is only logged.
ReadsRevision(read) ==
    \/ read /\ UNCHANGED left
    \/ /\ ~read /\ ~sts.exists /\ ~mem.exists /\ pod.exists
       /\ left.unread > 0 /\ left' = [left EXCEPT !.unread = @ - 1, !.forgot = TRUE]

mergeEnvVars(base, wanted) ==
    wanted.own \/ (base.tmpl.own /\ ~base.owned)

mergeTemplate(base, wanted) ==
    [wanted EXCEPT !.own = mergeEnvVars(base, wanted), !.foreign = base.tmpl.foreign,
                   !.stamp = IF @ = NoConf THEN base.tmpl.stamp ELSE @]

\* The template is written only when what the spec asks for is not what was last
\* asked for; what the stamp stands for is recorded every time.
Applied(base, wanted) ==
    LET marked == [base EXCEPT !.exists = TRUE,
                               !.sem = IF seen.cm = NoConf THEN @ ELSE SemOf(seen.cm)] IN
    IF base.hash = wanted THEN marked
    ELSE [marked EXCEPT !.tmpl = mergeTemplate(base, wanted), !.hash = wanted, !.owned = wanted.own]

WriteStatefulSet ==
    /\ At("sts")
    /\ LET wanted == createStatefulSet(pass.copy.spec)
           account == ensureStandaloneServiceAccount(kids, pass.copy.spec) IN
       /\ kids' = account
       /\ IF seen.sts = sts
          THEN /\ \E read \in BOOLEAN :
                    /\ ReadsRevision(read)
                    /\ sts' = Applied(IF sts.exists THEN sts ELSE Source(wanted, read), wanted)
               /\ mem' = IF sts.exists THEN mem ELSE NoSts
               /\ vol' = IF vol = 0 THEN pass.copy.spec.size ELSE vol
               /\ Goto("more") /\ UNCHANGED cr
          ELSE setFailedStatus /\ Goto("idle") /\ UNCHANGED <<sts, mem, vol, left>>
    /\ UNCHANGED <<cm, pod, seen, env>>

WriteMore ==
    /\ At("more") /\ Goto("status")
    /\ LET spec == pass.copy.spec
           swept == cleanupStandaloneServiceAccount(kids, spec) IN
       kids' = reconcileServiceMonitor(reconcileNetworkPolicy(reconcileIngress(swept, spec), spec), spec)
    /\ UNCHANGED <<cr, cm, sts, pod, vol, seen, mem, env, left>>

\* updateStatus, from the copy of the StatefulSet.
updateStatus ==
    /\ At("status") /\ Goto("idle")
    /\ cr' = IF ~cr.exists THEN cr ELSE
             [cr EXCEPT !.phase = IF seen.ready /\ seen.rolled THEN "Ready" ELSE "Pending",
                        !.observed = pass.copy.gen,
                        !.version = IF seen.ready /\ seen.rolled THEN seen.sts.tmpl.tag ELSE @]
    /\ UNCHANGED <<cm, sts, pod, vol, kids, seen, mem, env, left>>

(* Deletion. *)

cleanupResources_Always(v, spec) == 0

cleanupResources(v, spec) == IF spec.retain THEN v ELSE 0

\* Mutant of the next: a StatefulSet that is not there is an error.
handleDeletion_NeedsSts ==
    /\ At("idle") /\ cr.exists /\ cr.deleting /\ sts.exists
    /\ vol' = IF cr.fin THEN cleanupResources(vol, cr.spec) ELSE vol
    /\ cr' = [cr EXCEPT !.exists = FALSE, !.fin = FALSE]
    /\ mem' = NoSts
    /\ UNCHANGED <<cm, sts, pod, kids, seen, pass, env, left>>

handleDeletion ==
    /\ At("idle") /\ cr.exists /\ cr.deleting
    /\ vol' = IF cr.fin THEN cleanupResources(vol, cr.spec) ELSE vol
    /\ cr' = [cr EXCEPT !.exists = FALSE, !.fin = FALSE]
    /\ mem' = NoSts
    /\ UNCHANGED <<cm, sts, pod, kids, seen, pass, env, left>>

\* What the standalone owns goes with it, and the server with its StatefulSet;
\* the ServiceMonitor carries no owner and stays.
Collect ==
    /\ ~cr.exists /\ (sts.exists \/ cm # NoConf \/ kids # Unowned)
    /\ cm' = NoConf /\ sts' = NoSts /\ kids' = Unowned
    /\ pod' = IF sts.exists THEN NoPod ELSE pod
    /\ UNCHANGED <<cr, vol, seen, pass, mem, env, left>>

(* The cluster around the operator. *)
SyncConf ==
    /\ seen.cm # cm /\ seen' = [seen EXCEPT !.cm = cm]
    /\ UNCHANGED <<cr, cm, sts, pod, vol, kids, pass, mem, env, left>>

SyncStatefulSet ==
    /\ seen' = [seen EXCEPT !.sts = sts, !.ready = pod.exists /\ pod.ready, !.rolled = Rolled]
    /\ seen' # seen
    /\ UNCHANGED <<cr, cm, sts, pod, vol, kids, pass, mem, env, left>>

\* The StatefulSet controller replaces a ready pod that is not on the template.
Roll ==
    /\ sts.exists /\ ~Rolled /\ (pod.exists => pod.ready) /\ cm # NoConf
    /\ pod' = [exists |-> TRUE, ready |-> FALSE, tmpl |-> sts.tmpl, runs |-> SemOf(cm)]
    /\ UNCHANGED <<cr, cm, sts, vol, kids, seen, pass, mem, env, left>>

PodReady ==
    /\ pod.exists /\ ~pod.ready /\ (pod.tmpl.ident => kids["account"] = 1)
    /\ pod' = [pod EXCEPT !.ready = TRUE]
    /\ UNCHANGED <<cr, cm, sts, vol, kids, seen, pass, mem, env, left>>

\* The container ends and starts again, with the neo4j.conf mounted now.
PodRestarts ==
    /\ pod.exists /\ pod.ready /\ cm # NoConf /\ Spends("restart")
    /\ pod' = [pod EXCEPT !.ready = FALSE, !.runs = SemOf(cm)]
    /\ UNCHANGED <<cr, cm, sts, vol, kids, seen, pass, mem, env>>

\* The operator stops in the middle of a pass; a new release may start instead.
OperatorRestarts ==
    /\ Spends("crash")
    /\ Goto("idle") /\ mem' = NoSts
    /\ env' \in {env, [env EXCEPT !.release = 1]}
    /\ UNCHANGED <<cr, cm, sts, pod, vol, kids, seen>>

\* The server is on the spec, and the status says so.
Serves ==
    /\ pod.exists /\ pod.ready /\ Rolled
    /\ pod.runs = SemOf(desiredStandaloneConfigMap(cr.spec))
    /\ pod.tmpl.tag = cr.spec.tag /\ pod.tmpl.own = cr.spec.own /\ pod.tmpl.ident = cr.spec.ident
    /\ pod.tmpl.foreign = env.plugin
    /\ vol = cr.spec.size
    /\ kids["service"] = cr.spec.net 
    /\ \A what \in {"route", "certificate", "ingress", "policy", "monitor"} : cr.spec.extra => kids[what] = cr.spec.net
    /\ cr.phase = "Ready" /\ cr.observed = cr.gen /\ cr.version = cr.spec.tag

\* In a paced scene a change waits until the last one is served.
Paced == left.paced => (Serves /\ pass.at = "idle")

Edit ==
    /\ cr.exists /\ ~cr.deleting /\ cr.gen < 4 /\ Paced
    /\ \E s \in left.edits :
         /\ s # cr.spec
         /\ cr' = [cr EXCEPT !.spec = s, !.gen = @ + 1]
         /\ left' = [left EXCEPT !.edits = @ \ {s}]
    /\ UNCHANGED <<cm, sts, pod, vol, kids, seen, pass, mem, env>>

Delete ==
    /\ cr.exists /\ ~cr.deleting /\ Spends("delete")
    /\ cr' = IF cr.fin THEN [cr EXCEPT !.deleting = TRUE] ELSE [cr EXCEPT !.exists = FALSE]
    /\ UNCHANGED <<cm, sts, pod, vol, kids, seen, pass, mem, env>>

Toggle ==
    /\ \E what \in {"bolt", "class", "expandable", "plugin"} :
         Spends(what) /\ env' = [env EXCEPT ![what] = ~@]
    /\ Paced
    /\ UNCHANGED <<cr, cm, sts, pod, vol, kids, seen, pass, mem>>

\* The plugin controller's own write of the pod template.
PluginWrites ==
    /\ sts.exists /\ sts.tmpl.foreign # env.plugin /\ cr.exists
    /\ sts' = [sts EXCEPT !.tmpl.foreign = env.plugin]
    /\ UNCHANGED <<cr, cm, pod, vol, kids, seen, pass, mem, env, left>>

Next ==
    \/ Begin \/ StepFails \/ ApplyConf \/ RecordLive \/ WriteConf \/ WriteServices
    \/ CheckUpgrade \/ CheckStorage \/ orphanDeleteStandaloneStatefulSet \/ WriteStatefulSet
    \/ WriteMore \/ updateStatus \/ handleDeletion \/ Collect \/ SyncConf \/ SyncStatefulSet \/ Roll \/ PodReady
    \/ PodRestarts \/ OperatorRestarts \/ Edit \/ Delete \/ Toggle \/ PluginWrites

PassStep ==
    \/ Begin \/ ApplyConf \/ RecordLive \/ WriteConf \/ WriteServices \/ CheckUpgrade \/ CheckStorage
    \/ orphanDeleteStandaloneStatefulSet \/ WriteStatefulSet \/ WriteMore \/ updateStatus \/ handleDeletion

Spec == Init /\ [][Next]_vars

\* The controller requeues every object and never stops in a pass for good; the
\* watches deliver; the StatefulSet controller, the kubelet, the garbage
\* collector and the plugin controller do their work.
Fairness ==
    /\ WF_vars(PassStep) /\ WF_vars(Collect \/ Roll \/ PodReady) /\ WF_vars(PluginWrites)
    /\ WF_vars(SyncConf \/ SyncStatefulSet)

FairSpec == Spec /\ Fairness

(* Properties. *)

\* A server pod that ran a workload identity always has its ServiceAccount: the
\* account is made before the template that names it and goes only after the
\* template that no longer does.
IdentityServed == sts.exists /\ cr.exists /\ sts.tmpl.ident => kids["account"] = 1

\* A server never loses what the plugin controller put in its pod template while
\* the plugin is installed, whatever the standalone writes or re-creates, unless
\* the revision it ran could not be read after a restart between delete and create.
PluginStep ==
    pod.tmpl.foreign /\ pod'.exists /\ ~pod'.tmpl.foreign => ~env.plugin \/ left.forgot
PluginKept == [][PluginStep]_vars

\* A volume goes only with a standalone whose storage.retentionPolicy is Delete.
VolumeStep == vol' < vol => cr.deleting /\ ~cr.spec.retain
VolumeKept == [][VolumeStep]_vars

\* What a server must be restarted for.
RestartNeeded == ~pod.exists \/ pod.runs # SemOf(cm) \/ [pod.tmpl EXCEPT !.stamp = NoConf] # [sts.tmpl EXCEPT !.stamp = NoConf]

\* With current copies, one change at a time and no plugin (calm), no server is restarted for
\* settings it already runs with or for text Neo4j ignores, whether a pass is
\* cut short or a new release starts: the stamp is kept after a live change.
RestartStep == Roll /\ left.calm => RestartNeeded
NoNeedlessRestart == [][RestartStep]_vars

\* Where a standalone comes to rest: gone, refused, held by the check, or with
\* its server on the spec and Ready saying so.
Gone == ~cr.exists /\ ~sts.exists /\ ~pod.exists /\ kids = Unowned
Refused == ~cr.deleting /\ (~env.class \/ vol > cr.spec.size \/ (vol < cr.spec.size /\ ~env.expandable))
Held == ~cr.deleting /\ cr.spec.check /\ ~env.bolt /\ cr.version # cr.spec.tag
\* Once edits and faults stop, the server runs the configuration, image,
\* variables and plugins asked for, and the status says so.
AtRest == Gone \/ Refused \/ Held \/ Serves
Converges == <>[]AtRest
=============================================================================
