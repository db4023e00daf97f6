--------------------------- MODULE ClusterConfig ---------------------------
(***************************************************************************)
(* How a change of a cluster's configuration reaches its servers.          *)
(*                                                                         *)
(* A pass of the Neo4jEnterpriseCluster controller renders the ConfigMap,  *)
(* applies a change that needs no restart to the running servers, writes   *)
(* the ConfigMap and stamps the server StatefulSet when the servers have   *)
(* to restart (configmap_manager.go, live_config.go), writes the           *)
(* StatefulSet, replaces servers that cannot start                         *)
(* (stuck_server_pods.go), names the servers a setting still waits for     *)
(* (restart_pending.go), records Ready and reloads a renewed certificate   *)
(* (tls_reload.go).  The StatefulSet controller, the kubelet and the       *)
(* servers run beside it, another writer edits the specification, and the  *)
(* operator reads the two objects through caches that may lag.             *)
(***************************************************************************)
EXTENDS Naturals, FiniteSets, Sequences, FiniteSetsExt

CONSTANTS MaxServers,  \* the ordinals are 0 .. MaxServers - 1
          Scenes       \* the starting points: records [spec, map, left]

Ordinals == 0..(MaxServers - 1)

\* A setting of neo4j.conf Neo4j changes at run time, one it reads only at
\* startup, and one it changes at run time that keeps its effect until the
\* next restart.
Settings == {"dyn", "fixed", "timeout"}

restartEffectiveSettings == {"timeout"}

Confs == [Settings -> 0..2]

\* What the cluster asks for: settings, servers, the floor of system primaries
\* (0: not set), whether spec.env sets "dyn" too, the critical part of the pod
\* template (image, resources) and the rest of it ("bad": no server starts
\* with it), and whether a startup-script setting is applied at the next start.
ClusterSpecs == [conf : Confs, servers : 1..MaxServers, min : {0, 2}, env : BOOLEAN,
          crit : 0..1, rest : {"ok", "other", "bad"}, late : BOOLEAN]

VARIABLES
  spec,     \* the cluster's specification
  status,   \* its status: phase, Degraded and RestartPending
  map,      \* the ConfigMap
  sts,      \* the server StatefulSet
  pods,     \* the server pods and what runs in them
  cert,     \* the certificate in the Secret, and the one each pod has mounted
  frozen,   \* the cached copies that lag, if they do
  memory,   \* the operator's memory: the debounce mark
  pass,     \* the pass in progress
  left      \* what the environment may still do, and whether a restart stamp was lost

vars == <<spec, status, map, sts, pods, cert, frozen, memory, pass, left>>

----------------------------------------------------------------------------
(* The ConfigMap.                                                          *)

EffectiveMinSystemPrimaries(s) ==
  LET servers == Max({s.servers, 2})
  IN IF s.min # 0 THEN Min({Max({s.min, 2}), servers}) ELSE Min({servers, 3})

buildNeo4jConfig(s) == s.conf

\* TOTAL_SERVERS and the discovery list; the floor the first formation waits for.
buildStartupScript(s) == [members |-> s.servers,
                          primaries |-> EffectiveMinSystemPrimaries(s)]

clusterDeferredSettings(s) == s.late

\* What BuildConfigMapForEnterprise renders, before the records are stamped.
BuildConfigMap(s) ==
  [here |-> TRUE, conf |-> buildNeo4jConfig(s), script |-> buildStartupScript(s),
   late |-> clusterDeferredSettings(s), jvm |-> FALSE]

NoMap == [here |-> FALSE, conf |-> [k \in Settings |-> 0],
          script |-> [members |-> 0, primaries |-> 0], late |-> FALSE, jvm |-> FALSE,
          deferred |-> FALSE, effective |-> {}]

\* Mutant of the next: the moved lines count as a change.
withoutMovedJVMLines_Kept(old, new) == old

\* A ConfigMap of an earlier release carries the JVM arguments in neo4j.conf;
\* they moved to the container's environment and restart nothing.
withoutMovedJVMLines(old, new) == IF new.jvm THEN old ELSE [old EXCEPT !.jvm = FALSE]

\* neo4j.conf and startup.sh without the restart-neutral blocks.
normalizeStartupScript(m) == m.script

normalizeNeo4jConf(m) == [conf |-> m.conf, jvm |-> m.jvm]

calculateConfigMapHash(m) == <<normalizeNeo4jConf(m), normalizeStartupScript(m)>>

\* Only the lines that list or count the servers differ.
membershipOnlyStartupChange(old, new) ==
  /\ normalizeNeo4jConf(old) = normalizeNeo4jConf(new)
  /\ old.script.primaries = new.script.primaries

addedSystemPrimaries(oldServers, s) ==
  {i \in oldServers..(s.servers - 1) : i < EffectiveMinSystemPrimaries(s)}

\* Mutant: any change of the startup script counts as a scale.
scaleNeedsNoRestart_AnyScript(old, new, s) == normalizeNeo4jConf(old) = normalizeNeo4jConf(new)

scaleNeedsNoRestart(old, new, s) ==
  /\ membershipOnlyStartupChange(old, new)
  /\ old.script.members # 0
  /\ addedSystemPrimaries(old.script.members, s) = {}

onlyNeo4jConfChanged(old, new) ==
  /\ normalizeStartupScript(old) = normalizeStartupScript(new)
  /\ normalizeNeo4jConf(old) # normalizeNeo4jConf(new)

\* The files whose normalised content differs; any of them needs a restart.
analyzeConfigChanges(old, new) ==
  (IF normalizeNeo4jConf(old) # normalizeNeo4jConf(new) THEN {"neo4j.conf"} ELSE {})
  \cup (IF normalizeStartupScript(old) # normalizeStartupScript(new) THEN {"startup.sh"} ELSE {})

requiresRestart(changes) == changes # {}

confValues(m) == m.conf

neo4jConfChanges(old, new) == {k \in Settings : confValues(old)[k] # confValues(new)[k]}

\* Mutants of the next: the record is not carried on, or takes every change.
stampRestartEffectiveSettings_Anew(old, new) == neo4jConfChanges(old, new) \cap restartEffectiveSettings
\* The restart-effective settings a write changes join the record.
stampRestartEffectiveSettings(old, new) ==
  old.effective \cup (neo4jConfChanges(old, new) \cap restartEffectiveSettings)

\* The startup settings are recorded once the ConfigMap carries them.
stampDeferredSettings(new) == new.late

stamped(old, new) ==
  [here |-> TRUE, conf |-> new.conf, script |-> new.script, late |-> new.late, jvm |-> new.jvm,
   deferred |-> stampDeferredSettings(new),
   effective |-> IF old.here THEN stampRestartEffectiveSettings(old, new) ELSE {}]

----------------------------------------------------------------------------
(* The StatefulSet and its pods.                                           *)

\* The pod template the operator renders: the image and resources of the server's
\* container, its environment, and the volumes and the rest of the pod.
serverContainer(s) == s.crit
serverEnv(s) == s.env
podVolumes(s) == s.rest

buildServerStatefulSet(s) == [crit |-> serverContainer(s), env |-> serverEnv(s), rest |-> podVolumes(s)]

podTemplateSpecHash(t) == t

NoSts == [here |-> FALSE, stamp |-> 0, servers |-> 0,
          tmpl |-> [crit |-> 0, env |-> FALSE, rest |-> "ok"],
          hash |-> [crit |-> 0, env |-> FALSE, rest |-> "ok"], cert |-> 0,
          current |-> <<>>]

\* The revision of a pod: the template and the restart stamp it was created
\* from.  The StatefulSet's current one is the last that reached every pod.
Revision(x) == <<x.tmpl, x.stamp>>

NoPod == [at |-> "off", rev |-> Revision(NoSts), conf |-> NoMap.conf, boot |-> NoMap.conf,
          members |-> 0, after |-> {}, cert |-> 0]

Updated(x, p) == {i \in Ordinals : p[i].at # "off" /\ p[i].rev = Revision(x)}
Ready(p) == {i \in Ordinals : p[i].at = "ready"}

\* The StatefulSet as the API server shows it: its spec and what its status counts.
Observed == [sts |-> sts, ready |-> Ready(pods) \cap (0..(sts.servers - 1)),
             updated |-> Updated(sts, pods) \cap (0..(sts.servers - 1))]

Nothing == [frozen |-> FALSE]

MapRead == IF frozen.map.frozen THEN frozen.map.copy ELSE map
StsRead == IF frozen.sts.frozen THEN frozen.sts.copy ELSE Observed

\* A write carries the resource version of the copy it was made from.
MapFresh == MapRead = map
StsFresh == StsRead = Observed

Full(x) == 0..(x.sts.servers - 1)

statefulSetSettled(x, want) ==
  /\ x.sts.here /\ x.sts.servers = want
  /\ x.ready = Full(x) /\ x.updated = Full(x)
  /\ x.sts.current = Revision(x.sts)

rolloutInFlight(x) == ~x.sts.here \/ x.sts.current # Revision(x.sts)

serverStatefulSetFullyRolled(x) ==
  ~rolloutInFlight(x) /\ x.updated = Full(x) /\ x.ready = Full(x)

hasCriticalTemplateChanges(live, want) == live.crit # want.crit

envVarsEqual(live, want) == live.env = want.env

hasSignificantTemplateChanges(live, want) ==
  hasCriticalTemplateChanges(live, want) \/ ~envVarsEqual(live, want)

\* While a server is not ready only a critical change, or a change of what the
\* operator itself renders, is written.
isTemplateChangeSignificant(x, want) ==
  IF x.ready # Full(x)
  THEN hasCriticalTemplateChanges(x.sts.tmpl, want) \/ podTemplateSpecHash(want) # x.sts.hash
  ELSE hasSignificantTemplateChanges(x.sts.tmpl, want) \/ podTemplateSpecHash(want) # x.sts.hash

setClusterTemplateHash(x, want) == [x EXCEPT !.hash = podTemplateSpecHash(want)]

\* The restart stamps another part of the operator wrote stay.
mergePodTemplateAnnotations(x, want) == [x EXCEPT !.tmpl = want]

\* createOrUpdateResourceInternal on the StatefulSet it read.
Desired(x, s) ==
  LET want == buildServerStatefulSet(s)
      sized == [x.sts EXCEPT !.servers = s.servers]
  IN IF ~x.sts.here
     THEN setClusterTemplateHash([sized EXCEPT !.here = TRUE, !.tmpl = want,
                                                !.current = <<want, sized.stamp>>], want)
     ELSE IF isTemplateChangeSignificant(x, want)
          THEN setClusterTemplateHash(mergePodTemplateAnnotations(sized, want), want)
          ELSE sized

\* A server that cannot start: a pod of a template no server starts with.
podCannotStart(p) == p.at = "starting" /\ p.rev[1].rest = "bad"

\* Mutant of the next: they are left to the StatefulSet controller.
stuckServerPods_None(p) == {}

\* The pods of an earlier revision that cannot start.
stuckServerPods(p) == {i \in Ordinals : p[i].rev # Revision(sts) /\ podCannotStart(p[i])}

----------------------------------------------------------------------------
(* The pass: ReconcileConfigMap, then the StatefulSet, then the status.    *)

Idle == [at |-> "idle", spec |-> spec, want |-> NoMap, i |-> 0, roll |-> FALSE, fresh |-> {}]

At(step) == pass.at = step
Goto(step) == pass' = [pass EXCEPT !.at = step]

\* The pass is over; the next one starts from what is stored then.
Stop == pass' = Idle

BeginPass ==
  /\ At("idle")
  /\ pass' = [Idle EXCEPT !.at = "conf"]
  /\ UNCHANGED <<spec, status, map, sts, pods, cert, frozen, memory, left>>

\* Why a change cannot be applied without a restart.
liveConfigBlocker(changes, x) ==
  \/ "fixed" \in changes
  \/ ("dyn" \in changes /\ x.sts.tmpl.env)

\* Every server of a Ready cluster answers and every change is dynamic.
LiveReady(old, new, s) ==
  LET changes == neo4jConfChanges(old, new) IN
  /\ changes # {}
  /\ status.phase = "Ready" /\ ~status.degraded
  /\ statefulSetSettled(StsRead, s.servers)
  /\ \A i \in 0..(s.servers - 1) : pods[i].at = "ready"
  /\ ~liveConfigBlocker(changes, StsRead)

\* The restart decision of ReconcileConfigMap on the copy it read: nothing to
\* write, or debounced; applied live first; or written, with or without a roll.
ReconcileConfigMap ==
  /\ At("conf")
  /\ LET s == pass.spec
         old == MapRead
         new == stamped(old, BuildConfigMap(s))
         base == withoutMovedJVMLines(old, new)
         relevant == /\ calculateConfigMapHash(base) # calculateConfigMapHash(new)
                     /\ ~scaleNeedsNoRestart(base, new, s)
         live == relevant /\ old.here /\ onlyNeo4jConfChanged(base, new) /\ LiveReady(base, new, s)
     IN pass' = [pass EXCEPT !.want = new, !.fresh = {},
                             !.at = IF new = old \/ memory.recent THEN "sts"
                                    ELSE IF live THEN "live" ELSE "write",
                             !.roll = ~old.here \/ (relevant /\ requiresRestart(analyzeConfigChanges(base, new)))]
  /\ UNCHANGED <<spec, status, map, sts, pods, cert, frozen, memory, left>>

\* dbms.setConfigValue for every change on one server.
applyConfChanges(p, want) == [p EXCEPT !.conf = want.conf]

\* ApplyLive takes the servers in turn; one that does not answer, or refuses,
\* leaves the change to the restart.
ApplyLive ==
  /\ At("live")
  /\ \/ /\ pods[pass.i].at = "ready"
        /\ pods' = [pods EXCEPT ![pass.i] = applyConfChanges(@, pass.want)]
        /\ pass' = IF pass.i + 1 < pass.spec.servers THEN [pass EXCEPT !.i = @ + 1]
                   ELSE [pass EXCEPT !.at = "write", !.roll = FALSE]
        /\ UNCHANGED left
     \/ /\ pods[pass.i].at = "ready" => left.refuse > 0
        /\ left' = IF pods[pass.i].at = "ready" THEN [left EXCEPT !.refuse = @ - 1] ELSE left
        /\ pass' = [pass EXCEPT !.at = "write", !.roll = TRUE]
        /\ UNCHANGED pods
  /\ UNCHANGED <<spec, status, map, sts, cert, frozen, memory>>

\* The records a write dates anew: a server that started before it waits.
Redated(new) == (IF new.deferred /\ ~map.deferred THEN {"late"} ELSE {})
                \cup (neo4jConfChanges(map, new) \cap restartEffectiveSettings)

updateConfigMapImmediate ==
  /\ At("write")
  /\ \/ /\ MapFresh
        /\ map' = pass.want
        /\ pods' = [i \in Ordinals |->
                      IF i \in pass.fresh \/ ~map.here THEN pods[i]
                      ELSE [pods[i] EXCEPT !.after = @ \ Redated(pass.want)]]
        /\ memory' = [memory EXCEPT !.recent = TRUE]
        /\ Goto(IF pass.roll THEN "stamp" ELSE "sts")
        /\ UNCHANGED left
     \/ /\ MapFresh => left.lost > 0
        /\ left' = IF MapFresh THEN [left EXCEPT !.lost = @ - 1] ELSE left
        /\ Stop
        /\ UNCHANGED <<map, pods, memory>>
  /\ UNCHANGED <<spec, status, sts, cert, frozen>>

\* The restart: a new stamp on the pod template.  A StatefulSet that is not
\* there is no error, and a write that fails is only logged: the stamp is lost, as
\* the next pass finds the ConfigMap written.
triggerRollingRestartForConfigChange ==
  /\ At("stamp")
  /\ Goto("sts")
  /\ \/ /\ StsRead.sts.here /\ StsFresh
        /\ sts' = [sts EXCEPT !.stamp = @ + 1]
        /\ left' = [left EXCEPT !.missed = FALSE]
     \/ /\ ~StsRead.sts.here \/ ~StsFresh \/ left.unstamped > 0
        /\ left' = [left EXCEPT !.missed = @ \/ sts.here,
                                !.unstamped = IF StsRead.sts.here /\ StsFresh THEN @ - 1 ELSE @]
        /\ UNCHANGED sts
  /\ UNCHANGED <<spec, status, map, pods, cert, frozen, memory>>

\* createOrUpdateResource: a write that meets a newer StatefulSet fails the pass.
createOrUpdateResource ==
  /\ At("sts")
  /\ LET new == Desired(StsRead, pass.spec)
     IN \/ /\ new = StsRead.sts \/ StsFresh
           /\ sts' = IF new = StsRead.sts THEN sts ELSE new
           /\ Goto("stuck")
        \/ /\ new # StsRead.sts /\ ~StsFresh
           /\ Stop /\ UNCHANGED sts
  /\ UNCHANGED <<spec, status, map, pods, cert, frozen, memory, left>>

\* Read uncached: the pods of an earlier revision that cannot start are deleted.
replaceStuckServerPods ==
  /\ At("stuck")
  /\ pods' = IF StsRead.ready = Full(StsRead) \/ ~rolloutInFlight(StsRead) THEN pods
             ELSE [i \in Ordinals |-> IF i \in stuckServerPods(pods) THEN NoPod ELSE pods[i]]
  /\ Goto("pending")
  /\ UNCHANGED <<spec, status, map, sts, cert, frozen, memory, left>>

\* The settings a running server does not have yet: it started before the
\* ConfigMap recorded them.
pendingRestartServers ==
  {i \in Ordinals : /\ pods[i].at # "off"
                    /\ \/ (MapRead.deferred /\ "late" \notin pods[i].after)
                       \/ MapRead.effective \ pods[i].after # {}}

\* The condition is maintained on a Ready cluster whose servers all run and
\* whose ConfigMap carries the records; it is removed when nothing is recorded.
reconcileRestartPending ==
  /\ At("pending")
  /\ status' =
       IF ~MapRead.here THEN status
       ELSE IF ~clusterDeferredSettings(pass.spec) /\ MapRead.effective = {}
            THEN [status EXCEPT !.pending = "none"]
       ELSE IF \/ status.phase # "Ready"
               \/ (clusterDeferredSettings(pass.spec) /\ ~MapRead.deferred) THEN status
       ELSE [status EXCEPT !.pending = IF pendingRestartServers = {} THEN "false" ELSE "true"]
  /\ Goto("status")
  /\ UNCHANGED <<spec, map, sts, pods, cert, frozen, memory, left>>

\* A server is listed available while its process serves.
formed == \A i \in 0..(pass.spec.servers - 1) : pods[i].at = "ready"

\* Ready once every server is available and rolled, Forming during a rollout,
\* and still Ready, but Degraded, when a formed cluster is short of a server.
recordStatus ==
  /\ At("status")
  /\ IF formed /\ serverStatefulSetFullyRolled(StsRead)
     THEN /\ status' = [status EXCEPT !.phase = "Ready", !.degraded = FALSE]
          /\ Goto("tls")
     ELSE /\ status' = IF status.phase = "Forming" \/ rolloutInFlight(StsRead)
                       THEN [status EXCEPT !.phase = "Forming"]
                       ELSE [status EXCEPT !.degraded = TRUE]
          /\ Stop
  /\ UNCHANGED <<spec, map, sts, pods, cert, frozen, memory, left>>

\* One server: nothing to do when it presents the certificate, otherwise it
\* reloads the files it has mounted.
reloadOne(i) == IF pods[i].cert = cert.now \/ "late" \notin pods[i].after THEN pods[i].cert
                ELSE cert.file[i]

\* A server that started without the setting cannot reload: it is reported.
needRestart(i) == pods[i].cert # cert.now /\ "late" \notin pods[i].after

\* Mutant of the next: the reload is taken for done once it was asked for.
stillPresentsOld_Unchecked(i) == FALSE

\* A server whose files are still the old ones: the reload is tried again.
stillPresentsOld(i) == ~needRestart(i) /\ reloadOne(i) # cert.now

\* Every ready server reloads; once each presents the certificate or is
\* reported, as one that has not got the files by the give-up time also is,
\* the certificate is recorded on the StatefulSet.
reconcileTLSReload ==
  /\ At("tls")
  /\ IF ~pass.spec.late \/ StsRead.sts.cert = cert.now THEN UNCHANGED <<pods, sts, cert>>
     ELSE LET targets == Ready(pods)
              blocked == {i \in targets : needRestart(i)}
              waiting == {i \in targets : stillPresentsOld(i)}
          IN /\ pods' = [i \in Ordinals |-> IF i \in targets THEN [pods[i] EXCEPT !.cert = reloadOne(i)]
                                              ELSE pods[i]]
             /\ \/ /\ waiting # {} /\ ~cert.overdue
                   /\ UNCHANGED <<sts, cert>>
                \/ /\ waiting = {} \/ cert.overdue
                   /\ sts' = IF StsFresh THEN [sts EXCEPT !.cert = cert.now] ELSE sts
                   /\ cert' = [cert EXCEPT !.warned = @ \cup waiting \cup blocked]
  /\ Stop
  /\ UNCHANGED <<spec, status, map, frozen, memory, left>>

PassStep == \/ BeginPass \/ ReconcileConfigMap \/ ApplyLive \/ updateConfigMapImmediate
            \/ triggerRollingRestartForConfigChange \/ createOrUpdateResource
            \/ replaceStuckServerPods \/ reconcileRestartPending \/ recordStatus
            \/ reconcileTLSReload

----------------------------------------------------------------------------
(* What runs beside the operator.                                          *)

\* The user's next edit.
Edit ==
  /\ left.edits # <<>>
  /\ left.paced => (At("idle") /\ status.phase = "Ready")
  /\ spec' = Head(left.edits)
  /\ left' = [left EXCEPT !.edits = Tail(@)]
  /\ UNCHANGED <<status, map, sts, pods, cert, frozen, memory, pass>>

\* The StatefulSet controller replaces the highest pod of another revision, and
\* waits for one of this revision that is not ready.
RollOne ==
  /\ sts.here
  /\ \E i \in 0..(sts.servers - 1) :
       /\ pods[i].at # "off" /\ pods[i].rev # Revision(sts)
       /\ \A j \in (i + 1)..(sts.servers - 1) : pods[j].at = "ready" /\ pods[j].rev = Revision(sts)
       /\ pods' = [pods EXCEPT ![i] = NoPod]
  /\ UNCHANGED <<spec, status, map, sts, cert, frozen, memory, pass, left>>

\* Pods are created and removed in parallel.  A server reads the ConfigMap and
\* the certificate as it starts.
StartPod(i) ==
  /\ sts.here /\ i < sts.servers /\ pods[i].at = "off" /\ map.here
  /\ pods' = [pods EXCEPT ![i] =
                [at |-> "starting", rev |-> Revision(sts), conf |-> map.conf, boot |-> map.conf,
                 members |-> map.script.members, cert |-> cert.now,
                 after |-> (IF map.late THEN {"late"} ELSE {}) \cup restartEffectiveSettings]]
  /\ cert' = [cert EXCEPT !.file[i] = cert.now, !.warned = @ \ {i}]
  /\ pass' = [pass EXCEPT !.fresh = @ \cup {i}]
  /\ UNCHANGED <<spec, status, map, sts, frozen, memory, left>>

RemovePod(i) ==
  /\ i >= sts.servers /\ pods[i].at # "off"
  /\ pods' = [pods EXCEPT ![i] = NoPod]
  /\ UNCHANGED <<spec, status, map, sts, cert, frozen, memory, pass, left>>

\* A server serves once a majority of the servers runs.
Runs(i) == pods[i].at # "off" /\ pods[i].rev[1].rest # "bad"

BecomeReady(i) ==
  /\ pods[i].at = "starting" /\ Runs(i)
  /\ 2 * Cardinality({j \in 0..(sts.servers - 1) : Runs(j)}) > sts.servers
  /\ pods' = [pods EXCEPT ![i].at = "ready"]
  /\ UNCHANGED <<spec, status, map, sts, cert, frozen, memory, pass, left>>

\* Every pod runs the revision: it becomes the current one.
CompleteRollout ==
  /\ sts.here /\ sts.current # Revision(sts)
  /\ Observed.updated = 0..(sts.servers - 1) /\ Observed.ready = Observed.updated
  /\ sts' = [sts EXCEPT !.current = Revision(sts)]
  /\ UNCHANGED <<spec, status, map, pods, cert, frozen, memory, pass, left>>

\* A pod is lost.  Not between a live change and the ConfigMap that records it.
LosePod(i) ==
  /\ left.lose > 0 /\ pods[i].at # "off" /\ pass.at \notin {"live", "write"}
  /\ left' = [left EXCEPT !.lose = @ - 1]
  /\ pods' = [pods EXCEPT ![i] = NoPod]
  /\ UNCHANGED <<spec, status, map, sts, cert, frozen, memory, pass>>

\* cert-manager renews the certificate; the kubelet projects it into each pod;
\* the give-up time passes.
Renew ==
  /\ left.renew > 0
  /\ left' = [left EXCEPT !.renew = @ - 1]
  /\ cert' = [cert EXCEPT !.now = @ + 1, !.overdue = FALSE, !.warned = {}]
  /\ UNCHANGED <<spec, status, map, sts, pods, frozen, memory, pass>>

Project(i) ==
  /\ cert.file[i] # cert.now
  /\ cert' = [cert EXCEPT !.file[i] = cert.now]
  /\ UNCHANGED <<spec, status, map, sts, pods, frozen, memory, pass, left>>

GiveUp ==
  /\ cert.now > 0 /\ ~cert.overdue
  /\ cert' = [cert EXCEPT !.overdue = TRUE]
  /\ UNCHANGED <<spec, status, map, sts, pods, frozen, memory, pass, left>>

\* A cached copy stops following its object, and catches up again.
Lag(k) ==
  /\ left.lag > 0 /\ ~frozen[k].frozen
  /\ left' = [left EXCEPT !.lag = @ - 1]
  /\ frozen' = [frozen EXCEPT ![k] = [frozen |-> TRUE, copy |-> IF k = "map" THEN map ELSE Observed]]
  /\ UNCHANGED <<spec, status, map, sts, pods, cert, memory, pass>>

CatchUp(k) ==
  /\ frozen[k].frozen
  /\ frozen' = [frozen EXCEPT ![k] = Nothing]
  /\ UNCHANGED <<spec, status, map, sts, pods, cert, memory, pass, left>>

\* The debounce second passes.
Tick ==
  /\ memory.recent
  /\ memory' = [memory EXCEPT !.recent = FALSE]
  /\ UNCHANGED <<spec, status, map, sts, pods, cert, frozen, pass, left>>

\* The operator restarts between two steps of a pass; between the write of the
\* ConfigMap and the stamp, the stamp is lost.
Restart ==
  /\ left.crash > 0 /\ ~At("idle")
  /\ left' = [left EXCEPT !.crash = @ - 1, !.missed = @ \/ (At("stamp") /\ sts.here)]
  /\ memory' = [recent |-> FALSE]
  /\ Stop
  /\ UNCHANGED <<spec, status, map, sts, pods, cert, frozen>>

----------------------------------------------------------------------------
(* The specification.                                                      *)

\* A scene starts before the first pass, or with the servers running what an
\* earlier specification rendered.
Init ==
  \E scene \in Scenes :
    LET was == scene.was
        m == scene.map
        x == Desired([sts |-> NoSts, ready |-> {}, updated |-> {}], was)
    IN /\ spec = scene.spec
       /\ left = scene.left
       /\ status = [phase |-> IF scene.runs THEN "Ready" ELSE "Forming", degraded |-> FALSE,
                    pending |-> "none"]
       /\ map = IF scene.runs THEN m ELSE NoMap
       /\ sts = IF scene.runs THEN x ELSE NoSts
       /\ pods = [i \in Ordinals |->
                    IF scene.runs /\ i < was.servers
                    THEN [at |-> "ready", rev |-> Revision(x), conf |-> m.conf, boot |-> m.conf,
                          members |-> was.servers, cert |-> 0,
                          after |-> (IF m.late THEN {"late"} ELSE {}) \cup restartEffectiveSettings]
                    ELSE NoPod]
       /\ cert = [now |-> 0, file |-> [i \in Ordinals |-> 0], warned |-> {}, overdue |-> FALSE]
       /\ frozen = [map |-> Nothing, sts |-> Nothing]
       /\ memory = [recent |-> FALSE]
       /\ pass = [at |-> "idle", spec |-> scene.spec, want |-> NoMap, i |-> 0, roll |-> FALSE,
                  fresh |-> {}]

Next ==
  \/ BeginPass
  \/ ReconcileConfigMap
  \/ ApplyLive
  \/ updateConfigMapImmediate
  \/ triggerRollingRestartForConfigChange
  \/ createOrUpdateResource
  \/ replaceStuckServerPods
  \/ reconcileRestartPending
  \/ recordStatus
  \/ reconcileTLSReload
  \/ Edit
  \/ RollOne
  \/ \E i \in Ordinals : StartPod(i)
  \/ \E i \in Ordinals : RemovePod(i)
  \/ \E i \in Ordinals : BecomeReady(i)
  \/ CompleteRollout
  \/ \E i \in Ordinals : LosePod(i)
  \/ Renew
  \/ \E i \in Ordinals : Project(i)
  \/ GiveUp
  \/ \E k \in {"map", "sts"} : Lag(k)
  \/ \E k \in {"map", "sts"} : CatchUp(k)
  \/ Tick
  \/ Restart

Spec == Init /\ [][Next]_vars

\* Passes are requeued, the StatefulSet controller and the kubelet keep
\* working, caches catch up and time passes.
Kubernetes == \/ RollOne \/ CompleteRollout
              \/ \E i \in Ordinals : StartPod(i) \/ RemovePod(i) \/ BecomeReady(i)
Fairness ==
  /\ WF_vars(PassStep)
  /\ WF_vars(Kubernetes) /\ WF_vars(\E i \in Ordinals : Project(i))
  /\ WF_vars(\E k \in {"map", "sts"} : CatchUp(k)) /\ WF_vars(Tick \/ GiveUp)

FairSpec == Spec /\ Fairness

----------------------------------------------------------------------------
(* Properties.                                                             *)

TypeOK ==
  /\ spec \in ClusterSpecs
  /\ status.phase \in {"Forming", "Ready"} /\ status.pending \in {"none", "false", "true"}
  /\ map.script.members \in 0..MaxServers /\ map.effective \subseteq restartEffectiveSettings
  /\ sts.servers \in 0..MaxServers /\ sts.stamp \in Nat
  /\ \A i \in Ordinals : pods[i].at \in {"off", "starting", "ready"} /\ pods[i].conf \in Confs

Wanted == 0..(spec.servers - 1)

\* Once the edits stop, every server runs from the pod template the cluster asks
\* for (unless no server starts with it) and, unless the restart stamp of the last
\* change was lost, with the values it asks for: a live change that a server refused
\* midway, a ConfigMap write that failed, lagging copies and operator restarts
\* included (configmap_manager.go ReconcileConfigMap: the live change runs before
\* the write, so a failure leaves a difference).
Reached == \A i \in Wanted : pods[i].at = "ready" => pods[i].conf = spec.conf
AllServe ==
  spec.rest # "bad" =>
     /\ left.missed \/ Reached
     /\ \A i \in Wanted : /\ pods[i].at = "ready"
                          /\ pods[i].rev[1] = buildServerStatefulSet(spec)
ConfigServed == <>[]AllServe

\* A restart is asked for only when some server does not already run what the
\* ConfigMap says: not for a change every server took live, nor for a scale that
\* adds only system secondaries (scaleNeedsNoRestart), nor for lines an earlier
\* release kept elsewhere (withoutMovedJVMLines).
RollStep ==
  left.calm /\ sts'.stamp # sts.stamp =>
       \E i \in Ordinals : /\ i < sts.servers
                            /\ \/ pods[i].conf # map.conf
                               \/ pods[i].members < EffectiveMinSystemPrimaries(pass.spec)
NoNeedlessRoll == [][RollStep]_vars

\* Once the edits stop, every server was started with a discovery list that has
\* every system primary, though a scale restarts the servers only when it adds
\* one (addedSystemPrimaries), unless the stamp of that restart was lost.
AllKnown ==
  left.missed \/ \A i \in Wanted : pods[i].members >= EffectiveMinSystemPrimaries(spec)
PrimariesKnown == <>[]AllKnown

\* A server that started with another value of a restart-effective setting, or
\* without a startup setting the ConfigMap now has, is named by RestartPending
\* once things settle (pendingRestartServers).
Told ==
  (\E i \in Wanted : \/ \E k \in restartEffectiveSettings : pods[i].boot[k] # spec.conf[k]
                     \/ (spec.late /\ "late" \notin pods[i].after))
    => status.pending = "true"
PendingTold == <>[]Told

\* Every server ends up presenting the renewed certificate, or a Warning names
\* it (reconcileTLSReload records the certificate only then).
AllPresent == spec.late => \A i \in Wanted : pods[i].cert = cert.now \/ i \in cert.warned
CertificateServed == <>[]AllPresent
=============================================================================
