------------------------------ MODULE Plugins ------------------------------
(***************************************************************************)
(* Neo4jPlugin on a cluster.  Three writers share the pod template of the  *)
(* server StatefulSet: the plugin controller (one pass at a time, for any  *)
(* of the Neo4jPlugins of the target), the cluster controller (its own     *)
(* variables, the hand-over of a list it stops owning) and Aura Fleet      *)
(* Management (one entry of NEO4J_PLUGINS).  What belongs to whom is kept  *)
(* in records on the StatefulSet.  Every write of the template restarts    *)
(* every server, highest ordinal first.                                    *)
(*                                                                         *)
(* Every writer works from cached copies (plugc, tgtc, stsc) that trail    *)
(* the API server; a write of the StatefulSet carries the version it was   *)
(* computed from and is refused when the live one differs.                 *)
(***************************************************************************)
EXTENDS Naturals, FiniteSets

CONSTANTS
    Crs,        \* the Neo4jPlugins: numbers, the older the smaller
    Names,      \* plugin names: entries of NEO4J_PLUGINS, tokens of the procedure lists
    Settings,   \* settings spec.config of a plugin or spec.env of the cluster may set
    Values,     \* their values
    NoValue,    \* "not set"
    Bad,        \* a value no server starts with
    Fleet,      \* the name Aura Fleet Management adds
    Servers,    \* ordinals of the StatefulSet
    Refuses,    \* image |-> the Managed names its entrypoint does not know
    Scenes      \* the situations Init starts from

VARIABLES
    plug,       \* Neo4jPlugin -> the object in the API server
    plugc,      \* the operator's cached copy of them
    tgt,        \* the Neo4jEnterpriseCluster
    tgtc,       \* its cached copy
    sts,        \* the server StatefulSet: template, records, status
    stsc,       \* its cached copy
    pod,        \* server -> the template it runs and whether it is ready
    queue,      \* Neo4jPlugins the plugin controller's queue holds
    pass,       \* the plugin controller's pass
    tpass,      \* the cluster controller's pass
    left        \* how many of each outside event may still happen

vars == <<plug, plugc, tgt, tgtc, sts, stsc, pod, queue, pass, tpass, left>>

PLUGINS == "NEO4J_PLUGINS"
PROCS   == "procedure lists"
EnvNames == Settings \cup {PLUGINS, PROCS}

PluginSpec == [name : Names, deps : SUBSET Names, mode : {"Managed", "VerifiedDownload"},
               conf : [Settings -> Values \cup {NoValue}], enabled : BOOLEAN]

Phases == {"", "Installing", "Waiting", "Ready", "Failed", "Refusing", "Disabled"}

Plugin == [exists : BOOLEAN, deleting : BOOLEAN, fin : BOOLEAN, spec : PluginSpec,
           gen : Nat, phase : Phases, observed : Nat]

Target == [list : {NoValue} \cup SUBSET Names, procs : {NoValue} \cup SUBSET Names,
           conf : [Settings -> Values \cup {NoValue}], fleet : BOOLEAN, image : DOMAIN Refuses,
           gen : Nat, observed : Nat, available : BOOLEAN]

Template == [plugins : SUBSET Names, procs : SUBSET Names, inits : SUBSET Names,
             env : [Settings -> Values \cup {NoValue}], image : DOMAIN Refuses]

(* ------------------------------------------------------------------------ *)
(* Which Neo4jPlugin installs what                                          *)
(* ------------------------------------------------------------------------ *)

pluginEntries(s) == {s.name} \cup s.deps
Entries(s)       == IF s.mode = "Managed" THEN pluginEntries(s) ELSE {}

pluginOwnedEnvNames(s) == {k \in Settings : s.conf[k] # NoValue}

pluginOnTarget(s, t) ==
    s.enabled /\ ~(s.mode = "Managed" /\ s.name \in Refuses[t.image])

sameTuplePlugins(list, c, p) ==
    {d \in Crs \ {c} : /\ list[d].exists /\ ~list[d].deleting
                       /\ list[d].spec.name = p.spec.name}

\* Enabled before disabled, then the older.
winsTuple(d, dp, c, cp) ==
    IF dp.spec.enabled # cp.spec.enabled THEN dp.spec.enabled ELSE d < c

\* Another Neo4jPlugin owns the tuple of c.
checkForDuplicatePlugin(list, c, p) ==
    \E d \in sameTuplePlugins(list, c, p) : winsTuple(d, list[d], c, p)

pluginSuccessor(list, c, p, t) ==
    IF p.spec.enabled /\ ~p.deleting THEN {}
    ELSE LET S == sameTuplePlugins(list, c, p) IN
         {d \in S : /\ \A e \in S \ {d} : winsTuple(d, list[d], e, list[e])
                    /\ pluginOnTarget(list[d].spec, t)}

otherPlugins_NoSuccessor(list, c, p, t) ==
    {d \in Crs \ {c} : /\ list[d].exists /\ ~list[d].deleting
                       /\ pluginOnTarget(list[d].spec, t)
                       /\ list[d].spec.name # p.spec.name}

\* The plugins whose share of the template c's write leaves alone.
otherPlugins(list, c, p, t) ==
    {d \in Crs \ {c} : /\ list[d].exists /\ ~list[d].deleting
                       /\ pluginOnTarget(list[d].spec, t)
                       /\ list[d].spec.name # p.spec.name}
      \cup pluginSuccessor(list, c, p, t)

(* ------------------------------------------------------------------------ *)
(* The plugin's edits of the StatefulSet                                    *)
(* ------------------------------------------------------------------------ *)

envOwnedElsewhere(s, list, c, others) ==
    s.owned \cup UNION {s.recEnv[d] : d \in Crs \ {c}}
            \cup UNION {pluginOwnedEnvNames(list[d].spec) : d \in others}

Unset(env, names) == [k \in Settings |-> IF k \in names THEN NoValue ELSE env[k]]

\* The tokens own and the other plugins ask for; nothing of a list the cluster owns.
setClusterPluginLists(procs, own, list, others, owned) ==
    IF PROCS \in owned THEN procs
    ELSE (procs \cap (own \cup {list[d].spec.name : d \in others})) \cup own

withoutPluginEntries(entries, names, list, others, t) ==
    entries \ (names \ (UNION {Entries(list[d].spec) : d \in others}
                          \cup (IF t.fleet THEN {Fleet} ELSE {})))

applyPluginEnv(tmpl, p) ==
    [tmpl EXCEPT !.plugins = @ \cup Entries(p.spec),
                 !.procs   = @ \cup {p.spec.name},
                 !.env     = [k \in Settings |-> IF p.spec.conf[k] # NoValue
                                                 THEN p.spec.conf[k] ELSE @[k]],
                 !.inits   = @ \cup (IF p.spec.mode = "VerifiedDownload"
                                     THEN {p.spec.name} ELSE {})]

applyPlugin(s, list, c, p, t) ==
    LET others == otherPlugins(list, c, p, t)
        tmpl   == applyPluginEnv(s.tmpl, p)
        gone   == (s.recEnv[c] \ pluginOwnedEnvNames(p.spec)) \ envOwnedElsewhere(s, list, c, others)
        stale  == IF PLUGINS \in s.owned THEN {} ELSE s.recEntries[c] \ Entries(p.spec)
    IN [s EXCEPT
          !.tmpl = [tmpl EXCEPT
             !.env     = Unset(@, gone),
             !.procs   = setClusterPluginLists(@, {p.spec.name}, list, others, s.owned),
             !.plugins = withoutPluginEntries(@, stale, list, others, t)],
          !.recEnv[c]     = pluginOwnedEnvNames(p.spec),
          !.recEntries[c] = Entries(p.spec)]

withoutPlugin(s, list, c, p, t) ==
    LET others == otherPlugins(list, c, p, t)
        names  == s.recEnv[c] \cup pluginOwnedEnvNames(p.spec)
        stale  == IF PLUGINS \in s.owned THEN {} ELSE s.recEntries[c] \cup Entries(p.spec)
        successorDownloads ==
            \E d \in others : /\ list[d].spec.name = p.spec.name
                              /\ list[d].spec.mode = "VerifiedDownload"
    IN [s EXCEPT
          !.tmpl = [@ EXCEPT
             !.env     = Unset(@, names \ envOwnedElsewhere(s, list, c, others)),
             !.procs   = setClusterPluginLists(@, {}, list, others, s.owned),
             !.plugins = withoutPluginEntries(@, stale, list, others, t),
             !.inits   = IF successorDownloads THEN @ ELSE @ \ {p.spec.name}],
          !.recEnv[c]     = {},
          !.recEntries[c] = {}]

desiredTarget(s, list, c, p, t) ==
    IF pluginOnTarget(p.spec, t) /\ ~p.deleting
    THEN applyPlugin(s, list, c, p, t) ELSE withoutPlugin(s, list, c, p, t)

changedEnvNames(a, b) ==
    {k \in Settings : a.env[k] # b.env[k]}
      \cup (IF a.plugins # b.plugins THEN {PLUGINS} ELSE {})
      \cup (IF a.procs # b.procs THEN {PROCS} ELSE {})

ownedEnvRefusal(s, d) == changedEnvNames(s.tmpl, d.tmpl) \cap s.owned # {}

\* A template write: the StatefulSet controller has yet to act on it.
Wrote(s, d) == IF d.tmpl = s.tmpl THEN d ELSE [d EXCEPT !.seen = FALSE]

(* ------------------------------------------------------------------------ *)
(* May a write restart the servers now, and is it through                   *)
(* ------------------------------------------------------------------------ *)

statefulSetRolloutPending(s) == ~(s.seen /\ s.updated /\ s.ready)

\* getTargetDeployment's IsReady, as the caches tell it.
IsReady == /\ tgtc.available /\ tgtc.observed = tgtc.gen
           /\ ~statefulSetRolloutPending(stsc)

CrashLooping(i) == ~pod[i].ready /\ \E k \in Settings : pod[i].tmpl.env[k] = Bad

selfRepair_Never(c, p, t) == FALSE

\* Every server that is down keeps failing with something this write changes,
\* and those are the servers the roll replaces first.  No pod is missing or on
\* its way out here, no upgrade holds a partition, and the servers Neo4j last saw
\* unavailable (unavailableServerOutside) are those whose pods are down.
selfRepair(c, p, t) ==
    LET want    == desiredTarget(stsc, plugc, c, p, t)
        changed == changedEnvNames(stsc.tmpl, want.tmpl)
        Fails(i) == /\ CrashLooping(i)
                    /\ changedEnvNames(pod[i].tmpl, want.tmpl) \cap changed # {}
        down    == {i \in Servers : ~pod[i].ready}
    IN /\ down # {}
       /\ \A i \in down : Fails(i) /\ \A j \in Servers : j > i => j \in down

arePodsReady == \A i \in Servers : pod[i].ready

\* As the cache of pods tells it, which may be from before a server went down.
CachedPodsReady == {arePodsReady, TRUE}

deploymentFunctional == \E i \in Servers : pod[i].ready

(* ------------------------------------------------------------------------ *)
(* Status                                                                   *)
(* ------------------------------------------------------------------------ *)

Idle == [at |-> "idle"]

\* Written onto the latest object, at its latest generation.
updatePluginStatus(c, phase) ==
    IF plug[c].exists THEN [plug EXCEPT ![c].phase = phase, ![c].observed = plug[c].gen]
    ELSE plug

Settled(p)    == p.phase = "Ready" /\ p.observed = p.gen
InProgress(p) == p.observed = p.gen /\ p.phase \in {"Installing", "Failed", "Refusing"}

\* The pass ends; the queue takes c back when it asked for another look.
EndPass(c, again) ==
    /\ pass' = Idle
    /\ queue' = IF again THEN queue \cup {c} ELSE queue

\* It ends before any write of the StatefulSet: c leaves the queue, or stays.
EndEarly(c, again) ==
    /\ pass' = Idle
    /\ queue' = IF again THEN queue ELSE queue \ {c}

\* The pass goes on to its write of the StatefulSet.
GoOn(c, p, kind, waits) ==
    /\ pass' = [at |-> "write", cr |-> c, copy |-> p, target |-> tgtc, kind |-> kind,
                waits |-> waits, behind |-> FALSE]
    /\ queue' = queue \ {c}
    /\ UNCHANGED sts

(* ------------------------------------------------------------------------ *)
(* The plugin controller: up to the write                                   *)
(* ------------------------------------------------------------------------ *)

\* What a settled plugin's target lost, and what it no longer needs.
Missing(s, d, p) ==
    \/ ~(d.tmpl.plugins \subseteq s.tmpl.plugins)
    \/ \E k \in Settings : s.tmpl.env[k] = NoValue /\ d.tmpl.env[k] # NoValue
    \/ s.tmpl.procs = {} /\ d.tmpl.procs # {}
    \/ ~(d.tmpl.inits \subseteq s.tmpl.inits)

Removing(s, d) ==
    \/ \E k \in Settings : s.tmpl.env[k] # NoValue /\ d.tmpl.env[k] = NoValue
    \/ ~(s.tmpl.plugins \subseteq d.tmpl.plugins)

recordPluginEnv(c, d) ==
    sts' = IF stsc = sts THEN [sts EXCEPT !.recEnv[c] = d.recEnv[c],
                                          !.recEntries[c] = d.recEntries[c]]
           ELSE sts

\* deferInstall, refuseInstall and the wait for an answer: a phase and another look.
Hold(c, phase) ==
    /\ plug' = updatePluginStatus(c, phase)
    /\ EndEarly(c, TRUE)
    /\ UNCHANGED sts

MayWrite(c, p, t) == IsReady \/ selfRepair(c, p, t)

\* An enabled plugin, up to the write.
Install(c, p) ==
    LET d       == applyPlugin(stsc, plugc, c, p, tgtc)
        changes == d.tmpl # stsc.tmpl
        repair  == ~IsReady /\ selfRepair(c, p, tgtc)
    IN IF Settled(p) /\ ~Missing(stsc, d, p) /\ ~Removing(stsc, d)
       THEN /\ recordPluginEnv(c, d)
            /\ EndEarly(c, FALSE)
            /\ UNCHANGED plug
       ELSE IF Settled(p) /\ Missing(stsc, d, p) /\ ~MayWrite(c, p, tgtc)
       THEN Hold(c, "Waiting")
       ELSE IF ownedEnvRefusal(stsc, d) THEN Hold(c, "Failed")
       ELSE IF changes /\ ~MayWrite(c, p, tgtc) THEN Hold(c, "Waiting")
       ELSE IF changes /\ ~repair /\ ~deploymentFunctional THEN Hold(c, "Waiting")
       ELSE /\ plug' = IF repair \/ Settled(p) \/ ~InProgress(p)
                       THEN updatePluginStatus(c, "Installing") ELSE plug
            /\ GoOn(c, p, "install", TRUE)

reconcileDisabled(c, p) ==
    LET changes == withoutPlugin(stsc, plugc, c, p, tgtc).tmpl # stsc.tmpl
        removing == p.observed = p.gen /\ p.phase = "Installing"
    IN IF changes /\ ~MayWrite(c, p, tgtc) THEN Hold(c, "Waiting")
       ELSE /\ plug' = IF changes THEN updatePluginStatus(c, "Installing") ELSE plug
            /\ GoOn(c, p, "disable", changes \/ removing)

\* Refusing is phase Failed with the message of a removal under way.
reconcileRefused(c, p) ==
    LET changes == withoutPlugin(stsc, plugc, c, p, tgtc).tmpl # stsc.tmpl
        inFlight == p.observed = p.gen /\ p.phase = "Refusing"
    IN IF changes /\ ~MayWrite(c, p, tgtc) THEN Hold(c, "Failed")
       ELSE /\ plug' = IF changes /\ ~IsReady THEN updatePluginStatus(c, "Refusing") ELSE plug
            /\ GoOn(c, p, "refuse", inFlight)

\* Another Neo4jPlugin owns the tuple: the conflict is reported and left.
Duplicate(c) ==
    /\ plug' = updatePluginStatus(c, "Failed")
    /\ EndEarly(c, FALSE) /\ UNCHANGED sts

\* What spec.enabled and the target's image make of the plugin.
Routed(c, p) ==
    IF ~p.spec.enabled THEN reconcileDisabled(c, p)
    ELSE IF ~pluginOnTarget(p.spec, tgtc) THEN reconcileRefused(c, p)
    ELSE Install(c, p)

\* Reconcile, up to its first write of the StatefulSet.
Reconcile(c) ==
    LET p == plugc[c] IN
    /\ pass.at = "idle" /\ c \in queue
    /\ IF ~p.exists
       THEN EndEarly(c, FALSE) /\ UNCHANGED <<plug, sts>>
       ELSE IF p.deleting
       THEN GoOn(c, p, "uninstall", FALSE) /\ UNCHANGED plug
       ELSE IF ~p.fin
       THEN /\ plug' = [plug EXCEPT ![c].fin = plug[c].exists]
            /\ EndEarly(c, FALSE) /\ UNCHANGED sts
       ELSE IF p.spec.enabled /\ checkForDuplicatePlugin(plugc, c, p)
       THEN Duplicate(c)
       ELSE Routed(c, p)
    /\ UNCHANGED <<plugc, tgt, tgtc, stsc, pod, tpass, left>>

(* ------------------------------------------------------------------------ *)
(* The plugin controller: the write, and the wait for its roll              *)
(* ------------------------------------------------------------------------ *)

\* What the write puts on the StatefulSet, computed from the cached one again.
WrittenBy(c) ==
    IF pass.kind = "install" THEN applyPlugin(stsc, plugc, c, pass.copy, pass.target)
    ELSE withoutPlugin(stsc, plugc, c, pass.copy, pass.target)

\* writePluginToTarget and writeRemoval.  A copy that is behind is refused by
\* the API server; retried until it is not, or given up for another pass.
Write ==
    LET c == pass.cr
        d == WrittenBy(c)
    IN
    /\ pass.at = "write"
    /\ \/ /\ pass.kind = "install" /\ d.tmpl # stsc.tmpl /\ ownedEnvRefusal(stsc, d)
          /\ plug' = updatePluginStatus(c, "Failed")
          /\ EndPass(c, TRUE) /\ UNCHANGED sts
       \/ /\ ~(pass.kind = "install" /\ d.tmpl # stsc.tmpl /\ ownedEnvRefusal(stsc, d))
          /\ d = stsc \/ stsc = sts
          /\ sts' = IF d = stsc THEN sts ELSE Wrote(stsc, d)
          /\ pass' = [pass EXCEPT !.at = "finish", !.behind = d.tmpl # stsc.tmpl,
                                  !.waits = @ \/ (pass.kind = "refuse" /\ d.tmpl # stsc.tmpl)]
          /\ UNCHANGED <<plug, queue>>
       \/ /\ d # stsc /\ stsc # sts
          /\ plug' = CASE pass.kind = "refuse"    -> updatePluginStatus(c, "Refusing")
                      [] pass.kind = "uninstall" -> plug
                      [] OTHER                   -> updatePluginStatus(c, "Installing")
          /\ EndPass(c, TRUE) /\ UNCHANGED sts
    /\ UNCHANGED <<plugc, tgt, tgtc, stsc, pod, tpass, left>>

rolloutPending_Ready(b) == ~stsc.ready

\* The cache has yet to see the write, or the servers have yet to take it.
rolloutPending(b) == b \/ statefulSetRolloutPending(stsc)

Finish == \E up \in CachedPodsReady :
    LET c == pass.cr
        pending == pass.waits /\ (rolloutPending(pass.behind) \/ ~up)
    IN
    /\ pass.at = "finish"
    /\ plug' = CASE pass.kind = "uninstall" -> [plug EXCEPT ![c].exists = FALSE, ![c].fin = FALSE]
                [] pass.kind = "refuse"    -> updatePluginStatus(c, IF pending THEN "Refusing" ELSE "Failed")
                [] pending                 -> updatePluginStatus(c, "Installing")
                [] pass.kind = "disable"   -> updatePluginStatus(c, "Disabled")
                [] OTHER                   -> updatePluginStatus(c, "Ready")
    /\ EndPass(c, pending \/ pass.kind = "refuse")
    /\ UNCHANGED <<plugc, tgt, tgtc, sts, stsc, pod, tpass, left>>

(* ------------------------------------------------------------------------ *)
(* The cluster controller and Aura Fleet Management                         *)
(* ------------------------------------------------------------------------ *)

\* What the cluster renders itself; its own NEO4J_PLUGINS carries fleet-management.
buildServerStatefulSet(t) ==
    [plugins |-> IF t.list = NoValue THEN NoValue
                 ELSE t.list \cup (IF t.fleet THEN {Fleet} ELSE {}),
     procs |-> t.procs, env |-> t.conf, image |-> t.image]

OwnedBy(r) == {k \in Settings : r.env[k] # NoValue}
                \cup (IF r.plugins # NoValue THEN {PLUGINS} ELSE {})
                \cup (IF r.procs # NoValue THEN {PROCS} ELSE {})

envVarsEqual(s, r) ==
    /\ \A k \in Settings : IF r.env[k] # NoValue THEN s.tmpl.env[k] = r.env[k]
                           ELSE k \in s.owned => s.tmpl.env[k] = NoValue
    /\ IF r.plugins # NoValue THEN s.tmpl.plugins = r.plugins
       ELSE PLUGINS \in s.owned => s.tmpl.plugins = {}
    /\ IF r.procs # NoValue THEN s.tmpl.procs = r.procs
       ELSE PROCS \in s.owned => s.tmpl.procs = {}

isTemplateChangeSignificant(s, r) ==
    \/ s.tmpl.image # r.image
    \/ s.applied # r
    \/ s.ready /\ ~envVarsEqual(s, r)

Recorded(s, d) == s.recEnv[d] # {} \/ s.recEntries[d] # {}

writtenPluginLists(s, list, t) ==
    {list[d].spec.name : d \in {e \in Crs : /\ list[e].exists /\ ~list[e].deleting
                                            /\ pluginOnTarget(list[e].spec, t)
                                            /\ Recorded(s, e)}}

installedPluginEntries_Recorded(s, list, t) ==
    {d \in Crs : /\ list[d].exists /\ s.recEnv[d] # {}
                 /\ list[d].spec.mode = "Managed"}

\* The plugins whose names stay in a NEO4J_PLUGINS the cluster stops owning.
installedPluginEntries(s, list, t) ==
    {d \in Crs : /\ list[d].exists /\ ~list[d].deleting
                 /\ pluginOnTarget(list[d].spec, t) /\ list[d].spec.mode = "Managed"
                 /\ list[d].phase = "Ready" \/ Recorded(s, d)}

handOverNeo4jPlugins(s, list, t) ==
    UNION {pluginEntries(list[d].spec) : d \in installedPluginEntries(s, list, t)}

\* The cluster's own values; another writer's variables stay.
mergeEnvVars(s, r) ==
    [k \in Settings |-> IF r.env[k] # NoValue \/ k \in s.owned THEN r.env[k] ELSE s.tmpl.env[k]]

\* The write of the cluster's rendering onto the live StatefulSet.
createOrUpdateResource(s, list, t) ==
    LET r       == buildServerStatefulSet(t)
        handed  == PLUGINS \in s.owned /\ r.plugins = NoValue /\ s.tmpl.plugins # {}
        plugins == IF r.plugins # NoValue THEN r.plugins
                   ELSE IF PLUGINS \in s.owned
                        THEN (IF handed THEN handOverNeo4jPlugins(s, list, t) ELSE {})
                   ELSE s.tmpl.plugins
        addFleetEntryInWrite == t.fleet /\ r.plugins = NoValue /\ Fleet \notin plugins
        keepers == IF handed THEN installedPluginEntries(s, list, t) ELSE {}
    IN [s EXCEPT
          !.tmpl = [@ EXCEPT
             !.image   = r.image,
             !.env     = mergeEnvVars(s, r),
             !.procs   = IF r.procs # NoValue THEN r.procs
                         ELSE IF PROCS \in s.owned THEN writtenPluginLists(s, list, t) ELSE @,
             !.plugins = plugins \cup (IF addFleetEntryInWrite THEN {Fleet} ELSE {})],
          !.recEntries = [d \in Crs |-> IF d \in keepers THEN pluginEntries(list[d].spec) ELSE @[d]],
          !.fleetRec = IF t.fleet /\ r.plugins # NoValue THEN FALSE ELSE @ \/ addFleetEntryInWrite,
          !.owned    = OwnedBy(r),
          !.applied  = r]

fleetEntryClaimed(s, list, t) ==
    \/ \E d \in Crs : Fleet \in s.recEntries[d]
    \/ \E d \in Crs : /\ list[d].exists /\ ~list[d].deleting
                      /\ pluginOnTarget(list[d].spec, t) /\ Fleet \in Entries(list[d].spec)

\* Fleet Management is off: its entry leaves, unless a plugin claims it.
fleetDisableEdit(s, list, t) ==
    IF ~s.fleetRec THEN s
    ELSE [s EXCEPT !.fleetRec = FALSE,
                   !.tmpl.plugins = IF fleetEntryClaimed(s, list, t) \/ PLUGINS \in s.owned
                                    THEN @ ELSE @ \ {Fleet}]

\* Fleet Management is on: the record follows the entry.
fleetRecordUpkeep(s, list, t) ==
    IF s.fleetRec /\ (Fleet \notin s.tmpl.plugins \/ PLUGINS \in s.owned)
    THEN [s EXCEPT !.fleetRec = FALSE]
    ELSE IF /\ ~s.fleetRec /\ Fleet \in s.tmpl.plugins /\ PLUGINS \notin s.owned
            /\ ~fleetEntryClaimed(s, list, t)
    THEN [s EXCEPT !.fleetRec = TRUE] ELSE s

FleetDue(s) == PLUGINS \notin s.owned /\ Fleet \notin s.tmpl.plugins

FleetEdit(s, list, t) ==
    IF t.fleet THEN fleetRecordUpkeep(s, list, t) ELSE fleetDisableEdit(s, list, t)

\* A reconcile of the cluster starts from its cached copy.  A pass that would
\* find nothing to do is left out.
BeginTarget ==
    /\ tpass.at = "idle"
    /\ \/ tgtc.observed # tgtc.gen \/ tgtc.available # arePodsReady
       \/ tgtc.fleet /\ FleetDue(stsc)
       \/ isTemplateChangeSignificant(stsc, buildServerStatefulSet(tgtc))
       \/ FleetEdit(stsc, plugc, tgtc) # stsc
    /\ tpass' = [at |-> IF tgtc.fleet THEN "merge" ELSE "apply", copy |-> tgtc]
    /\ UNCHANGED <<plug, plugc, tgt, tgtc, sts, stsc, pod, queue, pass, left>>

\* The entry is missing from the cached StatefulSet: added to the live one.
mergeFleetManagementPlugin ==
    /\ tpass.at = "merge"
    /\ tpass' = [tpass EXCEPT !.at = "apply"]
    /\ sts' = IF FleetDue(stsc) /\ FleetDue(sts)
              THEN [sts EXCEPT !.tmpl.plugins = @ \cup {Fleet}, !.fleetRec = TRUE, !.seen = FALSE]
              ELSE sts
    /\ UNCHANGED <<plug, plugc, tgt, tgtc, stsc, pod, queue, pass, left>>

\* A copy that is behind is refused, and fails the pass.
ApplyTarget ==
    LET t == tpass.copy IN
    /\ tpass.at = "apply"
    /\ IF ~isTemplateChangeSignificant(stsc, buildServerStatefulSet(t))
       THEN tpass' = [tpass EXCEPT !.at = "entry"] /\ UNCHANGED sts
       ELSE IF stsc = sts
       THEN /\ sts' = Wrote(sts, createOrUpdateResource(sts, plugc, t))
            /\ tpass' = [tpass EXCEPT !.at = "entry"]
       ELSE tpass' = Idle /\ UNCHANGED sts
    /\ UNCHANGED <<plug, plugc, tgt, tgtc, stsc, pod, queue, pass, left>>

\* Fleet Management's record and the removal of its entry, on the live
\* StatefulSet; then the pass ends with the cluster's status.
reconcileFleetEntry ==
    LET t == tpass.copy IN
    /\ tpass.at = "entry"
    /\ sts' = IF FleetEdit(stsc, plugc, t) # stsc THEN Wrote(sts, FleetEdit(sts, plugc, t)) ELSE sts
    /\ tgt' = [tgt EXCEPT !.observed = t.gen, !.available = arePodsReady]
    /\ tpass' = Idle
    /\ UNCHANGED <<plug, plugc, tgtc, stsc, pod, queue, pass, left>>

(* ------------------------------------------------------------------------ *)
(* Kubernetes                                                               *)
(* ------------------------------------------------------------------------ *)

\* A pass takes milliseconds, the restart of a server a minute: no server is
\* replaced or comes up in the middle of a pass.
BetweenPasses == pass.at = "idle" /\ tpass.at = "idle"

\* The StatefulSet controller reports what it sees.
Observed == [sts EXCEPT !.seen = TRUE, !.ready = arePodsReady,
                        !.updated = \A i \in Servers : pod[i].tmpl = sts.tmpl]

ObserveSts ==
    /\ sts # Observed
    /\ sts' = Observed
    /\ UNCHANGED <<plug, plugc, tgt, tgtc, stsc, pod, queue, pass, tpass, left>>

\* It replaces the highest ordinal on an older template, one at a time
\* (podManagementPolicy Parallel: a pod that cannot start is replaced too).
RollPod(i) ==
    /\ BetweenPasses /\ pod[i].tmpl # sts.tmpl
    /\ \A j \in Servers : j > i => pod[j].ready /\ pod[j].tmpl = sts.tmpl
    /\ pod' = [pod EXCEPT ![i] = [tmpl |-> sts.tmpl, ready |-> FALSE]]
    /\ UNCHANGED <<plug, plugc, tgt, tgtc, sts, stsc, queue, pass, tpass, left>>

Start(i) ==
    /\ BetweenPasses /\ ~pod[i].ready /\ ~CrashLooping(i)
    /\ pod' = [pod EXCEPT ![i].ready = TRUE]
    /\ UNCHANGED <<plug, plugc, tgt, tgtc, sts, stsc, queue, pass, tpass, left>>

pluginsSharingTuple(list, c) ==
    {d \in Crs \ {c} : list[d].exists /\ list[d].spec.name = list[c].spec.name}

tupleOwnershipChanged(a, b) ==
    a.exists # b.exists \/ a.deleting # b.deleting \/ a.gen # b.gen

\* The Neo4jPlugin informer delivers, and queues whom its events concern.
SyncPlugins ==
    /\ plugc # plug
    /\ plugc' = plug
    /\ queue' = queue \cup {c \in Crs : plug[c] # plugc[c]}
                 \cup UNION {pluginsSharingTuple(plug, c) :
                              c \in {d \in Crs : tupleOwnershipChanged(plugc[d], plug[d])}}
    /\ UNCHANGED <<plug, tgt, tgtc, sts, stsc, pod, pass, tpass, left>>

SyncTarget ==
    /\ tgtc # tgt
    /\ tgtc' = tgt
    /\ UNCHANGED <<plug, plugc, tgt, sts, stsc, pod, queue, pass, tpass, left>>

readyPluginsForStatefulSet == {c \in Crs : plugc[c].exists /\ plugc[c].phase = "Ready"}

\* A changed pod template has the Ready plugins look at it.
SyncSts ==
    /\ stsc # sts
    /\ stsc' = sts
    /\ queue' = IF stsc.tmpl # sts.tmpl THEN queue \cup readyPluginsForStatefulSet ELSE queue
    /\ pass' = IF pass.at = "finish" THEN [pass EXCEPT !.behind = FALSE] ELSE pass
    /\ UNCHANGED <<plug, plugc, tgt, tgtc, sts, pod, tpass, left>>

(* ------------------------------------------------------------------------ *)
(* Users                                                                    *)
(* ------------------------------------------------------------------------ *)

EditPlugin(c, s) ==
    /\ plug[c].exists /\ ~plug[c].deleting /\ plug[c].spec # s
    /\ left' = [left EXCEPT !.edits[c] = @ \ {s}]
    /\ plug' = [plug EXCEPT ![c].spec = s, ![c].gen = @ + 1]
    /\ UNCHANGED <<plugc, tgt, tgtc, sts, stsc, pod, queue, pass, tpass>>

DeletePlugin(c) ==
    /\ c \in left.delete /\ plug[c].exists /\ ~plug[c].deleting
    /\ left' = [left EXCEPT !.delete = @ \ {c}]
    /\ plug' = [plug EXCEPT ![c].exists = plug[c].fin, ![c].deleting = plug[c].fin]
    /\ UNCHANGED <<plugc, tgt, tgtc, sts, stsc, pod, queue, pass, tpass>>

CreatePlugin(c) ==
    /\ c \in left.create /\ ~plug[c].exists /\ plugc[c] = plug[c]
    /\ left' = [left EXCEPT !.create = @ \ {c}]
    /\ plug' = [plug EXCEPT ![c] = [@ EXCEPT !.exists = TRUE, !.deleting = FALSE, !.fin = FALSE,
                                             !.gen = 1, !.phase = "", !.observed = 0]]
    /\ UNCHANGED <<plugc, tgt, tgtc, sts, stsc, pod, queue, pass, tpass>>

\* spec.env, spec.image or spec.auraFleetManagement of the cluster.
EditTarget(e) ==
    /\ left' = [left EXCEPT !.targets = @ \ {e}]
    /\ tgt' = [tgt EXCEPT !.list = e.list, !.procs = e.procs, !.conf = e.conf,
                          !.fleet = e.fleet, !.image = e.image, !.gen = @ + 1]
    /\ UNCHANGED <<plug, plugc, tgtc, sts, stsc, pod, queue, pass, tpass>>

\* NEO4J_PLUGINS is emptied with kubectl.
EmptiedByHand ==
    /\ left.hand > 0 /\ sts.tmpl.plugins # {}
    /\ left' = [left EXCEPT !.hand = @ - 1]
    /\ sts' = [sts EXCEPT !.tmpl.plugins = {}, !.seen = FALSE]
    /\ UNCHANGED <<plug, plugc, tgt, tgtc, stsc, pod, queue, pass, tpass>>

(* ------------------------------------------------------------------------ *)
(* The specification                                                        *)
(* ------------------------------------------------------------------------ *)

NewPlugin(here, s) ==
    [exists |-> here, deleting |-> FALSE, fin |-> here, spec |-> s,
     gen |-> 1, phase |-> "", observed |-> 0]

Init ==
    \E sc \in Scenes :
      LET r == buildServerStatefulSet(sc.target) IN
      /\ plug = [c \in Crs |-> NewPlugin(c \in sc.here, sc.specs[c])]
      /\ tgt = [list |-> sc.target.list, procs |-> sc.target.procs, conf |-> sc.target.conf,
                fleet |-> sc.target.fleet, image |-> sc.target.image,
                gen |-> 1, observed |-> 1, available |-> TRUE]
      /\ sts = [tmpl |-> [plugins |-> (IF r.plugins = NoValue THEN {} ELSE r.plugins)
                                        \cup (IF sc.target.fleet THEN {Fleet} ELSE {}),
                          procs |-> IF r.procs = NoValue THEN {} ELSE r.procs,
                          inits |-> {}, env |-> r.env, image |-> r.image],
                recEnv |-> [c \in Crs |-> {}], recEntries |-> [c \in Crs |-> {}],
                fleetRec |-> sc.target.fleet /\ r.plugins = NoValue,
                owned |-> OwnedBy(r), applied |-> r,
                seen |-> TRUE, updated |-> TRUE, ready |-> TRUE]
      /\ plugc = plug /\ tgtc = tgt /\ stsc = sts
      /\ pod = [i \in Servers |-> [tmpl |-> sts.tmpl, ready |-> TRUE]]
      /\ queue = sc.here
      /\ pass = Idle /\ tpass = Idle
      /\ left = sc.left

User == \/ \E c \in Crs : \/ \E s \in left.edits[c] : EditPlugin(c, s)
                         \/ DeletePlugin(c)
                         \/ CreatePlugin(c)
        \/ \E e \in left.targets : EditTarget(e)
        \/ EmptiedByHand

TargetController ==
    BeginTarget \/ mergeFleetManagementPlugin \/ ApplyTarget \/ reconcileFleetEntry
Controllers == (\E c \in Crs : Reconcile(c)) \/ Write \/ Finish \/ TargetController

Kubernetes == \E i \in Servers : RollPod(i) \/ Start(i)

\* The informers and the StatefulSet's status that may trail are the scene's;
\* the others deliver before anything else happens.
Prompt == /\ "plugins" \in left.lag \/ plugc = plug
          /\ "target" \in left.lag \/ tgtc = tgt
          /\ "sts" \in left.lag \/ stsc = sts
          /\ "status" \in left.lag \/ sts = Observed

Next == \/ ObserveSts
        \/ SyncPlugins
        \/ SyncTarget
        \/ SyncSts
        \/ Prompt /\ (Controllers \/ Kubernetes \/ User)

Spec == Init /\ [][Next]_vars

\* Queued work is worked on, watches deliver, Kubernetes rolls and starts pods.
Fairness ==
    /\ \A c \in Crs : SF_vars(Prompt /\ Reconcile(c))
    /\ WF_vars(Prompt /\ (Write \/ Finish)) /\ WF_vars(Prompt /\ TargetController)
    /\ WF_vars(ObserveSts \/ SyncPlugins \/ SyncTarget \/ SyncSts) /\ SF_vars(Prompt /\ Kubernetes)

FairSpec == Spec /\ Fairness

(* ------------------------------------------------------------------------ *)
(* Properties                                                               *)
(* ------------------------------------------------------------------------ *)

(* Every variable keeps its shape. *)
TypeOK ==
    /\ plug \in [Crs -> Plugin] /\ plugc \in [Crs -> Plugin]
    /\ tgt \in Target /\ tgtc \in Target
    /\ \A s \in {sts, stsc} :
          /\ s.tmpl \in Template /\ s.owned \subseteq EnvNames
          /\ \A c \in Crs : s.recEnv[c] \subseteq Settings /\ s.recEntries[c] \subseteq Names
          /\ {s.fleetRec, s.seen, s.updated, s.ready} \subseteq BOOLEAN
    /\ \A i \in Servers : pod[i].tmpl \in Template /\ pod[i].ready \in BOOLEAN
    /\ queue \subseteq Crs
    /\ pass.at \in {"idle", "write", "finish"}
    /\ tpass.at \in {"idle", "merge", "apply", "entry"}

\* c is to be on the servers.
Wanted(c) ==
    /\ plug[c].exists /\ ~plug[c].deleting /\ pluginOnTarget(plug[c].spec, tgt)
    /\ ~checkForDuplicatePlugin(plug, c, plug[c])

(* createOrUpdateResource's hand-over, the removals of other plugins and of
   fleet management: a plugin that is Ready keeps its entries of
   NEO4J_PLUGINS in every write of every writer, as long as the cluster does
   not set the variable itself: the list the cluster stops owning is handed
   over in the same write, so no server starts without a plugin in between.  *)
EntryStep ==
    \A c \in Crs :
          /\ Wanted(c) /\ Wanted(c)' /\ plug'[c].gen = plug[c].gen
          /\ Settled(plug[c]) /\ Settled(plugc[c]) /\ plugc[c].gen = plug[c].gen
          /\ Entries(plug[c].spec) \subseteq sts.tmpl.plugins
          /\ PLUGINS \notin sts'.owned /\ left'.hand = left.hand
          => Entries(plug[c].spec) \subseteq sts'.tmpl.plugins
EntryKept == [][EntryStep]_vars

(* rolloutPending: a plugin turns Ready only once every server is up on a
   template that has what the pass installed (as far as nobody took it out
   again), though the caches that say so may be from before the pass wrote.  *)
ReadyStep ==
    \A c \in Crs :
          plug'[c].phase = "Ready" /\ plug[c].phase # "Ready" =>
             \A i \in Servers :
                /\ pod[i].ready
                /\ Entries(pass.copy.spec) \cap sts.tmpl.plugins \subseteq pod[i].tmpl.plugins
                /\ \A k \in pluginOwnedEnvNames(pass.copy.spec) :
                      sts.tmpl.env[k] # NoValue => pod[i].tmpl.env[k] # NoValue
ReadyRuns == [][ReadyStep]_vars

\* The cluster's own lists do not keep c out.
Installs(c) ==
    /\ Wanted(c)
    /\ tgt.list # NoValue => Entries(plug[c].spec) \subseteq buildServerStatefulSet(tgt).plugins
    /\ tgt.procs # NoValue => plug[c].spec.name \in tgt.procs

WantedEntries ==
    IF tgt.list # NoValue THEN buildServerStatefulSet(tgt).plugins
    ELSE UNION {Entries(plug[c].spec) : c \in {d \in Crs : Wanted(d)}}
           \cup (IF tgt.fleet THEN {Fleet} ELSE {})

SettingsOf(C) == UNION {pluginOwnedEnvNames(plug[c].spec) : c \in C}
TokensOf(C)   == {plug[c].spec.name : c \in C}

Broken == \E c \in Crs : plug[c].exists /\ Bad \in {plug[c].spec.conf[k] : k \in Settings}

\* A plugin the cluster came to keep out leaves its settings until it is deleted.
Done ==
    LET wanted == {c \in Crs : Wanted(c)}
        in     == {c \in Crs : Installs(c)}
        set    == {k \in Settings : sts.tmpl.env[k] # NoValue /\ tgt.conf[k] = NoValue}
    IN /\ sts.tmpl.plugins = WantedEntries
       /\ SettingsOf(in) \subseteq set /\ set \subseteq SettingsOf(wanted)
       /\ IF tgt.procs # NoValue THEN sts.tmpl.procs = tgt.procs
          ELSE TokensOf(in) \subseteq sts.tmpl.procs /\ sts.tmpl.procs \subseteq TokensOf(wanted)
       /\ \A i \in Servers : pod[i] = [tmpl |-> sts.tmpl, ready |-> TRUE]
       /\ \A c \in in : plug[c].phase = "Ready" /\ plug[c].observed = plug[c].gen
       /\ \A c \in Crs : plug[c].exists => ~plug[c].deleting

(* The three writers settle: whatever plugins were edited, disabled, deleted,
   created again or duplicated, whichever lists the cluster took over or gave
   back and however fleet management was switched, the template ends with
   exactly what the cluster, the plugins and fleet management ask for, every
   server runs it, every plugin that installs is Ready and every deleted one
   is gone.                                                                  *)
Converges == <>[](Done \/ Broken)

(* selfRepair: servers that keep failing with a setting of a plugin come back
   once the setting is corrected or the plugin removed, although no write is
   otherwise made to a target that is not ready.                             *)
Recovers == []<>(arePodsReady \/ Broken)
=============================================================================
