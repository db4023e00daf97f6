---------------------------- MODULE AuraManaged ----------------------------
(***************************************************************************)
(* The custom resources that stand for something kept in Neo4j Aura: an    *)
(* instance, a customer managed key, an IP filter, a database of an        *)
(* instance, an invite, an organization member, a project member.  Each    *)
(* controller runs the same pass: find what it recorded or adopt what has  *)
(* its name, create it otherwise, record its id, converge it, report.  A   *)
(* behaviour follows one custom resource of one kind, its editors, the     *)
(* operator's cached copy, crashes, and an Aura that answers, asks to be   *)
(* tried later, refuses, or does the work and loses the answer.  Aura's    *)
(* lists show every resource created before the call.                      *)
(***************************************************************************)
EXTENDS Integers, FiniteSets

CONSTANTS
    Ids,        \* the ids Aura hands out, in order
    Scenes      \* the scenes a behaviour may play: see Init

VARIABLES
    cr,         \* the custom resource
    cache,      \* the operator's cached copy of it
    pass,       \* the reconcile in progress
    cloud,      \* id -> the resource Aura keeps under it
    secret,     \* the connection Secret of an instance
    env,        \* credentials, organization, host instance, people, time
    left        \* what the scene still allows

vars == <<cr, cache, pass, cloud, secret, env, left>>

None == 0
Kinds == {"instance", "key", "filter", "database", "invite", "orgmember", "projectmember"}
Members == {"orgmember", "projectmember"}
Policies == {"Create", "Update", "Delete"}
Values == {"small", "large", "bad"}
Phases == {"none", "Ready", "Pending", "Error", "Refused", "NoOrg", "NotAMember", "Gone"}
Nothing == [kind |-> "none", name |-> "", value |-> "", multi |-> FALSE, state |-> "", next |-> "", born |-> ""]
Idle == [at |-> "idle"]

\* The specs a kind admits: what of them this model tells apart.
AnySpec == [name : {"a", "b"}, value : Values, may : SUBSET Policies, destroy : BOOLEAN, hold : BOOLEAN,
            format : {"neo4j-driver", "servicebinding"}, sleep : BOOLEAN, multi : BOOLEAN, import : Ids \cup {None}]
PlainSpec == {s \in AnySpec : ~s.hold /\ ~s.sleep /\ ~s.multi /\ s.import = None /\ s.format = "neo4j-driver"}
InstanceSpec == {s \in AnySpec : s.value = "bad" => s.multi}
KeySpec == {s \in PlainSpec : s.value # "bad"}
FilterSpec == {s \in PlainSpec : s.value # "bad"}
DatabaseSpec == {s \in PlainSpec : s.value = "small"}
InviteSpec == PlainSpec
OrganizationMemberSpec == {s \in PlainSpec : s.value # "bad"}
ProjectMemberSpec == {s \in PlainSpec : s.value # "bad"}

SpecsOf(kind) ==
    CASE kind = "instance" -> InstanceSpec [] kind = "key" -> KeySpec [] kind = "filter" -> FilterSpec
      [] kind = "database" -> DatabaseSpec [] kind = "invite" -> InviteSpec
      [] kind = "orgmember" -> OrganizationMemberSpec [] kind = "projectmember" -> ProjectMemberSpec

SpecOf(o) == [name |-> o.name, value |-> o.value, may |-> o.may, destroy |-> o.destroy, hold |-> o.hold,
              format |-> o.format, sleep |-> o.sleep, multi |-> o.multi, import |-> o.import]

\* What a pass does next, on which id, reporting which phase.
Do(at, id, phase) == [at |-> at, id |-> id, phase |-> phase]
Stop == Do("idle", None, "")
Fail == Do("report", None, "Error")
Keep == Do("report", None, "keep")
Refuse == Do("report", None, "Refused")
Release == Do("release", None, "")

Alive(i) == i # None /\ cloud[i].kind = cr.kind
Fresh == cache = cr

---------------------------------------------------------------------------
(* What the controllers share.                                             *)

managementAllows(o, action) == action \in o.may

\* The id the annotation or, but for a live instance, the status recorded.
Recorded(o) == IF o.note # None THEN o.note ELSE o.id
Known(o) == IF o.kind = "instance" THEN (IF o.note # None THEN o.note ELSE o.import) ELSE Recorded(o)

Destroys(o) == o.destroy /\ managementAllows(o, "Delete")

resolveAuraCredentials(o) == env.creds /\ (o.kind = "database" => env.site = "known" /\ env.org)

\* Everything else a call needs once the finalizer is on.
Placed(o) == (o.kind # "instance" => env.org) /\ (o.kind = "filter" => env.site = "known")

auraRefusalRecorded_AnyGeneration(o) == o.phase \in {"Refused", "NoOrg"}

auraRefusalRecorded(o) == o.phase \in {"Refused", "NoOrg"} /\ o.seen = o.gen
Decide(o, stands, deletion) ==
    IF o.life = "deleting" THEN deletion
    ELSE IF ~resolveAuraCredentials(o) \/ ~Placed(o) THEN Fail
    ELSE IF o.kind \in Members THEN Do("list", None, "")
    ELSE IF Known(o) # None THEN Do("observe", Known(o), "")
    ELSE IF stands THEN Stop
    ELSE Do("list", None, "")

Deletion_NoWait(o, reaches) ==
    IF Recorded(o) = None \/ ~Destroys(o) \/ ~reaches THEN Release ELSE Do("destroy", Recorded(o), "")

Deletion_NeedsCredentials(o, reaches) ==
    IF Recorded(o) = None \/ ~Destroys(o) THEN Release
    ELSE IF reaches THEN Do("destroy", Recorded(o), "") ELSE Fail

\* A deletion calls Aura only to destroy what it recorded; when it cannot,
\* it waits until the grace period is over.
Deletion(o, reaches) ==
    IF Recorded(o) = None \/ ~Destroys(o) THEN Release
    ELSE IF reaches THEN Do("destroy", Recorded(o), "")
    ELSE IF env.late THEN Release ELSE Fail

Named(o) == {i \in Ids : cloud[i].kind = o.kind /\ cloud[i].name = o.name}
First(S) == CHOOSE i \in S : \A j \in S : i <= j
Adopt(o) == Do("record", First(Named(o)), "adopted")
Post == Do("create", None, "")

---------------------------------------------------------------------------
(* AuraInstance.                                                           *)

\* multiDatabase (and serverless analytics, which this model does not tell apart
\* from it) is created by the v2beta1 API alone; the field is immutable.
wantsV2Create(o) == o.multi

\* Only the refusal for want of an organization is looked at again.
refusalStands(o) == wantsV2Create(o) /\ auraRefusalRecorded(o) /\ ~(o.phase = "NoOrg" /\ env.org)

handleDeletionInstance_Unheld(o) == Deletion(o, env.creds)

handleDeletionInstance(o) == IF Destroys(o) /\ o.hold THEN Keep ELSE Deletion(o, env.creds)

ReconcileInstance(o) == IF o.halt THEN Keep ELSE Decide(o, refusalStands(o), handleDeletionInstance(o))

\* A spec only the v2beta1 API could create, and that it cannot: refused.
multiDatabaseCreateRequest(o) == IF o.value = "bad" THEN Refuse ELSE Post

createMultiDatabaseInstance(o) ==
    IF ~env.org THEN Do("report", None, "NoOrg") ELSE multiDatabaseCreateRequest(o)

\* A multi-database spec takes only an instance the v2beta1 API says is one.
verifyAdoptableAsMultiDatabase(o, i) == o.multi => env.org /\ cloud[i].multi

observeOrCreateInstance_Posts(o) ==
    IF ~managementAllows(o, "Create") THEN Keep ELSE Post

\* env.offers: the project offers the combination (GetTenant), and the instance
\* the spec is cloned from has an id (resolveSourceInstanceRef).
observeOrCreateInstance(o) ==
    IF Named(o) # {} THEN (IF verifyAdoptableAsMultiDatabase(o, First(Named(o))) THEN Adopt(o) ELSE Fail)
    ELSE IF ~managementAllows(o, "Create") THEN Keep
    ELSE IF ~env.offers THEN Fail
    ELSE IF wantsV2Create(o) THEN createMultiDatabaseInstance(o) ELSE Post

reconcileDriftInstance(o, r) ==
    r.state = "running" /\ (r.value # o.value \/ r.name # o.name)

reconcilePauseResume(o, r) ==
    (o.sleep /\ r.state = "running") \/ (~o.sleep /\ r.state = "paused")

syncStatusInstance(r) == IF r.state = "running" THEN "Ready" ELSE "Pending"

---------------------------------------------------------------------------
(* AuraCustomerManagedKey.                                                 *)

handleDeletionKey(o) == Deletion(o, env.creds)

ReconcileKey(o) == IF o.halt THEN Keep ELSE Decide(o, FALSE, handleDeletionKey(o))

observeOrCreateKey(o) ==
    IF Named(o) # {} THEN (IF cloud[First(Named(o))].value = o.value THEN Adopt(o) ELSE Fail)
    ELSE IF ~managementAllows(o, "Create") THEN Keep
    ELSE Post

syncStatusKey(r) == IF r.state = "running" THEN "Ready" ELSE "Pending"

---------------------------------------------------------------------------
(* AuraIPFilter.                                                           *)

handleDeletionFilter(o) == Deletion(o, env.creds /\ env.org)

ReconcileFilter(o) == IF o.halt THEN Keep ELSE Decide(o, FALSE, handleDeletionFilter(o))

observeOrCreateFilter(o) ==
    IF Named(o) # {} THEN Adopt(o) ELSE IF ~managementAllows(o, "Create") THEN Keep ELSE Post

reconcileDriftFilter(o, r) == r.value # o.value \/ r.name # o.name

---------------------------------------------------------------------------
(* AuraDatabase: Aura's list carries no names, so nothing is adopted.      *)

handleDeletionDatabase(o) ==
    IF env.site = "gone" THEN Release ELSE Deletion(o, resolveAuraCredentials(o))

ReconcileDatabase(o) ==
    IF o.halt THEN Stop
    ELSE Decide(o, auraRefusalRecorded(o), handleDeletionDatabase(o))

observeOrCreateDatabase(o) ==
    IF ~managementAllows(o, "Create") THEN Keep ELSE IF ~env.multi THEN Refuse ELSE Post

---------------------------------------------------------------------------
(* AuraInvite.                                                             *)

buildInviteRequest(o) == IF o.value = "bad" THEN Refuse ELSE Post

handleDeletionInvite(o) == Deletion(o, env.creds /\ env.org)

ReconcileInvite(o) ==
    IF o.halt THEN Stop
    ELSE Decide(o, buildInviteRequest(o) = Refuse /\ auraRefusalRecorded(o), handleDeletionInvite(o))

observeOrCreateInvite(o) ==
    IF Named(o) # {} THEN Adopt(o)
    ELSE IF ~managementAllows(o, "Create") THEN Do("report", None, "Pending")
    ELSE buildInviteRequest(o)

inviteStatusToPhase(r) == IF r.state = "revoked" THEN "Error" ELSE "Ready"

---------------------------------------------------------------------------
(* Members: a person is found by e-mail; only a project membership can be  *)
(* created, for somebody the organization already has.                     *)

handleDeletionMember(o) == Deletion(o, env.creds /\ env.org)

ReconcileOrganizationMember(o) == IF o.halt THEN Stop ELSE Decide(o, FALSE, handleDeletionMember(o))

findByEmailOrganization(o) ==
    IF Named(o) # {} THEN Do("observe", First(Named(o)), "") ELSE Do("report", None, "NotAMember")

ReconcileProjectMember(o) == IF o.halt THEN Stop ELSE Decide(o, FALSE, handleDeletionMember(o))

findByEmailProject(o) ==
    IF Named(o) # {} THEN Do("observe", First(Named(o)), "")
    ELSE IF ~env.hired \/ ~managementAllows(o, "Create") THEN Do("report", None, "NotAMember")
    ELSE Post

---------------------------------------------------------------------------
(* The pass.                                                               *)

Reconcile(o) ==
    CASE o.kind = "instance" -> ReconcileInstance(o)
      [] o.kind = "key" -> ReconcileKey(o)
      [] o.kind = "filter" -> ReconcileFilter(o)
      [] o.kind = "database" -> ReconcileDatabase(o)
      [] o.kind = "invite" -> ReconcileInvite(o)
      [] o.kind = "orgmember" -> ReconcileOrganizationMember(o)
      [] o.kind = "projectmember" -> ReconcileProjectMember(o)

ObserveOrCreate(o) ==
    CASE o.kind = "instance" -> observeOrCreateInstance(o)
      [] o.kind = "key" -> observeOrCreateKey(o)
      [] o.kind = "filter" -> observeOrCreateFilter(o)
      [] o.kind = "database" -> observeOrCreateDatabase(o)
      [] o.kind = "invite" -> observeOrCreateInvite(o)
      [] o.kind = "orgmember" -> findByEmailOrganization(o)
      [] o.kind = "projectmember" -> findByEmailProject(o)

\* Does what Aura keeps differ from the spec in a way the pass corrects?
Drifts(o, r) ==
    /\ managementAllows(o, "Update")
    /\ CASE o.kind = "instance" -> reconcileDriftInstance(o, r) \/ reconcilePauseResume(o, r)
         [] o.kind = "filter" -> reconcileDriftFilter(o, r)
         [] o.kind \in Members -> r.value # o.value
         [] OTHER -> FALSE

SyncStatus(o, r) ==
    CASE o.kind = "instance" -> syncStatusInstance(r)
      [] o.kind = "key" -> syncStatusKey(r)
      [] o.kind = "invite" -> inviteStatusToPhase(r)
      [] OTHER -> "Ready"

Goto(d) == IF d.at = "idle" THEN Idle ELSE [at |-> d.at, copy |-> pass.copy, id |-> d.id, phase |-> d.phase]

addFinalizer(o) == IF o.life = "live" /\ resolveAuraCredentials(o) /\ ~o.halt THEN [cr EXCEPT !.fin = TRUE] ELSE cr

\* Where the scene's cache does not trail, a pass reads the newest copy.
BeginPass ==
    /\ pass = Idle /\ (left.lag \/ Fresh) /\ cache.life # "gone"
    /\ cache.life = "deleting" => cache.fin
    /\ cr.life = "gone" => cache.fin
    /\ LET d == Reconcile(cache) IN
        /\ d # Stop
        /\ pass' = [at |-> d.at, copy |-> cache, id |-> d.id, phase |-> d.phase]
    /\ cr' = addFinalizer(cache)
    /\ UNCHANGED <<cache, cloud, secret, env, left>>

List ==
    /\ pass.at = "list"
    /\ pass' = Goto(ObserveOrCreate(pass.copy))
    /\ UNCHANGED <<cr, cache, cloud, secret, env, left>>

Free == {i \in Ids : cloud[i] = Nothing}

Made(o) ==
    [kind |-> o.kind, name |-> o.name, value |-> o.value, multi |-> o.multi, born |-> o.name,
     state |-> IF o.kind \in {"instance", "key"} THEN "pending" ELSE "running", next |-> "running"]

Create ==
    /\ pass.at = "create" /\ Free # {}
    /\ LET i == First(Free) IN
        /\ cloud' = [cloud EXCEPT ![i] = Made(pass.copy)]
        /\ pass' = IF cr.kind \in Members THEN Goto(Do("report", i, "Ready")) ELSE Goto(Do("record", i, "created"))
    /\ UNCHANGED <<cr, cache, secret, env, left>>

\* setExternalID reads the object from the cache, so its write conflicts until
\* the cache has caught up.
setExternalID ==
    /\ pass.at = "record" /\ Fresh /\ cr.life # "gone"
    /\ cr' = [cr EXCEPT !.note = pass.id]
    /\ pass' = Goto(Do(IF cr.kind = "instance" /\ pass.phase = "created" THEN "capture" ELSE "observe", pass.id, ""))
    /\ UNCHANGED <<cache, cloud, secret, env, left>>

existingPassword_Unread(o) == FALSE

existingPassword(o) == secret.password /\ secret.format = o.format

reconcileConnectionOutputs(o, password) == [format |-> o.format, password |-> password]

\* The create answer is the only one that carries the password.
Capture ==
    /\ pass.at = "capture"
    /\ \/ secret' = reconcileConnectionOutputs(pass.copy, TRUE) /\ UNCHANGED left
       \/ /\ left.unwritten > 0 /\ left' = [left EXCEPT !.unwritten = @ - 1]
          /\ UNCHANGED secret
    /\ pass' = Goto(Do("observe", pass.id, ""))
    /\ UNCHANGED <<cr, cache, cloud, env>>

Observe ==
    /\ pass.at = "observe"
    /\ LET o == pass.copy  r == cloud[pass.id]  found == r.kind = o.kind IN
        /\ pass' = IF ~found THEN (IF o.kind = "invite" THEN Goto(Do("report", pass.id, "Gone")) ELSE Idle)
                   ELSE IF Drifts(o, r) THEN Goto(Do("act", pass.id, ""))
                   ELSE Goto(Do("report", pass.id, SyncStatus(o, r)))
        /\ secret' = IF found /\ o.kind = "instance"
                     THEN reconcileConnectionOutputs(o, existingPassword(o)) ELSE secret
    /\ UNCHANGED <<cr, cache, cloud, env, left>>

\* One correction: the fields of a running resource, else its sleep.
Corrected(o, r) ==
    IF o.kind \in Members THEN [r EXCEPT !.value = o.value]
    ELSE IF o.kind = "filter" THEN [r EXCEPT !.value = o.value, !.name = o.name]
    ELSE IF reconcileDriftInstance(o, r)
         THEN [r EXCEPT !.value = o.value, !.name = o.name, !.state = "pending", !.next = "running"]
    ELSE [r EXCEPT !.state = "pending", !.next = IF o.sleep THEN "paused" ELSE "running"]

IsTransient(code) == code \in {"transport", "429", "5xx"}
IsConflict(code) == code = "409"
auraDeleteRefused(code) == ~IsConflict(code) /\ ~IsTransient(code)

\* What a pass does about an error of a list, a read or a create.
retryableAuraCall(o, at, code) ==
    IF IsTransient(code) \/ (IsConflict(code) /\ o.kind = "projectmember" /\ at = "create") THEN Stop
    ELSE IF code = "multi-db-only" /\ o.kind = "database" /\ at = "create" THEN Refuse
    ELSE Fail

\* What a deletion does about an error of its DELETE.
DeleteFailed(o, code) ==
    IF ~auraDeleteRefused(code) THEN Stop
    ELSE IF env.late THEN Release
    ELSE IF code = "key-active" THEN Keep ELSE Fail

AfterError(o, at, code) ==
    CASE at = "destroy" -> DeleteFailed(o, code)
      [] at = "act" -> IF IsTransient(code) \/ IsConflict(code) \/ o.kind \notin Members THEN Stop ELSE Fail
      [] OTHER -> retryableAuraCall(o, at, code)

Act ==
    /\ pass.at = "act"
    /\ IF Alive(pass.id)
       THEN /\ cloud' = [cloud EXCEPT ![pass.id] = Corrected(pass.copy, cloud[pass.id])]
            /\ pass' = IF cr.kind \in Members THEN Goto(Do("report", pass.id, "Ready")) ELSE Idle
       ELSE pass' = Goto(AfterError(pass.copy, "act", "404")) /\ UNCHANGED cloud
    /\ UNCHANGED <<cr, cache, secret, env, left>>

\* Every status writer stamps the generation of the object it reads, which
\* need not be the one the pass worked from.
Stamped(o) == [o EXCEPT !.seen = o.gen]
WithStatus(o, id, phase) == [Stamped(o) EXCEPT !.id = IF id = None THEN @ ELSE id, !.phase = phase]

writeStatusInstance_Next(o, id, phase) == [WithStatus(o, id, phase) EXCEPT !.seen = @ + 1]

writeStatusInstance(o, id, phase) == IF phase = "keep" THEN Stamped(o) ELSE WithStatus(o, id, phase)
writeStatusKey(o, id, phase) == IF phase = "keep" THEN Stamped(o) ELSE WithStatus(o, id, phase)
writeStatusFilter(o, id, phase) == IF phase = "keep" THEN Stamped(o) ELSE WithStatus(o, id, phase)
writeStatusDatabase(o, id, phase) == IF phase = "keep" THEN Stamped(o) ELSE WithStatus(o, id, phase)
setStatusInvite(o, id, phase) == WithStatus(o, id, phase)
setStatusOrganizationMember(o, id, phase) == WithStatus(o, id, phase)
setStatusProjectMember(o, id, phase) == WithStatus(o, id, phase)

Written(o, id, phase) ==
    CASE o.kind = "instance" -> writeStatusInstance(o, id, phase)
      [] o.kind = "key" -> writeStatusKey(o, id, phase)
      [] o.kind = "filter" -> writeStatusFilter(o, id, phase)
      [] o.kind = "database" -> writeStatusDatabase(o, id, phase)
      [] o.kind = "invite" -> setStatusInvite(o, id, phase)
      [] o.kind = "orgmember" -> setStatusOrganizationMember(o, id, phase)
      [] o.kind = "projectmember" -> setStatusProjectMember(o, id, phase)

\* The history notes a refusal stamped on a spec the pass never read.
Report ==
    /\ pass.at = "report"
    /\ \/ /\ Fresh /\ cr.life # "gone" /\ cr' = Written(cr, pass.id, pass.phase)
          /\ left' = [left EXCEPT !.over = pass.phase \in {"Refused", "NoOrg"} /\ pass.copy.gen # cr.gen]
       \/ cr.life = "gone" /\ UNCHANGED <<cr, left>>
    /\ pass' = Idle
    /\ UNCHANGED <<cache, cloud, secret, env>>

Destroyed(i) == [cloud EXCEPT ![i].kind = "destroyed"]

Destroy ==
    /\ pass.at = "destroy"
    /\ cloud' = IF Alive(pass.id) THEN Destroyed(pass.id) ELSE cloud
    /\ pass' = Goto(Release)
    /\ UNCHANGED <<cr, cache, secret, env, left>>

removeFinalizerAt ==
    /\ pass.at = "release"
    /\ cr' = IF cr.life = "gone" THEN cr ELSE [cr EXCEPT !.fin = FALSE, !.life = "gone"]
    /\ pass' = Idle
    /\ UNCHANGED <<cache, cloud, secret, env, left>>

---------------------------------------------------------------------------
(* What can go wrong with a call or a write.                               *)

Calls == {"list", "create", "observe", "act", "destroy"}

\* An error answer, or none: Aura did nothing.
CallFails ==
    /\ pass.at \in Calls
    /\ \E code \in left.codes :
        /\ code = "multi-db-only" => cr.kind = "database" /\ pass.at = "create"
        /\ code = "key-active" => cr.kind = "key" /\ pass.at = "destroy"
        /\ left' = [left EXCEPT !.codes = @ \ {code}]
        /\ pass' = Goto(AfterError(pass.copy, pass.at, code))
    /\ UNCHANGED <<cr, cache, cloud, secret, env>>

\* Aura did it and the answer never came.
AnswerLost ==
    /\ left.lost > 0 /\ left' = [left EXCEPT !.lost = @ - 1]
    /\ \/ pass.at = "create" /\ Free # {} /\ cloud' = [cloud EXCEPT ![First(Free)] = Made(pass.copy)]
       \/ pass.at = "act" /\ Alive(pass.id) /\ cloud' = [cloud EXCEPT ![pass.id] = Corrected(pass.copy, @)]
       \/ pass.at = "destroy" /\ Alive(pass.id) /\ cloud' = Destroyed(pass.id)
    /\ pass' = Idle
    /\ UNCHANGED <<cr, cache, secret, env>>

\* The conflict retries ran out on a trailing cache, or the object is gone.
WriteGivenUp ==
    /\ pass.at \in {"record", "report"}
    /\ (left.lag /\ ~Fresh) \/ (cr.life = "gone" /\ pass.at = "record")
    /\ pass' = Idle
    /\ UNCHANGED <<cr, cache, cloud, secret, env, left>>

Crash ==
    /\ left.crash > 0 /\ left' = [left EXCEPT !.crash = @ - 1]
    /\ pass' = Idle /\ cache' = cr
    /\ UNCHANGED <<cr, cloud, secret, env>>

Deliver == ~Fresh /\ cache' = cr /\ UNCHANGED <<cr, pass, cloud, secret, env, left>>

---------------------------------------------------------------------------
(* Aura, the editors and the clock.                                        *)

Settle ==
    /\ \E i \in Ids : /\ cloud[i].kind = cr.kind /\ cloud[i].state = "pending"
                      /\ cloud' = [cloud EXCEPT ![i].state = cloud[i].next]
    /\ UNCHANGED <<cr, cache, pass, secret, env, left>>

Spend(what) == what \in left.may /\ left' = [left EXCEPT !.may = @ \ {what}]

Edited(what) ==
    CASE what = "name" -> [cr EXCEPT !.name = "b", !.gen = @ + 1]
      [] what = "value" -> [cr EXCEPT !.value = "large", !.gen = @ + 1]
      [] what = "fix" -> [cr EXCEPT !.value = "small", !.gen = @ + 1]
      [] what = "format" -> [cr EXCEPT !.format = "servicebinding", !.gen = @ + 1]
      [] what = "sleep" -> [cr EXCEPT !.sleep = TRUE, !.gen = @ + 1]
      [] what = "wake" -> [cr EXCEPT !.sleep = FALSE, !.gen = @ + 1]
      [] what = "unhold" -> [cr EXCEPT !.hold = FALSE, !.gen = @ + 1]
      [] what = "halt" -> [cr EXCEPT !.halt = TRUE]
      [] what = "resume" -> [cr EXCEPT !.halt = FALSE]
      [] what = "delete" -> IF cr.fin THEN [cr EXCEPT !.life = "deleting"] ELSE [cr EXCEPT !.life = "gone"]

Edit ==
    /\ cr.life # "gone"
    /\ \E what \in left.may :
        /\ what \in {"name", "value", "fix", "format", "sleep", "wake", "unhold", "halt", "resume", "delete"}
        /\ what = "wake" => cr.sleep
        /\ what = "resume" => cr.halt
        /\ what = "unhold" => cr.life = "deleting"
        /\ what = "delete" => cr.life = "live"
        /\ cr' = Edited(what) /\ Spend(what)
    /\ UNCHANGED <<cache, pass, cloud, secret, env>>

\* Credentials, the organization, the host instance and the people of the
\* organization come and go.
Turn ==
    /\ \/ Spend("creds lost") /\ env' = [env EXCEPT !.creds = FALSE]
       \/ Spend("creds back") /\ ~env.creds /\ env' = [env EXCEPT !.creds = TRUE]
       \/ Spend("org set") /\ env' = [env EXCEPT !.org = TRUE]
       \/ Spend("site known") /\ env' = [env EXCEPT !.site = "known"]
       \/ Spend("site gone") /\ env' = [env EXCEPT !.site = "gone"]
       \/ Spend("hired") /\ env' = [env EXCEPT !.hired = TRUE]
       \/ Spend("offered") /\ env' = [env EXCEPT !.offers = TRUE]
    /\ cloud' = IF env'.hired /\ ~env.hired /\ cr.kind = "orgmember"
                THEN [cloud EXCEPT ![1] = [Made(cr) EXCEPT !.value = "large", !.born = ""]] ELSE cloud
    /\ UNCHANGED <<cr, cache, pass, secret>>

\* Somebody changes or destroys the resource in the Aura console, or revokes
\* the invite.
Console ==
    /\ \E i \in Ids : /\ cloud[i].kind = cr.kind /\ cloud[i].state = "running"
                      /\ \/ Spend("drift") /\ cloud' = [cloud EXCEPT ![i].value = "large"]
                         \/ Spend("removed") /\ cloud' = Destroyed(i)
                         \/ Spend("revoked") /\ cloud' = [cloud EXCEPT ![i].state = "revoked"]
    /\ UNCHANGED <<cr, cache, pass, secret, env>>

GraceOver ==
    /\ cr.life = "deleting" /\ ~env.late
    /\ env' = [env EXCEPT !.late = TRUE]
    /\ UNCHANGED <<cr, cache, pass, cloud, secret, left>>

Init ==
    \E s \in Scenes :
        /\ cr = s.cr /\ cache = s.cr /\ env = s.env /\ left = s.left
        /\ pass = Idle
        /\ cloud = [i \in Ids |-> IF i \in DOMAIN s.cloud THEN s.cloud[i] ELSE Nothing]
        /\ secret = [format |-> "none", password |-> FALSE]

Steps == BeginPass \/ List \/ Create \/ setExternalID \/ Capture \/ Observe \/ Act \/ Report \/ Destroy \/ removeFinalizerAt
Faults == CallFails \/ AnswerLost \/ WriteGivenUp \/ Crash
World == Settle \/ Edit \/ Turn \/ Console \/ GraceOver

Next == Steps \/ Faults \/ Deliver \/ World

Spec == Init /\ [][Next]_vars

\* The work queue runs every due pass to its end, an informer delivers, a
\* transition in Aura ends, the grace period passes.
Fairness == WF_vars(Steps) /\ WF_vars(WriteGivenUp) /\ WF_vars(Deliver) /\ WF_vars(Settle) /\ WF_vars(GraceOver)

FairSpec == Spec /\ Fairness

---------------------------------------------------------------------------
(* Properties.                                                             *)

\* Every variable keeps its shape, and no status is stamped with a generation
\* the spec has not had (every status writer sets observedGeneration).
TypeOK ==
    /\ cr.kind \in Kinds /\ cr.life \in {"live", "deleting", "gone"}
    /\ SpecOf(cr) \in SpecsOf(cr.kind) /\ cr.phase \in Phases /\ cr.seen \in 0..cr.gen
    /\ {cr.note, cr.id} \subseteq Ids \cup {None}
    /\ cache.gen <= cr.gen /\ cache.seen <= cache.gen
    /\ pass.at \in Calls \cup {"idle", "record", "capture", "report", "release"}
    /\ \A i \in Ids : cloud[i].kind \in Kinds \cup {"none", "destroyed"}
    /\ secret.password \in BOOLEAN /\ env.late \in BOOLEAN

\* An interrupted create is found again by its name: whatever crashes, late
\* copies and lost answers there are, a resource that can be adopted is
\* created once under one name (observeOrCreate lists before it creates).
OnePerName ==
    cr.kind # "database" =>
        \A i, j \in {k \in Ids : cloud[k].kind = cr.kind /\ cloud[k].born # ""} :
            cloud[i].born = cloud[j].born => i = j

\* The password Aura showed once, when it was captured, stays in the connection
\* Secret whatever pass rewrites it as long as spec.connectionSecretFormat keeps
\* its value: existingPassword looks for it under the new format's key only.
PasswordStep == secret.password /\ ~secret'.password => secret'.format # secret.format
PasswordKept == [][PasswordStep]_vars

\* The operator destroys something in Aura only on the deletion of a custom
\* resource that asks for it, is allowed to and is not protected
\* (handleDeletion of every kind).
DestroyStep ==
    \A i \in Ids : cloud[i].kind = cr.kind /\ cloud'[i].kind = "destroyed" /\ pass' # pass =>
       cr.life # "live" /\ Destroys(cr) /\ ~cr.hold
OnlyAskedDestroyed == [][DestroyStep]_vars

\* A custom resource that asked for its resource to be destroyed and whose
\* last pass knew the id leaves with the resource gone, unless the grace
\* period is over or the instance it lived on is gone.
LeaveStep ==
    cr.life = "deleting" /\ cr'.life = "gone" /\ Destroys(cr) /\ Recorded(pass.copy) # None =>
       ~Alive(Recorded(pass.copy)) \/ env.late \/ env.site = "gone"
RecordedDestroyed == [][LeaveStep]_vars

\* A deletion ends: at the latest once the grace period is over, with or
\* without credentials and whatever Aura answers; only a protected or halted
\* resource waits for its owner.
NoneDeleting == cr.life # "deleting" \/ cr.hold \/ cr.halt
DeletionEnds == <>[]NoneDeleting

\* What is asked for exists as asked, and the status says so for the newest
\* generation.
Served ==
    \E i \in IF cr.kind \in Members THEN Named(cr) ELSE {Known(cr)} \ {None} :
        /\ Alive(i) /\ ~Drifts(cr, cloud[i])
        /\ cr.id = i /\ cr.phase = SyncStatus(cr, cloud[i]) /\ cr.seen = cr.gen

\* The operator has been told to wait, cannot reach Aura, was refused what
\* the spec still asks, or the resource was removed in the console.
Excused ==
    \/ cr.life # "live" \/ cr.halt \/ ~resolveAuraCredentials(cr) \/ ~Placed(cr)
    \/ cr.phase = "Refused" /\ (cr.value = "bad" \/ cr.kind = "database")
    \/ cr.phase = "NoOrg" /\ ~env.org
    \/ /\ cr.kind = "instance" /\ cr.phase = "Error"
       /\ ~env.offers \/ \E i \in Named(cr) : ~verifyAdoptableAsMultiDatabase(cr, i)
    \/ Known(cr) # None /\ ~Alive(Known(cr))
    \/ /\ cr.phase = "NotAMember" /\ Named(cr) = {}
       /\ cr.kind = "orgmember" \/ ~env.hired \/ ~managementAllows(cr, "Create")
    \/ cr.kind \notin Members /\ Known(cr) = None /\ ~managementAllows(cr, "Create") /\ Named(cr) = {}
    \/ cr.kind = "key" /\ cr.phase = "Error" /\ \E i \in Named(cr) : cloud[i].value # cr.value

\* The refusal of one spec was stamped with the generation of the next, which
\* refusalStands takes for refused: fail reads the newest object.
Overtaken == cr.phase = "Refused" /\ left.over

\* Once the editors and the faults are done, the operator serves the custom
\* resource or is excused: a refused spec that was edited is tried again, unless
\* the edit landed while it was being refused; drift is corrected, an
\* interrupted create is taken up.
Converges == <>[](Served \/ Excused \/ Overtaken)
=============================================================================
