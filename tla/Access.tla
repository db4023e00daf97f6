------------------------------- MODULE Access -------------------------------
(***************************************************************************)
(* Who may do what: the Neo4jUser, Neo4jRoleBinding and Neo4jAuthRule      *)
(* controllers of one deployment.  A Neo4jUser owns the user "own": its    *)
(* password, its suspension and the whole set of its roles.  Bindings      *)
(* grant roles to the user "sso", which somebody else provisions.  An auth *)
(* rule grants roles to whoever satisfies its condition.  The three        *)
(* controllers, the role controller, an administrator and the editors of   *)
(* the custom resources act on the same Neo4j, statement by statement.     *)
(***************************************************************************)
EXTENDS Integers, FiniteSets, Sequences

CONSTANTS
    Roles,          \* role names, none of them built in
    CRNames,        \* metadata.names of Neo4jRoles called otherwise in Neo4j
    EffectiveName,  \* CR name -> the name of its role in Neo4j
    Bindings,       \* the Neo4jRoleBindings naming "sso"
    Scenes,         \* the scenes a behaviour may play: see Init
    Absent          \* no such user or rule in Neo4j

VARIABLES
    target,     \* the deployment: can it serve, does it support auth rules
    declared,   \* the roles a Neo4jRole declares
    roles,      \* the roles Neo4j has
    has,        \* user -> the roles Neo4j granted it, or Absent
    account,    \* what else Neo4j knows of "own": password and suspension
    rule,       \* the auth rule in Neo4j: condition and roles
    secret,     \* the version of the password Secret, 0 before it exists
    cr,         \* the custom resources, by owner
    seen,       \* the operator's cached copies of them
    pass,       \* the reconcile in progress of each controller
    asked,      \* roles some version of a binding's spec listed (history)
    left        \* what the scene still allows

vars == <<target, declared, roles, has, account, rule, secret, cr, seen, pass, asked, left>>

neo == <<roles, has, account, rule>>
world == <<target, declared, secret, seen>>
kube == <<world, cr>>

Kinds == {"user", "binding", "rule"}
Objects == {"user", "rule"} \cup Bindings
KindOf(o) == IF o \in Bindings THEN "binding" ELSE o
HolderOf(o) == IF o \in Bindings THEN "sso" ELSE "own"
Lives == {"new", "live", "deleting", "gone"}
Phases == {"none", "Pending", "Ready", "Failed"}
Idle == [at |-> "idle"]

TypeOK ==
    /\ declared \subseteq Roles /\ roles \subseteq Roles
    /\ DOMAIN has = {"own", "sso"}
    /\ \A h \in DOMAIN has : has[h] = Absent \/ has[h] \subseteq roles
    /\ account \in [password : 0..secret, suspended : BOOLEAN]
    /\ rule = Absent \/ (rule.condition \in {"c1", "c2"} /\ rule.roles \subseteq roles)
    /\ \A o \in Objects : /\ cr[o].life \in Lives /\ cr[o].roles \subseteq Roles \cup CRNames
                          /\ cr[o].granted \subseteq Roles /\ cr[o].token \in 0..secret
                          /\ cr[o].phase \in Phases /\ cr[o].settled \in BOOLEAN
    /\ \A k \in Kinds : pass[k].at \in
          {"idle", "show", "create", "alter", "record", "replace", "diff", "grant",
           "revoke", "finish", "undo", "release"}

(* Neo4jUserSpec, Neo4jRoleBindingSpec, Neo4jAuthRuleSpec and the part of
   their status a later pass reads: token is status.passwordSecretHash,
   granted is status.grantedRoles, settled says the Ready condition records
   an outcome of the object's own at its generation.                       *)
Resource(life, R, strict, retain) ==
    [life |-> life, roles |-> R, strict |-> strict, retain |-> retain,
     suspended |-> FALSE, condition |-> "c1", token |-> 0, granted |-> {},
     phase |-> "none", settled |-> FALSE]

Init ==
    \E sc \in Scenes :
       /\ left = sc.left /\ cr = sc.cr /\ seen = cr
       /\ declared = sc.declared /\ roles = sc.roles
       /\ has = [own |-> Absent, sso |-> sc.sso]
       /\ account = [password |-> 0, suspended |-> FALSE] /\ rule = Absent
       /\ secret = sc.secret /\ target = sc.target
       /\ pass = [k \in Kinds |-> Idle]
       /\ asked = [b \in Bindings |-> cr[b].roles]

Spend(what) == left[what] > 0 /\ left' = [left EXCEPT ![what] = @ - 1]

(* Every return of a Reconcile carries a requeue: the pass begins again. *)
EndPass(k) == pass' = [pass EXCEPT ![k] = Idle]
Go(k, step) == pass' = [pass EXCEPT ![k].at = step]

-----------------------------------------------------------------------------
(* What the controllers compute. *)

(* resolveRoleNames: a CR name stands for the role its Neo4jRole declares;
   anything else is a role name as it is.                                   *)
resolveRoleNames(desired) ==
    {IF n \in CRNames /\ EffectiveName[n] \in declared THEN EffectiveName[n] ELSE n : n \in desired}

(* missingRoles: neither a Neo4jRole declares it nor SHOW ROLES lists it. *)
missingRoles(desired, current) == desired \ (declared \cup roles \cup current)

(* passwordRotationDue and computeAlter: the clauses of the ALTER USER. *)
passwordRotationDue(u, token) == u.token # token
computeAlter(u, token) ==
    [password  |-> passwordRotationDue(u, token),
     suspended |-> account.suspended # u.suspended]

(* settledAtGeneration and recordTargetWait: an object that has an outcome at
   its generation keeps it while its target is away, any other is Pending.   *)
settledAtGeneration(c) == c.settled /\ c.phase # "none"
recordTargetWait_Demotes(c) == [c EXCEPT !.phase = "Pending", !.settled = FALSE]
recordTargetWait(c) == IF settledAtGeneration(c) THEN c ELSE [c EXCEPT !.phase = "Pending", !.settled = FALSE]

(* The status writers read the object again and stamp the generation they
   find, which may be newer than the one the pass worked from.              *)
WithStatus_Sticky(c, phase) == IF c.phase = "Failed" THEN c ELSE [c EXCEPT !.phase = phase, !.settled = TRUE]
WithStatus(c, phase) == [c EXCEPT !.phase = phase, !.settled = TRUE]
WithUserStatus(c, phase, token) == [WithStatus(c, phase) EXCEPT !.token = IF token = 0 THEN @ ELSE token]
WithBindingStatus(c, phase, granted) == [WithStatus(c, phase) EXCEPT !.granted = granted]
WriteStatus(o, c) == (cr' = [cr EXCEPT ![o] = c] /\ UNCHANGED left) \/ (Spend("lost") /\ UNCHANGED cr)

(* diffRoles of the user, which owns the whole set, and of the binding. *)
diffUserRoles(desired, current) ==
    [add  |-> (desired \ current) \ missingRoles(desired, current), drop |-> current \ desired]
diffBindingRoles(copy, desired, current) ==
    [add  |-> (desired \ current) \ missingRoles(desired, current),
     drop |-> (IF copy.strict THEN current \ desired ELSE {}) \cup (copy.granted \ desired)]

-----------------------------------------------------------------------------
(* What the three controllers share. *)

(* Up, away for a while, gone with its volumes, or gone while they are kept. *)
Serves == target.state = "up"
Found == target.state \in {"up", "away"}
At(k, step) == pass[k].at = step /\ Serves

AddFinalizer(o) ==
    /\ pass[KindOf(o)].at = "idle" /\ seen[o].life = "new"
    /\ cr' = [cr EXCEPT ![o].life = IF @ = "new" THEN "live" ELSE @]
    /\ UNCHANGED <<neo, world, pass, asked, left>>

(* A target that does not exist is waited for in Pending, whatever the object
   had reached (ClusterNotFound).                                           *)
TargetNotFound(o) ==
    /\ ~Found /\ pass[KindOf(o)].at = "idle" /\ seen[o].life = "live"
    /\ cr' = [cr EXCEPT ![o].phase = "Pending", ![o].settled = FALSE]
    /\ UNCHANGED <<neo, world, pass, asked, left>>

(* The target cannot serve, before the pass connects or in the middle of it
   (waitForTarget, unreachable): past the grace it counts as a failure.     *)
Waits(o) ==
    LET k == KindOf(o) IN
    /\ ~Serves
    /\ \/ pass[k].at = "idle" /\ seen[o].life = "live" /\ Found /\ (o = "user" => secret > 0)
       \/ pass[k].at \notin {"idle", "undo", "release"} /\ pass[k].o = o
    /\ EndPass(k)
    /\ \/ cr' = [cr EXCEPT ![o] = recordTargetWait(@)] /\ UNCHANGED left
       \/ Spend("lasting") /\ cr' = [cr EXCEPT ![o] = WithStatus(@, "Failed")]
    /\ UNCHANGED <<neo, world, asked>>

(* A statement Neo4j refuses, or one that fails for a while: the pass stops
   where it is and the status says so (fail).                               *)
Fails(k, refused) ==
    /\ pass[k].at \notin {"idle", "undo", "release"} /\ Serves
    /\ (refused /\ UNCHANGED left) \/ Spend("faults")
    /\ cr' = [cr EXCEPT ![pass[k].o] = WithStatus(@, "Failed")] /\ EndPass(k)
    /\ UNCHANGED <<neo, world, asked>>

(* The next role statement names a user or a role Neo4j does not have. *)
RoleRefused(k) ==
    \/ pass[k].at = "grant" /\ pass[k].add # {} /\ (has[HolderOf(pass[k].o)] = Absent \/ pass[k].add \cap roles = {})
    \/ pass[k].at = "revoke" /\ pass[k].drop # {} /\ (has[HolderOf(pass[k].o)] = Absent \/ pass[k].drop \cap roles = {})

-----------------------------------------------------------------------------
(* Neo4jUser *)

WaitUser == TargetNotFound("user") \/ Waits("user")
FailUser == Fails("user", RoleRefused("user") \/ (pass.user.at = "alter" /\ has.own = Absent))

(* The password Secret is awaited once the deployment exists. *)
AwaitSecret ==
    /\ pass.user.at = "idle" /\ Found /\ seen.user.life = "live" /\ secret = 0
    /\ cr' = [cr EXCEPT !.user.phase = "Pending", !.user.settled = FALSE]
    /\ UNCHANGED <<neo, world, pass, asked, left>>

BeginUser ==
    /\ At("user", "idle") /\ seen.user.life = "live" /\ secret > 0
    /\ pass' = [pass EXCEPT !.user = [at |-> "show", o |-> "user", copy |-> seen.user, token |-> secret,
                                      desired |-> {}, current |-> {}, add |-> {}, drop |-> {},
                                      alter |-> computeAlter(seen.user, secret)]]
    /\ UNCHANGED <<neo, kube, asked, left>>

ShowUser ==
    /\ At("user", "show")
    /\ LET alter == computeAlter(pass.user.copy, pass.user.token) IN
       pass' = [pass EXCEPT !.user.alter = alter,
                   !.user.current = IF has.own = Absent THEN {} ELSE has.own,
                   !.user.at = IF has.own = Absent THEN "create"
                               ELSE IF alter.password \/ alter.suspended THEN "alter" ELSE "diff"]
    /\ UNCHANGED <<neo, kube, asked, left>>

(* CREATE USER ... IF NOT EXISTS *)
CreateUserAdvanced ==
    /\ At("user", "create")
    /\ has' = [has EXCEPT !.own = IF @ = Absent THEN {} ELSE @]
    /\ account' = IF has.own # Absent THEN account
                  ELSE [password |-> pass.user.token, suspended |-> pass.user.copy.suspended]
    /\ Go("user", "record")
    /\ UNCHANGED <<roles, rule, kube, asked, left>>

(* One compound ALTER USER; Neo4j refuses the whole of it when the password
   it sets is the one the user has, and then it is recorded as applied.     *)
AlterUser ==
    /\ At("user", "alter") /\ has.own # Absent
    /\ LET alter == pass.user.alter
           same == alter.password /\ account.password = pass.user.token
       IN  account' = IF same THEN account
                      ELSE [password |-> IF alter.password THEN pass.user.token ELSE account.password,
                            suspended |-> IF alter.suspended THEN pass.user.copy.suspended
                                          ELSE account.suspended]
    /\ Go("user", IF pass.user.alter.password THEN "record" ELSE "diff")
    /\ UNCHANGED <<roles, has, rule, kube, asked, left>>

(* passwordApplied: the token of the Secret READ, whatever it is by now; a
   failed write is not fatal, the next pass sets the password again.         *)
passwordApplied_Current ==
    /\ pass.user.at = "record"
    /\ cr' = [cr EXCEPT !.user.token = secret] /\ Go("user", "diff")
    /\ UNCHANGED <<neo, world, asked, left>>
passwordApplied ==
    /\ pass.user.at = "record"
    /\ WriteStatus("user", [cr.user EXCEPT !.token = pass.user.token])
    /\ Go("user", "diff")
    /\ UNCHANGED <<neo, world, asked>>

PlanUserRoles ==
    /\ At("user", "diff")
    /\ LET desired == resolveRoleNames(pass.user.copy.roles)
           current == IF pass.user.current = {} /\ has.own # Absent THEN has.own ELSE pass.user.current
           d == diffUserRoles(desired, current)
       IN  pass' = [pass EXCEPT !.user.at = "grant", !.user.desired = desired, !.user.current = current,
                                !.user.add = d.add, !.user.drop = d.drop]
    /\ UNCHANGED <<neo, kube, asked, left>>

-----------------------------------------------------------------------------
(* Roles of a user, granted and revoked one statement at a time: the same
   code twice, in the user's and in the binding's controller.               *)

GrantRoleToUser(k) ==
    /\ At(k, "grant") /\ k # "rule"
    /\ LET h == HolderOf(pass[k].o) IN
       \/ pass[k].add = {} /\ Go(k, "revoke") /\ UNCHANGED has
       \/ /\ has[h] # Absent
          /\ \E r \in pass[k].add \cap roles :
                /\ has' = [has EXCEPT ![h] = @ \cup {r}]
                /\ pass' = [pass EXCEPT ![k].add = @ \ {r}]
    /\ UNCHANGED <<roles, account, rule, kube, asked, left>>

RevokeRoleFromUser(k) ==
    /\ At(k, "revoke") /\ k # "rule"
    /\ LET h == HolderOf(pass[k].o) IN
       \/ pass[k].drop = {} /\ Go(k, "finish") /\ UNCHANGED has
       \/ /\ has[h] # Absent
          /\ \E r \in pass[k].drop \cap roles :
                /\ has' = [has EXCEPT ![h] = @ \ {r}]
                /\ pass' = [pass EXCEPT ![k].drop = @ \ {r}]
    /\ UNCHANGED <<roles, account, rule, kube, asked, left>>

(* ListUserRoles, the roles read again at the end: none for a user that is
   gone by then, those the pass began with when they cannot be read.        *)
FinalRoles(k, read) ==
    IF ~read THEN pass[k].current
    ELSE IF has[HolderOf(pass[k].o)] = Absent THEN {} ELSE has[HolderOf(pass[k].o)]

(* The last write of a pass, after a read that succeeded or not. *)
Conclude(k, done, undone) ==
    /\ At(k, "finish") /\ EndPass(k)
    /\ \/ WriteStatus(pass[k].o, done)
       \/ Spend("faults") /\ cr' = [cr EXCEPT ![pass[k].o] = undone]
    /\ UNCHANGED <<neo, world, asked>>

(* Ready when what is granted is what is wanted; the token is repeated. *)
UserOutcome(p, read) ==
    WithUserStatus(cr.user, IF FinalRoles("user", read) = p.desired THEN "Ready" ELSE "Pending", p.token)
FinishUser == Conclude("user", UserOutcome(pass.user, TRUE), UserOutcome(pass.user, FALSE))

-----------------------------------------------------------------------------
(* Neo4jRoleBinding *)

WaitBinding(b) == TargetNotFound(b) \/ Waits(b)
FailBinding == Fails("binding", RoleRefused("binding"))

BeginBinding_Changed(b) ==
    /\ At("binding", "idle") /\ seen[b].life = "live" /\ seen[b].granted # seen[b].roles
    /\ pass' = [pass EXCEPT !.binding = [at |-> "show", o |-> b, copy |-> seen[b], desired |-> {},
                                         current |-> {}, add |-> {}, drop |-> {}]]
    /\ UNCHANGED <<neo, kube, asked, left>>
BeginBinding(b) ==
    /\ At("binding", "idle") /\ seen[b].life = "live"
    /\ pass' = [pass EXCEPT !.binding = [at |-> "show", o |-> b, copy |-> seen[b], desired |-> {},
                                         current |-> {}, add |-> {}, drop |-> {}]]
    /\ UNCHANGED <<neo, kube, asked, left>>

(* A binding never creates its user: reportUserNotFound waits for it. *)
LookUpUser ==
    /\ At("binding", "show")
    /\ IF has.sso = Absent
       THEN /\ WriteStatus(pass.binding.o, WithStatus(cr[pass.binding.o], "Pending")) /\ EndPass("binding")
       ELSE /\ pass' = [pass EXCEPT !.binding.at = "diff", !.binding.current = has.sso]
            /\ UNCHANGED <<cr, left>>
    /\ UNCHANGED <<neo, world, asked>>

PlanBindingRoles ==
    /\ At("binding", "diff")
    /\ LET desired == resolveRoleNames(pass.binding.copy.roles)
           d == diffBindingRoles(pass.binding.copy, desired, pass.binding.current)
       IN  pass' = [pass EXCEPT !.binding.at = "grant", !.binding.desired = desired,
                                !.binding.add = d.add, !.binding.drop = d.drop]
    /\ UNCHANGED <<neo, kube, asked, left>>

GrantedNow_All(p, read) == FinalRoles("binding", read)
(* What the binding records as granted: the roles the user is seen to have
   among those it asks for.                                                 *)
GrantedNow(p, read) == FinalRoles("binding", read) \cap p.desired

BindingOutcome(p, read) ==
    LET granted == GrantedNow(p, read) IN
    WithBindingStatus(cr[p.o], IF granted = p.desired THEN "Ready" ELSE "Pending", granted)
FinishBinding == Conclude("binding", BindingOutcome(pass.binding, TRUE), BindingOutcome(pass.binding, FALSE))

-----------------------------------------------------------------------------
(* Neo4jAuthRule *)

WaitRule == TargetNotFound("rule") \/ Waits("rule")
FailRule == Fails("rule", \/ pass.rule.at = "grant" /\ (rule = Absent \/ ~(pass.rule.add \subseteq roles))
                          \/ pass.rule.at = "revoke" /\ rule = Absent)

(* A version before 2026.03 is a failure, no OIDC provider is a wait: both
   are read from the target's spec, without a connection.                   *)
RuleRefusedByTarget ==
    /\ At("rule", "idle") /\ seen.rule.life = "live" /\ target.rules # "ok"
    /\ WriteStatus("rule", WithStatus(cr.rule, IF target.rules = "old" THEN "Failed" ELSE "Pending"))
    /\ UNCHANGED <<neo, world, pass, asked>>

BeginRule_Changed ==
    /\ At("rule", "idle") /\ seen.rule.life = "live" /\ target.rules = "ok"
    /\ (IF rule = Absent THEN TRUE ELSE rule.condition # seen.rule.condition)
    /\ pass' = [pass EXCEPT !.rule =
          [at |-> "replace", o |-> "rule", copy |-> seen.rule, missing |-> missingRoles(seen.rule.roles, {}),
           current |-> {}, add |-> {}, drop |-> {}]]
    /\ UNCHANGED <<neo, kube, asked, left>>
(* findMissingRoles and ShowAuthRule, read one after the other. *)
BeginRule ==
    /\ At("rule", "idle") /\ seen.rule.life = "live" /\ target.rules = "ok"
    /\ pass' = [pass EXCEPT !.rule =
          [at |-> IF rule # Absent /\ rule.condition = seen.rule.condition
                  THEN "diff" ELSE "replace",
           o |-> "rule", copy |-> seen.rule,
           missing |-> missingRoles(seen.rule.roles, {}),
           current |-> IF rule # Absent THEN rule.roles ELSE {}, add |-> {}, drop |-> {}]]
    /\ UNCHANGED <<neo, kube, asked, left>>

(* CREATE OR REPLACE AUTH RULE wipes the grants: the baseline is reset. *)
CreateOrReplaceAuthRule ==
    /\ At("rule", "replace")
    /\ rule' = [condition |-> pass.rule.copy.condition, roles |-> {}]
    /\ pass' = [pass EXCEPT !.rule.at = "diff", !.rule.current = {}]
    /\ UNCHANGED <<roles, has, account, kube, asked, left>>

diffRolesSimple(p) ==
    [add  |-> (p.copy.roles \ p.missing) \ p.current,
     drop |-> IF p.copy.strict THEN p.current \ p.copy.roles ELSE {}]

PlanRule ==
    /\ At("rule", "diff")
    /\ LET d == diffRolesSimple(pass.rule) IN
       pass' = [pass EXCEPT !.rule.at = "grant", !.rule.add = d.add, !.rule.drop = d.drop]
    /\ UNCHANGED <<neo, kube, asked, left>>

(* One statement grants all that is missing, one revokes all that is too
   much; a statement naming a role Neo4j does not have is refused whole.    *)
GrantRolesToAuthRule ==
    /\ At("rule", "grant") /\ rule # Absent /\ pass.rule.add \subseteq roles
    /\ rule' = [rule EXCEPT !.roles = @ \cup pass.rule.add] /\ Go("rule", "revoke")
    /\ UNCHANGED <<roles, has, account, kube, asked, left>>

RevokeRolesFromAuthRule ==
    /\ At("rule", "revoke") /\ rule # Absent
    /\ rule' = [rule EXCEPT !.roles = @ \ pass.rule.drop] /\ Go("rule", "finish")
    /\ UNCHANGED <<roles, has, account, kube, asked, left>>

(* The rule is read again: Ready when its roles are those of the spec, which
   is taken for granted when it cannot be read.  A rule that is not there by
   then is a nil the code follows: the pass ends in a recovered panic.      *)
RuleOutcome(p, applied) ==
    WithStatus(cr.rule, IF applied = p.copy.roles /\ p.missing = {} THEN "Ready" ELSE "Pending")
FinishRule ==
    \/ /\ rule # Absent
       /\ Conclude("rule", RuleOutcome(pass.rule, rule.roles), RuleOutcome(pass.rule, pass.rule.copy.roles))
    \/ /\ rule = Absent /\ At("rule", "finish") /\ EndPass("rule")
       /\ UNCHANGED <<neo, kube, asked, left>>

-----------------------------------------------------------------------------
(* Deletion *)

(* Retain, nothing recorded as granted, a target gone with its volumes, or
   one too old to hold a rule: nothing to undo.  A target gone while its
   volumes are kept still holds it, and the deletion waits (Blocked).       *)
NothingToUndo(o, copy) ==
    \/ copy.retain \/ (o \in Bindings /\ copy.granted = {})
    \/ target.state = "gone" \/ (o = "rule" /\ target.rules = "old")

BeginDeletion_NeedsUser(o) ==
    /\ pass[KindOf(o)].at = "idle" /\ seen[o].life = "deleting" /\ has[HolderOf(o)] # Absent
    /\ pass' = [pass EXCEPT ![KindOf(o)] =
                   [at |-> IF NothingToUndo(o, seen[o]) THEN "release" ELSE "undo",
                    o |-> o, copy |-> seen[o], drop |-> seen[o].granted]]
    /\ UNCHANGED <<neo, kube, asked, left>>
BeginDeletion(o) ==
    /\ pass[KindOf(o)].at = "idle" /\ seen[o].life = "deleting"
    /\ pass' = [pass EXCEPT ![KindOf(o)] =
                   [at |-> IF NothingToUndo(o, seen[o]) THEN "release" ELSE "undo",
                    o |-> o, copy |-> seen[o], drop |-> seen[o].granted]]
    /\ UNCHANGED <<neo, kube, asked, left>>

DropUser ==
    /\ At("user", "undo") /\ has' = [has EXCEPT !.own = Absent] /\ Go("user", "release")
    /\ UNCHANGED <<roles, account, rule, kube, asked, left>>

DropAuthRule ==
    /\ At("rule", "undo") /\ rule' = Absent /\ Go("rule", "release")
    /\ UNCHANGED <<roles, has, account, kube, asked, left>>

(* REVOKE ROLE for each recorded grant; one that finds nothing is done. *)
RevokeGranted ==
    /\ At("binding", "undo")
    /\ \/ \E r \in pass.binding.drop :
             /\ has' = [has EXCEPT !.sso = IF @ = Absent THEN Absent ELSE @ \ {r}]
             /\ pass' = [pass EXCEPT !.binding.drop = @ \ {r}]
       \/ pass.binding.drop = {} /\ Go("binding", "release") /\ UNCHANGED has
    /\ UNCHANGED <<roles, account, rule, kube, asked, left>>

(* deletionCleanup: a cleanup its target cannot run, or whose statement
   fails, waits; past the grace period the finalizer is released and what
   the cleanup would have removed stays.                                    *)
Blocked(k) ==
    /\ pass[k].at = "undo"
    /\ \/ /\ (~Serves /\ UNCHANGED left) \/ Spend("faults")
          /\ EndPass(k) /\ cr' = [cr EXCEPT ![pass[k].o] = WithStatus(@, "Failed")]
       \/ ~Serves /\ Spend("lasting") /\ Go(k, "release") /\ UNCHANGED cr
    /\ UNCHANGED <<neo, world, asked>>

(* A patch that names no resourceVersion: a stale copy releases as well. *)
Release(k) ==
    /\ pass[k].at = "release" /\ EndPass(k)
    /\ \/ cr' = [cr EXCEPT ![pass[k].o].life = "gone"] /\ UNCHANGED left
       \/ Spend("lost") /\ UNCHANGED cr
    /\ UNCHANGED <<neo, world, asked>>

UserController ==
    \/ AddFinalizer("user") \/ WaitUser \/ FailUser \/ AwaitSecret \/ BeginUser \/ ShowUser
    \/ CreateUserAdvanced \/ AlterUser \/ passwordApplied \/ PlanUserRoles
    \/ GrantRoleToUser("user") \/ RevokeRoleFromUser("user") \/ FinishUser
    \/ BeginDeletion("user") \/ DropUser \/ Blocked("user") \/ Release("user")
BindingSteps ==
    \/ FailBinding \/ LookUpUser \/ PlanBindingRoles \/ GrantRoleToUser("binding")
    \/ RevokeRoleFromUser("binding") \/ FinishBinding
    \/ RevokeGranted \/ Blocked("binding") \/ Release("binding")
BindingBegins(b) == AddFinalizer(b) \/ WaitBinding(b) \/ BeginBinding(b) \/ BeginDeletion(b)
RuleController ==
    \/ AddFinalizer("rule") \/ WaitRule \/ FailRule \/ RuleRefusedByTarget \/ BeginRule
    \/ CreateOrReplaceAuthRule \/ PlanRule \/ GrantRolesToAuthRule
    \/ RevokeRolesFromAuthRule \/ FinishRule
    \/ BeginDeletion("rule") \/ DropAuthRule \/ Blocked("rule") \/ Release("rule")

-----------------------------------------------------------------------------
(* The world around the controllers. *)

UserEdits(o) ==
    /\ cr[o].life = "live" /\ Spend("edits")
    /\ \E new \in { [cr[o] EXCEPT !.roles = R] : R \in SUBSET Roles \ {{}} }
               \cup {[cr[o] EXCEPT !.suspended = TRUE], [cr[o] EXCEPT !.condition = "c2"]} :
          /\ new # cr[o] /\ (new.suspended => o = "user") /\ (new.condition = "c2" => o = "rule")
          /\ cr' = [cr EXCEPT ![o] = [new EXCEPT !.settled = FALSE]]
    /\ asked' = [b \in Bindings |-> asked[b] \cup cr'[b].roles]
    /\ UNCHANGED <<neo, world, pass>>

UserDeletes(o) ==
    /\ cr[o].life \in {"new", "live"} /\ Spend("deletes")
    /\ cr' = [cr EXCEPT ![o].life = IF @ = "new" THEN "gone" ELSE "deleting"]
    /\ UNCHANGED <<neo, world, pass, asked>>

SecretRotates ==
    /\ Spend("rotations") /\ secret' = secret + 1
    /\ UNCHANGED <<neo, target, declared, cr, seen, pass, asked>>

(* The role controller creates what a Neo4jRole declares. *)
RoleCreated(r) ==
    /\ Serves /\ r \in declared \ roles /\ roles' = roles \cup {r}
    /\ UNCHANGED <<has, account, rule, kube, pass, asked, left>>

RoleDeclared ==
    /\ Spend("declares") /\ \E r \in Roles \ declared : declared' = declared \cup {r}
    /\ UNCHANGED <<neo, target, secret, cr, seen, pass, asked>>

(* DROP ROLE takes the role from everyone who holds it. *)
RoleDropped ==
    /\ Serves /\ Spend("roleDrops")
    /\ \E r \in roles :
          /\ roles' = roles \ {r}
          /\ has' = [h \in DOMAIN has |-> IF has[h] = Absent THEN Absent ELSE has[h] \ {r}]
          /\ rule' = IF rule = Absent THEN Absent ELSE [rule EXCEPT !.roles = @ \ {r}]
    /\ UNCHANGED <<account, kube, pass, asked>>

(* An administrator, or the identity provider, changes a user by hand. *)
AdminActs ==
    /\ Serves /\ Spend("hand")
    /\ \/ has.sso = Absent /\ has' = [has EXCEPT !.sso = {}] /\ UNCHANGED rule
       \/ \E h \in DOMAIN has, r \in roles :
             /\ has[h] # Absent /\ r \notin has[h]
             /\ has' = [has EXCEPT ![h] = @ \cup {r}]
             /\ UNCHANGED rule
       \/ has.own # Absent /\ has' = [has EXCEPT !.own = Absent] /\ UNCHANGED rule
       \/ rule # Absent /\ rule' = Absent /\ UNCHANGED has
    /\ UNCHANGED <<roles, account, kube, pass, asked>>

(* The deployment restarts, is upgraded, is given a provider, or goes: with
   its volumes and everything Neo4j held, or without.                       *)
TargetMoves ==
    /\ Spend("target")
    /\ \/ target.state = "up" /\ target' \in {[target EXCEPT !.state = t] : t \in {"away", "kept"}} /\ UNCHANGED neo
       \/ target.rules # "ok" /\ UNCHANGED neo
          /\ target' = [target EXCEPT !.rules = IF @ = "old" THEN "noProvider" ELSE "ok"]
       \/ /\ Found /\ target' = [target EXCEPT !.state = "gone"]
          /\ roles' = {} /\ has' = [own |-> Absent, sso |-> Absent] /\ rule' = Absent /\ UNCHANGED account
    /\ UNCHANGED <<declared, secret, cr, seen, pass, asked>>

TargetReturns ==
    /\ ~Serves /\ target' = [target EXCEPT !.state = "up"]
    /\ UNCHANGED <<neo, declared, secret, cr, seen, pass, asked, left>>

Sync(o) ==
    /\ seen[o] # cr[o] /\ seen' = [seen EXCEPT ![o] = cr[o]]
    /\ UNCHANGED <<neo, target, declared, secret, cr, pass, asked, left>>

Restart ==
    /\ \E k \in Kinds : pass[k].at # "idle"
    /\ Spend("faults") /\ pass' = [k \in Kinds |-> Idle] /\ seen' = cr
    /\ UNCHANGED <<neo, target, declared, secret, cr, asked>>

Next ==
    \/ UserController \/ BindingSteps \/ RuleController
    \/ \E b \in Bindings : BindingBegins(b)
    \/ \E o \in Objects : UserEdits(o) \/ UserDeletes(o) \/ Sync(o)
    \/ TargetMoves \/ TargetReturns \/ SecretRotates \/ RoleDeclared \/ RoleDropped \/ AdminActs \/ Restart
    \/ \E r \in Roles : RoleCreated(r)

Spec == Init /\ [][Next]_vars

(* Each controller's worker goes on and every object is requeued; informers
   catch up; the role controller creates what is declared; an outage ends.  *)
Fairness ==
    /\ WF_vars(UserController) /\ WF_vars(BindingSteps) /\ WF_vars(RuleController)
    /\ \A b \in Bindings : SF_vars(BindingBegins(b))
    /\ WF_vars(\E o \in Objects : Sync(o)) /\ WF_vars(\E r \in Roles : RoleCreated(r))
    /\ WF_vars(TargetReturns)
FairSpec == Spec /\ Fairness

-----------------------------------------------------------------------------
(* Neo4jUser.Reconcile: once the edits, rotations and hand changes stop, the
   user has the password of the latest Secret, the wanted suspension and
   exactly the roles of its spec that exist, whatever failed on the way.    *)
UserSettled ==
    cr.user.life = "live" /\ secret > 0 =>
        /\ has.own = resolveRoleNames(cr.user.roles) \cap roles
        /\ account = [password |-> secret, suspended |-> cr.user.suspended]
UserSettles == <>[]UserSettled

(* Neo4jRoleBinding.Reconcile: once edits stop, the user has every existing
   role any live binding asks for, even when another binding that recorded
   the same role was edited or deleted and revoked it; with enforceExclusive
   it has no other.                                                         *)
BindingHolds ==
    has.sso # Absent =>
        \A b \in Bindings : cr[b].life = "live" =>
           LET wanted == resolveRoleNames(cr[b].roles) IN
           /\ wanted \cap roles \subseteq has.sso
           /\ cr[b].strict => has.sso \subseteq wanted
BindingHeld == <>[]BindingHolds

(* writeStatus, waitForTarget and fail of the three: what the status says in
   the end is true.  Ready is written at a generation the pass may not have
   worked from, kept through an outage and replaced by a failure, but once
   things are quiet an object is Ready exactly when all it asks for exists. *)
ReadyIsTrue ==
    /\ cr.user.life = "live" =>
          (cr.user.phase = "Ready" <=> secret > 0 /\ resolveRoleNames(cr.user.roles) \subseteq roles)
    /\ \A b \in Bindings : cr[b].life = "live" =>
          (cr[b].phase = "Ready" <=> has.sso # Absent /\ resolveRoleNames(cr[b].roles) \subseteq roles)
    /\ cr.rule.life = "live" =>
          (cr.rule.phase = "Ready" <=> target.rules = "ok" /\ cr.rule.roles \subseteq roles)
ReadyTellsTruth == <>[]ReadyIsTrue

(* recordTargetWait: an object that is Ready at its generation does not lose
   Ready to a target that is there but does not serve, for less than the
   grace, whichever step of whichever pass meets the outage.  (A target that
   does not exist takes Ready at once: TargetNotFound.)                     *)
ReadyStep ==
    \A o \in Objects : (/\ target.state = "away" /\ cr[o].life = "live" /\ cr[o].phase = "Ready"
                         /\ cr[o].settled /\ left' = left) => cr'[o].phase = "Ready"
OutageKeepsReady == [][ReadyStep]_vars

(* handleDeletion and diffRoles of the binding: without enforceExclusive no
   step of the binding controller revokes a role that no version of the
   binding's spec listed.  Of a role it did list it does not ask who granted
   it: a role a hand gave first goes with the binding too.                  *)
RevokeStep ==
    \A r \in Roles :
       (/\ has.sso # Absent /\ has'.sso # Absent /\ roles' = roles
        /\ r \in has.sso \ has'.sso /\ ~pass.binding.copy.strict)
       => \E n \in asked[pass.binding.o] : r = n \/ (n \in CRNames /\ EffectiveName[n] = r)
OnlyAskedRevoked == [][RevokeStep]_vars

(* Neo4jAuthRule.Reconcile: replacing the rule wipes its grants, and a crash
   may follow; once edits stop, on a target that can hold rules, the rule
   has the condition and exactly the existing roles of the spec.            *)
RuleHolds ==
    cr.rule.life = "live" /\ target.rules = "ok" =>
        rule = [condition |-> cr.rule.condition, roles |-> cr.rule.roles \cap roles]
RuleHeld == <>[]RuleHolds

(* handleDeletion of the three: a deleted resource is let go. *)
NoneDeleting == \A o \in Objects : cr[o].life # "deleting"
DeletionEnds == <>[]NoneDeleting
=============================================================================
