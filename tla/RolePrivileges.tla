--------------------------- MODULE RolePrivileges ---------------------------
(***************************************************************************)
(* The Neo4jRole controller: how the privileges of one Neo4j role are made *)
(* to match spec.privileges although Neo4j stores a statement as rows that *)
(* the operator cannot compute.  In learn mode (the default) the rows of a *)
(* statement are what its GRANT added; what is learned is kept in the      *)
(* status.  In probe mode the statement is rendered on a throw-away role   *)
(* and the rendering is cached in memory.                                  *)
(*                                                                         *)
(* A privilege statement is a member of Range(Order), a stored row a       *)
(* member of Rows; Renders[l][s] are the rows Neo4j stores for s while     *)
(* the aliases are laid out as l, StoredForm[s] the row that is s's own    *)
(* text, if it has one.                                                    *)
(***************************************************************************)
EXTENDS Integers, FiniteSets, Sequences, SequencesExt, Functions

CONSTANTS
    Rows,         \* rows of SHOW ROLE PRIVILEGES
    Immutable,    \* the rows Neo4j refuses to revoke
    Order,        \* every statement, in the order a spec lists them
    Layouts,      \* what the statements' aliases may point at
    Renders,      \* Layouts -> statement -> rows
    StoredForm,   \* statement -> rows that are its own text
    CopyOf,       \* rows of the role spec.copyOf names
    ByHand,       \* rows an administrator may grant by hand
    Scenes,       \* the scenes a behaviour may play: see Init
    None, Unread  \* no scope in the status; the aliases could not be listed

Stmts == Range(Order)

VARIABLES
    mode,      \* --privilege-normalisation
    spec,      \* [stmts, enforce, policy, life] of the Neo4jRole
    status,    \* the learn state kept in its status
    seen,      \* the operator's cached copy of spec and status
    exists,    \* the role exists in Neo4j
    rows,      \* the rows it has there
    layout,    \* what the aliases point at
    known,     \* the statements whose databases exist
    cache,     \* probe mode's rendering cache, lost with the process
    old,       \* rows the role had when learn mode first met it (history)
    pass,      \* the reconcile in progress
    left       \* what the scene still allows

vars == <<mode, spec, status, seen, exists, rows, layout, known, cache, old, pass, left>>

(* A rendering of {} stands for Ambiguous: a learned rendering has a row. *)
Renderings(r) == DOMAIN r \subseteq Stmts /\ \A s \in DOMAIN r : r[s] \subseteq Rows
NoRenderings == [s \in {} |-> {}]
LearnState(st) ==
    st.scope \in Layouts \cup {None, Unread} /\ Renderings(st.renderings) /\ st.baseline \subseteq Rows
NewLearnState(scope, base) == [scope |-> scope, renderings |-> NoRenderings, baseline |-> base]

Idle == [at |-> "idle"]

TypeOK ==
    /\ mode \in {"learn", "probe"}
    /\ spec \in [stmts : SUBSET Stmts, enforce : BOOLEAN, policy : {"Delete", "Retain"},
                 life : {"live", "deleting", "gone"}]
    /\ LearnState(status) /\ LearnState(seen.status)
    /\ exists \in BOOLEAN /\ rows \in SUBSET Rows /\ (~exists => rows = {})
    /\ layout \in Layouts /\ known \in SUBSET Stmts /\ old \in SUBSET Rows
    /\ DOMAIN cache \subseteq Layouts \X Stmts
    /\ pass.at \in {"idle", "ensure", "read", "first", "learn", "send", "after", "save", "plan",
                    "grant", "revoke", "release"}

Init ==
    \E sc \in Scenes :
       /\ mode = sc.mode /\ left = sc.left
       /\ spec = [stmts |-> sc.stmts, enforce |-> sc.enforce, policy |-> sc.policy, life |-> "live"]
       /\ exists = (sc.rows # {}) /\ rows = sc.rows
       /\ status = NewLearnState(None, {}) /\ seen = [spec |-> spec, status |-> status]
       /\ layout = sc.layout /\ known = Stmts
       /\ cache = [k \in {} |-> {}] /\ old = {} /\ pass = Idle

Spend(what) == left[what] > 0 /\ left' = [left EXCEPT ![what] = @ - 1]
(* Every return of Reconcile carries a requeue, so the pass begins again. *)
EndPass == pass' = Idle
(* A row of a departed statement was revoked and not every statement it may
   have hidden has been granted again.                                      *)
Relearning == pass.at \in {"revoke", "learn", "send", "after"} /\ pass.revoked
Cut(what) == /\ left[what] > 0 /\ EndPass
             /\ left' = [left EXCEPT ![what] = @ - 1, !.cut = @ \/ Relearning]
Lost == Cut("faults")

-----------------------------------------------------------------------------
(* What a pass decides: the pure part of learnDesired. *)

rolePrivilegeStatements(stmts) == SelectSeq(Order, LAMBDA s : s \in stmts)

resolvableDatabaseNames == known

roleRenderingScope(scope) == scope \in {layout} \cup (IF left.unread > 0 THEN {Unread} ELSE {})

(* An alias layout that could not be read is not a change. *)
Digest_Blank(scope, prior) == IF scope = Unread THEN "" ELSE scope
Digest(scope, prior) == IF scope = Unread /\ prior.scope # None THEN prior.scope ELSE scope

storedFormRows(s, cur) == StoredForm[s] \cap cur

orphanedRows_Kept(prior, stmts) == {}
orphanedRows(prior, stmts) ==
    UNION {prior.renderings[s] : s \in DOMAIN prior.renderings \ stmts}

RelearnAll(force, prior, cur, digest) ==
    \/ force
    \/ prior.scope # None /\ (~(prior.baseline \subseteq cur) \/ prior.scope # digest)

Baseline(prior, cur) == IF prior.scope = None THEN cur ELSE prior.baseline \cap cur

(* learnDesired before its loop: what the pass p starts from. *)
StartLearning(p, prior, cur, force) ==
    LET digest == Digest(p.scope, prior) IN
    [p EXCEPT !.at = "learn", !.prior = prior, !.cur = cur, !.force = force,
              !.todo = rolePrivilegeStatements(p.stmts), !.desired = {}, !.unknown = {},
              !.relearn = RelearnAll(force, prior, cur, digest),
              !.state = NewLearnState(digest, Baseline(prior, cur))]

(* One statement of the loop is done, with the rows now attributed to it. *)
Attributed(p, s, learned) ==
    [p EXCEPT !.todo = Tail(@), !.state.renderings = (s :> learned) @@ @,
              !.desired = @ \cup learned,
              !.unknown = IF learned = {} THEN @ \cup {s} ELSE @]

Unresolved(p, s) ==
    [p EXCEPT !.todo = Tail(@),
              !.state.renderings = IF s \in DOMAIN p.prior.renderings
                                   THEN (s :> p.prior.renderings[s]) @@ @ ELSE @]

(* What is attributed to s without granting it: {} while it stays ambiguous. *)
Settled(p, s) ==
    /\ s \in DOMAIN p.prior.renderings /\ ~p.relearn
    /\ p.prior.renderings[s] \subseteq p.cur
SettledRows(p, s) ==
    IF p.prior.renderings[s] = {} THEN storedFormRows(s, p.cur) ELSE p.prior.renderings[s]

(* What a GRANT that turned the rows before into after shows of s. *)
GrantedRows(p, s, before, after) ==
    LET kept == IF s \in DOMAIN p.prior.renderings THEN p.prior.renderings[s] \cap after ELSE {}
        learned == (after \ before) \cup kept
    IN  IF learned = {} THEN storedFormRows(s, after) ELSE learned

(* The loop is over: rows that may be an ambiguous statement's are kept. *)
CloseLearning(p) ==
    LET unclaimed == p.cur \ (p.desired \cup orphanedRows(p.prior, p.stmts)) IN
    [p EXCEPT !.at = "save",
              !.state.baseline = IF p.unknown = {} THEN @ ELSE @ \cup unclaimed]

(* setLearnState writes only what concerns the statements of the spec. *)
ToStatus(st, stmts) == [st EXCEPT !.renderings = Restrict(@, DOMAIN @ \cap stmts)]
setLearnState(st, stmts) == status' = ToStatus(st, stmts)

-----------------------------------------------------------------------------
(* The reconcile. *)

(* The copy the pass works from may be behind (stale). *)
BeginPass ==
    /\ pass.at = "idle" /\ seen.spec.life = "live"
    /\ pass' = [at |-> "ensure", stmts |-> seen.spec.stmts, enforce |-> seen.spec.enforce,
                status |-> seen.status]
    /\ IF seen = [spec |-> spec, status |-> status] THEN UNCHANGED left ELSE Spend("stale")
    /\ UNCHANGED <<mode, spec, status, seen, exists, rows, layout, known, cache, old>>

(* ShowRole, CreateRoleAdvanced, then the databases and aliases are listed. *)
EnsureRole ==
    /\ pass.at = "ensure"
    /\ exists' = TRUE /\ rows' = IF exists THEN rows ELSE CopyOf
    /\ \E scope \in Layouts \cup {Unread} :
          /\ roleRenderingScope(scope)
          /\ left' = [left EXCEPT !.unread = IF scope = Unread THEN @ - 1 ELSE @]
          /\ pass' = [at |-> "read", stmts |-> pass.stmts, enforce |-> pass.enforce,
                      scope |-> scope, resolved |-> resolvableDatabaseNames,
                      prior |-> pass.status, before |-> {}, cur |-> {}, force |-> FALSE, relearn |-> FALSE,
                      state |-> NewLearnState(None, {}), todo |-> <<>>, desired |-> {},
                      unknown |-> {}, revoke |-> {}, orphans |-> {}, revoked |-> FALSE]
    /\ UNCHANGED <<mode, spec, status, seen, layout, known, cache, old>>

fetchCurrentPrivileges == rows

(* reconcileLearned: read the role; the first meeting is recorded first. *)
ReadRole ==
    /\ pass.at = "read" /\ mode = "learn"
    /\ LET p == [pass EXCEPT !.orphans = orphanedRows(pass.prior, pass.stmts)] IN
       pass' = IF pass.prior.scope = None
               THEN [p EXCEPT !.at = "first", !.cur = fetchCurrentPrivileges]
               ELSE StartLearning(p, pass.prior, fetchCurrentPrivileges, FALSE)
    /\ UNCHANGED <<mode, spec, status, seen, exists, rows, layout, known, cache, old, left>>

FirstMeeting ==
    /\ pass.at = "first"
    /\ LET first == NewLearnState(pass.scope, pass.cur) IN
       \/ /\ setLearnState(first, pass.stmts)
          /\ pass' = StartLearning(pass, first, pass.cur, FALSE)
          /\ old' = IF status.scope = None THEN pass.cur \cap rows ELSE old
          /\ UNCHANGED left
       \/ Lost /\ UNCHANGED <<status, old>>
    /\ UNCHANGED <<mode, spec, seen, exists, rows, layout, known, cache>>

(* One statement of learnDesired that needs no GRANT. *)
LearnKnown ==
    /\ pass.at = "learn" /\ pass.todo # <<>>
    /\ LET s == Head(pass.todo) IN
       \/ s \notin pass.resolved /\ pass' = Unresolved(pass, s)
       \/ s \in pass.resolved /\ Settled(pass, s) /\ pass' = Attributed(pass, s, SettledRows(pass, s))
    /\ UNCHANGED <<mode, spec, status, seen, exists, rows, layout, known, cache, old, left>>

(* GrantAndReadPrivileges: the rows before, the GRANT and the rows after are
   three statements, between which anybody else may change the role.         *)
ReadBefore ==
    /\ pass.at = "learn" /\ pass.todo # <<>>
    /\ Head(pass.todo) \in pass.resolved /\ ~Settled(pass, Head(pass.todo))
    /\ pass' = [pass EXCEPT !.at = "send", !.before = rows]
    /\ UNCHANGED <<mode, spec, status, seen, exists, rows, layout, known, cache, old, left>>

(* The role or the statement's database is gone, or the server refuses: what
   was learned is saved with what was known of the statements not reached.   *)
GrantRefused ==
    /\ (~exists /\ EndPass /\ UNCHANGED left) \/ Cut("refused")
    /\ \/ setLearnState([pass.state EXCEPT !.renderings = @ @@ pass.prior.renderings], pass.stmts)
       \/ UNCHANGED status
    /\ UNCHANGED rows

LearnByGranting ==
    /\ pass.at = "send"
    /\ \/ /\ exists /\ rows' = rows \cup Renders[layout][Head(pass.todo)]
          /\ pass' = [pass EXCEPT !.at = "after"] /\ UNCHANGED <<status, left>>
       \/ GrantRefused
    /\ UNCHANGED <<mode, spec, seen, exists, layout, known, cache, old>>

ReadAfter ==
    /\ pass.at = "after"
    /\ LET s == Head(pass.todo) IN
       pass' = [Attributed(pass, s, GrantedRows(pass, s, pass.before, rows)) EXCEPT !.at = "learn", !.cur = rows]
    /\ UNCHANGED <<mode, spec, status, seen, exists, rows, layout, known, cache, old, left>>

(* The renderings reach the status BEFORE anything is revoked. *)
SaveLearned ==
    /\ pass.at = "learn" /\ pass.todo = <<>>
    /\ LET p == CloseLearning(pass) IN
       \/ /\ setLearnState(p.state, p.stmts) /\ UNCHANGED left
          /\ pass' = IF p.force THEN Idle ELSE [p EXCEPT !.at = "plan"]
       \/ Lost /\ UNCHANGED status
    /\ UNCHANGED <<mode, spec, seen, exists, rows, layout, known, cache, old>>

(* Which rows enforcePrivileges lets the pass revoke. *)
ToRemove_Known(p, now) == IF p.enforce THEN p.orphans \cap now ELSE {}
ToRemove_Baseline(p, now) == IF p.enforce THEN now \ p.desired ELSE {}
ToRemove(p, now) == IF p.enforce THEN now \ (p.desired \cup p.state.baseline) ELSE {}

PlanRevokes ==
    /\ pass.at = "plan"
    /\ pass' = [pass EXCEPT !.at = "revoke",
                            !.revoke = ToRemove(pass, fetchCurrentPrivileges) \ Immutable]
    /\ UNCHANGED <<mode, spec, status, seen, exists, rows, layout, known, cache, old, left>>

revokeUnwanted ==
    /\ pass.at = "revoke" /\ pass.revoke # {}
    /\ \/ \E r \in pass.revoke :
             /\ rows' = rows \ {r}
             /\ pass' = [pass EXCEPT !.revoke = @ \ {r}, !.revoked = @ \/ r \in pass.orphans]
             /\ UNCHANGED left
       \/ Lost /\ UNCHANGED rows
    /\ UNCHANGED <<mode, spec, status, seen, exists, layout, known, cache, old>>

(* A revoked row of a departed statement may have hidden another's. *)
AfterRevokes ==
    /\ pass.at = "revoke" /\ pass.revoke = {}
    /\ pass' = IF pass.revoked
               THEN StartLearning(pass, pass.state, fetchCurrentPrivileges, TRUE)
               ELSE Idle
    /\ UNCHANGED <<mode, spec, status, seen, exists, rows, layout, known, cache, old, left>>

-----------------------------------------------------------------------------
(* Probe mode. *)

(* renderStatement: the cache's entry, else what the throw-away role shows. *)
renderStatement(s) ==
    /\ \/ /\ <<pass.scope, s>> \in DOMAIN cache
          /\ pass' = [pass EXCEPT !.todo = Tail(@), !.desired = @ \cup cache[<<pass.scope, s>>],
                                  !.state.renderings = (s :> cache[<<pass.scope, s>>]) @@ @]
          /\ UNCHANGED <<cache, left>>
       \/ /\ <<pass.scope, s>> \notin DOMAIN cache /\ s \in pass.resolved
          /\ pass' = [pass EXCEPT !.todo = Tail(@), !.desired = @ \cup Renders[layout][s],
                                  !.state.renderings = (s :> Renders[layout][s]) @@ @]
          /\ cache' = IF pass.scope = Unread THEN cache
                      ELSE (<<pass.scope, s>> :> Renders[layout][s]) @@ cache
          /\ UNCHANGED left
       \/ /\ <<pass.scope, s>> \notin DOMAIN cache        \* the text stands for the rows
          /\ \/ s \notin pass.resolved /\ UNCHANGED left
             \/ s \in pass.resolved /\ Spend("faults")
          /\ pass' = [pass EXCEPT !.todo = Tail(@), !.desired = @ \cup StoredForm[s],
                                  !.state.renderings = (s :> StoredForm[s]) @@ @]
          /\ UNCHANGED cache

StartProbing ==
    /\ pass.at = "read" /\ mode = "probe"
    /\ pass' = [pass EXCEPT !.at = "save", !.todo = rolePrivilegeStatements(pass.stmts)]
    /\ UNCHANGED <<mode, spec, status, seen, exists, rows, layout, known, cache, old, left>>

normaliseDesired ==
    /\ pass.at = "save" /\ pass.todo # <<>>
    /\ renderStatement(Head(pass.todo))
    /\ UNCHANGED <<mode, spec, status, seen, exists, rows, layout, known, old>>

(* The difference with the role, read once: grants first, revokes after.  A
   statement rendered by its own text is granted whenever that is no row.    *)
PlanProbed ==
    /\ pass.at = "save" /\ pass.todo = <<>>
    /\ LET now == fetchCurrentPrivileges
           wanting(s) == pass.state.renderings[s] = {} \/ ~(pass.state.renderings[s] \subseteq now)
       IN  pass' = [pass EXCEPT !.at = "grant",
                       !.todo = SelectSeq(rolePrivilegeStatements(pass.stmts \cap pass.resolved), wanting),
                       !.revoke = (IF pass.enforce THEN now \ pass.desired ELSE {}) \ Immutable]
    /\ UNCHANGED <<mode, spec, status, seen, exists, rows, layout, known, cache, old, left>>

GrantProbed ==
    /\ pass.at = "grant"
    /\ \/ pass.todo = <<>> /\ pass' = [pass EXCEPT !.at = "revoke"] /\ UNCHANGED <<rows, left>>
       \/ /\ pass.todo # <<>> /\ exists
          /\ rows' = rows \cup Renders[layout][Head(pass.todo)]
          /\ pass' = [pass EXCEPT !.todo = Tail(@)] /\ UNCHANGED left
       \/ pass.todo # <<>> /\ ~exists /\ EndPass /\ UNCHANGED <<rows, left>>
       \/ pass.todo # <<>> /\ Lost /\ UNCHANGED rows
    /\ UNCHANGED <<mode, spec, status, seen, exists, layout, known, cache, old>>

-----------------------------------------------------------------------------
\* Mutant of the next: a role that is not there cannot be dropped.
BeginDeletion_NeedsRole ==
    /\ pass.at = "idle" /\ seen.spec.life = "deleting" /\ exists
    /\ \/ pass' = [at |-> "release"] /\ UNCHANGED left /\ exists' = (exists /\ seen.spec.policy = "Retain")
       \/ seen.spec.policy = "Delete" /\ Lost /\ UNCHANGED exists
    /\ rows' = IF exists' THEN rows ELSE {}
    /\ UNCHANGED <<mode, spec, status, seen, layout, known, cache, old>>

(* handleDeletion: DROP ROLE unless the policy retains it, then let go. *)
BeginDeletion ==
    /\ pass.at = "idle" /\ seen.spec.life = "deleting"
    /\ \/ pass' = [at |-> "release"] /\ UNCHANGED left /\ exists' = (exists /\ seen.spec.policy = "Retain")
       \/ seen.spec.policy = "Delete" /\ Lost /\ UNCHANGED exists
    /\ rows' = IF exists' THEN rows ELSE {}
    /\ UNCHANGED <<mode, spec, status, seen, layout, known, cache, old>>

Release ==
    /\ pass.at = "release"
    /\ \/ spec' = [spec EXCEPT !.life = "gone"] /\ EndPass /\ UNCHANGED left
       \/ Lost /\ UNCHANGED spec
    /\ UNCHANGED <<mode, status, seen, exists, rows, layout, known, cache, old>>

Controller ==
    \/ BeginPass \/ EnsureRole \/ ReadRole \/ FirstMeeting \/ LearnKnown \/ ReadBefore \/ LearnByGranting
    \/ ReadAfter \/ SaveLearned \/ PlanRevokes \/ revokeUnwanted \/ AfterRevokes
    \/ StartProbing \/ normaliseDesired \/ PlanProbed \/ GrantProbed
    \/ BeginDeletion \/ Release

-----------------------------------------------------------------------------
(* The world around the controller. *)

UserEdits ==
    /\ spec.life = "live" /\ Spend("edits")
    /\ \E S \in SUBSET Stmts : S # spec.stmts /\ spec' = [spec EXCEPT !.stmts = S]
    /\ UNCHANGED <<mode, status, seen, exists, rows, layout, known, cache, old, pass>>

UserDeletes ==
    /\ spec.life = "live" /\ Spend("deleted") /\ spec' = [spec EXCEPT !.life = "deleting"]
    /\ UNCHANGED <<mode, status, seen, exists, rows, layout, known, cache, old, pass>>

(* An administrator grants or revokes a row, or drops the role: at any time
   (hand) or between two passes (rest).                                     *)
AdminActs ==
    /\ exists
    /\ \/ \E r \in ByHand \ rows : rows' = rows \cup {r} /\ UNCHANGED <<exists, old>>
       \/ \E r \in rows : rows' = rows \ {r} /\ old' = old \ {r} /\ UNCHANGED exists
       \/ exists' = FALSE /\ rows' = {} /\ old' = {}
    /\ \E when \in {"hand", "rest"} :
          /\ left[when] > 0 /\ (when = "rest" => pass.at = "idle")
          /\ left' = [left EXCEPT ![when] = @ - 1, !.cut = @ \/ pass.at \in {"send", "after"}]
    /\ UNCHANGED <<mode, spec, status, seen, layout, known, cache, pass>>

AliasMoves ==
    /\ Spend("moves") /\ layout' \in Layouts \ {layout}
    /\ UNCHANGED <<mode, spec, status, seen, exists, rows, known, cache, old, pass>>

(* A database a statement names is dropped, and comes back. *)
DatabaseGoes ==
    /\ Spend("dropped") /\ \E s \in known : known' = known \ {s}
    /\ UNCHANGED <<mode, spec, status, seen, exists, rows, layout, cache, old, pass>>
DatabaseReturns ==
    /\ known # Stmts /\ known' = Stmts
    /\ UNCHANGED <<mode, spec, status, seen, exists, rows, layout, cache, old, pass, left>>

(* renderingCacheTTL: an hour after it was put, an entry is not trusted. *)
CacheExpires(k) ==
    /\ k \in DOMAIN cache /\ cache' = Restrict(cache, DOMAIN cache \ {k})
    /\ UNCHANGED <<mode, spec, status, seen, exists, rows, layout, known, old, pass, left>>

Sync ==
    /\ seen # [spec |-> spec, status |-> status] /\ seen' = [spec |-> spec, status |-> status]
    /\ UNCHANGED <<mode, spec, status, exists, rows, layout, known, cache, old, pass, left>>

Restart ==
    /\ pass.at # "idle" /\ Lost
    /\ cache' = [k \in {} |-> {}] /\ seen' = [spec |-> spec, status |-> status]
    /\ UNCHANGED <<mode, spec, status, exists, rows, layout, known, old>>

Next ==
    \/ Controller \/ UserEdits \/ UserDeletes \/ AdminActs \/ AliasMoves
    \/ DatabaseGoes \/ DatabaseReturns \/ Sync \/ Restart
    \/ \E k \in Layouts \X Stmts : CacheExpires(k)

Spec == Init /\ [][Next]_vars

(* Every return of Reconcile requeues, the informer catches up, a dropped
   database is restored and cache entries age.                              *)
Fairness ==
    /\ WF_vars(Controller) /\ WF_vars(Sync) /\ WF_vars(DatabaseReturns)
    /\ \A k \in Layouts \X Stmts : WF_vars(CacheExpires(k))
FairSpec == Spec /\ Fairness

-----------------------------------------------------------------------------
(* reconcileLearned, "never revoked automatically": no step of the
   controller but dropping the role takes away a row the role had when learn
   mode first met it, however passes, spec edits, stale copies, alias moves
   and restarts interleave.                                                  *)
KeepsStep == pass.at = "revoke" => old' \cap rows \subseteq rows'
PreexistingKept == [][KeepsStep]_vars

Wanted == UNION {Renders[layout][s] : s \in spec.stmts}

(* learnDesired, "keep that from ever costing a privilege", and probe mode
   alike: once edits, drops and moves stop, every row a statement of the
   spec stands for is on the role and stays there, even if another
   statement's row, a pre-existing row or a missing database had hidden it.
   Two interruptions are not made up for (left.cut): the end of a pass
   between revoking a departed statement's row and granting again what it
   may have hidden, and a change by hand between the two readings around a
   GRANT, which is taken for what the GRANT stored or did not store.        *)
Held == spec.life = "live" /\ ~left.cut => Wanted \subseteq rows
PrivilegesHeld == <>[]Held

(* enforcePrivileges: once everything rests, a row outside the spec is on
   the role only if it cannot be revoked or the status still lists it as
   unattributed; nothing foreign stays unnoticed.                           *)
NoDrift ==
    spec.life = "live" /\ spec.enforce /\ mode = "learn" =>
        rows \subseteq Immutable \cup status.baseline \cup UNION Range(status.renderings)
DriftRevoked == <>[]NoDrift

(* handleDeletion: a deleted Neo4jRole is let go. *)
NoneDeleting == spec.life # "deleting"
DeletionEnds == <>[]NoneDeleting
=============================================================================
