---------------------------- MODULE MCPrivileges ----------------------------
(* Who may do what: part "role" is RolePrivileges, part "grant" is Access. *)
(* Each scene of theirs is a starting point with what may happen from it.  *)
EXTENDS Integers

CONSTANTS None, Unread, Absent

VARIABLES part, target, declared, roles, has, account, rule, secret,
          cr, seen, pass, asked, left
all == <<part, target, declared, roles, has, account, rule, secret,
         cr, seen, pass, asked, left>>

(* The scenes of RolePrivileges: statement A stands for two rows, B for one *)
(* of A's, C for a row that depends on an alias.                            *)

MCRenders == [l \in {"l1", "l2"} |->
                 [A |-> {"x", "y"}, B |-> {"x"}, C |-> IF l = "l1" THEN {"z"} ELSE {"w"}]]
NoEvents == [edits |-> 0, deleted |-> 0, hand |-> 0, stale |-> 0, rest |-> 0, moves |-> 0,
             dropped |-> 0, unread |-> 0, faults |-> 0, refused |-> 0, cut |-> FALSE]
RoleScene(m, S, R, l) ==
    [mode |-> m, layout |-> "l1", stmts |-> S, rows |-> R, enforce |-> TRUE,
     policy |-> "Delete", left |-> l]
RoleScenes ==
    { RoleScene("learn", {"A", "B"}, {}, [NoEvents EXCEPT !.edits = 2, !.deleted = 1]),
      RoleScene("learn", {"A", "B"}, {}, [NoEvents EXCEPT !.edits = 1, !.faults = 1]),
      RoleScene("learn", {"B"}, {"x"}, [NoEvents EXCEPT !.edits = 1, !.rest = 1]),
      RoleScene("learn", {"A", "C"}, {"f"}, [NoEvents EXCEPT !.moves = 1, !.unread = 1]),
      RoleScene("learn", {"A", "C"}, {"f"}, [NoEvents EXCEPT !.faults = 1, !.stale = 1]),
      RoleScene("learn", {"A", "C"}, {}, [NoEvents EXCEPT !.dropped = 1, !.rest = 1]),
      RoleScene("learn", {"A", "C"}, {}, [NoEvents EXCEPT !.dropped = 1, !.refused = 1]),
      RoleScene("learn", {"C"}, {}, [NoEvents EXCEPT !.hand = 1, !.deleted = 1, !.faults = 1]),
      RoleScene("probe", {"C"}, {}, [NoEvents EXCEPT !.hand = 1]),
      RoleScene("probe", {"A", "C"}, {"z"}, [NoEvents EXCEPT !.moves = 2, !.stale = 1]),
      RoleScene("probe", {"A", "C"}, {"z"}, [NoEvents EXCEPT !.moves = 1, !.dropped = 1, !.faults = 1]) }

Role == INSTANCE RolePrivileges WITH
    Rows <- {"x", "y", "z", "w", "f", "i"}, Immutable <- {"i"}, Order <- <<"A", "B", "C">>,
    Layouts <- {"l1", "l2"}, Renders <- MCRenders,
    StoredForm <- [A |-> {}, B |-> {}, C |-> {"z"}],
    CopyOf <- {"f"}, ByHand <- {"f", "i"}, Scenes <- RoleScenes,
    mode <- target, spec <- cr, status <- declared, exists <- secret, rows <- roles,
    layout <- rule, known <- has, cache <- account, old <- asked

(* The scenes of Access. *)

Defs == INSTANCE Access WITH
    Roles <- {"r1", "r2"}, CRNames <- {"cr1"}, EffectiveName <- [n \in {"cr1"} |-> "r1"],
    Bindings <- {"b1", "b2"}, Scenes <- {}

Nil == [edits |-> 0, deletes |-> 0, rotations |-> 0, declares |-> 0, roleDrops |-> 0,
        hand |-> 0, faults |-> 0, lost |-> 0, target |-> 0, lasting |-> 0]
Gone == Defs!Resource("gone", {}, FALSE, FALSE)
Live(R, strict) == Defs!Resource("live", R, strict, FALSE)
Scene(objects, declaredRoles, neoRoles, sso, l) ==
    [cr |-> [o \in Defs!Objects |-> IF o \in DOMAIN objects THEN objects[o] ELSE Gone],
     declared |-> declaredRoles, roles |-> neoRoles, sso |-> sso, secret |-> 1,
     target |-> [state |-> "up", rules |-> "ok"], left |-> l]
UserScene(R, l) ==
    Scene([user |-> Defs!Resource("new", R, FALSE, FALSE)], {"r1"}, {"r2"}, Absent, l)
BindingScene(R1, R2, strict, sso, l) ==
    Scene([b1 |-> Live(R1, strict), b2 |-> IF R2 = {} THEN Gone ELSE Live(R2, FALSE)],
          {"r1"}, {"r1", "r2"}, sso, l)
RuleScene(strict, l) == Scene([rule |-> Live({"r1"}, strict)], {"r1"}, {"r2"}, Absent, l)

GrantScenes ==
    { UserScene({"r1"}, [Nil EXCEPT !.rotations = 1, !.edits = 1]),
      UserScene({"r1"}, [Nil EXCEPT !.rotations = 1, !.lost = 1]),
      UserScene({"r1"}, [Nil EXCEPT !.roleDrops = 1, !.hand = 1, !.faults = 1]),
      UserScene({"r1"}, [Nil EXCEPT !.deletes = 1, !.faults = 1, !.target = 1]),
      [UserScene({"cr1"}, [Nil EXCEPT !.declares = 1, !.rotations = 1, !.target = 1, !.lasting = 1])
          EXCEPT !.declared = {}, !.secret = 0],
      BindingScene({"r1"}, {"r1"}, FALSE, {"r2"}, [Nil EXCEPT !.edits = 1, !.deletes = 1]),
      BindingScene({"cr1"}, {}, FALSE, Absent, [Nil EXCEPT !.deletes = 1, !.hand = 2]),
      BindingScene({"r1"}, {}, TRUE, {"r2"}, [Nil EXCEPT !.roleDrops = 1, !.hand = 1, !.target = 1]),
      BindingScene({"r1"}, {}, FALSE, {}, [Nil EXCEPT !.edits = 1, !.faults = 1, !.lost = 1]),
      BindingScene({"r1"}, {}, FALSE, {}, [Nil EXCEPT !.deletes = 1, !.target = 1, !.lasting = 1]),
      RuleScene(TRUE, [Nil EXCEPT !.edits = 1, !.roleDrops = 1]),
      RuleScene(TRUE, [Nil EXCEPT !.edits = 1, !.faults = 1]),
      RuleScene(TRUE, [Nil EXCEPT !.deletes = 1, !.faults = 1, !.hand = 1]),
      [RuleScene(TRUE, [Nil EXCEPT !.target = 2, !.edits = 1]) EXCEPT !.target.rules = "old"] }

Grant == INSTANCE Access WITH
    Roles <- {"r1", "r2"}, CRNames <- {"cr1"}, EffectiveName <- [n \in {"cr1"} |-> "r1"],
    Bindings <- {"b1", "b2"}, Scenes <- GrantScenes

Init == \/ part = "role" /\ Role!Init
        \/ part = "grant" /\ Grant!Init

\* A step of one part leaves the other part's variables alone.
InRole(A) == part = "role" /\ A /\ UNCHANGED part
InGrant(A) == part = "grant" /\ A /\ UNCHANGED part

Next == InRole(Role!Next) \/ InGrant(Grant!Next)

\* As part never changes, fairness of a disjunction over the parts is fairness
\* of each.
Fairness ==
    /\ WF_all(InRole(Role!Controller) \/ InGrant(Grant!UserController))
    /\ WF_all(InRole(Role!Sync) \/ InGrant(\E o \in Grant!Objects : Grant!Sync(o)))
    /\ WF_all(InRole(Role!DatabaseReturns) \/ InGrant(Grant!BindingSteps))
    /\ \A l \in {"l1", "l2"}, s \in {"A", "B", "C"} : WF_all(InRole(Role!CacheExpires(<<l, s>>)))
    /\ WF_all(InGrant(Grant!RuleController))
    /\ WF_all(InGrant(\E r \in {"r1", "r2"} : Grant!RoleCreated(r)))
    /\ WF_all(InGrant(Grant!TargetReturns))
    /\ SF_all(InGrant(Grant!BindingBegins("b1")))
    /\ SF_all(InGrant(Grant!BindingBegins("b2")))
FairSpec == Init /\ [][Next]_all /\ Fairness

\* Nothing is revoked that nobody asked for: privileges that were there before the
\* role was declared stay, and a binding that is not exclusive takes back only
\* roles some version of its spec listed.
NothingElseRevoked == [][/\ part = "role" => Role!KeepsStep
                         /\ part = "grant" => Grant!RevokeStep]_all

\* A target that is there but does not serve for a while does not take Ready from a
\* settled resource.
OutageKeepsReady == [][part = "grant" => Grant!ReadyStep]_all

\* A role ends up with every privilege its statements stand for, unless its learning
\* was cut short, and, enforced, no other; a deleted one goes.
RolesSettle == <>[](part = "role" => Role!Held /\ Role!NoDrift /\ Role!NoneDeleting)

\* A user ends up with the Secret's password and the roles asked for, bindings and
\* auth rules hold, Ready says so and only then, and deletions end.
AccessSettle == <>[](part = "grant" => /\ Grant!UserSettled /\ Grant!BindingHolds
                                       /\ Grant!RuleHolds /\ Grant!ReadyIsTrue
                                       /\ Grant!NoneDeleting)
=============================================================================
