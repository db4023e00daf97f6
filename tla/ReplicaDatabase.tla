-------------------------- MODULE ReplicaDatabase --------------------------
(***************************************************************************)
(* A cross-cluster replica (Neo4jReplicaDatabase) and its one-way          *)
(* promotion (Neo4jReplicaPromotion).  Two controllers with one worker     *)
(* each run beside each other on one database: the first creates it,       *)
(* reports it and drops it with its CR, the second promotes it.  A         *)
(* promoted database is the live system and nobody's replica any more.     *)
(*                                                                         *)
(* Both read their CRs from one cache, send statements to Neo4j one by     *)
(* one, and write status on a copy read again from the cache.  The         *)
(* operator may die between any two steps, a write of status may fail      *)
(* (which is logged and no more), and a promote call may take effect       *)
(* without an answer.                                                      *)
(***************************************************************************)
EXTENDS Integers, FiniteSets

CONSTANTS
    Scenes  \* the instances: spec.source.mode, spec.deletionPolicy, whether the upstream
            \* is there from the start, and how many deletions, promotions by hand,
            \* crashes, lost writes, late effects and outages there are

VARIABLES
    rep, promo,   \* the two CRs
    seen,         \* the cache: the copies [rep, promo] the controllers read
    queue,        \* the CRs queued for a pass
    rpass, ppass, \* the running pass of each controller
    db,           \* the type of the database in Neo4j
    env,          \* spec.source, and what the servers and the upstream offer it
    host,         \* the target
    left          \* what the scene still allows

vars == <<rep, promo, seen, queue, rpass, ppass, db, env, host, left>>

Phases == {"None", "Pending", "Seeding", "Replicating", "Failed", "Promoted"}
Replicas == [is : BOOLEAN, fin : BOOLEAN, del : BOOLEAN, phase : Phases,
             by : {"", "promotion", "out-of-band"}]
Promotions == [is : BOOLEAN, phase : {"None", "Pending", "Promoting", "Completed", "Failed"}]

NoReplica == [is |-> FALSE, fin |-> FALSE, del |-> FALSE, phase |-> "None", by |-> ""]
NoPromotion == [is |-> FALSE, phase |-> "None"]
Idle == [at |-> "idle"]

\* isPromotionTerminal
Terminal(p) == p.phase \in {"Completed", "Failed"}

TypeOK ==
    /\ rep \in Replicas /\ promo \in Promotions
    /\ seen.rep \in Replicas /\ seen.promo \in Promotions
    /\ queue \subseteq {"rep", "promo"}
    /\ \/ rpass = Idle
       \/ rpass.at \in {"check", "observe", "create", "seed", "report", "mark", "delete", "drop", "release"}
    /\ \/ ppass = Idle
       \/ ppass.at \in {"check", "start", "promote", "after", "complete", "replica"}
    /\ db \in {"absent", "replica", "standard"}
    /\ env \in [mode : {"network", "backup"}, policy : {"Delete", "Retain"},
                creds : {"none", "template", "pods"}, region : BOOLEAN, upstream : BOOLEAN]
    /\ host \in [cr : {"ready", "down", "gone"}, answers : BOOLEAN]
    /\ left \in [{"made", "deleted", "hand", "crashes", "lost", "late", "outages"} -> 0 .. 1]

Init ==
    /\ rep = NoReplica /\ promo = NoPromotion /\ seen = [rep |-> rep, promo |-> promo]
    /\ queue = {} /\ rpass = Idle /\ ppass = Idle /\ db = "absent"
    /\ \E scene \in Scenes :
         /\ env = [mode |-> scene.mode, policy |-> scene.policy, creds |-> "none",
                   region |-> FALSE, upstream |-> scene.upstream]
         /\ left = scene.left
    /\ host = [cr |-> "ready", answers |-> TRUE]

-----------------------------------------------------------------------------
(* Writes of status, the queue, the statements.                            *)

Spend(what) == left[what] > 0 /\ left' = [left EXCEPT ![what] = @ - 1]
Lost == Spend("lost")

\* Mutant: the write does not look for the terminal phase of the copy it read again.
WriteReplica_Regresses(phase, by) ==
    \/ /\ rep' = IF rep.is THEN [rep EXCEPT !.phase = phase, !.by = IF @ = "" THEN by ELSE @] ELSE rep
       /\ UNCHANGED left
    \/ Lost /\ UNCHANGED rep

\* A write of the replica's status, on the copy read again from the cache: a
\* stale copy conflicts and is read again until it is current, and Promoted is
\* never left.
WriteReplica(phase, by) ==
    \/ /\ seen.rep = rep \/ ~seen.rep.is \/ ~rep.is
       /\ rep' = IF seen.rep.is /\ rep.is /\ rep.phase # "Promoted"
                   THEN [rep EXCEPT !.phase = phase, !.by = IF @ = "" THEN by ELSE @] ELSE rep
       /\ UNCHANGED left
    \/ Lost /\ UNCHANGED rep

\* waitForTarget: a replica that replicates stays so through a short wait.
WaitForTarget == WriteReplica(IF seen.rep.phase = "Replicating" THEN "Replicating" ELSE "Pending", "")

\* unreachable: beyond the grace the replica is Failed.
Unreachable == WaitForTarget \/ WriteReplica("Failed", "")

\* setStatus of the promotion: a terminal phase is final.
WritePromotion(phase) ==
    \/ /\ seen.promo = promo
       /\ promo' = IF Terminal(promo) THEN promo ELSE [promo EXCEPT !.phase = phase]
       /\ UNCHANGED left
    \/ Lost /\ UNCHANGED promo

EndReplica(again) == rpass' = Idle /\ queue' = IF again THEN queue \cup {"rep"} ELSE queue
EndPromotion(again) == ppass' = Idle /\ queue' = IF again THEN queue \cup {"promo"} ELSE queue
ReplicaGoes(step) == rpass' = [rpass EXCEPT !.at = step] /\ UNCHANGED queue
PromotionGoes(step) == ppass' = [ppass EXCEPT !.at = step] /\ UNCHANGED queue

\* CREATE REPLICA DATABASE ... WAIT, from the upstream's servers or its backups.
CreateReplicaDatabase == db = "absent" /\ db' = "replica"
\* dbms.promoteReplicaDatabase: one way.
PromoteReplicaDatabase == db = "replica" /\ db' = "standard"

Serves == host.cr = "ready" /\ host.answers

\* What a CREATE needs: the upstream's addresses or pull URI, the Secret's keys
\* in the running servers, a region among the servers' environment.
UpstreamKnown == env.upstream
CredentialsInTemplate == env.creds # "none"
CredentialsRolledOut == env.creds = "pods"
ServersCanReadStore == env.region

-----------------------------------------------------------------------------
(* The replica controller.                                                 *)

\* A pass starts on the cached copy.  The finalizer comes first; a replica
\* that was promoted is left alone.
BeginReplica ==
    LET c == seen.rep IN
    /\ "rep" \in queue /\ rpass = Idle /\ queue' = queue \ {"rep"}
    /\ CASE c.is /\ c.del /\ c.fin -> rpass' = [at |-> "delete", copy |-> c] /\ UNCHANGED rep
         [] c.is /\ ~c.del /\ ~c.fin -> /\ rep' = IF rep.is /\ ~rep.del THEN [rep EXCEPT !.fin = TRUE] ELSE rep
                                       /\ UNCHANGED rpass
         [] c.is /\ ~c.del /\ c.fin /\ c.phase # "Promoted" ->
                rpass' = [at |-> "check", copy |-> c] /\ UNCHANGED rep
         [] OTHER -> UNCHANGED <<rep, rpass>>
    /\ UNCHANGED <<promo, seen, ppass, db, env, host, left>>

\* Is the target there, Ready, and does it answer.
CheckTarget ==
    /\ rpass.at = "check"
    /\ \/ host.cr = "gone" /\ WriteReplica("Pending", "") /\ EndReplica(TRUE)
       \/ host.cr = "down" /\ WaitForTarget /\ EndReplica(TRUE)
       \/ host.cr = "ready" /\ ~host.answers /\ Unreachable /\ EndReplica(TRUE)
       \/ Serves /\ ReplicaGoes("observe") /\ UNCHANGED <<rep, left>>
    /\ UNCHANGED <<promo, seen, ppass, db, env, host>>

\* Mutant: whatever the database is, it is reported as a replica.
AfterObserve_NoGuard == IF db = "absent" THEN "create" ELSE "report"

\* Everything below goes by the live type; a database that is no replica any
\* more was promoted.
AfterObserve == CASE db = "absent" -> "create"
                  [] db = "replica" -> "report"
                  [] OTHER -> "mark"

Observe ==
    /\ rpass.at = "observe"
    /\ \/ Serves /\ ReplicaGoes(AfterObserve) /\ UNCHANGED <<rep, left>>
       \/ ~Serves /\ Unreachable /\ EndReplica(TRUE)
    /\ UNCHANGED <<promo, seen, ppass, db, env, host>>

\* Network mode waits for the upstream's addresses.
CreateFromNetwork ==
    /\ rpass.at = "create" /\ env.mode = "network"
    /\ \/ ~UpstreamKnown /\ WriteReplica("Pending", "") /\ EndReplica(TRUE)
       \/ UpstreamKnown /\ WriteReplica("Seeding", "") /\ ReplicaGoes("seed")
    /\ UNCHANGED <<promo, seen, ppass, db, env, host>>

\* projectCredentials: the Secret's keys go onto the servers' template; they
\* are ready once the StatefulSet rolled them out.
ProjectCredentials ==
    /\ rpass.at = "create" /\ env.mode = "backup" /\ UpstreamKnown /\ ~CredentialsRolledOut
    /\ env' = IF CredentialsInTemplate THEN env ELSE [env EXCEPT !.creds = "template"]
    /\ WriteReplica("Seeding", "") /\ EndReplica(TRUE)
    /\ UNCHANGED <<promo, seen, ppass, db, host>>

\* Backup mode waits for the pull URI, the credentials and the servers' region.
CreateFromBackup ==
    /\ rpass.at = "create" /\ env.mode = "backup"
    /\ \/ ~UpstreamKnown /\ WriteReplica("Pending", "") /\ EndReplica(TRUE)
       \/ UpstreamKnown /\ CredentialsRolledOut /\ ~ServersCanReadStore /\ WriteReplica("Pending", "") /\ EndReplica(TRUE)
       \/ UpstreamKnown /\ CredentialsRolledOut /\ ServersCanReadStore /\ WriteReplica("Seeding", "") /\ ReplicaGoes("seed")
    /\ UNCHANGED <<promo, seen, ppass, db, env, host>>

\* The CREATE; Neo4j refuses it for a name that is taken meanwhile.
Seed ==
    /\ rpass.at = "seed"
    /\ \/ Serves /\ CreateReplicaDatabase /\ UNCHANGED <<rep, left>>
       \/ Serves /\ db # "absent" /\ WriteReplica("Failed", "") /\ UNCHANGED db
       \/ ~Serves /\ Unreachable /\ UNCHANGED db
    /\ EndReplica(TRUE)
    /\ UNCHANGED <<promo, seen, ppass, env, host>>

ReportReplicating ==
    /\ rpass.at = "report"
    /\ WriteReplica("Replicating", "") /\ EndReplica(TRUE)
    /\ UNCHANGED <<promo, seen, ppass, db, env, host>>

\* markPromoted: unlike the other writes, one that fails is tried again.
MarkPromoted ==
    /\ rpass.at = "mark"
    /\ WriteReplica("Promoted", "out-of-band")
    /\ EndReplica(left' # left)
    /\ UNCHANGED <<promo, seen, ppass, db, env, host>>

\* deletionCleanup.blocked: keep waiting, or, after the grace, let go.
Blocked == (WriteReplica("Failed", "") /\ EndReplica(TRUE))
              \/ (ReplicaGoes("release") /\ UNCHANGED <<rep, left>>)

\* handleDeletion, up to the DROP.
CheckDeletion ==
    /\ rpass.at = "delete"
    /\ \/ /\ rpass.copy.phase = "Promoted" \/ env.policy = "Retain" \/ host.cr = "gone"
          /\ ReplicaGoes("release") /\ UNCHANGED <<rep, left>>
       \/ /\ rpass.copy.phase # "Promoted" /\ env.policy = "Delete" /\ host.cr # "gone"
          /\ \/ ~Serves /\ Blocked
             \/ Serves /\ ReplicaGoes(IF db = "replica" THEN "drop" ELSE "release") /\ UNCHANGED <<rep, left>>
    /\ UNCHANGED <<promo, seen, ppass, db, env, host>>

\* DROP DATABASE IF EXISTS.
Drop ==
    /\ rpass.at = "drop"
    /\ \/ Serves /\ db' = "absent" /\ ReplicaGoes("release") /\ UNCHANGED <<rep, left>>
       \/ ~Serves /\ Blocked /\ UNCHANGED db
    /\ UNCHANGED <<promo, seen, ppass, env, host>>

\* The finalizer is removed and the CR goes.
Release ==
    /\ rpass.at = "release"
    /\ rep' = IF rep.del THEN NoReplica ELSE rep
    /\ EndReplica(FALSE)
    /\ UNCHANGED <<promo, seen, ppass, db, env, host, left>>

DeleteReplica == CheckDeletion \/ Drop \/ Release
ReplicaController ==
    \/ BeginReplica \/ CheckTarget \/ Observe \/ CreateFromNetwork \/ ProjectCredentials
    \/ CreateFromBackup \/ Seed \/ ReportReplicating \/ MarkPromoted \/ DeleteReplica

-----------------------------------------------------------------------------
(* The promotion controller.                                               *)

\* A promotion that has ended is never run again.
BeginPromotion ==
    /\ "promo" \in queue /\ ppass = Idle /\ queue' = queue \ {"promo"}
    /\ ppass' = IF seen.promo.is /\ ~Terminal(seen.promo) THEN [at |-> "check"] ELSE ppass
    /\ UNCHANGED <<rep, promo, seen, rpass, db, env, host, left>>

\* The replica CR and the target; CHECK, what the database is before.
ReadBefore ==
    /\ ppass.at = "check"
    /\ \/ ~seen.rep.is /\ WritePromotion("Pending") /\ EndPromotion(TRUE)
       \/ seen.rep.is /\ ~Serves /\ WritePromotion("Pending") /\ EndPromotion(TRUE)
       \/ /\ seen.rep.is /\ Serves /\ db = "absent"
          /\ WritePromotion("Failed") /\ EndPromotion(FALSE)
       \/ /\ seen.rep.is /\ Serves /\ db # "absent"
          /\ ppass' = [at |-> IF db = "replica" THEN "start" ELSE "complete"]
          /\ UNCHANGED <<promo, queue, left>>
    /\ UNCHANGED <<rep, seen, rpass, db, env, host>>

StartPromoting ==
    /\ ppass.at = "start"
    /\ WritePromotion("Promoting") /\ PromotionGoes("promote")
    /\ UNCHANGED <<rep, seen, rpass, db, env, host>>

\* Mutant: a call that was answered is not confirmed.
Confirm_Trusting == "complete"

\* CHECK again: the live type, not the answer to the call.
Confirm == IF db = "standard" THEN "complete" ELSE "again"

\* PROMOTE: it succeeds, is refused, or its answer is lost; a call that failed
\* is never terminal.
Promote ==
    /\ ppass.at = "promote"
    /\ \/ Serves /\ PromoteReplicaDatabase /\ PromotionGoes("after") /\ UNCHANGED <<promo, left>>
       \/ Serves /\ PromoteReplicaDatabase /\ WritePromotion("Promoting") /\ EndPromotion(TRUE)
       \/ Serves /\ db = "replica" /\ Spend("late") /\ PromotionGoes("after") /\ UNCHANGED <<promo, db>>
       \/ /\ ~Serves \/ db # "replica"
          /\ WritePromotion("Promoting") /\ EndPromotion(TRUE) /\ UNCHANGED db
    /\ UNCHANGED <<rep, seen, rpass, env, host>>

ReadAfter ==
    /\ ppass.at = "after"
    /\ \/ (~Serves \/ Confirm = "again") /\ WritePromotion("Promoting") /\ EndPromotion(TRUE)
       \/ Serves /\ Confirm = "complete" /\ PromotionGoes("complete") /\ UNCHANGED <<promo, left>>
    /\ UNCHANGED <<rep, seen, rpass, db, env, host>>

\* Mutant: the replica's terminal phase is written on the promotion.
Complete_WrongPhase ==
    /\ ppass.at = "complete"
    /\ WritePromotion("Promoted") /\ PromotionGoes("replica")
    /\ UNCHANGED <<rep, seen, rpass, db, env, host>>

\* complete: RECORD, on the promotion and then on the replica; a write that
\* fails is not tried again by this pass or for it.
Complete ==
    /\ ppass.at = "complete"
    /\ WritePromotion("Completed") /\ PromotionGoes("replica")
    /\ UNCHANGED <<rep, seen, rpass, db, env, host>>

CompleteReplica ==
    /\ ppass.at = "replica"
    /\ WriteReplica("Promoted", "promotion") /\ EndPromotion(FALSE)
    /\ UNCHANGED <<promo, seen, rpass, db, env, host>>

PromotionController ==
    \/ BeginPromotion \/ ReadBefore \/ StartPromoting \/ Promote \/ ReadAfter
    \/ Complete \/ CompleteReplica

-----------------------------------------------------------------------------
(* The user, the servers, the upstream, an administrator; the informer.    *)

UserCreatesReplica ==
    /\ ~rep.is /\ Spend("made") /\ rep' = [NoReplica EXCEPT !.is = TRUE]
    /\ UNCHANGED <<promo, seen, queue, rpass, ppass, db, env, host>>

UserDeletesReplica ==
    /\ rep.is /\ ~rep.del /\ Spend("deleted")
    /\ rep' = IF rep.fin THEN [rep EXCEPT !.del = TRUE] ELSE NoReplica
    /\ UNCHANGED <<promo, seen, queue, rpass, ppass, db, env, host>>

UserPromotes ==
    /\ ~promo.is /\ promo' = [NoPromotion EXCEPT !.is = TRUE]
    /\ UNCHANGED <<rep, seen, queue, rpass, ppass, db, env, host, left>>

\* At a cypher-shell: dbms.promoteReplicaDatabase, or a database of the name.
AdminActs ==
    /\ host.answers /\ Spend("hand")
    /\ PromoteReplicaDatabase \/ (db = "absent" /\ db' = "standard")
    /\ UNCHANGED <<rep, promo, seen, queue, rpass, ppass, env, host>>

\* The upstream publishes its addresses or its pull URI, the StatefulSet rolls
\* the credentials out, the region is set on the servers.
Offered ==
    /\ \/ ~env.upstream /\ env' = [env EXCEPT !.upstream = TRUE]
       \/ env.creds = "template" /\ env' = [env EXCEPT !.creds = "pods"]
       \/ env.mode = "backup" /\ ~env.region /\ env' = [env EXCEPT !.region = TRUE]
    /\ UNCHANGED <<rep, promo, seen, queue, rpass, ppass, db, host, left>>

Outage ==
    /\ host.cr = "ready" /\ host.answers /\ Spend("outages")
    /\ \/ host' \in {[host EXCEPT !.cr = "down"], [host EXCEPT !.answers = FALSE]} /\ UNCHANGED db
       \/ host' = [cr |-> "gone", answers |-> FALSE] /\ db' = "absent"
    /\ UNCHANGED <<rep, promo, seen, queue, rpass, ppass, env>>

Recovers ==
    /\ host.cr # "gone" /\ ~Serves /\ host' = [cr |-> "ready", answers |-> TRUE]
    /\ UNCHANGED <<rep, promo, seen, queue, rpass, ppass, db, env, left>>

\* An event reaches the cache: a replica's queues it and the promotions that
\* name it and have not ended, a promotion's queues the promotion.
Sync ==
    /\ seen # [rep |-> rep, promo |-> promo]
    /\ \/ /\ seen.rep # rep /\ seen' = [seen EXCEPT !.rep = rep]
          /\ queue' = queue \cup {"rep"} \cup (IF seen.promo.is /\ ~Terminal(seen.promo) THEN {"promo"} ELSE {})
       \/ /\ seen.promo # promo /\ seen' = [seen EXCEPT !.promo = promo]
          /\ queue' = queue \cup {"promo"}
    /\ UNCHANGED <<rep, promo, rpass, ppass, db, env, host, left>>

\* The operator dies and starts again: the passes are gone, the cache is new,
\* and every CR is queued.
Restart ==
    /\ Spend("crashes")
    /\ rpass' = Idle /\ ppass' = Idle /\ seen' = [rep |-> rep, promo |-> promo]
    /\ queue' = {"rep", "promo"}
    /\ UNCHANGED <<rep, promo, db, env, host>>

Next ==
    \/ ReplicaController \/ PromotionController
    \/ UserCreatesReplica \/ UserDeletesReplica \/ UserPromotes \/ AdminActs
    \/ Offered \/ Outage \/ Recovers \/ Sync \/ Restart

Spec == Init /\ [][Next]_vars

\* Every pass that can go on does, queued CRs get one, events arrive, and an
\* outage ends.
Fairness == WF_vars(ReplicaController) /\ WF_vars(PromotionController) /\ WF_vars(Sync)
              /\ WF_vars(Recovers) /\ WF_vars(Offered)
FairSpec == Spec /\ Fairness

-----------------------------------------------------------------------------
(* Properties.                                                             *)

\* The terminal phases are final for both kinds, although both controllers
\* write the replica's status and each goes by what it read before: Promoted
\* and its attribution stay while the CR does, and a promotion that ended
\* keeps its verdict.
TerminalStep ==
    /\ rep.phase = "Promoted" /\ rep'.is => rep'.phase = "Promoted" /\ rep'.by = rep.by
    /\ Terminal(promo) => promo' = promo
TerminalStays == [][TerminalStep]_vars

\* A promotion is recorded Completed only for a database that is not a replica
\* any more, whatever became of the call.
CompletedIsPromoted == promo.phase = "Completed" => db # "replica"

\* A replica whose database was promoted, by its promotion or by hand, ends up
\* Promoted, so that its CR stops managing the database: lost writes, crashes
\* and outages only delay it.
Noticed == db = "standard" /\ rep.is /\ ~rep.del => rep.phase = "Promoted"
PromotionNoticed == <>[]Noticed

\* A promotion ends when no write of status failed and its replica's CR stays.
Promoted ==
    promo.is /\ rep.is /\ ~rep.del /\ host.cr # "gone" /\ left.lost > 0 => Terminal(promo)
PromotionEnds == <>[]Promoted
=============================================================================
