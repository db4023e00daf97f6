------------------------------ MODULE MCBackup ------------------------------
(* Small instances of Backup for TLC. *)
EXTENDS Backup

Budget == [lost |-> 0, unread |-> 0, late |-> 0, stuck |-> 0, nolog |-> 0, attempt |-> 0,
           fail |-> 0, ttl |-> 0, fire |-> 0, crash |-> 0, valid |-> 0, suspend |-> 0,
           schedule |-> 0, delete |-> 0, away |-> 0, error |-> 0, unrecorded |-> FALSE,
           blind |-> FALSE]

Scene(cs, t, sh, budget) == [cr |-> cs, target |-> t, shard |-> sh, jobs |-> {}, left |-> budget]
Nothing == Resource("none", Spec0("full", "pvc", FALSE, FALSE, 0))
NeverMade == [Nothing EXCEPT !.life = "gone"]
Both(f, d) == [b \in Backups |-> IF b = "full" THEN f ELSE d]

Of(spec) == Both(Resource("live", spec), NeverMade)
OneTimeSpec == Spec0("full", "pvc", FALSE, FALSE, 0)
EveryHour == Spec0("full", "pvc", TRUE, FALSE, 0)

(* A one-time backup whose Job is retried, fails, expires and whose operator
   restarts; one whose log cannot be read and whose target goes away; one of
   a sharded database that is not ready yet, whose pod never starts.         *)
Retried == Scene(Of(OneTimeSpec), "up", "ready",
                 [Budget EXCEPT !.attempt = 1, !.fail = 1, !.ttl = 1, !.crash = 1])
Unread == Scene(Both(Resource("new", OneTimeSpec), NeverMade), "up", "ready",
                [Budget EXCEPT !.nolog = 1, !.away = 1, !.delete = 1])
Stuck == Scene(Of(Spec0("full", "pvc", FALSE, TRUE, 0)), "gone", "waiting",
               [Budget EXCEPT !.stuck = 1, !.late = 1, !.crash = 1])
(* One whose writes and reads fail and whose Job expires; one whose pod starts
   late and whose requests fail.                                             *)
Faulty == Scene(Of(OneTimeSpec), "up", "ready",
                [Budget EXCEPT !.lost = 1, !.unread = 1, !.ttl = 1])
Late == Scene(Of(OneTimeSpec), "up", "ready", [Budget EXCEPT !.late = 1, !.attempt = 1, !.error = 1])
(* Two backups of one chain, the Job of the one writing; a scheduled one whose
   parent is created late; a deletion that prunes.                           *)
Chain == [Scene([b \in Backups |-> Resource("live", OneTimeSpec)], "up", "ready",
                [Budget EXCEPT !.fail = 1])
             EXCEPT !.jobs = {[Job("full", OneTimeSpec, OnceName, 1) EXCEPT !.state = "writing", !.ran = TRUE]}]
Orphan == Scene(Both([Nothing EXCEPT !.spec.valid = FALSE], Resource("live", EveryHour)), "up", "ready",
                [Budget EXCEPT !.lost = 1, !.unread = 1])
Pruned == Scene(Of(Spec0("full", "pvc", TRUE, FALSE, 1)), "up", "ready",
                [Budget EXCEPT !.fire = 2, !.delete = 1])
(* A schedule suspended and resumed, removed; runs that fail. *)
Paused == Scene(Of(EveryHour), "up", "ready", [Budget EXCEPT !.suspend = 2, !.schedule = 1])
Often == Scene(Of(Spec0("full", "pvc", TRUE, TRUE, 0)), "up", "ready",
               [Budget EXCEPT !.fire = 3, !.fail = 1])
(* A parent on other storage; a version too old; a sharded database that is
   missing; a spec that is repaired.                                         *)
Mismatch == Scene(Both(Resource("live", Spec0("full", "cloud", TRUE, FALSE, 0)),
                       Resource("new", OneTimeSpec)), "up", "ready", [Budget EXCEPT !.valid = 2])
Old == Scene(Of(OneTimeSpec), "old", "ready", Budget)
NoShards == Scene(Of(Spec0("full", "pvc", FALSE, TRUE, 0)), "up", "missing", Budget)
AllScenes == {Retried, Unread, Stuck, Faulty, Late, Chain, Pruned, Paused, Orphan, Often, Mismatch, Old, NoShards}
=============================================================================
