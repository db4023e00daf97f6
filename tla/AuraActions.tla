---------------------------- MODULE AuraActions ----------------------------
(***************************************************************************)
(* The custom resources that ask Neo4j Aura to do something once: take a   *)
(* snapshot of an instance, restore an instance from one, back a database  *)
(* up, restore a database from a backup; and the provider configuration    *)
(* whose credentials they use.  A behaviour follows one such resource: the *)
(* passes of its controller over a cached copy, the status writes (which   *)
(* succeed only over the newest copy), crashes, and an Aura that accepts,  *)
(* asks to be tried later, refuses, or accepts and loses the answer.       *)
(***************************************************************************)
EXTENDS Integers, FiniteSets, TLC

CONSTANTS
    Jobs,       \* the ids Aura gives snapshots and backups, in order
    Scenes      \* the scenes a behaviour may play: see Init

VARIABLES
    cr,         \* the custom resource
    cache,      \* the operator's cached copy of it
    pass,       \* the reconcile in progress
    aura,       \* the instance's status, the jobs, the restores accepted
    env,        \* what the references of the resource lead to
    left        \* what the scene still allows

vars == <<cr, cache, pass, aura, env, left>>

None == 0
Kinds == {"snapshot", "restore", "databasebackup", "databaserestore", "provider"}
Idle == [at |-> "idle"]

\* What the specs and the status sections of the five kinds tell apart.
SnapshotStatus == [phase : {"", "Pending", "InProgress", "Completed", "Failed", "Cancelled", "Error"}]
RestoreStatus == [phase : {"", "Pending", "Restoring", "Completed", "Failed"}]
DatabaseBackupStatus == [phase : {"", "Pending", "Completed", "Failed", "Error"}]
DatabaseRestoreStatus == [phase : {"", "Pending", "Restoring", "Submitting", "Submitted", "Error"}]
ProviderStatus == [phase : {"", "Valid", "Invalid"}]

StatusOf(kind) ==
    CASE kind = "snapshot" -> SnapshotStatus [] kind = "restore" -> RestoreStatus
      [] kind = "databasebackup" -> DatabaseBackupStatus
      [] kind = "databaserestore" -> DatabaseRestoreStatus [] kind = "provider" -> ProviderStatus

Fresh == cache = cr

\* What a pass does next: call Aura, or write `set` over the newest copy and
\* go on with `then`.
Stop == Idle
Ask(call) == [at |-> call]
Write(set, then) == [at |-> "write", set |-> set, then |-> then]
Record(set) == Write(set, "stop")
fail(kind, reason) == Record([phase |-> IF kind = "restore" THEN "Failed" ELSE "Error", reason |-> reason])

managementAllows(o) == o.creates

---------------------------------------------------------------------------
(* AuraSnapshot.                                                           *)

snapshotTerminal_NotCancelled(phase) == phase \in {"Completed", "Failed"}

snapshotTerminal(phase) == phase \in {"Completed", "Failed", "Cancelled"}

ReconcileSnapshot_AfterError(o) ==
    IF snapshotTerminal(o.phase) THEN Stop
    ELSE IF ~env.creds \/ ~env.target THEN Record([reason |-> "InstanceNotReady"])
    ELSE IF o.phase \in {"", "Error"} THEN Ask("post") ELSE Ask("get")

ReconcileSnapshot(o) ==
    IF snapshotTerminal(o.phase) THEN Stop
    ELSE IF ~env.creds \/ ~env.target THEN Record([reason |-> "InstanceNotReady"])
    ELSE IF o.id = None THEN Ask("post") ELSE Ask("get")

\* The answer to the create carries the id alone.
RequestedSnapshot(i) == Record([id |-> i, phase |-> "Pending"])

PolledSnapshot(s) == Record([phase |-> s, reason |-> s])

---------------------------------------------------------------------------
(* AuraRestore.                                                            *)

IsInstanceTransient(s) == s \in {"updating", "restoring"}
IsInstanceRunning(s) == s = "running"

\* A resource that still waits keeps the phase it has.
pending(reason) == Record([phase |-> "Pending", reason |-> reason])
setPhase == Record([phase |-> "Restoring", begun |-> TRUE])
complete == Record([phase |-> "Completed", reason |-> "Completed"])

ReconcileRestore(o) ==
    IF o.phase \in {"Completed", "Failed"} THEN Stop
    ELSE IF ~env.creds \/ ~env.target THEN pending("InstanceNotReady")
    ELSE IF ~env.source THEN pending("SnapshotNotReady")
    ELSE Ask("get")

ObservedRestore_Early(o, s) ==
    IF o.phase = "Restoring" THEN complete
    ELSE IF IsInstanceTransient(s) THEN setPhase
         ELSE IF IsInstanceRunning(s) THEN Ask("post") ELSE pending("InstanceNotRunning")

\* The instance as Aura shows it decides: it is busy, so a restore must be
\* under way; it runs, so one may be issued, or the one issued is over.
ObservedRestore(o, s) ==
    IF o.phase = "Restoring"
    THEN IF IsInstanceTransient(s) THEN Stop
         ELSE IF IsInstanceRunning(s) THEN complete ELSE fail("restore", "RestoreFailed")
    ELSE IF IsInstanceTransient(s) THEN setPhase
         ELSE IF IsInstanceRunning(s) THEN Ask("post") ELSE pending("InstanceNotRunning")

---------------------------------------------------------------------------
(* AuraDatabaseBackup.                                                     *)

ReconcileDatabaseBackup(o) ==
    IF o.paused THEN Stop
    ELSE IF ~env.database THEN fail("databasebackup", "DatabaseRefUnresolved")
    ELSE IF ~env.target THEN Record([reason |-> "DatabaseNotReady"])
    ELSE IF ~env.creds THEN fail("databasebackup", "TargetUnresolved")
    ELSE IF o.note # None \/ o.id # None THEN Ask("get")
    ELSE IF ~managementAllows(o) THEN Record([reason |-> "CreateNotAllowed"])
    ELSE Ask("post")

syncStatusBackup_Done(i, s) ==
    Record([id |-> i, phase |-> IF s = "Failed" THEN s ELSE "Completed", reason |-> s])

\* Anything but a finished backup reads as pending.
syncStatusBackup(i, s) ==
    Record([id |-> i, phase |-> IF s \in {"Completed", "Failed"} THEN s ELSE "Pending", reason |-> s])

\* The id goes on the annotation, then into the status.
TakenBackup(i) == Write([note |-> i], "sync")

---------------------------------------------------------------------------
(* AuraDatabaseRestore.                                                    *)

Ended == {"Submitted", "Completed", "Error"}
markStarted_Sends == Write([phase |-> "Restoring", begun |-> TRUE], "post")

markStarted == Write([phase |-> "Restoring", begun |-> TRUE], "mark")
markSubmitting == Write([phase |-> "Submitting"], "post")
markOutcomeUnknown == Record([reason |-> "RestoreOutcomeUnknown"])
markSubmitted == Record([phase |-> "Submitted", reason |-> "Submitted"])
markPhase == Record([phase |-> "Pending"])

ReconcileDatabaseRestore_Completed(o) ==
    IF o.paused \/ o.phase = "Completed" THEN Stop
    ELSE IF o.phase = "Submitting" THEN markOutcomeUnknown ELSE markStarted

ReconcileDatabaseRestore_Resends(o) ==
    IF o.paused \/ o.phase \in Ended \/ ~managementAllows(o) THEN Stop
    ELSE IF ~env.database THEN Record([reason |-> "DatabaseRefUnresolved"])
    ELSE IF ~env.target \/ ~env.source THEN Stop
    ELSE IF ~env.creds THEN Record([reason |-> "TargetUnresolved"])
    ELSE markStarted

\* A marker found at the start of a pass means the outcome was never learnt.
ReconcileDatabaseRestore(o) ==
    IF o.paused \/ o.phase \in Ended THEN Stop
    ELSE IF o.phase = "Submitting" THEN markOutcomeUnknown
    ELSE IF ~managementAllows(o) THEN Stop
    ELSE IF ~env.database THEN Record([reason |-> "DatabaseRefUnresolved"])
    ELSE IF ~env.target \/ ~env.source THEN Stop
    ELSE IF ~env.creds THEN Record([reason |-> "TargetUnresolved"])
    ELSE markStarted

---------------------------------------------------------------------------
(* AuraProviderConfig: one cheap call proves the credentials.              *)

Verdict(valid) ==
    LET v == IF valid THEN "Valid" ELSE "Invalid" IN Record([phase |-> v, reason |-> v])

ReconcileProvider(o) == IF env.creds THEN Ask("get") ELSE Verdict(FALSE)

---------------------------------------------------------------------------
(* A pass.                                                                 *)

Reconcile(o) ==
    CASE o.kind = "snapshot" -> ReconcileSnapshot(o)
      [] o.kind = "restore" -> ReconcileRestore(o)
      [] o.kind = "databasebackup" -> ReconcileDatabaseBackup(o)
      [] o.kind = "databaserestore" -> ReconcileDatabaseRestore(o)
      [] o.kind = "provider" -> ReconcileProvider(o)

\* The copy of the pass travels with its steps.
Goto(step) == pass' = IF step = Idle THEN Idle ELSE step @@ [copy |-> pass.copy]

Spend(f) == left' = [left EXCEPT ![f] = @ - 1]

\* A read of the stored object, an event or a requeue starts a pass.
BeginPass ==
    /\ pass = Idle
    /\ (left.lag \/ Fresh)
    /\ LET step == Reconcile(cache) IN
       pass' = IF step = Idle THEN Idle ELSE step @@ [copy |-> cache]
    /\ UNCHANGED <<cr, cache, aura, env, left>>

\* The newest of the jobs Aura keeps; the id the next one gets.
Used == {j \in Jobs : aura.job[j] # "none"}
NextJob == CHOOSE j \in Jobs \ Used : \A k \in Jobs \ Used : j <= k

\* Aura takes a request: a job appears, or the instance starts restoring.
Accepts(kind) ==
    IF kind \in {"restore", "databaserestore"} THEN aura.inst = "running" ELSE Jobs # Used

Accepted(kind) ==
    IF kind = "restore" THEN [aura EXCEPT !.inst = "restoring", !.restores = @ + 1]
    ELSE IF kind = "databaserestore" THEN [aura EXCEPT !.restores = @ + 1]
    ELSE [aura EXCEPT !.job[NextJob] = "Pending"]

Posted(kind) ==
    CASE kind = "snapshot" -> RequestedSnapshot(NextJob)
      [] kind = "restore" -> setPhase
      [] kind = "databasebackup" -> TakenBackup(NextJob)
      [] kind = "databaserestore" -> markSubmitted

Post ==
    /\ pass.at = "post" /\ Accepts(cr.kind)
    /\ aura' = Accepted(cr.kind)
    /\ Goto(Posted(cr.kind))
    /\ UNCHANGED <<cr, cache, env, left>>

JobOf(o) == IF o.note # None THEN o.note ELSE o.id

Got(o) ==
    CASE o.kind = "snapshot" -> PolledSnapshot(aura.job[o.id])
      [] o.kind = "restore" -> ObservedRestore(o, aura.inst)
      [] o.kind = "databasebackup" -> syncStatusBackup(JobOf(o), aura.job[JobOf(o)])
      [] o.kind = "provider" -> Verdict(TRUE)

Get ==
    /\ pass.at = "get" /\ env.creds
    /\ Goto(Got(pass.copy))
    /\ UNCHANGED <<cr, cache, aura, env, left>>

\* What a controller does with an error: a conflict (409), a transient one
\* (a lost connection, 429, 5xx) or a refusal.
IsConflict(e) == e = "409"
IsTransient(e) == e = "5xx"
IsNotFound(e) == e = "404"

AfterPost(kind, e) ==
    IF IsConflict(e) \/ IsTransient(e)
    THEN IF kind = "databaserestore" THEN markPhase ELSE Stop
    ELSE fail(kind, "refused")

AfterGet(kind, e) ==
    IF kind = "provider" THEN Verdict(FALSE)
    ELSE IF IsNotFound(e) \/ IsTransient(e) THEN Stop ELSE fail(kind, "ObserveFailed")

\* Aura answers with an error: it is busy, it is away, or it refuses.
Answer(e) == pass' = LET step == IF pass.at = "post" THEN AfterPost(cr.kind, e) ELSE AfterGet(cr.kind, e)
                     IN IF step = Idle THEN Idle ELSE step @@ [copy |-> pass.copy]

CallFails ==
    /\ pass.at \in {"post", "get"}
    /\ \/ pass.at = "post" /\ ~Accepts(cr.kind) /\ Answer("409") /\ UNCHANGED left
       \/ pass.at = "get" /\ ~env.creds /\ Answer("401") /\ UNCHANGED left
       \/ \E e \in left.codes : Answer(e) /\ left' = [left EXCEPT !.codes = @ \ {e}]
    /\ UNCHANGED <<cr, cache, aura, env>>

\* Aura does the work and the answer is lost.
AnswerLost ==
    /\ pass.at = "post" /\ Accepts(cr.kind) /\ left.lost > 0
    /\ aura' = Accepted(cr.kind)
    /\ Answer("5xx") /\ Spend("lost")
    /\ UNCHANGED <<cr, cache, env>>

\* A wait does not take back what the resource already reports.
Written(o, set) ==
    IF o.kind = "restore" /\ "phase" \in DOMAIN set /\ set.phase = "Pending" /\ o.phase # ""
    THEN [o EXCEPT !.reason = set.reason]
    ELSE set @@ o

Continue(then) ==
    CASE then = "mark" -> markSubmitting
      [] then = "post" -> Ask("post")
      [] then = "sync" -> syncStatusBackup(pass.set.note, "Pending")
      [] then = "stop" -> Stop

\* patchStatus, markPhase and the rest: read the cached copy again, apply the
\* change, update; the update stands only if nothing newer was stored.
patchStatus ==
    /\ pass.at = "write" /\ Fresh
    /\ cr' = Written(cr, pass.set)
    /\ Goto(Continue(pass.then))
    /\ UNCHANGED <<cache, aura, env, left>>

\* The retries are used up.  Only the first marker of a database restore is
\* written for the record alone.
WriteGivenUp ==
    /\ pass.at = "write" /\ left.unwritten > 0
    /\ Goto(IF pass.then = "mark" THEN markSubmitting ELSE Stop)
    /\ Spend("unwritten")
    /\ UNCHANGED <<cr, cache, aura, env>>

\* The informer delivers the stored object.
Deliver ==
    /\ ~Fresh /\ cache' = cr
    /\ UNCHANGED <<cr, pass, aura, env, left>>

\* The operator stops and starts again, with nothing of the pass; it lists
\* before it works.  The history records a restore whose outcome it missed.
Crash ==
    /\ left.crash > 0 /\ pass # Idle
    /\ pass' = Idle /\ cache' = cr
    /\ env' = [env EXCEPT !.missed = @ \/ cr.phase = "Submitting"]
    /\ Spend("crash")
    /\ UNCHANGED <<cr, aura>>

---------------------------------------------------------------------------
(* Aura and the people who use it.                                         *)

Settle ==
    /\ \/ \E j \in Jobs : \E s \in {"Completed"} \cup left.ends :
            /\ aura.job[j] \in {"Pending", "InProgress"} /\ s # aura.job[j]
            /\ aura' = [aura EXCEPT !.job[j] = s]
       \/ /\ IsInstanceTransient(aura.inst)
          /\ aura' = [aura EXCEPT !.inst = "running"]
    /\ UNCHANGED <<cr, cache, pass, env, left>>

Console(what) ==
    /\ what \in left.may
    /\ left' = [left EXCEPT !.may = @ \ {what}]
    /\ CASE what = "resize" ->
              /\ aura.inst = "running" /\ aura' = [aura EXCEPT !.inst = "updating"]
              /\ UNCHANGED <<cr, env>>
         [] what = "sleep" ->
              /\ aura.inst = "running" /\ aura' = [aura EXCEPT !.inst = "paused"]
              /\ UNCHANGED <<cr, env>>
         [] what = "wake" ->
              /\ aura.inst = "paused" /\ aura' = [aura EXCEPT !.inst = "running"]
              /\ UNCHANGED <<cr, env>>
         [] what \in {"creds", "target", "source", "database"} ->
              /\ env' = [env EXCEPT ![what] = ~@]
              /\ UNCHANGED <<cr, aura>>
         [] what \in {"pause", "resume"} ->
              /\ cr.paused = (what = "resume") /\ cr' = [cr EXCEPT !.paused = ~@]
              /\ UNCHANGED <<aura, env>>
    /\ UNCHANGED <<cache, pass>>

Init ==
    \E s \in Scenes :
        /\ cr = s.cr /\ cache = s.cr /\ pass = Idle
        /\ aura = [inst |-> s.inst, job |-> [j \in Jobs |-> "none"], restores |-> 0]
        /\ env = s.env /\ left = s.left

Next ==
    \/ BeginPass \/ Post \/ Get \/ CallFails \/ AnswerLost \/ patchStatus \/ WriteGivenUp
    \/ Deliver \/ Crash \/ Settle \/ \E w \in left.may : Console(w)

Spec == Init /\ [][Next]_vars

\* The work queue always runs another pass, calls return, the informer
\* delivers, Aura finishes what it started.
Fairness ==
    /\ WF_vars(BeginPass) /\ WF_vars(Post \/ Get \/ CallFails)
    /\ WF_vars(patchStatus) /\ WF_vars(Deliver) /\ WF_vars(Settle)

FairSpec == Spec /\ Fairness

---------------------------------------------------------------------------
(* Properties.                                                             *)

\* The phases each kind's API declares, and ids Aura handed out.
TypeOK ==
    /\ [phase |-> cr.phase] \in StatusOf(cr.kind)
    /\ {cr.id, cr.note} \subseteq Used \cup {None}
    /\ aura.inst \in {"running", "updating", "restoring", "paused"}
    /\ pass.at \in {"idle", "get", "post", "write"}

\* A database restore is sent only while the stored object carries the
\* Submitting marker, so that every attempt is recognisable afterwards
\* (auradatabaserestore_controller.go 138-144).
SendStep == aura'.restores > aura.restores /\ cr.kind = "databaserestore" => cr.phase = "Submitting"
SentOnlyMarked == [][SendStep]_vars

\* After a stop of the operator with the marker stored, the restore is never
\* sent again, whatever happens next (89-96).
ResendStep == aura'.restores > aura.restores /\ cr.kind = "databaserestore" => ~env.missed
MissedNotResent == [][ResendStep]_vars

\* A database restore that has ended keeps its phase: no later pass, not even
\* one over a copy that lags, starts it again (78-88).
EndedStep == cr.kind = "databaserestore" /\ cr.phase \in Ended => cr'.phase = cr.phase
EndedStays == [][EndedStep]_vars

\* A backup or a snapshot is reported Completed only when Aura completed it
\* (syncStatus 152-155: an empty status is not a finished backup).  A pass on a
\* copy from before the id was recorded asks for a second one, and the phase of
\* one may then stand beside the id of the other: nothing is said of those.
CompletedIsComplete ==
    cr.kind \in {"snapshot", "databasebackup"} /\ cr.phase = "Completed" /\ (left.lag => Cardinality(Used) = 1)
        => aura.job[cr.id] = "Completed"

\* With nobody else at the console, an instance restore reported Completed
\* was issued, and is over (112-147).
CompletedIsRestored ==
    cr.kind = "restore" /\ cr.phase = "Completed" /\ ~left.others => aura.restores > 0 /\ aura.inst # "restoring"

\* With a copy that is never stale, what Aura is asked to do once it is asked
\* once more only after a crash, a lost answer or a lost write.
AskedOnce ==
    ~left.lag => Cardinality(Used) + aura.restores <= 1 + (left.faults - left.crash - left.lost - left.unwritten)

\* Every such resource comes to its end, and the end of a restore stays:
\* Completed, Failed, Submitted, Error or the outcome nobody knows.
Over(o) ==
    CASE o.kind = "snapshot" -> snapshotTerminal(o.phase)
      [] o.kind = "restore" -> o.phase \in {"Completed", "Failed"}
      [] o.kind = "databasebackup" -> o.phase \in {"Completed", "Failed"}
      [] o.kind = "databaserestore" -> o.phase \in Ended \/ o.reason = "RestoreOutcomeUnknown"
      [] o.kind = "provider" -> o.phase = (IF env.creds THEN "Valid" ELSE "Invalid")

Allowed == cr.kind = "provider" /\ left.may = {}
Served == env.creds /\ env.target /\ env.source /\ env.database /\ ~cr.paused /\ managementAllows(cr)
          /\ aura.inst # "paused" /\ left.may = {}

ActionEnds == []<>(Served \/ Allowed) => <>[]Over(cr)
=============================================================================
