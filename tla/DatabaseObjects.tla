-------------------------- MODULE DatabaseObjects --------------------------
(***************************************************************************)
(* What the operator writes inside of PostgreSQL and pgAdmin: databases,   *)
(* users and their passwords, the objects of pgBouncer and of the metrics  *)
(* exporter, initial SQL, and the users of pgAdmin (postgres.go,           *)
(* pgbouncer.go, pgmonitor.go, pgadmin.go).  Each is done by executing a   *)
(* command in a Pod, and each is skipped when the hash of that command is  *)
(* the one in the status of the cluster.                                   *)
(*                                                                         *)
(* A reconcile works on a cached copy of the cluster, collects the new     *)
(* hashes in memory and patches them into the status when it ends.  In     *)
(* between Pods stop and start, users change the spec and the passwords,   *)
(* commands fail halfway, the operator may crash, and a restore replaces   *)
(* the contents of the database with older ones.                           *)
(***************************************************************************)
EXTENDS Integers, Sequences

CONSTANTS
    UserSpecs,      \* spec.users; specification n names the databases 1..n
    Editable,       \* what the user may change
    Start,          \* the parts enabled in the first spec
    Passwords,      \* passwords, zero for none
    MaxEdits,       \* bound on what the user does
    MaxFaults       \* bound on failed commands and calls, lost patches and crashes

ASSUME DatabaseObjectsAssumption ==
    /\ UserSpecs \subseteq Nat \ {0} /\ 1 \in UserSpecs
    /\ Start \subseteq {"admin", "proxy", "exporter", "init"}
    /\ Passwords \subseteq Nat /\ 0 \in Passwords /\ Passwords # {0}
    /\ MaxEdits \in Nat /\ MaxFaults \in Nat

Steps    == {"databases", "users", "admin", "proxy", "exporter", "init"}
Parts    == {"admin", "proxy", "exporter", "init"}
Accounts == {"user", "proxy", "monitor"}
ObjectNames == {"service", "configmap", "secret", "volume", "workload", "budget"}

VARIABLES
    spec,       \* the user's
    status,     \* the hash recorded for each step
    cached,     \* the operator's copy of both
    secrets,    \* the password in each Secret, 0 when there is none
    objects,    \* the API objects of pgBouncer and of pgAdmin
    db,         \* what each step last left in PostgreSQL or in pgAdmin's volume
    pod,        \* the Pod of the primary
    adminPod,   \* the Pod of pgAdmin: "absent", "starting" or "running"
    refused,    \* the API server has refused pgAdmin's claim, and there is none
    restore,    \* "none", "requested" or "restoring"
    queued,     \* a reconcile is due
    op,         \* the reconcile in progress
    edits, faults,
    unsure      \* history: steps whose contents changed and that was not recorded

vars == <<spec, status, cached, secrets, objects, db, pod, adminPod, refused, restore, queued,
          op, edits, faults, unsure>>
world == <<spec, pod, adminPod, refused, restore, edits>>

\* A hash is a pair: the version of the specification and the password in it.
None  == <<0, 0>>
Off   == <<-1, 0>>      \* the SQL that disables a part
Mixed == <<-2, 0>>      \* contents after a command failed in the middle
Hashes == ((UserSpecs \cup {0, 1, 2}) \X Passwords) \cup {Off, Mixed}

Pipeline == <<"idle", "source", "databases", "secrets", "users", "admin", "bouncer", "proxy",
              "exporter", "init", "pgadmin", "patch">>
Stages == {Pipeline[k] : k \in DOMAIN Pipeline}
After(pc) == Pipeline[1 + CHOOSE k \in DOMAIN Pipeline : Pipeline[k] = pc]

SpecType == [users : UserSpecs, image : {1, 2}, parts : SUBSET Parts]
NoHashes == [s \in Steps |-> None]
NoPod == [state |-> "absent", exporter |-> FALSE, image |-> 1]
Idle == [pc |-> "idle", spec |-> <<>>, pod |-> NoPod, before |-> NoHashes, noted |-> NoHashes,
         secret |-> [a \in Accounts |-> 0], end |-> "none"]

-----------------------------------------------------------------------------
\* What each command does, as the hash of it: the databases, users and passwords that
\* it writes, and the version of the setup script that comes with the image.
CreateDatabasesInPostgreSQL(sp) == <<sp.users, 0>>
WriteUsersInPostgreSQL(sp, sec) == <<sp.users, sec["user"]>>
WriteUsersInPGAdmin(sp, sec)    == <<sp.users, sec["user"]>>
EnableInPostgreSQL(sec)         == <<1, sec["proxy"]>>
DisableInPostgreSQL             == Off
EnableExporterInPostgreSQL(image, sec) == <<image, sec["monitor"]>>
DisableExporterInPostgreSQL     == Off
InitSQL == <<1, 0>>

\* What a step wants to execute, given a spec, Secrets and an image.
WantedHash(s, sp, sec, image) ==
    CASE s = "databases" -> CreateDatabasesInPostgreSQL(sp)
      [] s = "users"     -> WriteUsersInPostgreSQL(sp, sec)
      [] s = "admin"     -> IF "admin" \in sp.parts THEN WriteUsersInPGAdmin(sp, sec) ELSE None
      [] s = "proxy"     -> IF "proxy" \in sp.parts THEN EnableInPostgreSQL(sec) ELSE DisableInPostgreSQL
      [] s = "exporter"  -> IF "exporter" \in sp.parts THEN EnableExporterInPostgreSQL(image, sec)
                            ELSE DisableExporterInPostgreSQL
      [] s = "init"      -> IF "init" \in sp.parts THEN InitSQL ELSE None

\* Mutant: the password is not part of what is hashed.
NoPasswordMutant(s) ==
    LET h == WantedHash(s, op.spec, op.secret, op.pod.image) IN
    IF s = "users" THEN <<h[1], 1>> ELSE h

Revision(s) == WantedHash(s, op.spec, op.secret, op.pod.image)

\* Databases and initial SQL are never taken back; the rest is replaced.
Fulfils(s, contents, hash) ==
    CASE s = "databases" -> contents[1] >= hash[1]
      [] s = "init"      -> hash = None \/ contents = hash
      [] s = "admin"     -> hash = None \/ contents = hash
      [] s \in {"proxy", "exporter"} -> contents = hash \/ (hash = Off /\ contents = None)
      [] s = "users"     -> contents = hash
Holds(s, hash) == Fulfils(s, db[s], hash)

Contents(s, hash) == IF s = "databases" /\ db[s][1] > hash[1] THEN db[s] ELSE hash

\* Databases are created one by one and commands that run in every database can stop
\* in the middle; users are written in one transaction.
Partial(s, hash) ==
    {db[s], Contents(s, hash)} \cup
    (CASE s = "databases" -> {<<n, 0>> : n \in {u \in UserSpecs : db[s][1] < u /\ u < hash[1]}}
       [] s \in {"proxy", "exporter"} -> {Mixed}
       [] OTHER -> {})

\* A password that is in use nowhere, as long as there is one.
StepsOf(a) == CASE a = "user" -> {"users", "admin"} [] a = "proxy" -> {"proxy"}
                [] a = "monitor" -> {"exporter"}
InUse(a) == {0, secrets[a], op.secret[a]} \cup
            {c[s][2] : c \in {db, status, cached.status, op.before, op.noted}, s \in StepsOf(a)}
NewPassword(a) == CHOOSE n \in Passwords \ {0} : n \in InUse(a) => Passwords \subseteq InUse(a)

\* Whether the Pods seen at the start can execute a step. The search for pgBouncer does
\* not ask whether the container runs; the exporter's setup script is in its container.
WritablePod   == op.pod.state = "running"
PGBouncerPod  == op.pod.state # "absent"
ExporterReady == WritablePod /\ ("exporter" \in op.spec.parts => op.pod.exporter)
PGAdminReady  == adminPod = "running"
Writable(s) ==
    CASE s = "proxy"    -> PGBouncerPod
      [] s = "exporter" -> ExporterReady
      [] s = "admin"    -> PGAdminReady
      [] OTHER          -> WritablePod

-----------------------------------------------------------------------------
Init ==
    /\ spec = [users |-> 1, image |-> 1, parts |-> Start]
    /\ status = NoHashes /\ cached = [spec |-> spec, status |-> NoHashes]
    /\ secrets = [a \in Accounts |-> 0] /\ objects = [p \in {"proxy", "admin"} |-> {}]
    /\ db = NoHashes
    /\ pod = NoPod
    /\ adminPod = "absent" /\ refused = FALSE /\ restore = "none"
    /\ queued = TRUE /\ op = Idle /\ edits = 0 /\ faults = 0 /\ unsure = {}

At(pc) == op.pc = pc
Go(noted, secret) == op' = [op EXCEPT !.pc = After(op.pc), !.noted = noted, !.secret = secret]
Advance == Go(op.noted, op.secret)
Stop(end) == op' = [op EXCEPT !.pc = "patch", !.end = end]
Note(s, hash) == [op.noted EXCEPT ![s] = hash]
Unrecorded == {s \in Steps : op.noted[s] # op.before[s]}
Recorded(S) == {s \in S : status[s] # None}

\* The cluster is read from the cache, then the instances.
Reconcile ==
    /\ At("idle") /\ queued
    /\ queued' = FALSE
    /\ op' = [Idle EXCEPT !.pc = "source", !.spec = cached.spec, !.before = cached.status,
                          !.noted = cached.status, !.pod = pod]
    /\ UNCHANGED <<world, status, cached, secrets, objects, db, faults, unsure>>

\* A restore makes these hashes invalid.
ClearedForRestore == [op.noted EXCEPT !["proxy"] = None, !["exporter"] = None]

\* The password is kept when there is one; the Secret is deleted with its part.
Password(a, wanted) == IF ~wanted THEN 0 ELSE IF secrets[a] # 0 THEN secrets[a] ELSE NewPassword(a)
ApplySecret(a, wanted) ==
    /\ secrets' = [secrets EXCEPT ![a] = Password(a, wanted)]
    /\ Go(op.noted, [op.secret EXCEPT ![a] = Password(a, wanted)])

\* reconcileDataSource, as far as it touches the hashes: the runners are removed,
\* later the hashes are cleared, and no other step is taken until the Job is done.
\* Otherwise reconcileMonitoringSecret follows.
ReconcileDataSource ==
    /\ At("source")
    /\ \/ restore = "none" /\ ApplySecret("monitor", "exporter" \in op.spec.parts) /\ UNCHANGED pod
       \/ restore = "restoring" /\ Stop("none") /\ UNCHANGED <<pod, secrets>>
       \/ /\ restore = "requested" /\ (pod.state # "absent" \/ op.before # status)
          /\ pod' = [pod EXCEPT !.state = "absent"]
          /\ Stop("none") /\ UNCHANGED secrets
       \/ /\ restore = "requested" /\ pod.state = "absent" /\ op.before = status
          /\ op' = [op EXCEPT !.pc = "patch", !.end = "restore", !.noted = ClearedForRestore]
          /\ UNCHANGED <<pod, secrets>>
    /\ queued' = (queued \/ pod # pod')
    /\ UNCHANGED <<spec, adminPod, refused, restore, edits, status, cached, objects, db, faults, unsure>>

ReconcilePostgresUserSecrets ==
    /\ At("secrets") /\ ApplySecret("user", TRUE)
    /\ UNCHANGED <<world, status, cached, objects, db, queued, faults, unsure>>

AlreadyApplied(s) == op.noted[s] = Revision(s)

\* Without the part, its record is erased.
Disabled(s) == s \in {"admin", "init"} /\ s \notin op.spec.parts

\* Nothing to do, or nothing to do it with.
StepSkips(s) ==
    /\ At(s)
    /\ \/ Disabled(s) /\ Go(Note(s, None), op.secret)
       \/ ~Disabled(s) /\ (~Writable(s) \/ AlreadyApplied(s)) /\ Advance
    /\ UNCHANGED <<world, status, cached, secrets, objects, db, queued, faults, unsure>>

Ready(s) == At(s) /\ ~Disabled(s) /\ Writable(s) /\ ~AlreadyApplied(s)

\* A container that does not run executes nothing, and privileges are granted only
\* on databases that exist.
Impossible(s) == \/ s # "admin" /\ pod.state # "running"
                 \/ s = "users" /\ ~Holds("databases", Revision("databases"))

\* Mutant: the error of a command is dropped.
DroppedErrorMutant(s) == Advance

\* Mutant: the hash is recorded before the command has succeeded.
NotedAnywayMutant(s) ==
    op' = [op EXCEPT !.pc = "patch", !.end = "error", !.noted = Note(s, Revision(s))]

FailStep(s) == Stop("error")

StepRuns(s) ==
    /\ Ready(s) /\ ~Impossible(s)
    /\ db' = [db EXCEPT ![s] = Contents(s, Revision(s))]
    /\ Go(Note(s, Revision(s)), op.secret)
    /\ UNCHANGED <<world, status, cached, secrets, objects, queued, faults, unsure>>

\* pgAudit or PostGIS could not be installed: no error, and no record.
ExtensionFails ==
    /\ Ready("databases") /\ faults < MaxFaults
    /\ db' = [db EXCEPT !["databases"] = Contents("databases", Revision("databases"))]
    /\ Advance
    /\ faults' = faults + 1 /\ unsure' = unsure \cup Recorded({"databases"})
    /\ UNCHANGED <<world, status, cached, secrets, objects, queued>>

StepRefused(s) ==
    /\ Ready(s) /\ Impossible(s) /\ FailStep(s)
    /\ UNCHANGED <<world, status, cached, secrets, objects, db, queued, faults, unsure>>

StepFails(s) ==
    /\ Ready(s) /\ ~Impossible(s) /\ faults < MaxFaults
    /\ \E c \in Partial(s, Revision(s)) : db' = [db EXCEPT ![s] = c]
    /\ faults' = faults + 1 /\ unsure' = unsure \cup Recorded({s})
    /\ FailStep(s)
    /\ UNCHANGED <<world, status, cached, secrets, objects, queued>>

\* The objects of a part, in the order in which they are applied, or deleted.
PGBouncerObjects == <<"service", "configmap", "secret", "workload", "budget">>
PGAdminObjects   == <<"service", "configmap", "volume", "workload">>
ObjectsOf(part) == IF part = "proxy" THEN PGBouncerObjects ELSE PGAdminObjects

\* What the Pod of pgAdmin mounts, without which it does not start.
PGAdminMounts == {"configmap", "volume"}

\* The first k objects of a part are reconciled.
First(part, k) == {ObjectsOf(part)[n] : n \in 1..k}
ReconcileObjects(part, k) ==
    objects' = [objects EXCEPT ![part] = IF part \in op.spec.parts THEN @ \cup First(part, k)
                                         ELSE @ \ First(part, k)]

\* The Secret holds the password.
ReconcilePGBouncerSecret(k) ==
    secrets' = IF "secret" \notin First("proxy", k) THEN secrets
               ELSE [secrets EXCEPT !["proxy"] = Password("proxy", "proxy" \in op.spec.parts)]

\* pgAdmin's own database goes with its volume.
ReconcilePGAdminDataVolume(k) ==
    LET gone == "admin" \notin op.spec.parts /\ "volume" \in First("admin", k) IN
    /\ db' = [db EXCEPT !["admin"] = IF gone THEN None ELSE @]
    /\ unsure' = IF gone /\ db' # db THEN unsure \cup Recorded({"admin"} \ Unrecorded) ELSE unsure

\* Its Pod comes and goes with the StatefulSet.
ReconcilePGAdminStatefulSet(k) ==
    adminPod' = IF "workload" \notin First("admin", k) THEN adminPod
                ELSE IF "admin" \notin op.spec.parts THEN "absent"
                ELSE IF adminPod = "absent" THEN "starting" ELSE adminPod

\* All objects are reconciled, or one call fails and ends the reconcile.
PGBouncerUpTo(k) ==
    /\ At("bouncer") /\ ReconcileObjects("proxy", k) /\ ReconcilePGBouncerSecret(k)
    /\ UNCHANGED <<world, status, cached, db, queued, unsure>>
PGAdminUpTo(k) ==
    /\ At("pgadmin") /\ ReconcileObjects("admin", k)
    /\ ReconcilePGAdminDataVolume(k) /\ ReconcilePGAdminStatefulSet(k)
    /\ refused' = (refused /\ "volume" \notin First("admin", k))
    /\ UNCHANGED <<spec, pod, restore, edits, status, cached, secrets, queued>>
ReconcilePGBouncer ==
    /\ PGBouncerUpTo(Len(PGBouncerObjects)) /\ UNCHANGED faults
    /\ Go(op.noted, [op.secret EXCEPT !["proxy"] = secrets'["proxy"]])
ReconcilePGAdmin == PGAdminUpTo(Len(PGAdminObjects)) /\ Advance /\ UNCHANGED faults
ObjectFails ==
    /\ faults < MaxFaults /\ faults' = faults + 1 /\ Stop("error")
    /\ \/ \E k \in 0..(Len(PGBouncerObjects) - 1) : PGBouncerUpTo(k)
       \/ \E k \in 0..(Len(PGAdminObjects) - 1) : PGAdminUpTo(k)

\* handlePersistentVolumeClaimError: a claim that the API server refuses to create or to
\* change is an event and no error.  The StatefulSet follows all the same; where that
\* is new it queues a reconcile, and nothing else does.
PGAdminClaimRefused ==
    /\ At("pgadmin") /\ "admin" \in op.spec.parts
    /\ faults < MaxFaults /\ faults' = faults + 1
    /\ objects' = [objects EXCEPT !["admin"] = @ \cup (First("admin", Len(PGAdminObjects)) \ {"volume"})]
    /\ ReconcilePGAdminStatefulSet(Len(PGAdminObjects))
    /\ refused' = ("volume" \notin objects["admin"])
    /\ queued' = (queued \/ "workload" \notin objects["admin"])
    /\ Advance
    /\ UNCHANGED <<spec, pod, restore, edits, status, cached, secrets, db, unsure>>

\* patchClusterStatus sends what this reconcile changed.
PatchClusterStatus ==
    /\ At("patch")
    /\ status' = [s \in Steps |-> IF s \in Unrecorded THEN op.noted[s] ELSE status[s]]
    /\ unsure' = unsure \ Unrecorded
    /\ restore' = IF op.end = "restore" THEN "restoring" ELSE restore
    /\ queued' = (queued \/ op.end = "error") /\ op' = Idle
    /\ UNCHANGED <<spec, pod, adminPod, refused, edits, cached, secrets, objects, db, faults>>

\* The patch is refused, or the operator crashes; either way it starts over.
PatchLost ==
    /\ ~At("idle") /\ faults < MaxFaults
    /\ faults' = faults + 1 /\ unsure' = unsure \cup Recorded(Unrecorded)
    /\ queued' = TRUE /\ op' = Idle
    /\ UNCHANGED <<world, status, cached, secrets, objects, db>>

\* A call to the API fails: nothing after it is done, and the status is patched.
CallFails ==
    /\ op.pc \in {"source", "secrets"} /\ faults < MaxFaults
    /\ faults' = faults + 1 /\ Stop("error")
    /\ UNCHANGED <<world, status, cached, secrets, objects, db, queued, unsure>>

-----------------------------------------------------------------------------
\* What a reconcile reads only at its start changes between reconciles: it makes no
\* difference when during a reconcile it does.

\* The cache follows the API, and its events queue a reconcile.
Sync ==
    /\ At("idle") /\ cached # [spec |-> spec, status |-> status]
    /\ cached' = [spec |-> spec, status |-> status] /\ queued' = TRUE
    /\ UNCHANGED <<world, status, secrets, objects, db, op, faults, unsure>>

May(what) == what \in Editable /\ edits < MaxEdits

EditSpec ==
    /\ At("idle") /\ edits < MaxEdits /\ edits' = edits + 1
    /\ \/ May("users") /\ \E u \in UserSpecs \ {spec.users} : spec' = [spec EXCEPT !.users = u]
       \/ May("image") /\ spec' = [spec EXCEPT !.image = 3 - spec.image]
       \/ \E p \in Parts \cap Editable :
            spec' = [spec EXCEPT !.parts = IF p \in @ THEN @ \ {p} ELSE @ \cup {p}]
    /\ UNCHANGED <<pod, adminPod, refused, restore, status, cached, secrets, objects, db, queued, op,
                   faults, unsure>>

\* The user deletes the Secret of a user, or writes a password of their own.
EditSecret ==
    /\ At("idle") /\ May("rotate") /\ edits' = edits + 1 /\ secrets["user"] # 0
    /\ \E password \in {0, NewPassword("user")} : secrets' = [secrets EXCEPT !["user"] = password]
    /\ queued' = TRUE
    /\ UNCHANGED <<spec, pod, adminPod, refused, restore, status, cached, objects, db, op, faults, unsure>>

RequestRestore ==
    /\ At("idle") /\ May("restore") /\ restore = "none"
    /\ edits' = edits + 1 /\ restore' = "requested" /\ queued' = TRUE
    /\ UNCHANGED <<spec, pod, adminPod, refused, status, cached, secrets, objects, db, op, faults, unsure>>

\* The restore Job brings back an earlier point in time, when only some of the steps
\* had been done; pgAdmin has a volume of its own.
PointsInTime == {{}, {"databases"}, {"databases", "users"}, {"databases", "users", "proxy", "exporter"}}
RestoreRuns ==
    /\ At("idle") /\ restore = "restoring" /\ restore' = "none" /\ queued' = TRUE
    /\ \E kept \in PointsInTime :
        db' = [s \in Steps |-> IF s \in kept \cup {"admin"} THEN db[s] ELSE None]
    /\ unsure' = unsure \cup Recorded({s \in {"databases", "users", "init"} : db'[s] # db[s]})
    /\ UNCHANGED <<spec, pod, adminPod, refused, edits, status, cached, secrets, objects, op, faults>>

\* The Pod of an instance has the exporter's container when that is enabled; a Pod of
\* another template is replaced.
NewPod == [state |-> "starting", exporter |-> "exporter" \in spec.parts, image |-> spec.image]
PodOutdated == <<pod.exporter, pod.image>> # <<NewPod.exporter, NewPod.image>>

\* The Pod of the primary comes and goes; each change queues a reconcile.
PodIs(state) == pod' = [pod EXCEPT !.state = state]
PodChanges ==
    /\ At("idle")
    /\ \/ pod.state = "absent" /\ restore = "none" /\ pod' = NewPod /\ UNCHANGED <<faults, adminPod>>
       \/ pod.state = "starting" /\ PodIs("running") /\ UNCHANGED <<faults, adminPod>>
       \/ pod.state = "running" /\ PodOutdated /\ PodIs("absent") /\ UNCHANGED <<faults, adminPod>>
       \/ /\ adminPod = "starting" /\ PGAdminMounts \subseteq objects["admin"]
          /\ adminPod' = "running" /\ UNCHANGED <<faults, pod>>
    /\ queued' = TRUE
    /\ UNCHANGED <<spec, refused, restore, edits, status, cached, secrets, objects, db, op, unsure>>

\* The Pod, or its database container, dies.
PodDies ==
    /\ pod.state = "running" /\ faults < MaxFaults /\ faults' = faults + 1
    /\ \E state \in {"absent", "starting"} : PodIs(state)
    /\ queued' = TRUE
    /\ UNCHANGED <<spec, adminPod, refused, restore, edits, status, cached, secrets, objects, db, op,
                   unsure>>

Operator ==
    \/ Reconcile \/ ReconcileDataSource \/ ReconcilePostgresUserSecrets
    \/ ReconcilePGBouncer \/ ReconcilePGAdmin \/ PatchClusterStatus
    \/ \E s \in Steps : StepSkips(s) \/ StepRuns(s) \/ StepRefused(s)

Next ==
    \/ Operator \/ Sync \/ PodChanges \/ RestoreRuns
    \/ \E s \in Steps : StepFails(s)
    \/ ExtensionFails \/ PatchLost \/ CallFails \/ ObjectFails \/ PGAdminClaimRefused \/ PodDies
    \/ EditSpec \/ EditSecret \/ RequestRestore

Spec == Init /\ [][Next]_vars

\* The work queue serves each request, the cache catches up, Pods start and the
\* restore Job ends. What happens here only between reconciles is strongly fair: in
\* the system it does not wait for the operator.
FairSpec == Spec /\ WF_vars(Operator) /\ SF_vars(Sync) /\ SF_vars(PodChanges) /\ SF_vars(RestoreRuns)

-----------------------------------------------------------------------------
TypeOK ==
    /\ spec \in SpecType /\ cached.spec \in SpecType
    /\ \A c \in {status, cached.status, db, op.before, op.noted} : c \in [Steps -> Hashes]
    /\ secrets \in [Accounts -> Passwords]
    /\ objects \in [{"proxy", "admin"} -> SUBSET ObjectNames]
    /\ pod \in [state : {"absent", "starting", "running"}, exporter : BOOLEAN, image : {1, 2}]
    /\ adminPod \in {"absent", "starting", "running"} /\ refused \in BOOLEAN
    /\ restore \in {"none", "requested", "restoring"} /\ queued \in BOOLEAN
    /\ op.pc \in Stages /\ op.secret \in [Accounts -> Passwords]
    /\ unsure \subseteq Steps

\* The hashes in the status are recorded writes.
Records == INSTANCE RecordedWrite WITH
    Fields <- Steps, Values <- Hashes, None <- None,
    held <- [s \in Steps |-> {h \in Hashes : Holds(s, h)}], recorded <- status,
    open <- Unrecorded, lost <- unsure

\* A status field is only ever set to a hash that the contents fulfil (or erased), and
\* what changes the contents without a record is a loss.  Hence (RecordedWrite!Truthful)
\* a recorded hash is that of SQL which has been executed and whose effects are still
\* there, on which the comparison in each reconcile..InPostgreSQL relies.
StatusRecords == Records!Spec

Wanted(s) == WantedHash(s, spec, secrets, pod.image)

\* "The necessary SQL has already been applied": what is recorded and wanted is there.
\* A restore in place refutes it (README, divergences).
NecessarySQLApplied ==
    \A s \in Steps : status[s] = Wanted(s) /\ s \notin Unrecorded => Holds(s, status[s])

\* A reconcile that ends without an error, outside of a restore, has left what it was
\* asked for: all objects of the parts that its spec enables and none of the others, and,
\* unless its copy of the status was stale or a loss is on record, the contents that the
\* spec it read and the Secrets it saw call for, wherever a container could be reached.
\* Nothing comes back to a reconcile that reports no error, while SQL is skipped by hash,
\* runs halfway or meets a Pod that died.  The exception is a claim that the API server
\* refused: its absence is not an error (README, divergences).
SuccessIsComplete ==
    At("patch") /\ op.end = "none" /\ restore = "none" =>
        /\ \A part \in {"proxy", "admin"} : \A o \in First(part, Len(ObjectsOf(part))) :
             (o \in objects[part] <=> part \in op.spec.parts) \/ (o = "volume" /\ refused)
        /\ op.before = status =>
             \A s \in Steps \ unsure : Writable(s) => Holds(s, Revision(s))

\* In the end the parts that are enabled exist, and PostgreSQL and pgAdmin have what
\* the spec and the Secrets say, unless a write was lost from the record or pgAdmin's
\* claim is still refused.
Converges ==
    /\ <>[](unsure # {} \/ \A s \in Steps : Holds(s, Wanted(s)) \/ (s = "admin" /\ refused))
    /\ <>[](unsure # {} \/ refused \/ \A part \in {"proxy", "admin"} :
              objects[part] = IF part \in spec.parts THEN First(part, Len(ObjectsOf(part))) ELSE {})
=============================================================================
