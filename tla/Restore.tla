------------------------------- MODULE Restore -------------------------------
(***************************************************************************)
(* How the data directory of a cluster comes to be: directories moved from *)
(* existing volumes, a data source that bootstraps a new cluster, and the  *)
(* restore in place that a user asks for with an annotation.  These are    *)
(* reconcileDirMoveJobs and configureExistingPVCs (volumes.go),            *)
(* reconcileDataSource (cluster.go) and the restore half of pgbackrest.go, *)
(* with as much of the rest of Reconcile as decides whether Postgres runs. *)
(*                                                                         *)
(* A reconcile keeps a copy of the spec and the status, and what it saw of *)
(* the instances; it continues with them while Pods start and stop, Jobs   *)
(* run, Patroni writes its Endpoints and the user changes their mind.      *)
(***************************************************************************)
EXTENDS Integers, FiniteSets, Sequences

CONSTANTS
    Instances,      \* names of instances; all are wanted by the spec
    NewInstance,    \* the name GenerateStartupInstance gives
    Sources,        \* "none", "cluster", "cloud", "volumes": spec.dataSource
    Dirs,           \* directories that the "volumes" data source has to move
    Projections,    \* files of the source cluster's configuration
    CloneDisabled,  \* may a cloned cluster disable restores in place?
    MaxRestores,    \* bound on restores the user asks for, that of a data source included
    MaxConfigs,     \* bound on versions of the restore options
    MaxEdits,       \* bound on both
    MaxFaults,      \* bound on failed calls and Jobs, crashes and container restarts
    None

ASSUME RestoreAssumption ==
    /\ NewInstance \in Instances /\ None \notin Instances
    /\ Sources \subseteq {"none", "cluster", "cloud", "volumes"}
    /\ Dirs \subseteq {"pgdata", "pgwal", "repo"} /\ "pgdata" \in Dirs
    /\ Projections \in Seq([optional : BOOLEAN, present : BOOLEAN])
    /\ CloneDisabled \in BOOLEAN
    /\ MaxRestores \in Nat /\ MaxConfigs \in Nat \ {0}
    /\ MaxEdits \in Nat /\ MaxFaults \in Nat

VARIABLES
    spec,       \* the user's
    status,     \* the persisted status
    moves,      \* the Job that moves each directory
    job,        \* the restore Job
    copies,     \* copied files of the source cluster's configuration
    runner,     \* the StatefulSet of each instance
    pod,        \* its Pod: "none", "pending" or "running"
    leader,     \* the instance with the role of primary
    dcs,        \* Patroni's Endpoints: "none", "present" or "initialized"
    disk,       \* the data directory and the bootstrap directory of each instance
    w,          \* the reconcile in progress
    faults,
    done,       \* history: the restores that completed
    leftover    \* history: an instance was not gone when the cluster was found ready

vars == <<spec, status, moves, job, copies, runner, pod, leader, dcs, disk, w, faults,
          done, leftover>>

BootstrapID == MaxRestores + 1      \* "~pgo-bootstrap-" and the name of the cluster
Configs == 1..MaxConfigs
Keys    == [id : 0..BootstrapID, bootstrap : BOOLEAN, config : 0..MaxConfigs]
NoKey   == [id |-> 0, bootstrap |-> FALSE, config |-> 0]
NoJob   == [state |-> "absent", inst |-> None, key |-> NoKey]
Content == [kind : {"none", "original", "partial", "restored"}, key : Keys]
Nothing  == [kind |-> "none", key |-> NoKey]
Original == [kind |-> "original", key |-> NoKey]
Partial  == [kind |-> "partial", key |-> NoKey]
Status == [init : {"none", "true", "false"}, progress : {"none", "requested", "ready"},
           id : 0..BootstrapID, startup : Instances \cup {None}, bootstrapped : BOOLEAN]
NoStatus == [init |-> "none", progress |-> "none", id |-> 0, startup |-> None,
             bootstrapped |-> FALSE]
Spec_ == [source : Sources, id : 0..MaxRestores, enabled : BOOLEAN, config : Configs,
          valid : BOOLEAN]
Observed == [running : BOOLEAN, runners : SUBSET Instances, primary : Instances \cup {None}]
Unseen   == [running |-> FALSE, runners |-> {}, primary |-> None]
Idle == [pc |-> "idle", spec |-> None, st |-> NoStatus, obs |-> Unseen]

-----------------------------------------------------------------------------
\* Which restore the spec asks for: the one of the annotation when restores in
\* place are enabled, otherwise the one that bootstraps from the data source.
RestoreInPlace(s) == s.id # 0 /\ s.enabled
RestoreID(s) == IF RestoreInPlace(s) THEN s.id
                ELSE IF s.source \in {"cluster", "cloud"} THEN BootstrapID ELSE 0
Key(s) == [id |-> RestoreID(s), bootstrap |-> ~RestoreInPlace(s), config |-> s.config]

\* The hash of the options is of the data source they are read from.
ConfigHash(k) == <<k.bootstrap, k.config>>

Restoring(st) == st.progress # "none"

\* observeRestoreEnv: a finished Job settles whether the data is initialized.
ObserveRestoreEnv(st) ==
    IF job.state = "complete" THEN [st EXCEPT !.init = "true", !.progress = "none"]
    ELSE IF job.state = "failed" THEN [st EXCEPT !.init = "false"]
    ELSE st

PrepareNeeded(st) ==
    LET configChanged == job # NoJob /\ ConfigHash(job.key) # ConfigHash(Key(w.spec)) IN
    \/ Restoring(st) /\ (st.progress # "ready" \/ configChanged)
    \/ RestoreID(w.spec) # st.id

\* The instance restored into: the primary when there is one, else any runner's,
\* else a new one.
StartupInstances(st) ==
    IF st.startup # None THEN {st.startup}
    ELSE IF w.obs.primary # None THEN {w.obs.primary}
    ELSE IF w.obs.runners # {} THEN w.obs.runners ELSE {NewInstance}

\* Mutant: stops at a missing file whether it is optional or not.
MissingStopsMutant(k) == ~Projections[k].present

\* copyConfigurationResources goes through the files in order.  It stops at a
\* required one that is missing, and at an optional one that is not.
Stops(k) == Projections[k].optional = Projections[k].present
CopiesMade ==
    {k \in DOMAIN Projections : ~Projections[k].optional /\ \A n \in 1..k : ~Stops(n)}
CopyFails ==
    \E k \in DOMAIN Projections :
        /\ ~Projections[k].optional /\ ~Projections[k].present
        /\ \A n \in 1..(k - 1) : ~Stops(n)

\* The next step of the reconcile, with what it still needs.
Step(pc, st, primary) == w' = [Idle EXCEPT !.pc = pc, !.st = st, !.obs.primary = primary]
Return(st) == Step("save", st, None)
Fault == faults < MaxFaults /\ faults' = faults + 1

-----------------------------------------------------------------------------
\* Reconcile.

\* The directories to move, and what becomes of the Job of one: created when it is
\* missing; one that failed is applied again, which changes nothing.
Moved == IF spec.source = "volumes" THEN Dirs ELSE {}
MoveJob(d) == IF moves[d] = "absent" THEN "active" ELSE moves[d]

\* Mutant: waits for the data directory only.
DataDirectoryMutant ==
    /\ w.pc = "idle"
    /\ moves' = [d \in Dirs |-> IF d \in Moved THEN MoveJob(d) ELSE moves[d]]
    /\ IF \A d \in Moved \cap {"pgdata"} : moves[d] = "complete"
       THEN w' = [pc |-> "observe", spec |-> spec, st |-> status, obs |-> Unseen]
       ELSE Return(status)
    /\ UNCHANGED <<spec, status, job, copies, runner, pod, leader, dcs, disk, faults, done,
                   leftover>>

\* Reconcile reads the cluster and, before anything else, reconcileDirMoveJobs
\* sees that every directory has been moved.
Begin ==
    /\ w.pc = "idle"
    /\ moves' = [d \in Dirs |-> IF d \in Moved THEN MoveJob(d) ELSE moves[d]]
    /\ IF \A d \in Moved : moves[d] = "complete"
       THEN w' = [pc |-> "observe", spec |-> spec, st |-> status, obs |-> Unseen]
       ELSE Return(status)
    /\ UNCHANGED <<spec, status, job, copies, runner, pod, leader, dcs, disk, faults, done,
                   leftover>>

\* configureExistingPVCs: existing volumes become those of the instance to start.
ExistingVolumes(st) ==
    IF w.spec.source = "volumes" /\ st.startup = None
    THEN [st EXCEPT !.startup = NewInstance] ELSE st

\* reconcilePatroniStatus: Patroni's system identifier is remembered.
PatroniStatus(st) == [st EXCEPT !.bootstrapped = @ \/ dcs = "initialized"]

\* observeInstances, which also looks at the Pods.
Observe ==
    /\ w.pc = "observe"
    /\ w' = [w EXCEPT
         !.pc = "source",
         !.st = PatroniStatus(ExistingVolumes(@)),
         !.obs = [running |-> \E i \in Instances : pod[i] = "running",
                  runners |-> {i \in Instances : runner[i] # "absent"},
                  primary |-> leader]]
    /\ UNCHANGED <<spec, status, moves, job, copies, runner, pod, leader, dcs, disk,
                   faults, done, leftover>>

\* prepareForRestore, one action for each of the places where it returns.
MustPrepare ==
    w.pc = "source" /\ RestoreID(w.spec) # 0 /\ PrepareNeeded(ObserveRestoreEnv(w.st))

Prepared(i, progress) ==
    [ObserveRestoreEnv(w.st) EXCEPT !.id = RestoreID(w.spec), !.startup = i,
                                    !.progress = progress]

RemoveRestoreJob ==
    /\ MustPrepare /\ job # NoJob
    /\ \/ job' = NoJob /\ UNCHANGED faults
       \/ UNCHANGED job /\ Fault
    /\ \E i \in StartupInstances(w.st) : Return(Prepared(i, "requested"))
    /\ UNCHANGED <<spec, status, moves, copies, runner, pod, leader, dcs, disk, done,
                   leftover>>

RemoveRunners ==
    /\ MustPrepare /\ job = NoJob /\ w.obs.running
    /\ \E removed \in SUBSET w.obs.runners :
         /\ IF removed = w.obs.runners THEN UNCHANGED faults ELSE Fault
         /\ runner' = [i \in Instances |->
                         IF i \notin removed \/ runner[i] = "absent" THEN runner[i]
                         ELSE IF pod[i] = "none" THEN "absent" ELSE "deleting"]
    /\ \E i \in StartupInstances(w.st) : Return(Prepared(i, "requested"))
    /\ UNCHANGED <<spec, status, moves, job, copies, pod, leader, dcs, disk, done, leftover>>

RemoveEndpoints ==
    /\ MustPrepare /\ job = NoJob /\ ~w.obs.running /\ dcs # "none"
    /\ \/ dcs' = "none" /\ UNCHANGED faults
       \/ UNCHANGED dcs /\ Fault
    /\ \E i \in StartupInstances(w.st) : Return(Prepared(i, "requested"))
    /\ UNCHANGED <<spec, status, moves, job, copies, runner, pod, leader, disk, done,
                   leftover>>

ReadyForRestore ==
    /\ MustPrepare /\ job = NoJob /\ ~w.obs.running /\ dcs = "none"
    /\ \E i \in StartupInstances(w.st) :
         Return([Prepared(i, "ready") EXCEPT !.init = "none", !.bootstrapped = FALSE])
    /\ leftover' = \/ leftover
                   \/ \E i \in Instances : runner[i] \in {"up", "deleting"} \/ pod[i] # "none"
    /\ UNCHANGED <<spec, status, moves, job, copies, runner, pod, leader, dcs, disk, faults,
                   done>>

\* Mutant: goes on as soon as the Job has been created.
NotEarlyMutant ==
    /\ w.pc = "source" /\ ~MustPrepare
    /\ LET st == ObserveRestoreEnv(w.st) IN
       /\ RestoreID(w.spec) = 0 \/ st.init = "true" \/ job # NoJob
       /\ Step("instances", st, w.obs.primary)
    /\ UNCHANGED <<spec, status, moves, job, copies, runner, pod, leader, dcs, disk, faults,
                   done, leftover>>

\* Nothing to restore, or nothing left to do: the rest of Reconcile follows.
DataSourceDone ==
    /\ w.pc = "source" /\ ~MustPrepare
    /\ LET st == ObserveRestoreEnv(w.st) IN
       /\ RestoreID(w.spec) = 0 \/ st.init = "true"
       /\ Step("instances", st, w.obs.primary)
    /\ UNCHANGED <<spec, status, moves, job, copies, runner, pod, leader, dcs, disk, faults,
                   done, leftover>>

\* The Job of generateRestoreJobIntent; reconcileRestoreJob creates it when the
\* options are allowed, and leaves the one that exists as it is.
RestoreJobIntent(st) == [state |-> "active", inst |-> st.startup, key |-> Key(w.spec)]

ReconcileRestoreJob(st) ==
    job' = IF job = NoJob /\ w.spec.valid THEN RestoreJobIntent(st) ELSE job

\* The data has to be restored, and the cluster is ready for that.
MustRestore ==
    /\ w.pc = "source" /\ RestoreID(w.spec) # 0 /\ ~MustPrepare
    /\ ObserveRestoreEnv(w.st).init # "true"

\* Without a startup instance there is nothing to restore into, and a cluster that
\* has been bootstrapped has its data.
RestoreNothing ==
    /\ MustRestore
    /\ LET st == ObserveRestoreEnv(w.st) IN
       \/ st.startup = None /\ Return(st)
       \/ st.startup # None /\ st.bootstrapped /\ Return([st EXCEPT !.init = "true"])
    /\ UNCHANGED <<spec, status, moves, job, copies, runner, pod, leader, dcs, disk, faults,
                   done, leftover>>

\* reconcilePostgresClusterDataSource restores the backups of this cluster, or those
\* of another one whose configuration is copied first.
MustRestoreFromCluster ==
    /\ MustRestore
    /\ Key(w.spec).bootstrap => w.spec.source # "cloud"
    /\ LET st == ObserveRestoreEnv(w.st) IN st.startup # None /\ ~st.bootstrapped

\* copyConfigurationResources copies one file after the other; applying a copy that
\* exists changes nothing.  There is no Job yet when one is missing, so what
\* observeRestoreEnv found before the first copy still stands after the last.
CopyFile ==
    /\ MustRestoreFromCluster /\ Key(w.spec).bootstrap
    /\ \E k \in CopiesMade \ copies :
         /\ \A n \in CopiesMade \ copies : k <= n
         /\ copies' = copies \cup {k}
    /\ UNCHANGED <<spec, status, moves, job, runner, pod, leader, dcs, disk, w, faults, done,
                   leftover>>

\* Then the Job follows, unless a file was missing.  A source that is wrong may not
\* exist, and then nothing is copied, or may lack the repository.
RestoreFromCluster ==
    /\ MustRestoreFromCluster
    /\ LET st == ObserveRestoreEnv(w.st)
           clone == Key(w.spec).bootstrap IN
       /\ clone /\ w.spec.valid => CopiesMade \subseteq copies
       /\ IF clone /\ CopyFails THEN UNCHANGED job ELSE ReconcileRestoreJob(st)
       /\ Return(st)
    /\ UNCHANGED <<spec, status, moves, copies, runner, pod, leader, dcs, disk, faults, done,
                   leftover>>

\* reconcileCloudBasedDataSource: the configuration is made from the spec.
RestoreFromCloud ==
    /\ MustRestore
    /\ Key(w.spec).bootstrap /\ w.spec.source = "cloud"
    /\ LET st == ObserveRestoreEnv(w.st) IN
       /\ st.startup # None /\ ~st.bootstrapped
       /\ ReconcileRestoreJob(st)
       /\ Return(st)
    /\ UNCHANGED <<spec, status, moves, copies, runner, pod, leader, dcs, disk, faults, done,
                   leftover>>

\* Mutant: every instance starts at once.
AllStartMutant ==
    /\ w.pc = "instances"
    /\ runner' = [i \in Instances |-> IF runner[i] = "deleting" THEN "deleting" ELSE "up"]
    /\ Step("cleanup", [w.st EXCEPT !.startup = IF w.obs.primary # None THEN None ELSE @], None)
    /\ UNCHANGED <<spec, status, moves, job, copies, pod, leader, dcs, disk, faults, done,
                   leftover>>

\* Mutant: the startup instance is never forgotten.
KeepStartupMutant ==
    /\ w.pc = "instances"
    /\ runner' = [i \in Instances |->
                    IF runner[i] = "deleting" THEN "deleting"
                    ELSE IF w.st.startup \in {None, i} THEN "up" ELSE "stopped"]
    /\ Step("cleanup", w.st, None)
    /\ UNCHANGED <<spec, status, moves, job, copies, pod, leader, dcs, disk, faults, done,
                   leftover>>

\* reconcileInstanceSets: while there is a startup instance only it runs; once a
\* primary has been seen all do.
ReconcileInstances ==
    /\ w.pc = "instances"
    /\ LET startup == IF w.obs.primary # None THEN None ELSE w.st.startup IN
       /\ runner' = [i \in Instances |->
                       IF runner[i] = "deleting" THEN "deleting"
                       ELSE IF startup \in {None, i} THEN "up" ELSE "stopped"]
       /\ Step("cleanup", [w.st EXCEPT !.startup = startup], None)
    /\ UNCHANGED <<spec, status, moves, job, copies, pod, leader, dcs, disk, faults, done,
                   leftover>>

\* Mutant: removes the Job before the cluster has been bootstrapped.
CleanupEarlyMutant ==
    /\ w.pc = "cleanup"
    /\ job' = NoJob /\ copies' = {}
    /\ Return(w.st)
    /\ UNCHANGED <<spec, status, moves, runner, pod, leader, dcs, disk, faults, done,
                   leftover>>

\* cleanupRepoResources removes what the restore left once the cluster has been
\* bootstrapped.
Cleanup ==
    /\ w.pc = "cleanup"
    /\ job' = IF w.st.bootstrapped THEN NoJob ELSE job
    /\ copies' = IF w.st.bootstrapped THEN {} ELSE copies
    /\ Return(w.st)
    /\ UNCHANGED <<spec, status, moves, runner, pod, leader, dcs, disk, faults, done,
                   leftover>>

PatchStatus ==
    /\ w.pc = "save"
    /\ status' = w.st
    /\ w' = Idle
    /\ UNCHANGED <<spec, moves, job, copies, runner, pod, leader, dcs, disk, faults, done,
                   leftover>>

\* A call fails: the status is patched with what the reconcile got to.
CallFails ==
    /\ w.pc \notin {"idle", "save"} /\ Fault
    /\ \E st \in {w.st, ObserveRestoreEnv(w.st)} :
         /\ st # w.st => w.pc = "source"
         /\ Return(st)
    /\ UNCHANGED <<spec, status, moves, job, copies, runner, pod, leader, dcs, disk, done,
                   leftover>>

\* The operator stops, or the patch of the status fails.
Crash ==
    /\ w.pc # "idle" /\ Fault
    /\ w' = Idle
    /\ UNCHANGED <<spec, status, moves, job, copies, runner, pod, leader, dcs, disk, done,
                   leftover>>

-----------------------------------------------------------------------------
\* Kubernetes.

CreatePod(i) ==
    /\ runner[i] = "up" /\ pod[i] = "none"
    /\ pod' = [pod EXCEPT ![i] = "pending"]
    /\ UNCHANGED <<spec, status, moves, job, copies, runner, leader, dcs, disk, w, faults,
                   done, leftover>>

StartContainer(i) ==
    /\ pod[i] = "pending"
    /\ pod' = [pod EXCEPT ![i] = "running"]
    /\ UNCHANGED <<spec, status, moves, job, copies, runner, leader, dcs, disk, w, faults,
                   done, leftover>>

DeletePod(i) ==
    /\ pod[i] # "none" /\ runner[i] # "up"
    /\ pod' = [pod EXCEPT ![i] = "none"]
    /\ runner' = [runner EXCEPT ![i] = IF @ = "deleting" THEN "absent" ELSE @]
    /\ leader' = IF leader = i THEN None ELSE leader
    /\ UNCHANGED <<spec, status, moves, job, copies, dcs, disk, w, faults, done, leftover>>

RestartContainer(i) ==
    /\ pod[i] = "running" /\ Fault
    /\ pod' = [pod EXCEPT ![i] = "pending"]
    /\ leader' = IF leader = i THEN None ELSE leader
    /\ UNCHANGED <<spec, status, moves, job, copies, runner, dcs, disk, w, done, leftover>>

\* The script of the Job that moves the data directory leaves it where
\* bootstrapping expects it; those of the WAL and of the repository move theirs.
EndMove(d, result) ==
    /\ moves[d] = "active"
    /\ moves' = [moves EXCEPT ![d] = result]
    /\ IF result = "complete" THEN UNCHANGED faults ELSE Fault
    /\ UNCHANGED <<spec, status, job, copies, runner, pod, leader, dcs, w, done, leftover>>

MovePGDataDir(result) ==
    /\ EndMove("pgdata", result)
    /\ disk' = IF result = "complete"
               THEN [disk EXCEPT ![NewInstance].boot = Original] ELSE disk

MoveWALDir(result) ==
    "pgwal" \in Dirs /\ EndMove("pgwal", result) /\ UNCHANGED disk

MoveRepoDir(result) ==
    "repo" \in Dirs /\ EndMove("repo", result) /\ UNCHANGED disk

Move(result) == MovePGDataDir(result) \/ MoveWALDir(result) \/ MoveRepoDir(result)

\* RestoreCommand: pgBackRest writes into the data directory ...
StartRestore ==
    /\ job.state = "active"
    /\ job' = [job EXCEPT !.state = "restoring"]
    /\ disk' = [disk EXCEPT ![job.inst].data = Partial]
    /\ UNCHANGED <<spec, status, moves, copies, runner, pod, leader, dcs, w, faults, done,
                   leftover>>

\* ... which is renamed when recovery has finished.  Where there already is a
\* bootstrap directory, mv puts the data directory into it.
FinishRestore ==
    /\ job.state = "restoring"
    /\ job' = [job EXCEPT !.state = "complete"]
    /\ disk' = [disk EXCEPT ![job.inst] =
                  [data |-> Nothing,
                   boot |-> IF @.boot = Nothing THEN [kind |-> "restored", key |-> job.key]
                            ELSE @.boot]]
    /\ done' = done \cup {job.key}
    /\ UNCHANGED <<spec, status, moves, copies, runner, pod, leader, dcs, w, faults, leftover>>

FailRestore ==
    /\ job.state = "restoring" /\ Fault
    /\ job' = [job EXCEPT !.state = "failed"]
    /\ UNCHANGED <<spec, status, moves, copies, runner, pod, leader, dcs, disk, w, done,
                   leftover>>

-----------------------------------------------------------------------------
\* Patroni.

\* With no leader, a member that has data becomes the leader.
BecomeLeader(i) ==
    /\ pod[i] = "running" /\ leader = None
    /\ dcs = "initialized" /\ disk[i].data # Nothing
    /\ leader' = i
    /\ UNCHANGED <<spec, status, moves, job, copies, runner, pod, dcs, disk, w, faults, done,
                   leftover>>

\* The first member of a cluster bootstraps it: with the data it has, else from
\* the bootstrap directory.  The configuration allows initdb only where nothing
\* is to be restored or moved.
Bootstrap(i) ==
    /\ pod[i] = "running" /\ leader = None /\ dcs # "initialized"
    /\ LET d == disk[i]
           taken == IF d.data = Nothing THEN d.boot ELSE d.data IN
       /\ taken # Nothing \/ (status.id = 0 /\ spec.source # "volumes")
       /\ disk' = [disk EXCEPT ![i] =
            [data |-> IF taken = Nothing THEN Original ELSE taken,
             boot |-> IF d.data = Nothing THEN Nothing ELSE d.boot]]
    /\ leader' = i
    /\ dcs' = "initialized"
    /\ UNCHANGED <<spec, status, moves, job, copies, runner, pod, w, faults, done, leftover>>

\* A member that finds a leader follows it, with the leader's data.
Follow(i) ==
    /\ pod[i] = "running" /\ leader \notin {None, i}
    /\ disk[i].data # disk[leader].data
    /\ disk' = [disk EXCEPT ![i].data = disk[leader].data]
    /\ UNCHANGED <<spec, status, moves, job, copies, runner, pod, leader, dcs, w, faults,
                   done, leftover>>

\* A member that is running writes the Endpoints before there is a leader.
WriteEndpoints ==
    /\ dcs = "none" /\ \E i \in Instances : pod[i] = "running"
    /\ dcs' = "present"
    /\ UNCHANGED <<spec, status, moves, job, copies, runner, pod, leader, disk, w, faults,
                   done, leftover>>

-----------------------------------------------------------------------------
\* The user.

MayEdit == spec.id + spec.config <= MaxEdits

\* The restore that bootstraps from a data source is one of those counted.
Restores == spec.id + IF spec.source \in {"cluster", "cloud"} THEN 1 ELSE 0

RequestRestore ==
    /\ Restores < MaxRestores /\ MayEdit
    /\ spec' = [spec EXCEPT !.id = @ + 1, !.enabled = TRUE]
    /\ UNCHANGED <<status, moves, job, copies, runner, pod, leader, dcs, disk, w, faults,
                   done, leftover>>

ChangeOptions ==
    /\ spec.config < MaxConfigs /\ MayEdit
    /\ spec' = [spec EXCEPT !.config = @ + 1]
    /\ UNCHANGED <<status, moves, job, copies, runner, pod, leader, dcs, disk, w, faults,
                   done, leftover>>

\* Restores are disabled when the last one is complete.
DisableRestores ==
    /\ RestoreInPlace(spec) /\ status.id = spec.id
    /\ status.init = "true" /\ status.progress = "none" /\ status.bootstrapped
    /\ spec.source \in {"cluster", "cloud"} => CloneDisabled
    /\ spec' = [spec EXCEPT !.enabled = FALSE]
    /\ UNCHANGED <<status, moves, job, copies, runner, pod, leader, dcs, disk, w, faults,
                   done, leftover>>

\* The source cluster and the repository come to exist, the options are corrected.
CorrectSource ==
    /\ ~spec.valid
    /\ spec' = [spec EXCEPT !.valid = TRUE]
    /\ UNCHANGED <<status, moves, job, copies, runner, pod, leader, dcs, disk, w, faults,
                   done, leftover>>

-----------------------------------------------------------------------------
\* A cluster without a data source has been running for a while; with one it
\* is new.
Init ==
    /\ \E s \in Sources, v \in BOOLEAN :
         /\ ~v => s = "cluster"
         /\ spec = [source |-> s, id |-> 0, enabled |-> FALSE, config |-> 1, valid |-> v]
    /\ LET old == spec.source = "none" IN
       /\ status = [NoStatus EXCEPT !.bootstrapped = old]
       /\ runner = [i \in Instances |-> IF old THEN "up" ELSE "absent"]
       /\ pod = [i \in Instances |-> IF old THEN "running" ELSE "none"]
       /\ leader \in IF old THEN Instances ELSE {None}
       /\ dcs = IF old THEN "initialized" ELSE "none"
       /\ disk = [i \in Instances |-> [data |-> IF old THEN Original ELSE Nothing,
                                       boot |-> Nothing]]
    /\ moves = [d \in Dirs |-> "absent"] /\ job = NoJob /\ copies = {}
    /\ w = Idle /\ faults = 0 /\ done = {} /\ leftover = FALSE

Reconcile ==
    \/ Begin \/ Observe
    \/ RemoveRestoreJob \/ RemoveRunners \/ RemoveEndpoints \/ ReadyForRestore
    \/ DataSourceDone \/ RestoreNothing \/ CopyFile \/ RestoreFromCluster \/ RestoreFromCloud
    \/ ReconcileInstances \/ Cleanup \/ PatchStatus

Kubernetes ==
    \/ \E i \in Instances : CreatePod(i) \/ StartContainer(i) \/ DeletePod(i)
    \/ Move("complete")
    \/ StartRestore \/ FinishRestore

Patroni == WriteEndpoints \/ \E i \in Instances : BecomeLeader(i) \/ Bootstrap(i) \/ Follow(i)

User == RequestRestore \/ ChangeOptions \/ DisableRestores \/ CorrectSource

Failure ==
    \/ CallFails \/ Crash \/ FailRestore
    \/ \E i \in Instances : RestartContainer(i)
    \/ Move("failed")

Next == Reconcile \/ Kubernetes \/ Patroni \/ User \/ Failure

Spec == Init /\ [][Next]_vars

\* Reconcile is called again when anything it watches changes, and every
\* function of it returns.  Kubernetes starts, stops and deletes what it is
\* asked to, Jobs end, and Patroni does not stop electing a leader.
FairSpec ==
    /\ Spec
    /\ WF_vars(Reconcile) /\ WF_vars(Kubernetes) /\ WF_vars(Patroni)
-----------------------------------------------------------------------------
\* Properties.

Busy == job.state \in {"active", "restoring"}

TypeOK ==
    /\ spec \in Spec_ /\ status \in Status
    /\ moves \in [Dirs -> {"absent", "active", "failed", "complete"}]
    /\ job.state \in {"absent", "active", "restoring", "complete", "failed"}
    /\ job.inst \in Instances \cup {None} /\ job.key \in Keys
    /\ copies \subseteq DOMAIN Projections
    /\ runner \in [Instances -> {"absent", "up", "stopped", "deleting"}]
    /\ pod \in [Instances -> {"none", "pending", "running"}]
    /\ leader \in Instances \cup {None}
    /\ dcs \in {"none", "present", "initialized"}
    /\ disk \in [Instances -> [data : Content, boot : Content]]
    /\ w.pc \in {"idle", "observe", "source", "instances", "cleanup", "save"}
    /\ w.st \in Status /\ w.obs \in Observed
    /\ faults \in 0..MaxFaults /\ done \subseteq Keys /\ leftover \in BOOLEAN

\* While a restore Job writes to the volumes of an instance no instance has a Pod,
\* and Patroni's Endpoints are gone, so that the restored data will not meet the
\* old cluster's system identifier, provided nothing was left running when the
\* cluster was found ready.  prepareForRestore decides that in an earlier reconcile
\* than the one that creates the Job, and the Job outlives crashes and new requests.
RestoreAlone ==
    Busy /\ ~leftover => dcs = "none" /\ \A i \in Instances : pod[i] = "none"

\* Data that has been restored waits in the bootstrap directory of one instance.
\* Until Patroni has bootstrapped from it no other instance runs: another would
\* bootstrap the cluster from what it held before.  This rests on
\* status.startupInstance, through lost patches and new requests.
RestoredStartsAlone ==
    \A i, j \in Instances :
        /\ disk[i].boot.kind = "restored" /\ ~leftover
        /\ i # j
        => pod[j] = "none"

\* The Job that restores from another cluster finds, from its creation to its end, a
\* copy of each required file of that cluster's pgBackRest configuration that comes
\* before the first optional one that exists, and of no other.  Files are copied one
\* by one, through crashes and failing calls, and a Job outlives the reconcile that
\* created it.  "copyConfigurationResources copies all pgBackRest configuration
\* ConfigMaps and Secrets", but an optional file that exists ends it without an error:
\* neither that file nor any after it is copied (README, divergences).
JobHasConfig ==
    LET optionalFile(n) == Projections[n].optional /\ Projections[n].present IN
    Busy /\ job.key.bootstrap /\ spec.source = "cluster" =>
        copies = {k \in DOMAIN Projections :
                    ~Projections[k].optional /\ \A n \in 1..(k - 1) : ~optionalFile(n)}

\* No Pod of an instance exists until every directory has been moved.
MovesFirst ==
    spec.source = "volumes" /\ (\E i \in Instances : pod[i] # "none") =>
        \A d \in Dirs : moves[d] = "complete"

\* What a restore wrote once is not written again: a request that has been
\* served is not served a second time, after crashes and lost patches either.
RestoreOnce == [][job.state = "absent" /\ job'.state # "absent" => job'.key \notin done]_vars

\* When the status no longer shows a restore in progress, the one it names has been
\* carried out.  The code refutes it when the Job of an earlier request could not be
\* deleted and then completes (README, divergences).
ServedWhenDone ==
    status.init = "true" /\ status.progress = "none" /\ status.id # 0 /\ ~leftover =>
        \E k \in done : k.id = status.id

\* Once the cluster has been bootstrapped the leader's runner is only stopped to
\* restore: "the primary/leader instance is always the first to startup and the
\* last to shutdown".  The code refutes it for Sources = {"volumes"} (README,
\* divergences).
LeaderRuns ==
    [][\A i \in Instances :
         leader = i /\ runner[i] = "up" /\ ~leftover => runner'[i] # "stopped"]_vars

\* Every request ends.  In the end nothing of the restore is left and all
\* instances run, unless a Job failed or the source is wrong, which is for the
\* user to correct, or an instance was left running beside the restore.  (With
\* existing volumes the startup instance is set whenever no primary is seen, see
\* LeaderRuns.)
RestoreEnds ==
    <>[](\/ \A i \in Instances : pod[i] = "running" /\ leader # None
            /\ status.id \in {RestoreID(spec), spec.id} /\ job = NoJob /\ copies = {}
         \/ job.state = "failed" \/ ~spec.valid \/ leftover
         \/ spec.source = "volumes" /\ faults > 0
         \/ \E d \in Dirs : moves[d] = "failed")
=============================================================================
