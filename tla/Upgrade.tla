------------------------------- MODULE Upgrade -------------------------------
(***************************************************************************)
(* The PGUpgrade controller (internal/controller/pgupgrade) upgrading the  *)
(* data of one PostgresCluster, between a user who follows the documented  *)
(* procedure, the PostgresCluster controller that stops and starts the     *)
(* instances, and the Jobs that rewrite the data directories.              *)
(*                                                                         *)
(* The controller decides everything from one observation of the world;    *)
(* the writes it decided on are then made one at a time, each of them may  *)
(* fail, and a crash may come between any two of them.                     *)
(***************************************************************************)
EXTENDS Integers, FiniteSets, Sequences

CONSTANTS
    Instances,      \* StatefulSets with LabelInstance
    First,          \* the instance that leads at the start
    Upgrades,       \* names of PGUpgrade objects
    From, To,       \* spec.fromPostgresVersion, spec.toPostgresVersion of each
    Oldest,         \* the version the cluster starts with
    Careful,        \* the user shuts down only what runs, starts it only when no Job
                    \* works, and allows an upgrade only after completing and erasing
                    \* the one before, Jobs and all
    MaxStarts,      \* bound on restarts by the user
    MaxFaults,      \* bound on failed reconciles and restarts of the operator
    None

ASSUME UpgradeAssumption ==
    /\ IsFiniteSet(Instances) /\ First \in Instances
    /\ IsFiniteSet(Upgrades)
    /\ From \in [Upgrades -> Nat \ {0}] /\ To \in [Upgrades -> Nat \ {0}]
    /\ Oldest \in Nat \ {0}
    /\ Careful \in BOOLEAN
    /\ MaxStarts \in Nat /\ MaxFaults \in Nat
    /\ None \notin Instances \cup Upgrades

VARIABLES
    spec,       \* the PostgresCluster as the user wrote it
    status,     \* its status
    want,       \* spec.replicas of each StatefulSet
    pods,       \* version each instance's Pod runs, 0 when there is none
    leader,     \* the running primary
    last,       \* the last instance that was one: its data is not "in recovery"
    data,       \* directories /pgdata/pg<version> of each instance
    identifier, \* version whose system identifier Patroni's Endpoints hold
    ups,        \* the PGUpgrade objects
    upJob,      \* the upgrade Job of each
    rmJob,      \* the remove-data Jobs of each
    backupJob,  \* version the "replica-create" backup Job was for, 0 if none
    queue,      \* the PGUpgrade controller's work queue
    w,          \* its reconcile in progress: writes left to make
    c,          \* the PostgresCluster controller's reconcile in progress
    truth,      \* history: version of the newest complete data
    kept,       \* history: the last delete of Patroni's Endpoints failed
    starts, errors, crashes

clusterVars == <<want, pods, leader, last, c>>
jobVars     == <<data, upJob, rmJob, backupJob, truth>>
patroniVars == <<identifier, kept>>
countVars   == <<starts, errors, crashes>>
vars == <<spec, status, clusterVars, patroniVars, ups, jobVars, queue, w, countVars>>

Versions   == {Oldest} \cup {To[u] : u \in Upgrades}
JobStates  == {"absent", "active", "complete", "failed"}
Reasons    == {"", "Progressing", "Invalid", "ErrorWhenObservingWorld", "NotFound",
               "Resolved", "Completed", "NotShutdown", "InvalidForCluster",
               "MissingRequiredAnnotation"}
NoSpec     == [exists |-> FALSE, version |-> Oldest, shutdown |-> FALSE, gen |-> 1,
               allow |-> None]
NoReconcile == [at |-> "idle", spec |-> NoSpec, pods |-> {},
                startup |-> None]
Writes     == {"upgradeJob", "removeDataJobs", "endpoints", "backupJobs",
               "clusterStatus", "status"}
Spec_      == [exists : BOOLEAN, version : Versions, shutdown : BOOLEAN,
               gen : Nat, allow : Upgrades \cup {None}]
Status     == [observed : Nat, stopped : BOOLEAN, startup : Instances \cup {None},
               version : Versions \cup {0}, repos : BOOLEAN]
PGUpgrade  == [exists : BOOLEAN, progressing : Reasons,
               succeeded : {"", "Succeeded", "Failed"}]
NoJob      == [state |-> "absent", on |-> None]
NoUpgrade  == [exists |-> FALSE, progressing |-> "", succeeded |-> ""]
Idle       == [upgrade |-> None, writes |-> <<>>, primary |-> None, replicas |-> {},
               progressing |-> "", succeeded |-> ""]

TypeOK ==
    /\ spec \in Spec_ /\ status \in Status
    /\ want \in [Instances -> 0..1]
    /\ pods \in [Instances -> Versions \cup {0}]
    /\ leader \in Instances \cup {None} /\ last \in Instances
    /\ data \in [Instances -> SUBSET Versions]
    /\ identifier \in Versions \cup {0}
    /\ ups \in [Upgrades -> PGUpgrade]
    /\ upJob \in [Upgrades -> [state : JobStates, on : Instances \cup {None}]]
    /\ rmJob \in [Upgrades -> [Instances -> JobStates]]
    /\ backupJob \in Versions \cup {0}
    /\ queue \in SUBSET Upgrades
    /\ w \in [upgrade : Upgrades \cup {None}, writes : Seq(Writes),
              primary : Instances \cup {None}, replicas : SUBSET Instances,
              progressing : Reasons,
              succeeded : {"", "Succeeded", "Failed"}]
    /\ c \in [at : {"idle", "apply", "failed"}, spec : Spec_, pods : SUBSET Instances,
              startup : Instances \cup {None}]
    /\ truth \in Versions /\ kept \in BOOLEAN
    /\ starts \in 0..MaxStarts /\ errors \in 0..MaxFaults /\ crashes \in 0..MaxFaults

\* A running cluster, or none yet.
Init ==
    /\ \E e \in BOOLEAN : spec = [NoSpec EXCEPT !.exists = e]
    /\ status = [observed |-> 1, stopped |-> FALSE, startup |-> None, version |-> 0,
                 repos |-> TRUE]
    /\ want = [i \in Instances |-> 1]
    /\ pods = [i \in Instances |-> Oldest]
    /\ leader = First /\ last = First
    /\ data = [i \in Instances |-> {Oldest}]
    /\ identifier = Oldest
    /\ ups = [u \in Upgrades |-> NoUpgrade]
    /\ upJob = [u \in Upgrades |-> NoJob]
    /\ rmJob = [u \in Upgrades |-> [i \in Instances |-> "absent"]]
    /\ backupJob = Oldest
    /\ queue = {}
    /\ w = Idle
    /\ c = NoReconcile
    /\ truth = Oldest /\ kept = FALSE
    /\ starts = 0 /\ errors = 0 /\ crashes = 0

-----------------------------------------------------------------------------
(* Watches: a change of the cluster queues every PGUpgrade of it, a change *)
(* of a PGUpgrade or of a Job it owns queues that one.                     *)

Existing == {u \in Upgrades : ups[u].exists}
\* Mutant: changes of the PostgresCluster are not watched.
findUpgradesMutant == UNCHANGED queue

findUpgradesForPostgresCluster == queue' = queue \cup Existing
Enqueue(u) == queue' = queue \cup (IF ups[u].exists THEN {u} ELSE {})

-----------------------------------------------------------------------------
(* The user of docs/content/guides/major-postgres-version-upgrade.md.      *)

JobsOf(u) == upJob[u] # NoJob \/ \E i \in Instances : rmJob[u][i] # "absent"
Working(u) == upJob[u].state = "active" \/ \E i \in Instances : rmJob[u][i] = "active"

CreateCluster ==
    /\ ~ spec.exists
    /\ spec' = [spec EXCEPT !.exists = TRUE]
    /\ findUpgradesForPostgresCluster
    /\ UNCHANGED <<status, clusterVars, patroniVars, ups, jobVars, w, countVars>>

\* Step 2.  Names are not used twice.
CreateUpgrade(u) ==
    /\ ~ ups[u].exists
    /\ ups[u].succeeded = ""
    /\ ups' = [ups EXCEPT ![u].exists = TRUE]
    /\ queue' = queue \cup {u}
    /\ UNCHANGED <<spec, status, clusterVars, patroniVars, jobVars, w, countVars>>

\* The cluster runs as specified and nothing is about to change that.
Running ==
    /\ status.observed = spec.gen /\ ~ status.stopped /\ status.startup = None
    /\ c = NoReconcile
    /\ \A i \in Instances : want[i] = 1 /\ pods[i] # 0

\* Step 3.
Shutdown ==
    /\ spec.exists /\ ~ spec.shutdown
    /\ spec' = [spec EXCEPT !.shutdown = TRUE, !.gen = @ + 1]
    /\ Careful => Running
    /\ findUpgradesForPostgresCluster
    /\ UNCHANGED <<status, clusterVars, patroniVars, ups, jobVars, w, countVars>>

Allow(u) ==
    /\ spec.exists /\ ups[u].exists
    /\ spec.allow # None => ups[spec.allow].succeeded # ""
    /\ spec.allow # u
    /\ Careful => \A v \in Upgrades : ups[v].succeeded # "" =>
           /\ ~ ups[v].exists /\ ~ JobsOf(v)
           /\ ups[v].succeeded = "Succeeded" => spec.version >= To[v]
    /\ spec' = [spec EXCEPT !.allow = u]
    /\ findUpgradesForPostgresCluster
    /\ UNCHANGED <<status, clusterVars, patroniVars, ups, jobVars, w, countVars>>

\* Step 5, once the permitted upgrade has ended; also a restart without one.
Restart ==
    /\ spec.shutdown /\ starts < MaxStarts
    /\ Careful => \A u \in Upgrades : ~ Working(u)
    /\ LET u == spec.allow
       IN  /\ u # None => ups[u].succeeded # ""
           /\ spec' = [spec EXCEPT
                  !.shutdown = FALSE, !.gen = @ + 1,
                  !.version = IF u # None /\ ups[u].succeeded = "Succeeded" /\ @ < To[u]
                              THEN To[u] ELSE @]
    /\ starts' = starts + 1
    /\ findUpgradesForPostgresCluster
    /\ UNCHANGED <<status, clusterVars, patroniVars, ups, jobVars, w, errors, crashes>>

DeleteUpgrade(u) ==
    /\ ups[u].exists /\ ups[u].succeeded # ""
    /\ ups' = [ups EXCEPT ![u].exists = FALSE]
    /\ queue' = queue \cup {u}
    /\ UNCHANGED <<spec, status, clusterVars, patroniVars, jobVars, w, countVars>>

-----------------------------------------------------------------------------
(* Kubernetes and Patroni.                                                 *)

\* The garbage collector follows the owner references of the Jobs.
CollectJobs(u) ==
    /\ ~ ups[u].exists /\ JobsOf(u)
    /\ upJob' = [upJob EXCEPT ![u] = NoJob]
    /\ rmJob' = [rmJob EXCEPT ![u] = [i \in Instances |-> "absent"]]
    /\ UNCHANGED <<spec, status, clusterVars, patroniVars, ups, data, backupJob, truth,
                   queue, w, countVars>>

StartPod(i) ==
    /\ spec.exists /\ want[i] = 1 /\ pods[i] = 0
    /\ pods' = [pods EXCEPT ![i] = spec.version]
    /\ UNCHANGED <<spec, status, want, leader, last, c, patroniVars, ups, jobVars, queue, w,
                   countVars>>

StopPod(i) ==
    /\ want[i] = 0 /\ pods[i] # 0
    /\ pods' = [pods EXCEPT ![i] = 0]
    /\ leader' = IF leader = i THEN None ELSE leader
    /\ UNCHANGED <<spec, status, want, last, c, patroniVars, ups, jobVars, queue, w,
                   countVars>>

\* Patroni starts a primary only on data whose system identifier is the one
\* in its Endpoints, or writes that identifier when it finds none.
Lead(i) ==
    /\ leader = None /\ pods[i] # 0 /\ pods[i] \in data[i]
    /\ identifier \in {0, pods[i]}
    /\ leader' = i
    /\ last' = i
    /\ identifier' = pods[i]
    /\ UNCHANGED <<spec, status, want, pods, c, ups, jobVars, kept, queue, w, countVars>>

\* A replica without data for its version is made from the primary.
Clone(i) ==
    /\ leader \notin {None, i} /\ pods[i] # 0 /\ pods[i] \notin data[i]
    /\ data' = [data EXCEPT ![i] = @ \cup {pods[i]}]
    /\ UNCHANGED <<spec, status, clusterVars, patroniVars, ups, upJob, rmJob, backupJob,
                   truth, queue, w, countVars>>

-----------------------------------------------------------------------------
(* The PostgresCluster controller, as far as the upgrade depends on it.    *)

\* A reconcile reads the cluster and lists its Pods; it remembers the primary
\* of a cluster to be shut down and forgets it once there is one again.
Observation ==
    [at |-> "apply", spec |-> spec, pods |-> {i \in Instances : pods[i] # 0},
     startup |-> IF leader = None THEN status.startup
                 ELSE IF spec.shutdown THEN leader ELSE None]

\* spec.replicas of a StatefulSet: all, or only the startup instance, which a
\* shutdown stops last.
Replicas(o, i) ==
    IF \/ o.startup = None
       \/ o.startup = i /\ ~ (o.spec.shutdown /\ o.pods \subseteq {i})
    THEN 1 ELSE 0

ObservedStatus(o) ==
    [status EXCEPT !.observed = o.spec.gen, !.stopped = o.pods = {}, !.startup = o.startup]

\* Reconciles that would change nothing are left out: they write what is there.
ClusterObserves ==
    /\ spec.exists /\ c.at = "idle"
    /\ \/ ObservedStatus(Observation) # status
       \/ \E i \in Instances : Replicas(Observation, i) # want[i]
    /\ c' = Observation
    /\ UNCHANGED <<spec, status, want, pods, leader, last, patroniVars, ups, jobVars, queue,
                   w, countVars>>

\* A step before observeInstances fails: all later ones are skipped, except
\* that the generation counts as observed and the status is patched.
ClusterFails ==
    /\ spec.exists /\ c.at = "idle" /\ errors + crashes < MaxFaults
    /\ c' = [Observation EXCEPT !.at = "failed"]
    /\ errors' = errors + 1
    /\ UNCHANGED <<spec, status, want, pods, leader, last, patroniVars, ups, jobVars, queue, w,
                   starts, crashes>>

\* reconcileInstanceSets scales the StatefulSets; the status is patched last.
ClusterApplies ==
    /\ c.at \in {"apply", "failed"}
    /\ IF c.at = "failed"
       THEN /\ status' = [status EXCEPT !.observed = c.spec.gen]
            /\ UNCHANGED want
       ELSE /\ want' = [i \in Instances |-> Replicas(c, i)]
            /\ status' = ObservedStatus(c)
    /\ c' = NoReconcile
    /\ IF status' # status THEN findUpgradesForPostgresCluster ELSE UNCHANGED queue
    /\ UNCHANGED <<spec, pods, leader, last, patroniVars, ups, jobVars, w, countVars>>

-----------------------------------------------------------------------------
(* The Jobs.  Each runs once (backoffLimit 0).                             *)

\* upgradeCommand: initdb of the new directory, then pg_upgrade --link from
\* the old one; bash -e ends the Job at the first command that fails.
RunUpgradeJob(u) ==
    LET i == upJob[u].on
    IN  /\ upJob[u].state = "active"
        /\ \/ /\ From[u] \in data[i] /\ To[u] \notin data[i]
              /\ data' = [data EXCEPT ![i] = @ \cup {To[u]}]
              /\ truth' = To[u]
              /\ upJob' = [upJob EXCEPT ![u].state = "complete"]
           \/ /\ upJob' = [upJob EXCEPT ![u].state = "failed"]
              /\ UNCHANGED <<data, truth>>
        /\ Enqueue(u)
        /\ UNCHANGED <<spec, status, clusterVars, patroniVars, ups, rmJob, backupJob, w,
                       countVars>>

\* removeDataCommand: nothing is removed unless pg_controldata says that the
\* directory was "shut down in recovery".
RunRemoveDataJob(u, i) ==
    /\ rmJob[u][i] = "active"
    /\ \/ /\ From[u] \in data[i] /\ i # last
          /\ data' = [data EXCEPT ![i] = @ \ {From[u]}]
          /\ rmJob' = [rmJob EXCEPT ![u][i] = "complete"]
       \/ /\ rmJob' = [rmJob EXCEPT ![u][i] = "failed"]
          /\ UNCHANGED data
    /\ Enqueue(u)
    /\ UNCHANGED <<spec, status, clusterVars, patroniVars, ups, upJob, backupJob, truth, w,
                   countVars>>

-----------------------------------------------------------------------------
(* The PGUpgrade controller.                                               *)

jobCompleted(job) == job = "complete"
jobFailed(job)    == job = "failed"

\* Mutant: what is specified counts, not what is observed.
ClusterShutdownMutant == spec.shutdown

\* World: the cluster is shut down only when that is specified and the status,
\* being that of the current generation, counts no Pod.
ClusterShutdown ==
    spec.shutdown /\ status.observed = spec.gen /\ status.stopped
ReplicasExpected == Cardinality(Instances) - 1
ClusterReplicas  == IF status.startup = None THEN {} ELSE Instances \ {status.startup}

\* The remove-data Jobs of all PGUpgrades of the cluster.
RemoveDataJobs == Upgrades \X Instances
\* Mutant: every Job counts, not only those that are complete.
removeDataJobsCompleteMutant ==
    Cardinality({j \in RemoveDataJobs : rmJob[j[1]][j[2]] # "absent"}) = ReplicasExpected

removeDataJobsComplete ==
    Cardinality({j \in RemoveDataJobs : jobCompleted(rmJob[j[1]][j[2]])}) = ReplicasExpected
removeDataJobsFailed ==
    \E j \in RemoveDataJobs : jobFailed(rmJob[j[1]][j[2]])

\* The version was edited before the upgrade had run.
Resolved(u) == spec.version = To[u] /\ ~ jobCompleted(upJob[u].state)
\* This upgrade has patched the version into the status.
Completed(u) == status.version = To[u]
InvalidForCluster(u) == spec.version # From[u]
\* The user names in an annotation the one upgrade that may proceed.
Allowed(u) == spec.allow = u
\* Jobs run only once, so the upgrade has failed when one of them has.
JobsFailed(u) == jobFailed(upJob[u].state) \/ removeDataJobsFailed

\* The first check of Reconcile that stops this upgrade, as the reason of its
\* Progressing condition.
Blocked(u) ==
    IF From[u] >= To[u] THEN "Invalid"
    ELSE IF ~ spec.exists THEN "NotFound"
    ELSE IF Resolved(u) THEN "Resolved"
    ELSE IF Completed(u) THEN "Completed"
    ELSE IF ~ ClusterShutdown \/ status.startup = None THEN "NotShutdown"
    ELSE IF InvalidForCluster(u) THEN "InvalidForCluster"
    ELSE IF ~ Allowed(u) THEN "MissingRequiredAnnotation"
    ELSE ""

\* Mutant: replicas lose their data while the upgrade of the primary runs.
PlanTogetherMutant(u) ==
    LET clear == IF identifier # 0 THEN <<"endpoints">> ELSE <<>>
    IN  IF JobsFailed(u) THEN <<>>
        ELSE IF jobCompleted(upJob[u].state) /\ removeDataJobsComplete
             THEN <<"backupJobs", "clusterStatus">>
        ELSE <<"upgradeJob", "removeDataJobs">> \o clear

\* What a reconcile that nothing blocks writes before its own status.
Plan(u) ==
    LET upgradeJobComplete == jobCompleted(upJob[u].state)
        clear == IF identifier # 0 THEN <<"endpoints">> ELSE <<>>
    IN  IF JobsFailed(u) THEN <<>>
        ELSE IF upgradeJobComplete /\ removeDataJobsComplete
             THEN <<"backupJobs", "clusterStatus">>
        ELSE IF upgradeJobComplete THEN <<"removeDataJobs">> \o clear
        ELSE <<"upgradeJob">> \o clear

\* The Succeeded condition after this reconcile.
Succeeded(u) ==
    IF /\ Blocked(u) = "Completed"
       /\ jobCompleted(upJob[u].state) /\ removeDataJobsComplete
    THEN "Succeeded"
    ELSE IF Blocked(u) = "" /\ JobsFailed(u) THEN "Failed"
    ELSE ups[u].succeeded

\* The reason of the Progressing condition: each check resets only its own.
Progressing(u) ==
    IF Blocked(u) # "" THEN Blocked(u)
    ELSE IF ups[u].progressing = "Completed" THEN "Completed" ELSE "Progressing"

\* Reconcile up to its first write: an upgrade that has succeeded, or is gone,
\* is left alone.
Reconcile(u) ==
    /\ w = Idle /\ u \in queue
    /\ queue' = queue \ {u}
    /\ IF ~ ups[u].exists \/ ups[u].succeeded = "Succeeded"
       THEN UNCHANGED w
       ELSE w' = [upgrade |-> u,
                  writes |-> (IF Blocked(u) = "" THEN Plan(u) ELSE <<>>) \o <<"status">>,
                  primary |-> status.startup, replicas |-> ClusterReplicas,
                  progressing |-> Progressing(u), succeeded |-> Succeeded(u)]
    /\ UNCHANGED <<spec, status, clusterVars, patroniVars, ups, jobVars, countVars>>

\* observeWorld fails: the reason is recorded and the upgrade requeued.
ReconcileFails(u) ==
    /\ w = Idle /\ u \in queue /\ errors + crashes < MaxFaults
    /\ ups[u].exists /\ ups[u].succeeded # "Succeeded" /\ From[u] < To[u]
    /\ errors' = errors + 1
    /\ ups' = [ups EXCEPT ![u].progressing = "ErrorWhenObservingWorld"]
    /\ UNCHANGED <<spec, status, clusterVars, patroniVars, jobVars, queue, w, starts, crashes>>

Writing(step) == w # Idle /\ Head(w.writes) = step
NextWrite == w' = [w EXCEPT !.writes = Tail(@)]

\* A Job that exists already with the same spec is left as it is.
ApplyUpgradeJob ==
    /\ Writing("upgradeJob")
    /\ upJob' = [upJob EXCEPT ![w.upgrade] =
                    IF @ = NoJob THEN [state |-> "active", on |-> w.primary] ELSE @]
    /\ NextWrite /\ Enqueue(w.upgrade)
    /\ UNCHANGED <<spec, status, clusterVars, patroniVars, ups, data, rmJob, backupJob,
                   truth, countVars>>

\* One Job after the other.
ApplyRemoveDataJob(i) ==
    /\ Writing("removeDataJobs") /\ i \in w.replicas
    /\ rmJob' = [rmJob EXCEPT ![w.upgrade][i] = IF @ = "absent" THEN "active" ELSE @]
    /\ w' = [w EXCEPT !.replicas = @ \ {i},
                     !.writes = IF w.replicas = {i} THEN Tail(@) ELSE @]
    /\ Enqueue(w.upgrade)
    /\ UNCHANGED <<spec, status, clusterVars, patroniVars, ups, data, upJob, backupJob,
                   truth, countVars>>

\* Patroni's Endpoints hold the identifier of the old data; the reconcile is
\* repeated to verify that they are gone.
DeleteEndpoints ==
    /\ Writing("endpoints")
    /\ identifier' = 0 /\ kept' = FALSE
    /\ NextWrite
    /\ queue' = queue \cup {w.upgrade}
    /\ UNCHANGED <<spec, status, clusterVars, ups, jobVars, countVars>>

\* Have a backup of the new data taken, for replicas to be made from.
DeleteBackupJobs ==
    /\ Writing("backupJobs")
    /\ backupJob' = 0
    /\ NextWrite
    /\ UNCHANGED <<spec, status, clusterVars, patroniVars, ups, data, upJob, rmJob, truth,
                   queue, countVars>>

PatchClusterStatus ==
    /\ Writing("clusterStatus")
    /\ status' = [status EXCEPT !.version = To[w.upgrade], !.repos = FALSE]
    /\ NextWrite
    /\ findUpgradesForPostgresCluster
    /\ UNCHANGED <<spec, clusterVars, patroniVars, ups, jobVars, countVars>>

\* A write fails, and the reconcile is repeated.  Those that complete the upgrade
\* end with the first error.  An error of a Job ends the Jobs; the Endpoints are
\* deleted all the same, and their errors hide it and each other.
WriteFails ==
    /\ w # Idle /\ errors + crashes < MaxFaults
    /\ \/ /\ Head(w.writes) \in {"upgradeJob", "removeDataJobs"}
          /\ NextWrite /\ UNCHANGED kept
       \/ /\ Head(w.writes) = "endpoints"
          /\ NextWrite /\ kept' = TRUE
       \/ /\ Head(w.writes) \in {"backupJobs", "clusterStatus"}
          /\ w' = [w EXCEPT !.writes = <<"status">>] /\ UNCHANGED kept
    /\ errors' = errors + 1
    /\ queue' = queue \cup {w.upgrade}
    /\ UNCHANGED <<spec, status, clusterVars, identifier, ups, jobVars, starts, crashes>>

\* The deferred function writes the conditions on the way out.
PatchStatus ==
    LET now == [ups[w.upgrade] EXCEPT !.progressing = w.progressing,
                                      !.succeeded = w.succeeded]
    IN  /\ Writing("status")
        /\ IF ups[w.upgrade].exists /\ now # ups[w.upgrade]
           THEN /\ ups' = [ups EXCEPT ![w.upgrade] = now]
                /\ queue' = queue \cup {w.upgrade}
           ELSE UNCHANGED <<ups, queue>>
        /\ w' = Idle
        /\ UNCHANGED <<spec, status, clusterVars, patroniVars, jobVars, countVars>>

\* The process dies; the next one lists every object.
Crash ==
    /\ errors + crashes < MaxFaults
    /\ crashes' = crashes + 1
    /\ w' = Idle
    /\ c' = NoReconcile
    /\ queue' = Existing
    /\ UNCHANGED <<spec, status, want, pods, leader, last, patroniVars, ups, jobVars,
                   starts, errors>>

Controller ==
    \/ \E u \in Upgrades : Reconcile(u)
    \/ \E i \in Instances : ApplyRemoveDataJob(i)
    \/ ApplyUpgradeJob \/ DeleteEndpoints \/ DeleteBackupJobs \/ PatchClusterStatus \/ PatchStatus

Environment ==
    \/ ClusterObserves \/ ClusterApplies
    \/ \E u \in Upgrades : CollectJobs(u) \/ RunUpgradeJob(u)
                            \/ \E i \in Instances : RunRemoveDataJob(u, i)
    \/ \E i \in Instances : StartPod(i) \/ StopPod(i) \/ Lead(i) \/ Clone(i)

User ==
    \/ CreateCluster \/ Shutdown \/ Restart
    \/ \E u \in Upgrades : CreateUpgrade(u) \/ Allow(u) \/ DeleteUpgrade(u)

Next ==
    \/ Controller \/ Environment \/ User
    \/ ClusterFails \/ (\E u \in Upgrades : ReconcileFails(u)) \/ WriteFails \/ Crash

Spec == Init /\ [][Next]_vars

\* The work queue is served, the cluster is reconciled again and again, and
\* Kubernetes runs Jobs and Pods; the user and the faults promise nothing.
FairSpec ==
    /\ Spec
    /\ WF_vars(Controller)
    /\ WF_vars(ClusterObserves \/ ClusterApplies)
    /\ WF_vars(\E u \in Upgrades : \/ RunUpgradeJob(u)
                                   \/ \E i \in Instances : RunRemoveDataJob(u, i))
    /\ WF_vars(\E i \in Instances : StartPod(i) \/ StopPod(i) \/ Lead(i))

-----------------------------------------------------------------------------
(* Properties.                                                             *)

\* "Wait until all instances are gone" (pgupgrade_controller.go:315) and "each cluster
\* is managed by at most one upgrade" (:352): a Job that works on the data of an
\* instance is the only one of all upgrades that does, and the instance has no Pod.
JobsAlone ==
    \A i \in Instances :
        LET working == {u \in Upgrades : upJob[u] = [state |-> "active", on |-> i]}
            removing == {u \in Upgrades : rmJob[u][i] = "active"}
        IN  /\ Cardinality(working) + Cardinality(removing) <= 1
            /\ working \cup removing # {} => pods[i] = 0

\* Old data is removed only once newer data is complete, and never from the
\* instance that was upgraded: an upgrade that fails leaves every copy.
RemovedOnlyWhenUpgraded ==
    [][\A i \in Instances : \A v \in data[i] \ data'[i] : truth > v /\ i # last]_vars

\* What the user is told to start can start.  When the cluster status reports the
\* new version of a valid upgrade, no replica has kept a data directory of the old
\* one, which Patroni could not follow the primary with; when the upgrade is reported
\* to have succeeded, Patroni's Endpoints do not hold the identifier of the old data,
\* unless a crash came between or the last delete of them failed: its error is lost
\* (pgupgrade_controller.go:457-466) and an upgrade whose Jobs are done tries no more.
ReadyToStart ==
    \A u \in Upgrades :
        /\ (status.version = To[u] /\ spec.shutdown /\ spec.version = From[u]
               /\ From[u] < To[u] /\ status.startup # None)
             => \A i \in Instances \ {status.startup} : From[u] \notin data[i]
        /\ ups[u].succeeded = "Succeeded" /\ crashes = 0 /\ ~ kept => identifier # From[u]

\* An upgrade that is permitted on a cluster that stays shut down ends.  The permit is
\* never withdrawn, and goes to another upgrade only once this one has ended.
UpgradeEnds ==
    LET u == spec.allow
    IN  (u # None /\ ups[u].exists /\ spec.shutdown /\ spec.version = From[u] /\ From[u] < To[u])
        ~> (~ spec.shutdown \/ u = None \/ ups[u].succeeded # "")
=============================================================================
