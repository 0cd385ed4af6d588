# A TLA+ model of the ivory-operator

The repository is a Kubernetes operator for PostgreSQL: it keeps the objects of a
`PostgresCluster` (StatefulSets, Pods, volumes, ConfigMaps, Secrets, Jobs) and the
contents of its databases in line with its spec, while Kubernetes, Patroni and
users change them at the same time. This directory holds TLA+ modules that model
the parts of the operator in which the *order* of steps matters, TLC
configurations that check them on small instances, and TLAPS proofs for instances
of any size.

All paths below are relative to the repository; `instance.go`, `delete.go`,
`patroni.go`, `controller.go`, `pgbackrest.go`, `volumes.go`, `pki.go` and the
like are in `internal/controller/postgrescluster/`, `pgupgrade_controller.go`,
`world.go` and `jobs.go` in `internal/controller/pgupgrade/`.

## 1. Inventory

### How the operator works

`controller.go` registers one reconciler. For each `PostgresCluster`,
controller-runtime calls `Reconcile` with at most one call in flight; it is woken
by changes of the cluster and of the objects it owns, by Pod changes that
`watches.go` selects, by a returned error or requeue, and by an hourly resync
(`internal/controller/runtime/runtime.go`). `Reconcile` keeps nothing in memory
between calls. It reads the cluster from an informer cache, lists what exists,
decides, and makes one API call (or `patronictl`, `psql`, `pgbackrest` in a Pod)
after another. What it has to remember it writes to the status, to annotations or
to labels. A second reconciler does the same for `PGUpgrade` objects. So
everything hard has one of a few shapes:

* what was listed has changed by the time it is acted upon;
* the call that follows a completed call fails, or the operator stops there;
* a plan takes several reconciles and each has to find out how far the last got;
* the memory of an earlier reconcile is read from a cache that may lag, or was
  never written because the patch at the end of the reconcile was lost.

### Components

| Component | State it keeps | Operations | Hard | Correct when |
|---|---|---|---|---|
| Instance sets (`instance.go`) | StatefulSets, claims, PodDisruptionBudgets, `status.startupInstance` | observe, scale up, scale down, roll out, shut down, start up | snapshot against Patroni and Kubernetes; failing calls; crash between two objects | one instance down at a time, the primary and the data spared, what was asked for reached |
| Cluster deletion (`delete.go`, `instance.go`, `patroni.go`) | the finalizer, replicas of StatefulSets, Patroni's Endpoints | set finalizer, stop replicas, stop primary, clean up, remove finalizer | other controllers edit the finalizers; roles change under way | no instance without finalizer, no failover, deletion completes |
| Switchover (`patroni.go`, `internal/patroni/api.go`) | `status.patroni.switchover`, `.switchoverTimeline` | record timeline, run `patronictl`, note success | stale status, crash after the command | one change of primary per request; the status is true |
| PGUpgrade (`internal/controller/pgupgrade`) | Jobs, conditions, the version in the cluster status | wait for shutdown, upgrade Job, remove-data Jobs, remove Endpoints and backup Jobs | the cluster controller, the user and other PGUpgrades act meanwhile | data is rewritten only on stopped instances, removed only when superseded |
| pgBackRest backups (`pgbackrest.go`) | repository host and volumes, stanzas, Jobs, CronJobs, status of repositories and of the manual backup | clean up, repositories, stanza, replica create, manual and scheduled backups | ids and Jobs of old requests, files that lag behind the spec | the status is true; a request makes one backup |
| Restore and data sources (`pgbackrest.go`, `cluster.go`) | conditions, `status.startupInstance`, restore Jobs, copied configuration | prepare, restore, clean up | deletes objects over many reconciles | restores run alone and once |
| Volumes (`volumes.go`) | existing claims, directory move Jobs | adopt, move, observe | gate the rest of `Reconcile` | data moves before the cluster starts |
| Certificates (`pki.go`, `internal/pki`) | one root Secret per namespace, leaf Secrets per cluster | create, rotate, own | clusters share the root, nothing tells of its change | leaves verify, the root stays as long as it is used |
| pgBouncer, pgAdmin, pgMonitor, users and databases | a recorded hash of what was executed; API objects | write objects, execute, record the hash | executed but not recorded, restored to an earlier time | a recorded hash is the truth |
| Patroni configuration, restarts, status | dynamic configuration, pending restarts | reload, restart | leader moves between list and exec | only pending members restart |
| Controller references (`controller_ref_manager.go`) | owner references | adopt, release | cached, possibly deleted owner | no object has two controllers |
| Pipeline and status (`controller.go`, `watches.go`, `apply.go`) | conditions, `observedGeneration` | order of the parts, status patch | errors collected, status written anyway | the status describes what was done |
| Services, RBAC, configuration text, API types, naming | none of their own | generate and apply | | |
| Crunchy Bridge client, upgrade check, manager start | a token; a timer | HTTP calls | retries | |

`PROJECT.json` lists all of them with their source files, and each place where the
code is exposed to one of the hazards above.

## 2. Modules

| Module | Models |
|---|---|
| `InstanceObjects` | Pods, StatefulSets and claims of the instances and what changes them beside the operator (external: StatefulSet controller, kubelet, garbage collector, Patroni) |
| `InstanceSets` | `observeInstances` and `reconcileInstanceSets`; extends `InstanceObjects` |
| `ClusterDeletion` | `handleDelete`, `deleteInstances`, `deletePatroniArtifacts`; extends `InstanceObjects` |
| `PatroniSwitchover` | `reconcilePatroniSwitchover` and the `patronictl` commands it runs |
| `Upgrade` | the PGUpgrade controller composed with the PostgresCluster controller, the user of the upgrade guide and the Jobs |
| `Backups` | `reconcilePGBackRest` |
| `Restore` | directory moves, `reconcileDataSource`, the restore half of `pgbackrest.go`, and as much of the rest as decides whether Postgres runs |
| `RecordedWrite` | abstract specification: what a hash in the status promises |
| `DatabaseObjects` | databases, users, pgBouncer, pgMonitor, pgAdmin and initial SQL; implements `RecordedWrite` |
| `Certificates` | root and leaf certificates of the clusters of one namespace |
| `InstanceSetsProofs`, `ClusterDeletionProofs`, `PatroniSwitchoverProofs`, `UpgradeProofs`, `BackupsProofs`, `RestoreProofs`, `DatabaseObjectsProofs`, `CertificatesProofs` | theorems and proofs about the module each extends |
| `MC...` | small instances for TLC; each `.cfg` is named `<module>_<run>.cfg` |

In every module one reconcile is a sequence of actions that share a working copy
(`mem`, `copy`, `read`, `w`, `op`): what it read at its beginning. All decisions
are functions of that copy and of what is read on the way; between two actions
everyone else may move. `Mutant` definitions are plausible bugs; each stands
before the definition it would replace and is used only to see that the
properties notice it.

### InstanceObjects

An instance has a runner (its StatefulSet: `replicas`, template revision, whether
its controller has observed it), a Pod (`phase`, revision label, readiness, role
label) and a data claim. `leader` is the holder of Patroni's lock; a role label
follows it with a delay (`Promote` and `Follow` label, `ReleaseLock` and
`LoseLock` do not), so a Pod labelled `master` need not lead. `changed` holds the
instances whose Pod was written since the operator listed it. That is all a
resourceVersion is good for, and all `rolloutInstance` uses it for.

### InstanceSets

| Code | Actions |
|---|---|
| `Reconcile` up to `observeInstances`, the startup instance in `reconcileInstanceSets` | `Observe`, `ObservePanics` |
| `scaleUpInstances`, `reconcileInstance` | `ScaleUpInstances`, `ReconcileVolume`, `ReconcileVolumeRefused`, `ReconcileRunner`, `ReconcileInstanceFails` |
| `reconcileInstanceSetPodDisruptionBudget` | `ReconcilePodDisruptionBudget` |
| `scaleDownInstances`, `podsToKeep`, `deleteInstance` | `ScaleDownInstances`, `DeleteRunner`, `DeleteVolume` |
| `cleanupPodDisruptionBudgets`, `rolloutInstances`, `rolloutInstance` | `RolloutInstances`, `RolloutSwitchover`, `RolloutSwitchoverRefused`, `RolloutDelete`, `RolloutConflict`, `RolloutDone` |
| `patchClusterStatus` | `PatchClusterStatus`, `PatchFails` |
| errors returned elsewhere | `OtherCallFails` |
| operator stops, user | `Crash`; `EditReplicas`, `EditTemplate`, `EditShutdown` |

`scaleUpInstances` overwrites the error of each instance by that of the next, and
`reconcileInstance` empties the listed StatefulSet before it fills it again: both
are in the model (`ReconcileInstanceFails`, `UnwrittenRunner`). So is a claim that the
API server refuses, which is not an error (`ReconcileVolumeRefused`). The order of two
independent loops (over sets, over instances of a set) is left open, as Go maps
and unsorted lists leave it; the one exception is `byPriority`, which is the
operator `Rank`.

### ClusterDeletion

`copy` is the cluster as `Reconcile` read it and `moved` says whether its
resourceVersion has moved since. Both patches of `metadata.finalizers` carry the
resourceVersion, so `PatchAccepted` is `~ moved`. The rest of `Reconcile` for a
cluster that is not being deleted appears as `WriteInstance`. `DeleteInstances`
lists the Pods and chooses `ToStop`; `StopInstance` scales one StatefulSet to
zero; `InstancesStopping` returns and waits to be called again. The history
variable `missed` holds the instances that were to run but had no Pod, or a Pod
without role, when the Pods were listed: `deleteInstances` goes by Pods and cannot
see them.

### PatroniSwitchover

One reconcile: `Begin` (reads the cluster and checks the prerequisites), then the
timeline (`GetTimelineFails`, `RecordTimeline`, `AssumeCompleted` or `Proceed`), the
command (`RunCommand`, `CommandRefused`, `Reply`) and `PatchStatus`. Patroni carries an
order out (`Elect`), drops it (`Abandon`) or fails over by itself (`LoseLeader`,
`ElectOnItsOwn`). The informer cache shows the last version of the cluster or one of the
`MaxLag` before it (`past`), each of them a write of the user or of the operator, and
never goes back; so an edit may be seen before a status the operator has written since.
`done` is a history of changes of primary made for each request; `overtaken` notes that
the operator has read an edit together with a status it had already replaced.

### Upgrade

Composes two controllers. The PGUpgrade controller takes an upgrade from its queue,
finds the first of its checks that stops it (`Blocked`, in the order of `Reconcile`),
and otherwise makes the writes of `Plan` one by one, each of which may fail
(`WriteFails`); the last write is the status of the PGUpgrade itself. The history
variable `kept` notes a failed delete of Patroni's Endpoints. The PostgresCluster
controller (`ClusterObserves`, `ClusterApplies`, `ClusterFails`) is the part of
`InstanceSets` that stops and starts instances, with the three fields of its status that
`world.go` reads. `data` are the directories `/pgdata/pgNN` of each instance,
`identifier` is the system identifier in Patroni's Endpoints, `truth` the version of the
newest complete data. The user follows
`docs/content/guides/major-postgres-version-upgrade.md`; with `Careful` they also shut
down only what runs, erase one upgrade before permitting the next, and start the cluster
only when no Job works (`Working`).

### Backups

One action per function that `reconcilePGBackRest` calls: `GetResources` with `Cleanup`,
`DedicatedRepoHost`, `ReposReconciled`, `StanzaCreate`, `ReplicaCreateBackup`,
`ManualBackup`, `ScheduledBackups`, and `PatchStatus` in the end. A location is a bucket
or a volume; `stanzas` and `backups` are the locations that really have one, apart from
what the status says. Files reach the Pods with a delay (`Propagate`); the hash of the
configuration, computed over the external repositories as `CalculateConfigHashes` does,
is compared before `stanza-create`. A claim that is refused becomes an event
(`ClaimsRefused`), a ConfigMap that is not written a line in the log (`ConfigFails`),
and the reconcile goes on; after other failures of claims it does nothing more
(`ReposFail`). Three history variables: `overlooked` holds the requests whose Job had
completed, unknown to the status, when it was deleted with its repository, so that
nothing is left to tell that they were served; `replaced` the repositories whose claim
was deleted while their completed Job stayed; `mistaken` those for which what was done
elsewhere is recorded (`PassingFiles`, `OtherFiles`, `Unnamed`).

### Restore

`disk` holds, per instance, what is in the data directory and in the bootstrap directory
next to it. A reconcile goes through the directory moves (`Begin` with `MoveJob`),
`Observe` (instances, restore Job, Endpoints), `prepareForRestore` in its four stages
(`RemoveRestoreJob`, `RemoveRunners`, `RemoveEndpoints`, `ReadyForRestore`), the restore
Job for each kind of source, `ReconcileInstances` and `Cleanup`. The configuration of
another cluster is copied one file per step (`CopyFile`) before the Job that mounts it
is created. A restore is identified by its id and its options (`Key`), `done` are those
that have been carried out. `leftover` notes that an instance could still run when the
cluster was declared ready: `prepareForRestore` deletes runners only while it sees a
database container running.

### RecordedWrite and DatabaseObjects

`RecordedWrite` says what the fields of the status that hold a hash promise:
work is done, then recorded; a record moves only to a hash the contents fulfil at
that moment; contents that change without a record are a loss.
`DatabaseObjects` has six such fields (databases, users, pgAdmin users, pgBouncer,
exporter, initial SQL), executes them in the order of the pipeline, collects the
new hashes in memory and patches them in the end. `Records` is its refinement
mapping: the contents are what PostgreSQL or pgAdmin's volume hold, a field is
open while its new hash is only in memory, and `unsure` are the losses. The API
objects of pgBouncer and pgAdmin are written between those steps, one by one; a call
that fails ends the part, except for pgAdmin's claim: when the API server refuses it the
StatefulSet follows all the same (`PGAdminClaimRefused`, `refused`).

### Certificates

Several clusters, each with its own reconcile in flight, share the Secret of the
root. `ReconcileRootCertificate` reads it from the cache, keeps or replaces the
authority and applies the owner references it read plus its own;
`ReconcileLeaves` renews the leaves that this root has not signed or that are due.
Cluster identities are pairs of name and uid, so that a cluster deleted and
created again is another owner. Certificates are fresh, due or expired; keys are
numbers reused when no Secret holds them any more.

## 3. Runs

| Run | Checks | Instance |
|---|---|---|
| `rollout` | `TypeOK`, `OneRolloutAtATime`, `RolloutSparesLeader` | three running instances, one template change, one failover, one instance turning unready; symmetric names |
| `create` | `NeverTooMany`, `Converges`, `NoOrphanVolumes` | two new instances with three names, one failing call or refused claim, one crash |
| `scale` | `DataRetained`, `ScaleDownSparesLeader`, `Converges` | sets of two and one, one edit of the replicas of a set or of the template |
| `shutdown` | `StartupIsLastLeader`, `Converges` | two sets of one, two edits of replicas or shutdown, one failing call |
| `data_loss` | `DataRetained` is violated | one set, scale and template |
| `deletion` | `InstancesUnderFinalizer`, `OthersKept`, `NoFailover`, `StoppedBeforeGone`, `DeletionCompletes` | a new cluster of two or a running one of three, one failing call, one lost lock, one foreign edit of the finalizers |
| `switchover` | `AtMostOnce`, `StatusTruthful`, `RequestsHandled` | three members, two requests of either type, two crashes, one failover, one stopped Pod, a cache up to two versions behind, Patroni choosing another member |
| `upgrade` | `JobsAlone`, `ReadyToStart`, `RemovedOnlyWhenUpgraded`, `UpgradeEnds` | two instances, two upgrades from the same version, one restart, one failed write or crash |
| `backups` | `RepoStatusTruthful`, `ManualTruthful`, `ManualWaits`, `ManualEnds`, `SchedulesFollow` | two buckets and a volume, four lists of repositories of which the hash does not tell two apart, one edit, two requests, one fault |
| `restore` | `RestoreAlone`, `RestoredStartsAlone`, `JobHasConfig`, `MovesFirst`, `RestoreOnce`, `RestoreEnds` | two instances, every kind of source, five files to copy (optional and absent, two required, optional and present, required), two edits, one fault |
| `objects` | `StatusRecords`, `SuccessIsComplete`, `Converges` | all six fields, two edits of any kind, one fault |
| `certificates` | `KeysMatch`, `OwnersKept`, `Settles` | two clusters with two kinds of Secrets, one of them recreated, one edit, one fault, one stale read |

What the passing runs show:

* A rollout takes available instances down one at a time. Two instances would not
  do to see it: with two, Patroni refuses the switchover that has to come before
  the second delete, whatever the operator counts.
* The resourceVersion precondition of `rolloutInstance` makes up for old lists:
  a Pod that became primary after it was listed is not deleted.
* Nothing is leaked when the operator stops between creating a claim and its
  StatefulSet: `findAvailableInstanceNames` finds the name again, and no instance
  more than asked for is made.
* Replicas stop before the primary, in shutdown and in deletion, over as many
  reconciles as that takes, provided all Pods exist when it begins.
* Instances never exist under a live cluster without finalizer, also when the
  patch that sets it loses a race with a delete or another controller.
* A switchover is carried out at most once when the operator crashes before it
  could note the success, or reads its own note too late, as long as it does not read
  another request before its note of the last.
* Upgrade Jobs never work beside a Pod or another Job, old data goes only after
  the new is complete and only from replicas, and a permitted upgrade ends,
  provided the user follows the guide with care.
* The status of a repository and of a manual backup tells the truth through edits,
  old Jobs and lost patches, but for the mistakes listed below; a request is neither
  lost nor served twice.
* No restore begins while something runs or Patroni remembers the old cluster, and
  whatever was restored starts alone; a served request is not served again.
* A Job that restores from another cluster finds exactly the copies that
  `copyConfigurationResources` makes, through crashes and failing calls between them;
  which are not all, as said below.
* The six recorded hashes implement one abstract specification, so that skipping
  work on their account is sound until contents are lost without a record.
* A reconcile without an error has left everything it was asked for, whether it executed
  a step or skipped it, but for a refused claim.
* Clusters that share a root come to agree on one, although nothing wakes them
  when it changes; a Secret never holds a leaf next to a root that did not sign it.

### The violation

`data_loss`. Scale from two to one and change the template. `scaleDownInstances`
deletes the replica `a2` (StatefulSet and claim) but its Pod is still there;
`rolloutInstances` in the same reconcile counts it and switches over to it before
it redeploys `a1`. The next reconcile lists two Pods, keeps the one labelled
`master` and deletes the StatefulSet *and claim* of `a1`. Both claims are gone.

### Divergences known, without a run of their own

Those that name a formula were seen with TLC, by changing the named constants of a
run or by checking that formula; the others were read in the code.

Instance sets:

* Remove the set of the primary and set `spec.shutdown`, in one go or while the
  shutdown proceeds: `instance.Spec` is nil for an instance whose set is not in
  the spec, and `*instance.Spec.Replicas` (`instance.go:517`) is evaluated for the
  primary in every reconcile. `NeverPanics` in `shutdown`.
* An API error in `scaleUpInstances` for an instance that is not the last one is
  overwritten (`instance.go:1018`). The StatefulSet in memory is empty then, its
  `Status` does not match, and `rolloutInstances` redeploys a Pod that is up to
  date. `EstablishedSpec`, `MaxErrors = 1`: `RedeployOnlyOutdated`.
* With an instance more than specified `numUnavailable` is negative
  (`instance.go:838`) and two Pods are redeployed at once. Scale and template:
  `OneRolloutAtATime`. With stale caches the same happens because the Pod just
  deleted still counts as available: `StaleReads = TRUE`.
* A list that does not show yet what the last reconcile made: an instance more is
  made under another name. `StaleReads = TRUE` in `create`: `NeverTooMany`.
* A failover between list and delete: `scaleDownInstances` deletes the new
  primary of a set that stays. `MaxFailovers = 1`: `ScaleDownSparesLeader`.
* Removing a set and adding it back, or scaling a set with a spare name down and
  up, or scaling with a crash: the terminating Pod labelled `master` is kept and
  the new instance deleted, once or again and again. Two edits in `scale`:
  `DataRetained`, `Converges`.
* Instances of a removed set are deleted in list order, the primary possibly
  first, against the comment at `instance.go:879`.
* A crash between the deletes of a StatefulSet and of its claims orphans the
  claims once the Pod is gone. `MaxCrashes = 1` in `scale`: `NoOrphanVolumes`.
* A replica whose Pod is being recreated is not counted at shutdown
  (`instance.go:1231`): the primary stops first and the replica takes over.
  Template and shutdown edits, a shutdown during bootstrap, or a lost patch and a
  crash: `StartupIsLastLeader`. A cluster shut down while it bootstraps may also
  not come back (`Converges` under `FairSpec`).
* A claim that the API server refuses (`Forbidden`, or `Invalid` for one of the known
  reasons) becomes an event and no error (`volumes.go:796`, `postgres.go:557`): the
  StatefulSet follows, its Pod waits for the claim, and nothing but another event or the
  hourly resync tries again. In `create` this is `ReconcileVolumeRefused`.
* A set removed during a shutdown stays, since `scaleDownInstances` goes by Pods;
  if it held the startup instance the cluster does not start again.

Deletion and switchover:

* A StatefulSet without Pod is not waited for in deletion, and a Pod without role
  is not stopped in order. That is what `missed` excuses; without it the run
  refutes `StoppedBeforeGone`, `NoFailover` and `DeletionCompletes` (Patroni's
  Endpoints are written again after their removal).
* Any change of primary after the timeline was recorded counts as the requested
  switchover (`patroni.go:573`): an automatic failover, the switchover of an
  earlier request whose reply was lost, or one to another member than the target
  that was reported as an error. `StatusTruthful` names these exceptions and the next;
  without any of them it is refuted.
* The status is read from a cache that may lag. Request 1 has its timeline recorded and is
  served; the user edits the request to 2 before the operator patches the status. A
  reconcile that reads the version with the edit and without the patch finds the timeline of
  request 1 outdated and records request 2 as successful (`patroni.go:573`), with nothing
  done for it. `MaxLag = 1` is enough, without crash or failover:
  `StatusTruthful` without `overtaken`. In `AtMostOnce`, too, the exception is needed.
* A `patronictl` that outlives its caller and that of the next reconcile can both
  change the primary. `CommandsOutlive = TRUE`: `AtMostOnce`.
* A failover without leader is refused as long as the timeline is unknown
  (`patroni.go:553`), hence the exception in `RequestsHandled`.

Upgrade:

* Completed remove-data Jobs of all upgrades are counted against the replicas
  (`pgupgrade_controller.go:264`). The guide (its line 101) says one "can" erase a
  completed PGUpgrade, which otherwise "will remain inert"; left in place, its Jobs
  make the next upgrade skip the replicas. `Upgrades = {u1, u2}`,
  `Careful = FALSE`: `ReadyToStart`.
* `status.observedGeneration` is set although a step failed (`controller.go:351`),
  so that `world.go` takes a cluster with no Pods yet for one that has been shut
  down and Jobs are created while it starts, against the comment at
  `pgupgrade_controller.go:314`. `Careful = FALSE`: `JobsAlone`.
* The upgrade is reported as failed as soon as one remove-data Job has failed
  (`pgupgrade_controller.go:375`) while those of other replicas still work. A user who
  starts the cluster then, as the guide (its line 97: "the upgrade process will stop")
  lets one believe is safe, has a Pod beside a Job that removes its data. Three
  instances, `Careful = FALSE`: `JobsAlone`.
* A crash after the remove-data Jobs and before the Endpoints are deleted leaves
  them until the cluster status has been written, after which nobody looks. So does,
  without a crash, a delete that fails and is not the last: the next iteration overwrites
  its error (`pgupgrade_controller.go:457-466`), success is reported with the old
  identifier in place, and the completed branch (`:393`) does not look again. Both are
  exceptions in `ReadyToStart` (`crashes`, `kept`) and refute it otherwise.

Backups:

* The hash of the configuration covers external repositories only. When a volume is added,
  files without it pass the check before `stanza-create` (`pgbackrest.go:2598`), the stanza
  is recorded although it is not there (`PassingFiles`), and backups into that repository
  fail from then on, since nobody creates the stanza again. The hash also concatenates S3
  options without separators.
* `COMPARE_HASH` compares the files mounted in the Pod with the current ones, not with those
  the Job was made for: a Job made before an edit backs up into the bucket of after the
  edit, and counts for the first when the edit is taken back (`OtherFiles`).
* The comment above `getRepoVolumeStatus` (`pgbackrest.go:2707`) has both stanza
  and backup repeated for a different volume. A claim replaced before the name of
  its first volume was recorded is not noticed (`Unnamed`), and neither is a replaced one
  by the completed Job for replicas, which stands for a backup that went with the old
  volume (`replaced`).
* These are the cases that `mistaken` and `replaced` except in `RepoStatusTruthful`, and
  `mistaken` in `ManualEnds` and `SchedulesFollow`; each property is refuted without them.
  Besides the bounds of `backups` the exceptions were seen to suffice, without
  requests, for two edits and a fault, three edits, and one edit and two faults.
* A manual backup completes, its repository is taken out before the status has seen
  that, the Job is deleted with it (`pgbackrest.go:303`), and when the repository is put
  back the backup is taken again. Two edits: `ManualTruthful` without `overlooked`.
* "only one backup can be run at a time" (`pgbackrest.go:2193`) is decided by the Job of
  the repository that is first now. Change the first repository and change it back,
  with a crash after each: a manual backup begins beside the forgotten Job of the other.
  `ManualWaits` without its exception. With one repository in a bucket that is changed and
  changed back, one crash after the outdated Job was deleted and one after the new Job was
  made, it begins beside a forgotten Job of the same repository: two buckets, two edits, two
  faults, `ManualWaits`.
* A CronJob is not suspended at shutdown if the backup for replicas is not
  complete.

Restore:

* "once the restore is complete, in-place restores can be disabled"
  (`docs/content/tutorial/disaster-recovery.md:216`). In a cluster that was cloned
  from another the wanted id then falls back to that of the bootstrap
  (`cluster.go:300`), differs from the recorded one, and the source is restored
  again over the clone. `CloneDisabled = TRUE`, `Sources = {"cluster"}`:
  `RestoreOnce`.
* With existing volumes `volumes.go` sets `status.startupInstance` whenever no
  primary is seen; after a lost leader the running instances are stopped but the
  first one. `Sources = {"volumes"}`: `LeaderRuns`.
* "copyConfigurationResources copies all pgBackRest configuration ConfigMaps and Secrets"
  (`pgbackrest.go:1749`). It returns a nil error at the first optional file that exists
  (`:1776`, `:1830`): neither that file nor any after it is copied, and the Job is created
  all the same. `JobHasConfig` says exactly which copies there are. Where source and clone
  are in different namespaces the Pod of the Job then waits for a file it cannot mount.
* Runners are deleted only if a database container runs when observed, so that an
  instance between two starts runs beside the restore: `leftover`.
* A failed move Job is applied again without effect (`volumes.go:428`) and blocks
  the cluster for good, as a failed restore Job does until id or options change.
  Both are exceptions in `RestoreEnds`.
* When the deletion of an old restore Job fails, the status names the new request already
  (`pgbackrest.go:904`, then `:954`). If the old Job then completes, `observeRestoreEnv`
  takes that for the end of the new one, which is never carried out. In `restore`:
  `ServedWhenDone`.
* Not in the model: the move script removes
  `patroni.dynamic.json` from `pgNN` after it moved that to `pgNN_bootstrap`; the
  Pod of a restore Job deleted in the background may outlive it; a source cluster
  that appears later wakes nobody.

Databases and users:

* A restore in place clears the hashes of pgBouncer and exporter only
  (`pgbackrest.go:985`); databases, users and initial SQL of before are taken for
  applied (`postgres.go:274`, `:487`). `Editable = {"users", "rotate", "restore"}`:
  `NecessarySQLApplied`. In `Converges` this is an `unsure` step.
* After such a restore a GRANT on a database that is missing fails in every
  reconcile and all later steps wait for it.
* The refusal of pgAdmin's claim is swallowed as above (`volumes.go:796`,
  `pgadmin.go:391`), the reconcile succeeds, and the Pod of the StatefulSet cannot start
  before another reconcile writes the claim: `refused` in `SuccessIsComplete` and
  `Converges`, which are refuted without it.
* Not in the model: two reconciles may race on the user Secret;
  a password changed without clearing its verifier is never applied; a failure to
  create an extension is not requeued; `pgbouncer.go:128` does not check that the
  container of the Pod it found runs.

Certificates:

* Two clusters that read the root before either wrote its owner reference lose one
  of them, and the collector may delete a root in use (`pki.go:76`): `dropped`
  in `OwnersKept`.
* The root is not renewed before it expires, and a change of its Secret wakes
  nobody; leaves are signed anew at the next reconcile of their cluster.

### Bounds

Every bound is a constant named `Max...` or a set of values. Two instances are
the least with a failover, three the least in which an instance can be redeployed
beside another that is down; two sets, two upgrades, two clusters, two
repositories and two requests are the least in which one can be taken for the
other. Two edits and one fault of each kind are enough for an edit or a fault
during the consequences of another; the operator has no counters beyond those.
Three passwords (`Passwords`, zero for none) are one more than a Secret, a recorded
hash and the databases can need at once when each is a change behind. In `restore` the
bootstrap from a data source is one of the two restores; with three (`MaxRestores = 3`) the
same properties were checked in 1.5 million states. A cache two
versions behind (`MaxLag`) can miss an edit, a status, or one of each. Liveness is checked
without symmetry. `upgrade`, `deletion` and `objects` run without deadlock check:
a cluster that is gone, or has everything it wants, does nothing more.

### Fairness

* `WF` of the reconcile steps: errors are retried with backoff, and the hourly
  resync calls `Reconcile` when no event does (a change of the role label alone
  does not wake it, `watches.go`). "In the end" can therefore mean an hour. In
  `Upgrade`, `DatabaseObjects` and `Certificates` the work queue is explicit and a
  reconcile runs only when something has queued it.
* `WF` of each step of the StatefulSet controller, the garbage collector, the
  kubelet, Jobs, and of elections and labelling by Patroni.
* `SF` twice: in `PatroniSwitchover` for a reconcile that reads the current
  cluster (a cache does not stay behind for ever), in `DatabaseObjects` for the
  cache, Pods and restore Jobs, which the model lets move only between reconciles.
* None for faults, users, other controllers, lost locks, or a failover Patroni
  would do by itself.

## 4. Proofs

Proved by TLAPS for every finite set of instances, members, clusters or
repositories, and every bound on edits, requests and faults:

| Theorem | States | Argument |
|---|---|---|
| `TypeCorrect` | `Spec \/ EstablishedSpec => []TypeOK` of `InstanceSets` | one case per action |
| `RolloutIsSafe` | `Spec \/ EstablishedSpec => RolloutSparesLeader` | `TypeOK` and `SnapshotCurrent` are inductive: a Pod that was not written since it was listed is as it was listed. `rolloutInstance` deletes under that condition, and chooses instances listed as replicas, or a primary when it knows of no other instance. This includes stale lists, which no run does |
| `InstancesNeverTooMany` | `~StaleReads`: `Spec \/ EstablishedSpec => []NeverTooMany` | `ScaleIInv`, below |
| `RolloutOneAtATime` | `~StaleReads`, no edit of replicas: `Spec \/ EstablishedSpec => []OneRolloutAtATime` | `RolloutInv`, below |
| `InstancesAreProtected` | `Spec => []InstancesUnderFinalizer` | `IInv`, below |
| `FinalizersOfOthers` | `Spec => OthersKept` | both patches replace the list that was read; `CopyCurrent` says it is still the list |
| `InstancesStopFirst` | `Spec => StoppedBeforeGone` | `StoppedWithoutFinalizer`: a cluster without the finalizer, or about to lose it, is stopped and nothing will start it |
| `DeletionMakesNoFailover` | `Spec => NoFailover` | `LeaderLast`: the last leader leads until no other instance runs or will run |
| `SwitchoverAtMostOnce` | `~CommandsOutlive`: `Spec => []AtMostOnce` | a primary changed for a request shows in the status, as the request served or as a recorded timeline older than the present one; an order is pending only while its reconcile waits. `OnceInv` says so of every version the cache may still show with the present status (`Later`), until one is `overtaken` |
| `SwitchoverStatusIsTruthful` | `Spec => StatusTruthful` | `TruthInv`: without crash, lost leader, passed-over candidate or `overtaken` status the timeline moves only for the request it was recorded for, in every version the cache may show |
| `UpgradeJobsWorkAlone` | `Careful`: `Spec => []JobsAlone` | Jobs exist only of the one permitted upgrade, and active ones only while the cluster is shut down, has no Pods and both controllers know it |
| `OldDataOutlivesUpgrade` | `Careful`: `Spec => RemovedOnlyWhenUpgraded` | the same invariant: remove-data Jobs follow the completed upgrade Job and spare the startup instance |
| `UpgradedClusterCanStart` | `Careful`: `Spec => []ReadyToStart` | `ReadyInv`, below |
| `ManualBackupIsTruthful` | `Spec => []ManualTruthful` of `Backups` | `ManualIInv`, below |
| `ManualBackupWaits` | `Spec /\ [][NotForgotten]_vars => ManualWaits` | `WaitInv`, below |
| `RepoStatusIsTruthful` | `HashTells`: `Spec => []RepoStatusTruthful` | `TruthInv`, below |
| `DirectoriesMoveFirst` | `Spec => []MovesFirst` of `Restore` | every step behind the moves, and every runner, implies that they are complete |
| `RestoreJobHasConfig` | `Spec => []JobHasConfig` | `CopiesInv`: nothing else is ever copied, all of it is when the Job is created, and copies go only with it; the source does not change under a Job |
| `RestoreRunsAlone`, `RestoredDataStartAlone` | `Spec => []RestoreAlone`, `Spec => []RestoredStartsAlone` | `RestoreIInv`, below |
| `RestoredOnlyOnce` | `NoSecondClone`: `Spec => RestoreOnce` | `OnceInv`, below |
| `StatusIsRecord` | `Spec => StatusRecords`: `DatabaseObjects` implements `RecordedWrite` | `RecordInv`, below |
| `StatusIsTruthful` | `Spec => []Records!Truthful` | `Truthful` is inductive in `RecordedWrite`, whose steps the refinement gives |
| `SuccessfulReconcileIsComplete` | `Spec => []SuccessIsComplete` | `CompleteInv`, below |
| `CertificatesVerify` | `Spec => []KeysMatch` | a leaf and the root beside it are written in one piece with the key applied in the same reconcile |
| `OwnersAreKept` | `Spec => []OwnersKept` | a reconcile past the root is an owner, or was dropped; leaves come later |

Why the invariants alone do not do:

* `InstancesUnderFinalizer` does not forbid a reconcile that writes instances while
  the finalizer is missing. `IInv` adds `CopyCurrent` (an unmoved copy is the cluster)
  and `StepsGuarded` (the step that writes instances runs only under the finalizer;
  the steps of deletion run only for a cluster being deleted).
* `NeverTooMany` says nothing of instances about to be made. `ScaleIInv` counts them
  too (`PlannedFew`), keeps the loop within its set (`Writing`), and has the list of
  a set still to come agree with the runners that exist (`RunnersListed`): the step
  that decides how many to add relies on it, several API calls and failures after
  the list. With stale lists exactly this is lost.
* `OneRolloutAtATime` counts what is down; a reconcile in flight may be about to add to
  it. `RolloutInv` counts that too (`OneGoing`), has an instance that is down listed as
  unavailable by every reconcile that has yet to choose (`DisruptedDown`), and relies on
  scale down having nothing to do (`NothingToDelete`) and on Pods only of instances that
  exist (`PodsRun`). `ScaleIInv` says there are no more of these in a set than replicas;
  the lemma `FewInAllSets` numbers them within their sets, and so bounds those of all
  sets by what `rolloutInstances` counts as specified, without an induction. A Pod listed
  as unavailable that has recovered since is protected by the resourceVersion
  (`SnapshotCurrent`).
* `ReadyToStart` speaks of the moment a version or a success is reported. `ReadyInv` follows
  the upgrade there: completed remove-data Jobs have removed their data (`Held`), all of them
  are of the permitted upgrade (`Cleared`), the order of the writes of a
  reconcile has the Endpoints go before the success is noted (`WorkReady`), and the version
  is ahead of the spec only when all this is done (`Ahead`, `Success`), unless the operator
  crashed or an error was overwritten (`Clean`).
* `ManualTruthful` is about three things that remember a request: the Job, the status
  and the annotation, of which the reconcile holds copies. `ManualIInv` orders their
  ids (`IdsOrdered`), says what a Job tells of the backups taken (`JobsTell`, `Once`,
  `Outcomes`), and how far the working copy may be ahead of or behind what is stored
  (`SeenJob`, `Copied`, `PatchAhead`, `ActiveNew`).
* `RestoreAlone` and `RestoredStartsAlone` need each other: nothing runs beside a Job
  because the cluster was found quiet in an earlier reconcile, and nothing
  has started since because `status.startupInstance` names the one instance that may,
  which has no Pod until the restore is done. `RestoreIInv` says in which stages of
  `prepareForRestore`, and for which conditions in the status and in the working copy,
  the cluster is quiet.
* `RestoreOnce` compares a new Job with all restores completed. `OnceInv` orders the requests
  (`KnownOrdered`, `RequestedIsNew`) and says who remembers one that is served while
  the Job is deleted and the status not yet stored: Job, status, working copy or
  Patroni's Endpoints (`Remembered`, `Settled`).
* `ManualWaits` relies on a condition in the working copy. `WaitInv` says what the status
  and the copy know of the Job for replicas: a repository marked complete has none that
  works (`StatusKnows`, `WorkKnows`), and the list of Jobs is current except for the one
  the reconcile itself made (`SeenReplica`).
* `RepoStatusTruthful` is only about what is stored. `TruthInv` says it of the working copy
  (`WorkTrue`) and of Jobs that will be counted (`JobsTrue`), that everyone who holds a list
  of repositories has one the user chose (`FilesListed`), that past the repositories the
  working copy is about those of its spec (`WorkFits`), and that a status without the name of
  a volume is about the volume bound now (`Numbered`, `NeitherNamed`).
* The refinement needs to know that a hash held in memory describes work that still
  holds when it is recorded. `RecordInv` says so (`NotedHolds`), that fields are noted
  in the order of the pipeline (`InOrder`), and what a restore and the removal of
  pgAdmin erase (`AdminErased`, `RestoreClears`, `RestoringCleared`).
* `SuccessIsComplete` speaks of the end of a reconcile. `CompleteInv` says that whatever its
  pipeline has passed is done: what a passed step wanted does not change while
  the reconcile goes on, no later step undoes it, and a skipped one had been done because
  the status is true (`StatusIsTruthful`).

`ScaleIInv`, `RolloutInv`, `ManualIInv`, `WaitInv`, `TruthInv` and `RecordInv` were checked
with TLC before they were proved. Some attempts failed for good reasons and are listed
as divergences: `JobsAlone` did not hold for a user who starts the cluster when the upgrade
is reported as failed, `ManualTruthful` not for a repository taken out and put back, and
`ManualWaits` not for a Job forgotten in a crash. `ReadyToStart` did not hold for a PGUpgrade
whose versions do not rise, which `pgupgrade_controller.go:185` refuses: its first
clause is about valid upgrades.

Assumptions are the `ASSUME`s of the modules: the sets are finite where they are
counted, bounds are natural numbers, flags are Boolean, replicas have a largest value,
versions are positive (their minimum in the CRD is 10), exactly the repositories in a cloud
have a bucket.
Some theorems name a premise besides, each with a counterexample without it among the
divergences:

* lists are current (`~StaleReads`), and for rollouts replicas are not edited;
* `patronictl` ends with its caller (`~CommandsOutlive`);
* the user of upgrades is `Careful`;
* restores in place are not disabled again in a cloned cluster (`NoSecondClone`);
* no crash comes between making a Job for replicas and patching the status
  (`NotForgotten`);
* lists of repositories with the same hash have the same buckets under the same names
  (`HashTells`); volumes may differ.

Only model-checked:

* all liveness properties, since fairness is outside the prover;
* `StartupIsLastLeader`, `DataRetained` and `ScaleDownSparesLeader`, which hold within the
  bounds of their runs and not without the limits on edits and faults listed above.

## 5. Abstractions and limits

* Of the volumes of an instance only PGDATA; WAL and tablespace claims,
  certificates and ConfigMaps are written and deleted with it.
* A Pod always has its `Ready` condition. `minAvailable` set by the user is not
  modelled; a PodDisruptionBudget exists or does not.
* `InstanceSets`, `ClusterDeletion`, `Upgrade`, `Backups` and `Restore` read the
  `PostgresCluster` itself fresh (lists in `InstanceSets` may be stale);
  `PatroniSwitchover`, `DatabaseObjects` and `Certificates` read caches.
* A timeout inside `patronictl` counts as the failure of the call. `Promote` takes
  the lock and relabels the Pods in one step; that labels lag behind the lock is seen
  when it is lost or released.
* A Pod that waits for a claim counts as absent. `DeleteRunner` deletes under the
  resourceVersion it has listed; a conflict is one of the failures of `OtherCallFails`.
* Scripts of Jobs are their effects, all or nothing except where a property tells
  partial results apart (`Partial` in `Restore` and in `DatabaseObjects`).
* In `Upgrade`, names of PGUpgrades are not used twice and versions rise. The `break` at
  `pgupgrade_controller.go:260`, which matters only where a Job of another upgrade has
  failed, is left out.
* In `Backups`, Jobs made by CronJobs are left out, a Job's expiry takes longer
  than a reconcile, and the leader is the last to stop.
* In `Restore`, the restore in place takes the cluster's own repositories, and no claim
  is refused.
* In `DatabaseObjects` passwords are versions, specification `n` names databases
  `1..n`, and committed SQL is not lost in a failover. Comparing hashes is blind to
  contents that changed back and forth.
* In `Certificates` the leaves of a cluster are written in one step up to the one
  that fails, and a renewal period is longer than the resync.
* Foreground deletion, in which the garbage collector deletes StatefulSets
  before the operator has stopped them, is not modelled (a TODO in `delete.go`).
* Switchover of clusters with one instance is refused by the code and excluded by
  an assumption.

### Not modelled

* Controller references: the lasting effect of adoption is an owner reference on
  an object nothing but a person has made.
* Patroni restarts and dynamic configuration: the operator keeps no state of them
  and Patroni decides what is pending.
* Removal of WAL and tablespace volumes, Services, RBAC, configuration text, API
  types and naming: formatting and idempotent writes.
* The Crunchy Bridge client, the upgrade check and the start of the process: one
  sequential loop each, without effect on clusters.

## 6. What is left

The safety properties the runs check are proved, except for the three that are only true of
few edits and faults. For those a theorem needs a change of the code first, and the
counterexamples above say where: claims of instances whose Pods still run, and roles read
from labels that lag behind the lock. The parts listed as not modelled keep no state that a
property here depends on.
