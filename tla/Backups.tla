------------------------------- MODULE Backups -------------------------------
(***************************************************************************)
(* pgBackRest backups of one cluster: the part of Reconcile called         *)
(* reconcilePGBackRest (pgbackrest.go), with the repositories, Jobs and    *)
(* CronJobs it manages and the status it keeps of them.                    *)
(*                                                                         *)
(* A reconcile works on a copy of the spec and of the status, both read at *)
(* its beginning; each action below is one function it calls, and between  *)
(* two of them the user, Kubernetes and Patroni go on.  What pgBackRest    *)
(* really did, that is, which locations hold a stanza and a backup, is     *)
(* kept apart from what the status says of it.                             *)
(***************************************************************************)
EXTENDS Integers, FiniteSets, Sequences, SequencesExt

CONSTANTS
    Repos,          \* repo1 ... repo4, as numbers
    Buckets,        \* values of the options of an external repository
    RepoChoices,        \* spec.backups.pgbackrest.repos the user chooses from
    InitialRepos,   \* the ones a new cluster may have
    MaxEdits,       \* bound on edits of the spec
    MaxRequests,    \* bound on manual backups
    MaxFaults,      \* bound on lost leaders, claims deleted by someone else, Jobs that
                    \* fail for no reason in the model, failed API calls and crashes
    None

\* One repository and one list of them; the first of the list is the one
\* replicas are made from.
RepoSpec == [kind : {"none", "volume", "cloud"}, bucket : Buckets \cup {None},
             schedule : BOOLEAN]
RepoList == [repos : [Repos -> RepoSpec], first : Repos]

ASSUME BackupsAssumption ==
    /\ Repos \in SUBSET (1..4) /\ Repos # {}
    /\ None \notin Buckets
    /\ RepoChoices \subseteq RepoList /\ InitialRepos \subseteq RepoChoices
    /\ \A ch \in RepoChoices : ch.repos[ch.first].kind # "none"
    /\ \A ch \in RepoChoices, r \in Repos : (ch.repos[r].bucket # None) <=> (ch.repos[r].kind = "cloud")
    /\ {MaxEdits, MaxRequests, MaxFaults} \subseteq Nat

VARIABLES
    spec,       \* the user's
    status,     \* the persisted status
    claims,     \* repositories with a PersistentVolumeClaim
    volume,     \* the volume each claim is bound to, 0 when it is not
    host,       \* the repository host: "absent", "stopped", "starting" or "ready"
    config,     \* repositories in the ConfigMap
    mounted,    \* repositories in the files of the Pods
    writable,   \* an instance accepts writes
    replicaJob, manualJob,      \* the two kinds of backup Job
    cronJobs,   \* the CronJob of each repository
    stanzas, backups,           \* locations that hold a stanza, a backup
    taken,      \* how many backups each request has led to
    w,          \* the reconcile in progress
    volumes, edits, faults,     \* counters
    overlooked, \* history: requests whose Job had completed when it was deleted with its
                \* repository, and of whose end the status did not know
    replaced,   \* history: repositories whose claim was deleted while their Job may have stayed
    mistaken    \* history: repositories of which what was done elsewhere is recorded

envVars   == <<volume, mounted, writable>>
realVars  == <<stanzas, backups, taken>>
countVars == <<volumes, edits, faults>>
historyVars == <<overlooked, replaced, mistaken>>
vars == <<spec, status, claims, host, config, envVars, replicaJob, manualJob, cronJobs,
          realVars, w, countVars, historyVars>>

Specified(s) == {r \in Repos : s.repos[r].kind # "none"}
VolumeRepos(s) == {r \in Repos : s.repos[r].kind = "volume"}

\* A location of backups: a volume, or a bucket used under a repository's name.
Location(repos, vol, r) ==
    [repo |-> r, bucket |-> repos[r].bucket, volume |-> IF repos[r].kind = "volume" THEN vol[r] ELSE 0]

MaxVolumes == Cardinality(Repos) + MaxFaults + MaxEdits
Locations  == [repo : Repos, bucket : Buckets \cup {None}, volume : 0..MaxVolumes]
States     == {"absent", "active", "complete", "failed"}
Conditions == {"absent", "True", "False", "Unknown"}
Hashes     == UNION {[1..n -> Buckets] : n \in 0..Cardinality(Repos)}
NoRepo     == [known |-> FALSE, volume |-> 0, hash |-> None, stanza |-> FALSE,
               complete |-> FALSE]
NoReplica  == [state |-> "absent", repo |-> 0, container |-> "none", hash |-> <<>>]
NoManual   == [state |-> "absent", id |-> 0, repo |-> 0]
Spec_      == [repos : [Repos -> RepoSpec], first : Repos, manual : Repos \cup {0},
               id : 0..MaxRequests, shutdown : BOOLEAN]
Status     == [repos : [Repos -> [known : BOOLEAN, volume : 0..MaxVolumes,
                                  hash : Buckets \cup {None}, stanza : BOOLEAN,
                                  complete : BOOLEAN]],
               hostReady : Conditions, repoReady : Conditions, replicaCreate : Conditions,
               id : 0..MaxRequests, finished : BOOLEAN, successful : Conditions]
ReplicaJob == [state : States, repo : Repos \cup {0}, container : {"none", "database", "pgbackrest"},
               hash : Hashes]
ManualJob  == [state : States, id : 0..MaxRequests, repo : Repos \cup {0}]
Steps      == {"idle", "repos", "stanza", "schedules", "replica", "manual", "patch"}
NoStatus   == [repos |-> [r \in Repos |-> NoRepo], hostReady |-> "absent", repoReady |-> "absent",
               replicaCreate |-> "absent", id |-> 0, finished |-> FALSE, successful |-> "absent"]
NoSpec     == [repos |-> [r \in Repos |-> [kind |-> "none", bucket |-> None, schedule |-> FALSE]],
               first |-> CHOOSE r \in Repos : TRUE, manual |-> 0, id |-> 0, shutdown |-> FALSE]
Idle       == [at |-> "idle", spec |-> NoSpec, status |-> NoStatus, writable |-> FALSE,
               replicaJob |-> NoReplica, manualJob |-> NoManual]

TypeOK ==
    /\ spec \in Spec_ /\ status \in Status
    /\ claims \in SUBSET Repos /\ volume \in [Repos -> 0..MaxVolumes]
    /\ host \in {"absent", "stopped", "starting", "ready"}
    /\ config \in [Repos -> RepoSpec] /\ mounted \in [Repos -> RepoSpec]
    /\ writable \in BOOLEAN
    /\ replicaJob \in ReplicaJob /\ manualJob \in ManualJob
    /\ cronJobs \in [Repos -> {"absent", "active", "suspended"}]
    /\ stanzas \in SUBSET Locations /\ backups \in SUBSET Locations
    /\ taken \in [0..MaxRequests -> Nat]
    /\ w \in [at : Steps, spec : Spec_, status : Status, writable : BOOLEAN,
              replicaJob : ReplicaJob, manualJob : ManualJob]
    /\ volumes \in 0..MaxVolumes /\ edits \in 0..MaxEdits
    /\ faults \in 0..MaxFaults
    /\ overlooked \subseteq 1..MaxRequests /\ replaced \subseteq Repos /\ mistaken \subseteq Repos

\* A cluster with Pods and no backups yet.
Init ==
    /\ \E ch \in InitialRepos :
          spec = [repos |-> ch.repos, first |-> ch.first, manual |-> 0, id |-> 0,
                  shutdown |-> FALSE]
    /\ status = NoStatus
    /\ claims = {} /\ volume = [r \in Repos |-> 0]
    /\ host = "absent"
    /\ config = spec.repos /\ mounted = spec.repos
    /\ writable = FALSE
    /\ replicaJob = NoReplica /\ manualJob = NoManual
    /\ cronJobs = [r \in Repos |-> "absent"]
    /\ stanzas = {} /\ backups = {}
    /\ taken = [n \in 0..MaxRequests |-> 0]
    /\ w = Idle
    /\ volumes = 0 /\ edits = 0 /\ faults = 0
    /\ overlooked = {} /\ replaced = {} /\ mistaken = {}

-----------------------------------------------------------------------------
(* The user.                                                               *)

EditRepos ==
    /\ edits < MaxEdits /\ edits' = edits + 1
    /\ \E ch \in RepoChoices : spec' = [spec EXCEPT !.repos = ch.repos, !.first = ch.first]
    /\ spec' # spec
    /\ UNCHANGED <<status, claims, host, config, envVars, replicaJob, manualJob, cronJobs,
                   realVars, w, volumes, faults, historyVars>>

EditShutdown ==
    /\ edits < MaxEdits /\ edits' = edits + 1
    /\ spec' = [spec EXCEPT !.shutdown = ~ @]
    /\ UNCHANGED <<status, claims, host, config, envVars, replicaJob, manualJob, cronJobs,
                   realVars, w, volumes, faults, historyVars>>

\* spec.manual and the annotation with a new backup id.
RequestBackup ==
    /\ spec.id < MaxRequests
    /\ \E r \in Specified(spec) : spec' = [spec EXCEPT !.id = @ + 1, !.manual = r]
    /\ UNCHANGED <<status, claims, host, config, envVars, replicaJob, manualJob, cronJobs,
                   realVars, w, countVars, historyVars>>

\* History: claims are deleted whose volumes the status does not have the names of.
Unnamed(deleted) == {r \in deleted : volume[r] \notin {0, status.repos[r].volume}}

\* A claim deleted by someone else is bound to another volume when recreated.
ReplaceVolume(r) ==
    /\ r \in claims /\ volume[r] # 0
    /\ faults < MaxFaults /\ faults' = faults + 1
    /\ claims' = claims \ {r}
    /\ volume' = [volume EXCEPT ![r] = 0]
    /\ replaced' = replaced \cup {r} /\ mistaken' = mistaken \cup Unnamed({r})
    /\ UNCHANGED <<spec, status, host, config, mounted, writable, replicaJob, manualJob,
                   cronJobs, realVars, w, volumes, edits, overlooked>>

-----------------------------------------------------------------------------
(* Kubernetes and Patroni.                                                 *)

Elect ==
    /\ ~ writable /\ ~ spec.shutdown
    /\ writable' = TRUE
    /\ UNCHANGED <<spec, status, claims, host, config, volume, mounted, replicaJob,
                   manualJob, cronJobs, realVars, w, countVars, historyVars>>

LoseLeader ==
    /\ writable
    /\ \/ spec.shutdown /\ UNCHANGED faults
       \/ faults < MaxFaults /\ faults' = faults + 1
    /\ writable' = FALSE
    /\ UNCHANGED <<spec, status, claims, host, config, volume, mounted, replicaJob,
                   manualJob, cronJobs, realVars, w, volumes, edits, historyVars>>

Bind(r) ==
    /\ r \in claims /\ volume[r] = 0
    /\ volumes < MaxVolumes /\ volumes' = volumes + 1
    /\ volume' = [volume EXCEPT ![r] = volumes + 1]
    /\ UNCHANGED <<spec, status, claims, host, config, mounted, writable, replicaJob,
                   manualJob, cronJobs, realVars, w, edits, faults, historyVars>>

\* The Pod of the repository host mounts every repository's claim.
RepoVolumesMounted == \A r \in claims : volume[r] # 0
HostStarts ==
    /\ host = "starting" /\ RepoVolumesMounted
    /\ host' = "ready"
    /\ UNCHANGED <<spec, status, claims, config, envVars, replicaJob, manualJob, cronJobs,
                   realVars, w, countVars, historyVars>>

\* The kubelet refreshes mounted ConfigMaps in its own time.
Propagate ==
    /\ mounted # config
    /\ mounted' = config
    /\ UNCHANGED <<spec, status, claims, host, config, volume, writable, replicaJob,
                   manualJob, cronJobs, realVars, w, countVars, historyVars>>

-----------------------------------------------------------------------------
(* pgBackRest.                                                             *)

\* CalculateConfigHashes: the hash covers the options of the external
\* repositories, in the order of the names but without them.
ConfigHash(repos) ==
    LET external == SetToSortSeq({r \in Repos : repos[r].kind = "cloud"}, LAMBDA a, b : a < b)
    IN  [i \in DOMAIN external |-> repos[external[i]].bucket]

\* Repositories that pgBackRest reaches with the files it has.
Reachable ==
    {r \in Repos : \/ mounted[r].kind = "cloud"
                   \/ mounted[r].kind = "volume" /\ host = "ready" /\ volume[r] # 0}

\* A backup needs an instance that is not in recovery, the configuration it
\* was started with (COMPARE_HASH) and a stanza in its repository.
CanBackUp(r) ==
    /\ writable
    /\ ConfigHash(mounted) = ConfigHash(config)
    /\ r \in Reachable
    /\ Location(mounted, volume, r) \in stanzas

FailJob(r) ==
    IF CanBackUp(r) THEN faults < MaxFaults /\ faults' = faults + 1
    ELSE UNCHANGED faults

\* History: the Job runs with files that are not of the configuration it was made for.
OtherFiles == {r \in {replicaJob.repo} : replicaJob.hash # ConfigHash(mounted)}

RunReplicaJob ==
    LET r == replicaJob.repo
    IN  /\ replicaJob.state = "active"
        /\ \/ /\ CanBackUp(r)
              /\ backups' = backups \cup {Location(mounted, volume, r)}
              /\ replicaJob' = [replicaJob EXCEPT !.state = "complete"]
              /\ mistaken' = mistaken \cup OtherFiles
              /\ UNCHANGED faults
           \/ /\ FailJob(r)
              /\ replicaJob' = [replicaJob EXCEPT !.state = "failed"]
              /\ UNCHANGED <<backups, mistaken>>
        /\ UNCHANGED <<spec, status, claims, host, config, envVars, manualJob, cronJobs,
                       stanzas, taken, w, volumes, edits, overlooked, replaced>>

RunManualJob ==
    LET r == manualJob.repo
    IN  /\ manualJob.state = "active"
        /\ \/ /\ CanBackUp(r)
              /\ backups' = backups \cup {Location(mounted, volume, r)}
              /\ taken' = [taken EXCEPT ![manualJob.id] = @ + 1]
              /\ manualJob' = [manualJob EXCEPT !.state = "complete"]
              /\ UNCHANGED faults
           \/ /\ FailJob(r)
              /\ manualJob' = [manualJob EXCEPT !.state = "failed"]
              /\ UNCHANGED <<backups, taken>>
        /\ UNCHANGED <<spec, status, claims, host, config, envVars, replicaJob, cronJobs,
                       stanzas, w, volumes, edits, historyVars>>

\* spec.jobs.ttlSecondsAfterFinished, longer than a reconcile takes.
ExpireManualJob ==
    /\ manualJob.state \in {"complete", "failed"}
    /\ status.id = manualJob.id /\ status.finished
    /\ manualJob' = NoManual
    /\ UNCHANGED <<spec, status, claims, host, config, envVars, replicaJob, cronJobs,
                   realVars, w, countVars, historyVars>>

-----------------------------------------------------------------------------
(* The operator.  Continue ends the step in progress; a call that fails    *)
(* ends the reconcile, or only its step, with the status made so far.      *)

Continue(step, st) == w' = [w EXCEPT !.at = step, !.status = st]
jobCompleted(job) == job.state = "complete"
jobFailed(job)    == job.state = "failed"
jobFinished(job)  == jobCompleted(job) \/ jobFailed(job)

\* getPGBackRestExecSelector: where the backup command runs.
Container(s, r) == IF s.repos[r].kind = "volume" THEN "pgbackrest" ELSE "database"
DedicatedRepoHostEnabled(s) == VolumeRepos(s) # {}

\* cleanupRepoResources: what the spec no longer asks for is deleted.
backupScheduleFound(r) == spec.repos[r].schedule
KeptJob(job, none)     == IF job.repo \in Specified(spec) THEN job ELSE none
Cleanup ==
    /\ claims' = claims \cap VolumeRepos(spec)
    /\ volume' = [r \in Repos |-> IF r \in claims' THEN volume[r] ELSE 0]
    /\ host' = IF DedicatedRepoHostEnabled(spec) THEN host ELSE "absent"
    /\ cronJobs' = [r \in Repos |-> IF backupScheduleFound(r) THEN cronJobs[r] ELSE "absent"]
    /\ replicaJob' = KeptJob(replicaJob, NoReplica) /\ manualJob' = KeptJob(manualJob, NoManual)

\* unstructuredToRepoResources: the Jobs that remain are the ones worked with.
RepoResources == [replicaJob |-> replicaJob', manualJob |-> manualJob']

\* History: nobody will know that this backup has been taken, or that the volumes of
\* these claims are gone.
Overlooked == jobCompleted(manualJob) /\ ~ (status.finished /\ status.id = manualJob.id)

GetResources ==
    /\ w.at = "idle"
    /\ Cleanup
    /\ overlooked' = overlooked \cup {n \in {manualJob.id} : manualJob # manualJob' /\ Overlooked}
    /\ replaced' = replaced \cup {r \in claims \ claims' : volume[r] # 0 /\ replicaJob'.repo = r}
    /\ mistaken' = mistaken \cup Unnamed(claims \ claims')
    /\ w' = [at |-> "repos", spec |-> spec, status |-> status, writable |-> writable,
             replicaJob |-> RepoResources.replicaJob, manualJob |-> RepoResources.manualJob]
    /\ UNCHANGED <<spec, status, config, mounted, writable, realVars, countVars>>

\* generateRepoHostIntent: stopped after the instances of a cluster that is
\* shut down, whose leader stops last.
HostIntent ==
    IF ~ DedicatedRepoHostEnabled(w.spec) THEN host
    ELSE IF w.spec.shutdown /\ ~ w.writable THEN "stopped"
    ELSE IF host \in {"absent", "stopped"} THEN "starting"
    ELSE host

\* Mutant: another volume does not count.
SameNameMutant(old, r, vol) ==
    LET repo == w.spec.repos[r]
        same == repo.kind = "volume" \/ old.hash = repo.bucket
    IN  IF repo.kind = "none" THEN NoRepo
        ELSE IF ~ old.known
             THEN [NoRepo EXCEPT !.known = TRUE, !.volume = vol, !.hash = repo.bucket]
        ELSE [known |-> TRUE, volume |-> vol, hash |-> repo.bucket, stanza |-> old.stanza /\ same,
              complete |-> old.complete /\ same /\ r = w.spec.first]

\* getRepoVolumeStatus: the status of a repository is kept while it is of the
\* same kind; another volume or other options reset what was done with it, and
\* only the first repository keeps the backup for replicas.
RepoStatus(old, r, vol) ==
    LET repo == w.spec.repos[r]
        kept == old.known /\ IF repo.kind = "volume" THEN old.hash = None ELSE old.volume = 0
        same == IF repo.kind = "volume" THEN old.volume \in {0, vol} ELSE old.hash = repo.bucket
    IN  IF repo.kind = "none" THEN NoRepo
        ELSE IF ~ kept THEN [NoRepo EXCEPT !.known = TRUE, !.volume = vol, !.hash = repo.bucket]
        ELSE [known |-> TRUE, volume |-> vol, hash |-> repo.bucket,
              stanza |-> old.stanza /\ same,
              complete |-> old.complete /\ same /\ r = w.spec.first]

\* reconcileDedicatedRepoHost: the host, and the condition that it is ready.
DedicatedRepoHost(st) ==
    /\ host' = HostIntent
    /\ st.hostReady = IF ~ DedicatedRepoHostEnabled(w.spec) THEN "absent"
                      ELSE IF host' = "ready" THEN "True" ELSE "False"

\* applyRepoVolumeIntent for each repository with a volume.
ApplyRepoVolumes(refused) == claims' = claims \cup (VolumeRepos(w.spec) \ refused)
VolumeStatus(refused) ==
    [r \in Repos |-> IF r \in refused THEN NoRepo
                     ELSE RepoStatus(w.status.repos[r], r, volume[r])]

\* The files for pgBackRest in instances and in the repository host.
ConfigMapIntent == w.spec.repos

\* The first half of reconcilePGBackRest. The claims in refused are not made, and
\* nothing is known of these repositories in this reconcile.
ReconcileRepos(refused, step) ==
    /\ w.at = "repos"
    /\ \E ready \in Conditions :
        LET st == [w.status EXCEPT !.hostReady = ready, !.repos = VolumeStatus(refused)]
        IN  DedicatedRepoHost(st) /\ Continue(step, st)
    /\ ApplyRepoVolumes(refused)
    /\ UNCHANGED <<spec, status, envVars, replicaJob, manualJob, cronJobs, realVars, historyVars>>

ReposReconciled == ReconcileRepos({}, "stanza") /\ config' = ConfigMapIntent /\ UNCHANGED countVars

\* Claims exceed a quota: an event is recorded, and the reconcile goes on.
ClaimsRefused ==
    /\ faults < MaxFaults /\ faults' = faults + 1
    /\ \E refused \in SUBSET VolumeRepos(w.spec) : refused # {} /\ ReconcileRepos(refused, "stanza")
    /\ config' = ConfigMapIntent
    /\ UNCHANGED <<volumes, edits>>

\* The ConfigMap is not written: that is logged, and the reconcile goes on.
ConfigFails ==
    /\ faults < MaxFaults /\ faults' = faults + 1
    /\ ReconcileRepos({}, "stanza")
    /\ UNCHANGED <<config, volumes, edits>>

\* Claims, or the account for Jobs, are not written: nothing is done after that.
ReposFail ==
    /\ faults < MaxFaults /\ faults' = faults + 1
    /\ \E failed \in SUBSET VolumeRepos(w.spec) :
          /\ ReconcileRepos(failed, "patch")
          /\ config' = IF failed = {} THEN ConfigMapIntent ELSE config
    /\ UNCHANGED <<volumes, edits>>

Known(st) == {r \in Repos : st.repos[r].known}

\* The condition of the first repository, as reconcileStanzaCreate and
\* reconcileReplicaCreateBackup leave it behind.
RepoCondition(st, done) ==
    IF ~ st.repos[w.spec.first].known THEN "Unknown" ELSE IF done THEN "True" ELSE "False"
WithRepoReady(st) ==
    [st EXCEPT !.repoReady = RepoCondition(st, st.repos[w.spec.first].stanza)]

\* StanzaCreateOrUpgrade: runs for every repository of the mounted files once
\* these have the expected hash.
StanzaCreateOrUpgrade ==
    /\ ConfigHash(mounted) = ConfigHash(w.spec.repos)
    /\ writable
    /\ \A r \in Repos : mounted[r].kind # "none" => r \in Reachable

\* History: files that pass for those of the spec lack the repository, or have another.
PassingFiles ==
    {r \in Known(w.status) : /\ ConfigHash(mounted) = ConfigHash(w.spec.repos)
                             /\ \/ mounted[r].kind # w.spec.repos[r].kind
                                \/ mounted[r].bucket # w.spec.repos[r].bucket}

StanzaCreate ==
    /\ w.at = "stanza"
    /\ IF w.writable /\ (\E r \in Known(w.status) : ~ w.status.repos[r].stanza) /\ StanzaCreateOrUpgrade
       THEN /\ stanzas' = stanzas \cup {Location(mounted, volume, r) : r \in Reachable}
            /\ Continue("schedules", WithRepoReady([w.status EXCEPT
                   !.repos = [r \in Repos |-> [@[r] EXCEPT !.stanza = w.status.repos[r].known]]]))
            /\ mistaken' = mistaken \cup PassingFiles
       ELSE /\ Continue("schedules", WithRepoReady(w.status))
            /\ UNCHANGED <<stanzas, mistaken>>
    /\ UNCHANGED <<spec, status, claims, host, config, envVars, replicaJob, manualJob,
                   cronJobs, backups, taken, countVars, overlooked, replaced>>

\* Mutant: a repository host is required even where there is none.
HostNeededMutant(r) ==
    /\ w.spec.repos[r].schedule
    /\ w.status.replicaCreate = "True" /\ w.status.hostReady = "True"
    /\ w.status.repos[r].known /\ w.status.repos[r].stanza

\* A schedule waits for the backup for replicas, which only a cluster that has been
\* bootstrapped has, and for its own stanza.
ScheduleReady(r) ==
    /\ w.spec.repos[r].schedule
    /\ w.status.replicaCreate = "True"
    /\ w.status.repos[r].known /\ w.status.repos[r].stanza

\* No CronJob runs in a cluster that is shut down.
CronJobIntent == IF w.spec.shutdown THEN "suspended" ELSE "active"

ScheduledBackups ==
    /\ w.at = "schedules"
    /\ cronJobs' = [r \in Repos |->
           IF ScheduleReady(r) THEN CronJobIntent ELSE cronJobs[r]]
    /\ Continue("replica", w.status)
    /\ UNCHANGED <<spec, status, claims, host, config, envVars, replicaJob, manualJob,
                   realVars, countVars, historyVars>>

WithReplicaCreate(st) ==
    [st EXCEPT !.replicaCreate = RepoCondition(st, st.repos[w.spec.first].complete)]

\* Mutant: a Job of another repository or with another configuration will do.
AnyJobMutant == jobFailed(w.replicaJob)

\* Mutant: a failed Job stays.
FailedJobStaysMutant ==
    \/ w.replicaJob.repo # w.spec.first
    \/ w.replicaJob.container # Container(w.spec, w.spec.first)
    \/ w.replicaJob.hash # ConfigHash(w.spec.repos)

\* The Job of the last reconcile is of no use any more.
ReplicaJobOutdated ==
    \/ jobFailed(w.replicaJob)
    \/ w.replicaJob.repo # w.spec.first
    \/ w.replicaJob.container # Container(w.spec, w.spec.first)
    \/ w.replicaJob.hash # ConfigHash(w.spec.repos)

ReplicaJobIntent ==
    [state |-> "active", repo |-> w.spec.first, container |-> Container(w.spec, w.spec.first),
     hash |-> ConfigHash(w.spec.repos)]

\* What reconcileReplicaCreateBackup does, given how things stand.
ReplicaCreateBackup ==
    LET first == w.status.repos[w.spec.first]
        job   == w.replicaJob
    IN  /\ w.at = "replica"
        /\ IF ~ w.writable \/ ~ first.known \/ first.complete
           THEN Continue("manual", WithReplicaCreate(w.status)) /\ UNCHANGED replicaJob
           ELSE IF job # NoReplica /\ ReplicaJobOutdated
           THEN Continue("manual", WithReplicaCreate(w.status)) /\ replicaJob' = NoReplica
           ELSE IF jobCompleted(job)
           THEN /\ Continue("manual", WithReplicaCreate([w.status EXCEPT
                       !.repos[w.spec.first].complete = TRUE]))
                /\ UNCHANGED replicaJob
           ELSE /\ Continue("manual", WithReplicaCreate(w.status))
                /\ IF /\ job = NoReplica
                      /\ DedicatedRepoHostEnabled(w.spec) => w.status.hostReady = "True"
                      /\ w.status.repoReady = "True"
                   THEN replicaJob' = ReplicaJobIntent
                   ELSE UNCHANGED replicaJob
        /\ UNCHANGED <<spec, status, claims, host, config, envVars, manualJob, cronJobs,
                       realVars, countVars, historyVars>>

\* Mutant: a finished Job is taken for that of the request in the status.
AnyIdMutant(st) ==
    IF w.manualJob = NoManual \/ ~ jobFinished(w.manualJob) THEN st
    ELSE [st EXCEPT !.finished = TRUE,
                    !.successful = IF jobCompleted(w.manualJob) THEN "True" ELSE "False"]

\* A finished Job with the id of the status ends the request.
ManualJobObserved(st) ==
    IF w.manualJob # NoManual /\ jobFinished(w.manualJob) /\ st.id = w.manualJob.id
    THEN [st EXCEPT !.finished = TRUE,
                    !.successful = IF jobCompleted(w.manualJob) THEN "True" ELSE "False"]
    ELSE st

\* A request with a new id starts the status over.
ManualStatus(st) ==
    IF st.id = w.spec.id THEN st
    ELSE [st EXCEPT !.id = w.spec.id, !.finished = FALSE, !.successful = "absent"]

\* Mutant: the backup for replicas is not waited for.
NotWaitingMutant(st) ==
    /\ ~ st.finished
    /\ DedicatedRepoHostEnabled(w.spec) => st.hostReady = "True"
    /\ st.repos[w.spec.manual].known /\ st.repos[w.spec.manual].stanza

\* Everything a manual backup waits for.
ManualReady(st) ==
    /\ ~ st.finished
    /\ DedicatedRepoHostEnabled(w.spec) => st.hostReady = "True"
    /\ st.replicaCreate = "True"
    /\ st.repos[w.spec.manual].known /\ st.repos[w.spec.manual].stanza

\* The finished Job of another request goes first.
ManualOutdated ==
    w.manualJob # NoManual /\ jobFinished(w.manualJob) /\ w.spec.id \notin {0, w.manualJob.id}
NoBackupNow == ManualOutdated \/ ~ w.writable \/ w.spec.id = 0 \/ w.spec.manual = 0
ManualResult ==
    LET observed == ManualJobObserved(w.status)
    IN  IF NoBackupNow THEN observed ELSE ManualStatus(observed)
ManualJobIntent == [state |-> "active", id |-> w.spec.id, repo |-> w.spec.manual]

\* reconcileManualBackup.  Applying the Job over one that is there changes
\* nothing: the template of a Job is immutable.
ManualBackup ==
    /\ w.at = "manual"
    /\ Continue("patch", ManualResult)
    /\ manualJob' = IF ManualOutdated THEN NoManual
                    ELSE IF ~ NoBackupNow /\ ManualReady(ManualResult) /\ w.manualJob = NoManual
                    THEN ManualJobIntent ELSE manualJob
    /\ UNCHANGED <<spec, status, claims, host, config, envVars, replicaJob, cronJobs,
                   realVars, countVars, historyVars>>

PatchStatus ==
    /\ w.at = "patch"
    /\ status' = w.status
    /\ w' = Idle
    /\ UNCHANGED <<spec, claims, host, config, envVars, replicaJob, manualJob, cronJobs,
                   realVars, countVars, historyVars>>

\* A call fails.  Without the repository host nothing else is done; later only
\* the step itself is left out, and its condition is set all the same.
CallFails ==
    /\ faults < MaxFaults /\ faults' = faults + 1
    /\ \/ w.at = "repos" /\ Continue("patch", w.status)
       \/ w.at = "stanza" /\ Continue("schedules", WithRepoReady(w.status))
       \/ w.at = "schedules" /\ Continue("replica", w.status)
       \/ w.at = "replica" /\ Continue("manual", WithReplicaCreate(w.status))
       \/ w.at = "manual" /\ Continue("patch", ManualResult)
    /\ UNCHANGED <<spec, status, claims, host, config, envVars, replicaJob, manualJob,
                   cronJobs, realVars, volumes, edits, historyVars>>

\* The process dies, or the patch fails: nothing of this reconcile is kept.
Crash ==
    /\ w.at # "idle" /\ faults < MaxFaults
    /\ faults' = faults + 1
    /\ w' = Idle
    /\ UNCHANGED <<spec, status, claims, host, config, envVars, replicaJob, manualJob,
                   cronJobs, realVars, volumes, edits, historyVars>>

Operator ==
    \/ GetResources \/ ReposReconciled \/ StanzaCreate \/ ScheduledBackups
    \/ ReplicaCreateBackup \/ ManualBackup \/ PatchStatus

User == EditRepos \/ EditShutdown \/ RequestBackup

Environment ==
    \/ Elect \/ LoseLeader \/ HostStarts \/ Propagate
    \/ RunReplicaJob \/ RunManualJob \/ ExpireManualJob
    \/ \E r \in Repos : Bind(r)

Next ==
    \/ Operator \/ User \/ Environment
    \/ (\E r \in Repos : ReplaceVolume(r))
    \/ ClaimsRefused \/ ConfigFails \/ ReposFail \/ CallFails \/ Crash

Spec == Init /\ [][Next]_vars

\* The controller is woken at least once in its resync period; Kubernetes binds
\* claims, starts Pods and runs Jobs; Patroni elects a leader.
FairSpec ==
    /\ Spec
    /\ WF_vars(Operator)
    /\ WF_vars(Elect) /\ WF_vars(spec.shutdown /\ LoseLeader)
    /\ WF_vars(HostStarts) /\ WF_vars(Propagate)
    /\ WF_vars(RunReplicaJob) /\ WF_vars(RunManualJob)
    /\ \A r \in Repos : WF_vars(Bind(r))

-----------------------------------------------------------------------------
(* Properties.                                                             *)

\* One of the locations is where the persisted status has the repository; the
\* name of a volume that was bound later is not known to it yet.
Recorded(r, locations) ==
    \E l \in locations :
        /\ l.repo = r /\ l.bucket = status.repos[r].hash
        /\ status.repos[r].volume \in {0, l.volume}

\* A repository whose status says StanzaCreated or ReplicaCreateBackupComplete has
\* a stanza, or a backup, in the very bucket or volume that the status names: edits of
\* the repositories, files that lag behind the spec (pgbackrest.go:2598), Jobs that end
\* late and restarts of the operator do not make it a lie, but for three causes.
\* Files that lack a repository pass for those of the spec when the hash is the same, as
\* after a volume is added; a Job that ran with the files of another spec counts for its
\* own when an edit is taken back; a volume whose name the status does not have yet is
\* taken for the one bound after it.  And the backup is thought to be in the new volume
\* of a claim deleted while the completed Job stayed.
RepoStatusTruthful ==
    \A r \in Repos \ mistaken :
        /\ status.repos[r].stanza => Recorded(r, stanzas)
        /\ status.repos[r].complete =>
             Recorded(r, backups) \/ (r \in replaced /\ status.repos[r].hash = None)

\* One request leads to at most one backup, whatever is interrupted, and the outcome
\* shown for it is that of the Job with its id, also when a new id arrives while the
\* Job of the one before runs.  Only when the repository of a completed backup is taken
\* out of the spec before the status has seen the Job, which is deleted with it, does a
\* repository put back lead to the backup once more.
ManualTruthful ==
    /\ \A n \in 1..MaxRequests : taken[n] <= 1 \/ n \in overlooked
    /\ status.successful = "True" => taken[status.id] > 0
    /\ status.finished /\ taken[status.id] > 0 =>
         status.successful = "True" \/ status.id \in overlooked

\* "only one backup can be run at a time" (pgbackrest.go:2193): a manual backup
\* does not begin before the backup for replicas has ended.  The Job of another first
\* repository may still run, and so may a Job of the same one that was forgotten: made
\* in a reconcile whose patch is lost, for an edit that is then taken back (README,
\* divergences).
ManualWaits ==
    [][manualJob = NoManual /\ manualJob' # NoManual =>
           replicaJob.state # "active" \/ replicaJob.repo # w.spec.first]_vars

\* The last manual backup asked for of a running cluster ends, and the status
\* says how, unless its repository is taken out of the spec.  It does not when the
\* stanza of its repository, or of the one replicas are made from, is thought to exist.
ManualEnds ==
    <>[](\/ spec.id \in {0, status.id} /\ (spec.id # 0 => status.finished)
         \/ spec.shutdown \/ spec.manual \notin Specified(spec)
         \/ mistaken \cap {spec.manual, spec.first} # {})

\* CronJobs come and go with the schedules of the spec, as above.
SchedulesFollow ==
    <>[](\/ spec.shutdown \/ spec.first \in mistaken
         \/ \A r \in Repos :
                cronJobs[r] = IF spec.repos[r].schedule THEN "active" ELSE "absent")
=============================================================================
