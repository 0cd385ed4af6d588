---------------------------- MODULE RestoreProofs ----------------------------
(***************************************************************************)
(* Proofs about Restore for any number of instances, any sources, files,   *)
(* edits and faults.                                                       *)
(***************************************************************************)
EXTENDS Restore, WellFoundedInduction, TLAPS

PCs == {"idle", "observe", "source", "instances", "cleanup", "save"}
Work == [pc : PCs, spec : Spec_ \cup {None}, st : Status, obs : Observed]
Job == [state : {"absent", "active", "restoring", "complete", "failed"},
        inst : Instances \cup {None}, key : Keys]

\* The state is well typed, and a reconcile has the spec as long as it needs it.
Types ==
    /\ spec \in Spec_ /\ status \in Status
    /\ moves \in [Dirs -> {"absent", "active", "failed", "complete"}]
    /\ job \in Job
    /\ copies \subseteq DOMAIN Projections
    /\ runner \in [Instances -> {"absent", "up", "stopped", "deleting"}]
    /\ pod \in [Instances -> {"none", "pending", "running"}]
    /\ leader \in Instances \cup {None}
    /\ dcs \in {"none", "present", "initialized"}
    /\ disk \in [Instances -> [data : Content, boot : Content]]
    /\ w \in Work
    /\ w.pc \in {"observe", "source"} => w.spec \in Spec_
    /\ faults \in 0..MaxFaults /\ done \subseteq Keys /\ leftover \in BOOLEAN

-----------------------------------------------------------------------------
\* What the operators of the reconcile return.

LEMMA Constants_ ==
    /\ NoStatus \in Status /\ Unseen \in Observed /\ Idle \in Work /\ NoJob \in Job
    /\ NoKey \in Keys /\ Nothing \in Content /\ Original \in Content /\ Partial \in Content
    /\ MaxRestores \in Nat /\ BootstrapID = MaxRestores + 1
    /\ NewInstance \in Instances /\ None \notin Instances
  BY RestoreAssumption
     DEF NoStatus, Status, Unseen, Observed, Idle, Work, PCs, NoJob, Job, NoKey, Keys, Nothing,
         Original, Partial, Content, BootstrapID

LEMMA KeyType ==
    ASSUME NEW s \in Spec_
    PROVE  RestoreID(s) \in 0..BootstrapID /\ Key(s) \in Keys
  <1>1. s.id \in 0..MaxRestores /\ s.config \in 1..MaxConfigs
    BY DEF Spec_, Configs
  <1>2. RestoreID(s) \in 0..BootstrapID
    BY <1>1, RestoreAssumption DEF RestoreID, BootstrapID
  <1>3. s.config \in 0..MaxConfigs
    BY <1>1, RestoreAssumption
  <1>4. (~RestoreInPlace(s)) \in BOOLEAN
    OBVIOUS
  <1> QED BY <1>2, <1>3, <1>4 DEF Key, Keys

LEMMA ObserveType ==
    ASSUME NEW st \in Status
    PROVE  /\ ObserveRestoreEnv(st) \in Status
           /\ ObserveRestoreEnv(st).id = st.id /\ ObserveRestoreEnv(st).startup = st.startup
           /\ ObserveRestoreEnv(st).bootstrapped = st.bootstrapped
           /\ Restoring(ObserveRestoreEnv(st)) => Restoring(st)
  BY DEF ObserveRestoreEnv, Status, Restoring

LEMMA StartupType ==
    ASSUME Types, w.pc = "source"
    PROVE  StartupInstances(w.st) \subseteq Instances
  BY Constants_ DEF Types, Work, Status, Observed, StartupInstances

LEMMA PreparedType ==
    ASSUME Types, w.pc = "source", NEW i \in Instances, NEW p \in {"requested", "ready"}
    PROVE  /\ Prepared(i, p) \in Status
           /\ Prepared(i, p).id = RestoreID(w.spec) /\ Prepared(i, p).startup = i
           /\ Prepared(i, p).progress = p
  <1>1. w.st \in Status /\ w.spec \in Spec_
    BY DEF Types, Work
  <1>2. ObserveRestoreEnv(w.st) \in Status
    BY <1>1, ObserveType
  <1>3. RestoreID(w.spec) \in 0..BootstrapID
    BY <1>1, KeyType
  <1> QED BY <1>2, <1>3 DEF Prepared, Status

\* The next step of a reconcile.
LEMMA StepType ==
    ASSUME NEW pc \in {"instances", "cleanup", "save"}, NEW st \in Status,
           NEW primary \in Instances \cup {None}, Step(pc, st, primary)
    PROVE  /\ w' \in Work /\ w'.pc = pc /\ w'.st = st /\ w'.obs.primary = primary
           /\ ~ w'.obs.running /\ w'.obs.runners = {}
  <1>1. [Unseen EXCEPT !.primary = primary] \in Observed
    BY DEF Unseen, Observed
  <1>2. w' = [pc |-> pc, spec |-> None, st |-> st, obs |-> [Unseen EXCEPT !.primary = primary]]
    BY DEF Step, Idle
  <1> QED BY <1>1, <1>2 DEF Work, PCs, Unseen

LEMMA ReturnType ==
    ASSUME NEW st \in Status, Return(st)
    PROVE  w' \in Work /\ w'.pc = "save" /\ w'.st = st /\ w'.obs.primary = None
  BY StepType DEF Return

-----------------------------------------------------------------------------
LEMMA TypesInit == Init => Types
  <1> SUFFICES ASSUME Init PROVE Types
    OBVIOUS
  <1> DEFINE old == spec.source = "none"
  <1>1. PICK s \in Sources, v \in BOOLEAN :
          spec = [source |-> s, id |-> 0, enabled |-> FALSE, config |-> 1, valid |-> v]
    BY DEF Init
  <1>2. spec \in Spec_
    BY <1>1, RestoreAssumption DEF Spec_, Configs
  <1>3. status \in Status
    <2>1. status = [NoStatus EXCEPT !.bootstrapped = old] /\ old \in BOOLEAN
      BY DEF Init
    <2> HIDE DEF old
    <2> QED BY <2>1, Constants_ DEF Status, NoStatus
  <1>4. w \in Work /\ w.pc = "idle" /\ job \in Job
    BY Constants_ DEF Init, Idle
  <1>5. disk \in [Instances -> [data : Content, boot : Content]]
    BY Constants_ DEF Init
  <1>6. /\ moves \in [Dirs -> {"absent", "active", "failed", "complete"}]
        /\ copies \subseteq DOMAIN Projections /\ done \subseteq Keys /\ leftover \in BOOLEAN
    BY DEF Init
  <1>7. /\ runner \in [Instances -> {"absent", "up", "stopped", "deleting"}]
        /\ pod \in [Instances -> {"none", "pending", "running"}]
        /\ leader \in Instances \cup {None}
        /\ dcs \in {"none", "present", "initialized"}
    BY DEF Init
  <1>8. faults \in 0..MaxFaults
    BY RestoreAssumption DEF Init
  <1> QED BY <1>2, <1>3, <1>4, <1>5, <1>6, <1>7, <1>8 DEF Types

LEMMA FaultType == ASSUME faults \in 0..MaxFaults, Fault PROVE faults' \in 0..MaxFaults
  BY RestoreAssumption DEF Fault

LEMMA TypesReconcile == Types /\ Reconcile => Types'
  <1> SUFFICES ASSUME Types, Reconcile PROVE Types'
    OBVIOUS
  <1> USE DEF Types
  <1>0. w.st \in Status /\ w.obs \in Observed /\ (w.pc \in {"observe", "source"} => w.spec \in Spec_)
    BY DEF Work
  <1>1. CASE Begin
    <2>1. moves' \in [Dirs -> {"absent", "active", "failed", "complete"}]
      BY <1>1 DEF Begin, MoveJob
    <2>2. CASE w' = [pc |-> "observe", spec |-> spec, st |-> status, obs |-> Unseen]
      <3>1. w' \in Work /\ w'.spec \in Spec_
        BY <2>2, Constants_ DEF Work, PCs
      <3> QED BY <1>1, <2>1, <3>1 DEF Begin
    <2>3. CASE Return(status)
      BY <1>1, <2>1, <2>3, ReturnType DEF Begin
    <2> QED BY <1>1, <2>2, <2>3 DEF Begin
  <1>2. CASE Observe
    <2> DEFINE st == PatroniStatus(ExistingVolumes(w.st))
               obs == [running |-> \E i \in Instances : pod[i] = "running",
                       runners |-> {i \in Instances : runner[i] # "absent"},
                       primary |-> leader]
    <2>1. ExistingVolumes(w.st) \in Status
      BY <1>0, Constants_ DEF ExistingVolumes, Status
    <2>2. st \in Status
      <3>1. (ExistingVolumes(w.st).bootstrapped \/ dcs = "initialized") \in BOOLEAN
        OBVIOUS
      <3> QED BY <2>1, <3>1 DEF PatroniStatus, Status
    <2>3. obs \in Observed
      BY DEF Observed
    <2>4. w' = [w EXCEPT !.pc = "source", !.st = st, !.obs = obs] /\ w.pc = "observe"
      BY <1>2 DEF Observe
    <2> HIDE DEF st, obs
    <2>5. w' \in Work /\ w'.spec \in Spec_
      BY <1>0, <2>2, <2>3, <2>4 DEF Work, PCs
    <2> QED BY <1>2, <2>5 DEF Observe
  <1>3. CASE RemoveRestoreJob \/ RemoveRunners \/ RemoveEndpoints
    <2>1. w.pc = "source"
      BY <1>3 DEF RemoveRestoreJob, RemoveRunners, RemoveEndpoints, MustPrepare
    <2>2. PICK i \in StartupInstances(w.st) : Return(Prepared(i, "requested"))
      BY <1>3 DEF RemoveRestoreJob, RemoveRunners, RemoveEndpoints
    <2>3. w' \in Work /\ w'.pc = "save"
      BY <2>1, <2>2, StartupType, PreparedType, ReturnType
    <2>4. CASE RemoveRestoreJob
      BY <2>3, <2>4, FaultType, Constants_ DEF RemoveRestoreJob
    <2>5. CASE RemoveRunners
      <3>1. faults' \in 0..MaxFaults
        BY <2>5, FaultType DEF RemoveRunners
      <3>2. runner' \in [Instances -> {"absent", "up", "stopped", "deleting"}]
        BY <2>5 DEF RemoveRunners
      <3> QED BY <2>3, <2>5, <3>1, <3>2 DEF RemoveRunners
    <2>6. CASE RemoveEndpoints
      BY <2>3, <2>6, FaultType DEF RemoveEndpoints
    <2> QED BY <1>3, <2>4, <2>5, <2>6
  <1>4. CASE ReadyForRestore
    <2>1. PICK i \in StartupInstances(w.st) :
            Return([Prepared(i, "ready") EXCEPT !.init = "none", !.bootstrapped = FALSE])
      BY <1>4 DEF ReadyForRestore
    <2>2. Prepared(i, "ready") \in Status
      BY <1>4, <2>1, StartupType, PreparedType DEF ReadyForRestore, MustPrepare
    <2>3. [Prepared(i, "ready") EXCEPT !.init = "none", !.bootstrapped = FALSE] \in Status
      BY <2>2 DEF Status
    <2>4. leftover' \in BOOLEAN
      BY <1>4 DEF ReadyForRestore
    <2> QED BY <1>4, <2>1, <2>3, <2>4, ReturnType DEF ReadyForRestore
  <1>5. CASE DataSourceDone
    <2>1. ObserveRestoreEnv(w.st) \in Status /\ w.obs.primary \in Instances \cup {None}
      BY <1>0, ObserveType DEF Observed
    <2> QED BY <1>5, <2>1, StepType DEF DataSourceDone
  <1>6. CASE RestoreNothing
    <2>1. ObserveRestoreEnv(w.st) \in Status
      BY <1>0, ObserveType
    <2>2. [ObserveRestoreEnv(w.st) EXCEPT !.init = "true"] \in Status
      BY <2>1 DEF Status
    <2>3. w' \in Work /\ w'.pc = "save"
      BY <1>6, <2>1, <2>2, ReturnType DEF RestoreNothing
    <2> QED BY <1>6, <2>3 DEF RestoreNothing
  <1>7. CASE RestoreFromCluster \/ RestoreFromCloud
    <2> DEFINE st == ObserveRestoreEnv(w.st)
    <2>1. st \in Status /\ w.spec \in Spec_ /\ Key(w.spec) \in Keys
      BY <1>0, <1>7, ObserveType, KeyType DEF RestoreFromCluster, MustRestoreFromCluster, RestoreFromCloud, MustRestore
    <2>2. Return(st) /\ (job' = job \/ ReconcileRestoreJob(st)) /\ copies' \subseteq DOMAIN Projections
      BY <1>7 DEF RestoreFromCluster, RestoreFromCloud
    <2> HIDE DEF st
    <2>3. RestoreJobIntent(st) \in Job
      BY <2>1 DEF RestoreJobIntent, Job, Status
    <2>4. job' \in Job
      BY <2>2, <2>3 DEF ReconcileRestoreJob
    <2>5. w' \in Work /\ w'.pc = "save"
      BY <2>1, <2>2, ReturnType
    <2> QED BY <1>7, <2>2, <2>4, <2>5 DEF RestoreFromCluster, RestoreFromCloud
  <1>8. CASE ReconcileInstances
    <2> DEFINE startup == IF w.obs.primary # None THEN None ELSE w.st.startup
    <2>1. [w.st EXCEPT !.startup = startup] \in Status
      BY <1>0 DEF Status
    <2>2. w' \in Work /\ w'.pc = "cleanup"
      BY <1>8, <2>1, StepType DEF ReconcileInstances
    <2>3. runner' \in [Instances -> {"absent", "up", "stopped", "deleting"}]
      BY <1>8 DEF ReconcileInstances
    <2> QED BY <1>8, <2>2, <2>3 DEF ReconcileInstances
  <1>9. CASE Cleanup
    BY <1>0, <1>9, ReturnType, Constants_ DEF Cleanup
  <1>10. CASE PatchStatus
    <2>1. Idle \in Work /\ Idle.pc = "idle"
      BY Constants_ DEF Idle
    <2> QED BY <1>0, <1>10, <2>1 DEF PatchStatus
  <1>11. CASE CopyFile
    BY <1>11 DEF CopyFile, CopiesMade
  <1> QED BY <1>1, <1>2, <1>3, <1>4, <1>5, <1>6, <1>7, <1>8, <1>9, <1>10, <1>11 DEF Reconcile

\* The user changes the spec and nothing else: a new request, other options, or no
\* restores once the last one is complete.
LEMMA UserSpec ==
    ASSUME spec \in Spec_, User
    PROVE  /\ spec' \in Spec_ /\ spec'.source = spec.source
           /\ \/ spec'.id = spec.id + 1 /\ spec'.enabled
              \/ spec'.id = spec.id /\ spec'.enabled = spec.enabled
              \/ /\ spec'.id = spec.id /\ ~spec'.enabled /\ RestoreInPlace(spec)
                 /\ status.id = spec.id /\ status.init = "true" /\ status.progress = "none"
           /\ UNCHANGED <<status, moves, job, copies, runner, pod, leader, dcs, disk, w, faults,
                          done, leftover>>
  <1>1. /\ spec.id \in 0..MaxRestores /\ spec.config \in 1..MaxConfigs
        /\ spec.enabled \in BOOLEAN /\ spec.valid \in BOOLEAN /\ spec.source \in Sources
    BY DEF Spec_, Configs
  <1>2. CASE RequestRestore
    <2>1. spec.id + 1 \in 0..MaxRestores
      BY <1>1, <1>2, RestoreAssumption DEF RequestRestore, Restores
    <2>2. spec' = [spec EXCEPT !.id = spec.id + 1, !.enabled = TRUE]
      BY <1>2 DEF RequestRestore
    <2> QED BY <1>2, <2>1, <2>2 DEF Spec_, RequestRestore
  <1>3. CASE ChangeOptions
    <2>1. spec.config + 1 \in 1..MaxConfigs
      BY <1>1, <1>3, RestoreAssumption DEF ChangeOptions
    <2>2. spec' = [spec EXCEPT !.config = spec.config + 1]
      BY <1>3 DEF ChangeOptions
    <2> QED BY <1>3, <2>1, <2>2 DEF Spec_, Configs, ChangeOptions
  <1>4. CASE DisableRestores
    <2>1. spec' = [spec EXCEPT !.enabled = FALSE]
      BY <1>4 DEF DisableRestores
    <2> QED BY <1>4, <2>1 DEF Spec_, DisableRestores
  <1>5. CASE CorrectSource
    <2>1. spec' = [spec EXCEPT !.valid = TRUE]
      BY <1>5 DEF CorrectSource
    <2> QED BY <1>5, <2>1 DEF Spec_, CorrectSource
  <1> QED BY <1>2, <1>3, <1>4, <1>5 DEF User

LEMMA TypesNext == Types /\ [Next]_vars => Types'
  <1> SUFFICES ASSUME Types, [Next]_vars PROVE Types'
    OBVIOUS
  <1>1. CASE UNCHANGED vars
    BY <1>1 DEF vars, Types
  <1>2. CASE Reconcile
    BY <1>2, TypesReconcile
  <1> USE DEF Types
  <1>3. ASSUME NEW i \in Instances,
               CreatePod(i) \/ StartContainer(i) \/ DeletePod(i) \/ RestartContainer(i)
        PROVE  Types'
    BY <1>3, FaultType DEF CreatePod, StartContainer, DeletePod, RestartContainer
  <1>4. ASSUME NEW r \in {"complete", "failed"}, Move(r) PROVE Types'
    <2>1. ASSUME NEW d \in Dirs, EndMove(d, r),
                 disk' \in [Instances -> [data : Content, boot : Content]]
          PROVE  Types'
      BY <2>1, FaultType DEF EndMove
    <2>2. CASE MovePGDataDir(r)
      <3>1. disk' \in [Instances -> [data : Content, boot : Content]]
        BY <2>2, Constants_ DEF MovePGDataDir
      <3> QED BY <2>1, <2>2, <3>1, RestoreAssumption DEF MovePGDataDir
    <2>3. CASE MoveWALDir(r) \/ MoveRepoDir(r)
      BY <2>1, <2>3 DEF MoveWALDir, MoveRepoDir
    <2> QED BY <1>4, <2>2, <2>3 DEF Move
  <1>5. CASE StartRestore \/ FinishRestore \/ FailRestore
    <2>1. job.key \in Keys
      BY DEF Job
    <2>2. [kind |-> "restored", key |-> job.key] \in Content
      BY <2>1 DEF Content
    <2>3. job' \in Job
      BY <1>5 DEF StartRestore, FinishRestore, FailRestore, Job
    <2>4. disk' \in [Instances -> [data : Content, boot : Content]]
      <3>1. CASE StartRestore
        BY <3>1, Constants_ DEF StartRestore
      <3>2. CASE FinishRestore
        <4>1. PICK b \in [Instances -> Content] :
                b = [i \in Instances |-> IF disk[i].boot = Nothing
                                        THEN [kind |-> "restored", key |-> job.key] ELSE disk[i].boot]
          BY <2>2
        <4>2. job.inst \in Instances =>
                disk' = [disk EXCEPT ![job.inst] = [data |-> Nothing, boot |-> b[job.inst]]]
          BY <3>2, <4>1 DEF FinishRestore
        <4>3. job.inst \notin Instances => disk' = disk
          BY <3>2 DEF FinishRestore
        <4> QED BY <4>1, <4>2, <4>3, Constants_
      <3>3. CASE FailRestore
        BY <3>3 DEF FailRestore
      <3> QED BY <1>5, <3>1, <3>2, <3>3
    <2> QED BY <1>5, <2>1, <2>3, <2>4, FaultType DEF StartRestore, FinishRestore, FailRestore
  <1>6. CASE WriteEndpoints
    BY <1>6 DEF WriteEndpoints
  <1>7. ASSUME NEW i \in Instances, BecomeLeader(i) \/ Bootstrap(i) \/ Follow(i) PROVE Types'
    <2>1. CASE BecomeLeader(i)
      BY <2>1 DEF BecomeLeader
    <2>2. CASE Bootstrap(i)
      <3>1. disk' \in [Instances -> [data : Content, boot : Content]]
        BY <2>2, Constants_ DEF Bootstrap
      <3> QED BY <2>2, <3>1 DEF Bootstrap
    <2>3. CASE Follow(i)
      BY <2>3 DEF Follow
    <2> QED BY <1>7, <2>1, <2>2, <2>3
  <1>8. CASE User
    BY <1>8, UserSpec
  <1>9. CASE CallFails
    <2>1. PICK st \in {w.st, ObserveRestoreEnv(w.st)} : Return(st)
      BY <1>9 DEF CallFails
    <2>2. st \in Status
      BY <2>1, ObserveType DEF Work
    <2> QED BY <1>9, <2>1, <2>2, ReturnType, FaultType DEF CallFails
  <1>10. CASE Crash
    <2>1. Idle \in Work /\ Idle.pc = "idle"
      BY Constants_ DEF Idle
    <2> QED BY <1>10, <2>1, FaultType DEF Crash
  <1> QED BY <1>1, <1>2, <1>3, <1>4, <1>5, <1>6, <1>7, <1>8, <1>9, <1>10
          DEF Next, Kubernetes, Patroni, Failure

LEMMA TypesAlways == Spec => []Types
  BY TypesInit, TypesNext, PTL DEF Spec

-----------------------------------------------------------------------------
\* What steps do to the variables that the properties are about.

\* Only ReconcileInstances starts a runner, and only a runner makes a Pod.
LEMMA RunnerSteps ==
    ASSUME Types, [Next]_vars, NEW i \in Instances
    PROVE  /\ runner'[i] = "up" => runner[i] = "up" \/ ReconcileInstances
           /\ runner'[i] = "deleting" => runner[i] = "deleting" \/ pod[i] # "none"
           /\ pod'[i] # "none" => pod[i] # "none" \/ runner[i] = "up"
  <1>1. CASE ReconcileInstances
    BY <1>1 DEF ReconcileInstances, Types
  <1>2. CASE RemoveRunners
    BY <1>2 DEF RemoveRunners, Types
  <1>3. ASSUME NEW j \in Instances,
               CreatePod(j) \/ StartContainer(j) \/ DeletePod(j) \/ RestartContainer(j)
        PROVE  /\ runner'[i] = "up" => runner[i] = "up" \/ ReconcileInstances
               /\ runner'[i] = "deleting" => runner[i] = "deleting" \/ pod[i] # "none"
               /\ pod'[i] # "none" => pod[i] # "none" \/ runner[i] = "up"
    BY <1>3 DEF CreatePod, StartContainer, DeletePod, RestartContainer, Types
  <1>4. CASE UNCHANGED <<runner, pod>>
    BY <1>4
  <1>5. ASSUME NEW r, Move(r) PROVE UNCHANGED <<runner, pod>>
    BY <1>5 DEF Move, MovePGDataDir, MoveWALDir, MoveRepoDir, EndMove
  <1>6. User => UNCHANGED <<runner, pod>>
    BY UserSpec DEF Types
  <1> QED
    BY <1>1, <1>2, <1>3, <1>4, <1>5, <1>6
       DEF Next, vars, Reconcile, Kubernetes, Patroni, Failure, Begin, Observe, RemoveRestoreJob,
           RemoveEndpoints, ReadyForRestore, DataSourceDone, RestoreNothing, CopyFile, RestoreFromCluster,
           RestoreFromCloud, Cleanup, PatchStatus, StartRestore, FinishRestore, FailRestore,
           WriteEndpoints, BecomeLeader, Bootstrap, Follow, CallFails, Crash

\* Where a reconcile comes from.
LEMMA ReconcileSteps ==
    ASSUME Types, [Next]_vars
    PROVE  /\ w' = w \/ Reconcile \/ CallFails \/ Crash
           /\ w'.pc = "observe" => w' = w \/ Begin
           /\ w'.pc = "source" => w' = w \/ Observe
           /\ w'.pc = "instances" => w' = w \/ DataSourceDone
           /\ w'.pc = "cleanup" => w' = w \/ ReconcileInstances
  <1>1. ASSUME NEW st, Return(st) PROVE w'.pc = "save"
    BY <1>1 DEF Return, Step, Idle
  <1>2. Crash \/ PatchStatus => w'.pc = "idle"
    BY DEF Crash, PatchStatus, Idle
  <1>3. DataSourceDone => w'.pc = "instances"
    BY DEF DataSourceDone, Step, Idle
  <1>4. ReconcileInstances => w'.pc = "cleanup"
    BY DEF ReconcileInstances, Step, Idle
  <1>5. Begin => w'.pc \in {"observe", "save"}
    BY <1>1 DEF Begin
  <1>6. Observe => w'.pc = "source"
    BY DEF Observe, Types, Work
  <1>7. CallFails \/ RemoveRestoreJob \/ RemoveRunners \/ RemoveEndpoints \/ ReadyForRestore
          \/ RestoreNothing \/ RestoreFromCluster \/ RestoreFromCloud \/ Cleanup
          => w'.pc = "save"
    BY <1>1 DEF CallFails, RemoveRestoreJob, RemoveRunners, RemoveEndpoints, ReadyForRestore,
                RestoreNothing, RestoreFromCluster, RestoreFromCloud, Cleanup
  <1>8. ASSUME NEW r, Move(r) PROVE w' = w
    BY <1>8 DEF Move, MovePGDataDir, MoveWALDir, MoveRepoDir, EndMove
  <1>9. User => w' = w
    BY UserSpec DEF Types
  <1>10. w' = w \/ Reconcile \/ CallFails \/ Crash
    BY <1>8, <1>9
       DEF Next, vars, Kubernetes, Patroni, Failure, CreatePod, StartContainer, DeletePod,
           RestartContainer, StartRestore, FinishRestore, FailRestore, WriteEndpoints, BecomeLeader,
           Bootstrap, Follow
  <1>11. CopyFile => w' = w
    BY DEF CopyFile
  <1> QED BY <1>2, <1>3, <1>4, <1>5, <1>6, <1>7, <1>10, <1>11 DEF Reconcile

\* A directory that has been moved stays so.
LEMMA MovesSteps ==
    ASSUME Types, [Next]_vars, NEW d \in Dirs, moves[d] = "complete"
    PROVE  moves'[d] = "complete"
  <1>1. CASE Begin
    BY <1>1 DEF Begin, MoveJob
  <1>2. ASSUME NEW r, Move(r) PROVE moves'[d] = "complete"
    BY <1>2 DEF Move, MovePGDataDir, MoveWALDir, MoveRepoDir, EndMove, Types
  <1>3. User => moves' = moves
    BY UserSpec DEF Types
  <1> QED
    BY <1>1, <1>2, <1>3
       DEF Next, vars, Reconcile, Kubernetes, Patroni, Failure, Observe, RemoveRestoreJob,
           RemoveRunners, RemoveEndpoints, ReadyForRestore, DataSourceDone, RestoreNothing,
           CopyFile, RestoreFromCluster, RestoreFromCloud, ReconcileInstances, Cleanup, PatchStatus, CreatePod,
           StartContainer, DeletePod, RestartContainer, StartRestore, FinishRestore, FailRestore,
           WriteEndpoints, BecomeLeader, Bootstrap, Follow, CallFails, Crash

\* The data source never changes, and a reconcile has the one of the cluster.
SameSource == w.pc \in {"observe", "source"} => w.spec.source = spec.source

LEMMA SourceSteps ==
    ASSUME Types, [Next]_vars
    PROVE  spec'.source = spec.source
  <1>1. ASSUME NEW r, Move(r) PROVE spec' = spec
    BY <1>1 DEF Move, MovePGDataDir, MoveWALDir, MoveRepoDir, EndMove
  <1>2. User => spec'.source = spec.source
    BY UserSpec DEF Types
  <1> QED
    BY <1>1, <1>2
       DEF Next, vars, Reconcile, Kubernetes, Patroni, Failure, Begin, Observe, RemoveRestoreJob,
           RemoveRunners, RemoveEndpoints, ReadyForRestore, DataSourceDone, RestoreNothing,
           CopyFile, RestoreFromCluster, RestoreFromCloud, ReconcileInstances, Cleanup, PatchStatus, CreatePod,
           StartContainer, DeletePod, RestartContainer, StartRestore, FinishRestore, FailRestore,
           WriteEndpoints, BecomeLeader, Bootstrap, Follow, CallFails, Crash

LEMMA SameSourceNext == Types /\ SameSource /\ [Next]_vars => SameSource'
  <1> SUFFICES ASSUME Types, SameSource, [Next]_vars, w'.pc \in {"observe", "source"}
               PROVE  w'.spec.source = spec'.source
    BY DEF SameSource
  <1>1. CASE w' = w
    BY <1>1, SourceSteps DEF SameSource
  <1>2. CASE Begin /\ w'.pc = "observe"
    <2>1. ~Return(status)
      BY <1>2 DEF Return, Step, Idle
    <2> QED BY <1>2, <2>1 DEF Begin
  <1>3. CASE Observe
    <2>1. w.pc = "observe" /\ w'.spec = w.spec
      BY <1>3 DEF Observe, Types, Work
    <2> QED BY <2>1, SourceSteps DEF SameSource
  <1> QED BY <1>1, <1>2, <1>3, ReconcileSteps

-----------------------------------------------------------------------------
\* No reconcile passes its first step, no runner is up and no Pod exists before every
\* directory has been moved.
AfterMoves ==
    \/ w.pc \in {"observe", "source", "instances", "cleanup"}
    \/ \E i \in Instances : runner[i] = "up" \/ pod[i] # "none"
MovesIInv == spec.source = "volumes" /\ AfterMoves => \A d \in Dirs : moves[d] = "complete"

\* No Pod of an instance exists until every directory has been moved (MovesFirst): for
\* any number of instances and directories, whatever fails, and however often the
\* operator starts over.
THEOREM DirectoriesMoveFirst == Spec => []MovesFirst
  <1>1. Init => MovesIInv
    BY DEF Init, MovesIInv, AfterMoves, Idle
  <1>2. Types /\ MovesIInv /\ [Next]_vars => MovesIInv'
    <2> SUFFICES ASSUME Types, MovesIInv, [Next]_vars, spec'.source = "volumes", AfterMoves',
                        NEW d \in Dirs
                 PROVE  moves'[d] = "complete"
      BY DEF MovesIInv
    <2>1. spec.source = "volumes"
      BY SourceSteps
    <2>2. CASE AfterMoves
      BY <2>1, <2>2, MovesSteps DEF MovesIInv
    <2>3. CASE Begin /\ w'.pc = "observe"
      <3>1. ~Return(status)
        BY <2>3 DEF Return, Step, Idle
      <3>2. moves[d] = "complete"
        BY <2>1, <2>3, <3>1 DEF Begin, Moved
      <3> QED BY <3>2, MovesSteps
    <2>4. AfterMoves \/ (Begin /\ w'.pc = "observe")
      <3>1. CASE w'.pc \in {"observe", "source", "instances", "cleanup"}
        BY <3>1, ReconcileSteps DEF AfterMoves, Observe, DataSourceDone, ReconcileInstances
      <3>2. ASSUME NEW i \in Instances, runner'[i] = "up" \/ pod'[i] # "none" PROVE AfterMoves
        BY <3>2, RunnerSteps DEF AfterMoves, ReconcileInstances
      <3> QED BY <3>1, <3>2 DEF AfterMoves
    <2> QED BY <2>2, <2>3, <2>4
  <1>3. MovesIInv => MovesFirst
    BY DEF MovesIInv, AfterMoves, MovesFirst
  <1> QED BY <1>1, <1>2, <1>3, TypesAlways, PTL DEF Spec

-----------------------------------------------------------------------------
\* A set of natural numbers that is not empty has a least element.
LEMMA LeastElement ==
    ASSUME NEW T, T \subseteq Nat, T # {}
    PROVE  \E x \in T : \A y \in T : x <= y
  <1>1. PICK x \in T : \A y \in T : ~ (<<y, x>> \in OpToRel(<, Nat))
    BY NatLessThanWellFounded, WFMin, Zenon
  <1>2. ASSUME NEW y \in T PROVE x <= y
    <2>1. y < x => <<y, x>> \in OpToRel(<, Nat)
      BY DEF OpToRel
    <2>2. ~ (y < x)
      BY <1>1, <2>1, Zenon
    <2> QED BY <2>2
  <1> QED BY <1>2

\* The required files before the first optional one that exists.
Wanted ==
    {k \in DOMAIN Projections :
       /\ ~Projections[k].optional
       /\ \A n \in 1..(k - 1) : ~(Projections[n].optional /\ Projections[n].present)}

\* copyConfigurationResources that does not fail copies just these: the first file at
\* which it stops before one of them would be a required one that is missing.
LEMMA CopiesComplete == ASSUME ~CopyFails PROVE CopiesMade = Wanted
  <1>1. DOMAIN Projections = 1..Len(Projections) /\ Len(Projections) \in Nat
    <2>1. Projections \in Seq([optional : BOOLEAN, present : BOOLEAN])
      BY RestoreAssumption
    <2> QED BY <2>1
  <1>2. \A n \in DOMAIN Projections :
          Projections[n].optional \in BOOLEAN /\ Projections[n].present \in BOOLEAN
    <2> DEFINE File == [optional : BOOLEAN, present : BOOLEAN]
    <2>1. Projections \in Seq(File)
      BY RestoreAssumption
    <2> HIDE DEF File
    <2>2. \A n \in DOMAIN Projections : Projections[n] \in File
      BY <2>1
    <2> USE DEF File
    <2> QED BY <2>2
  <1>3. ASSUME NEW k \in CopiesMade PROVE k \in Wanted
    <2>1. k \in 1..Len(Projections) /\ \A n \in 1..(k - 1) : n \in 1..k
      BY <1>1 DEF CopiesMade
    <2> QED BY <1>1, <2>1 DEF CopiesMade, Wanted, Stops
  <1>4. ASSUME NEW k \in Wanted PROVE k \in CopiesMade
    <2> DEFINE S == {n \in 1..k : Stops(n)}
    <2>1. /\ k \in DOMAIN Projections /\ ~Projections[k].optional /\ k \in Nat
          /\ \A n \in 1..k : n \in DOMAIN Projections /\ n \in Nat /\ (n # k => n \in 1..(k - 1))
      BY <1>1 DEF Wanted
    <2>2. S = {}
      <3> SUFFICES ASSUME S # {} PROVE FALSE
        OBVIOUS
      <3>1. PICK n \in S : \A m \in S : n <= m
        BY <2>1, LeastElement
      <3>2. n \in 1..k /\ n \in DOMAIN Projections /\ Stops(n)
        BY <2>1, <3>1
      <3>3. ~(Projections[n].optional /\ Projections[n].present)
        BY <2>1, <3>2 DEF Wanted
      <3>4. ~Projections[n].optional /\ ~Projections[n].present
        BY <1>2, <3>2, <3>3 DEF Stops
      <3>5. \A m \in 1..(n - 1) : ~Stops(m)
        <4> SUFFICES ASSUME NEW m \in 1..(n - 1), Stops(m) PROVE FALSE
          OBVIOUS
        <4>1. m \in 1..k /\ m < n
          BY <2>1, <3>2
        <4>2. n <= m
          BY <3>1, <4>1
        <4> QED BY <2>1, <3>2, <4>1, <4>2
      <3> QED BY <3>2, <3>4, <3>5 DEF CopyFails
    <2> QED BY <2>1, <2>2 DEF CopiesMade
  <1> QED BY <1>3, <1>4

\* Steps change a Job that works, and the copies, together.
LEMMA JobSteps ==
    ASSUME Types, [Next]_vars
    PROVE  \/ job' = NoJob /\ (copies' = copies \/ copies' = {})
           \/ /\ copies \subseteq copies' /\ job'.key = job.key /\ job'.inst = job.inst
              /\ job'.state \in {"active", "restoring"} => job.state \in {"active", "restoring"}
              /\ job' = job \/ StartRestore \/ FinishRestore \/ FailRestore
           \/ (RestoreFromCluster \/ RestoreFromCloud) /\ job = NoJob /\ job' # NoJob
  <1>1. CASE RestoreFromCluster \/ RestoreFromCloud
    <2>1. job' = job \/ job = NoJob
      BY <1>1 DEF RestoreFromCluster, RestoreFromCloud, ReconcileRestoreJob
    <2>2. copies' = copies
      BY <1>1 DEF RestoreFromCluster, RestoreFromCloud
    <2> QED BY <1>1, <2>1, <2>2
  <1>2. CASE StartRestore \/ FinishRestore \/ FailRestore
    BY <1>2 DEF StartRestore, FinishRestore, FailRestore, Types, Job
  <1>3. CASE RemoveRestoreJob \/ Cleanup
    BY <1>3 DEF RemoveRestoreJob, Cleanup
  <1>4. CASE UNCHANGED <<job, copies>>
    BY <1>4
  <1>5. ASSUME NEW r, Move(r) PROVE UNCHANGED <<job, copies>>
    BY <1>5 DEF Move, MovePGDataDir, MoveWALDir, MoveRepoDir, EndMove
  <1>6. User => UNCHANGED <<job, copies>>
    BY UserSpec DEF Types
  <1>7. CASE CopyFile
    BY <1>7 DEF CopyFile
  <1> QED
    BY <1>1, <1>2, <1>3, <1>4, <1>5, <1>6, <1>7
       DEF Next, vars, Reconcile, Kubernetes, Patroni, Failure, Begin, Observe, RemoveRunners,
           RemoveEndpoints, ReadyForRestore, DataSourceDone, RestoreNothing, ReconcileInstances,
           PatchStatus, CreatePod, StartContainer, DeletePod, RestartContainer, WriteEndpoints,
           BecomeLeader, Bootstrap, Follow, CallFails, Crash

\* Copies are only added one by one and removed together.
LEMMA CopiesSteps == ASSUME Types, [Next]_vars PROVE copies' = copies \/ copies' = {} \/ CopyFile
  <1>1. ASSUME NEW r, Move(r) PROVE copies' = copies
    BY <1>1 DEF Move, MovePGDataDir, MoveWALDir, MoveRepoDir, EndMove
  <1>2. User => copies' = copies
    BY UserSpec DEF Types
  <1>3. Cleanup => copies' = copies \/ copies' = {}
    BY DEF Cleanup
  <1> QED
    BY <1>1, <1>2, <1>3
       DEF Next, vars, Reconcile, Kubernetes, Patroni, Failure, Begin, Observe, RemoveRestoreJob,
           RemoveRunners, RemoveEndpoints, ReadyForRestore, DataSourceDone, RestoreNothing,
           RestoreFromCluster, RestoreFromCloud, ReconcileInstances, PatchStatus, CreatePod,
           StartContainer, DeletePod, RestartContainer, StartRestore, FinishRestore, FailRestore,
           WriteEndpoints, BecomeLeader, Bootstrap, Follow, CallFails, Crash

\* Only what is to be copied is copied, and all of it is while a Job restores from
\* another cluster.
CopiesInv ==
    /\ copies \subseteq CopiesMade
    /\ Busy /\ job.key.bootstrap /\ spec.source = "cluster" => ~CopyFails /\ copies = CopiesMade

\* A Job that restores from another cluster finds a copy of every required file of that
\* cluster's configuration before the first optional one that exists, and of no other
\* (JobHasConfig), whatever the order and number of the files and whatever fails between
\* two copies: the Job is created only after the last of them was made, and they are
\* removed only with the Job.
THEOREM RestoreJobHasConfig == Spec => []JobHasConfig
  <1>1. Init => SameSource /\ CopiesInv
    BY DEF Init, SameSource, CopiesInv, Busy, NoJob, Idle
  <1>2. Types /\ SameSource /\ CopiesInv /\ [Next]_vars => CopiesInv'
    <2> SUFFICES ASSUME Types, SameSource, CopiesInv, [Next]_vars PROVE CopiesInv'
      OBVIOUS
    <2>1. copies' \subseteq CopiesMade
      <3>1. CASE CopyFile
        BY <3>1 DEF CopyFile, CopiesInv
      <3> QED BY <3>1, CopiesSteps DEF CopiesInv
    <2>2. ASSUME Busy', job'.key.bootstrap, spec'.source = "cluster"
          PROVE  ~CopyFails /\ copies' = CopiesMade
      <3>1. spec.source = "cluster"
        BY <2>2, SourceSteps
      <3>2. job' # NoJob
        BY <2>2 DEF Busy, NoJob
      <3>3. CASE Busy /\ job'.key = job.key /\ copies \subseteq copies'
        BY <2>1, <2>2, <3>1, <3>3 DEF CopiesInv
      <3>4. CASE (RestoreFromCluster \/ RestoreFromCloud) /\ job = NoJob
        <4>1. w.pc = "source" /\ w.spec.source = "cluster"
          BY <3>1, <3>4
             DEF RestoreFromCluster, MustRestoreFromCluster, RestoreFromCloud, MustRestore, SameSource
        <4>2. RestoreFromCluster
          BY <3>4, <4>1 DEF RestoreFromCloud
        <4>3. \/ Key(w.spec).bootstrap /\ CopyFails /\ job' = job
              \/ ~(Key(w.spec).bootstrap /\ CopyFails)
                 /\ job' = IF job = NoJob /\ w.spec.valid
                          THEN RestoreJobIntent(ObserveRestoreEnv(w.st)) ELSE job
          BY <4>2 DEF RestoreFromCluster, ReconcileRestoreJob
        <4>4. ~(Key(w.spec).bootstrap /\ CopyFails) /\ w.spec.valid /\ job'.key = Key(w.spec)
          BY <3>2, <3>4, <4>3 DEF RestoreJobIntent
        <4>5. CopiesMade \subseteq copies /\ copies' = copies /\ ~CopyFails
          BY <2>2, <4>2, <4>4 DEF RestoreFromCluster
        <4> QED BY <4>5 DEF CopiesInv
      <3> QED BY <2>2, <3>2, <3>3, <3>4, JobSteps DEF Busy
    <2>3. CopiesMade' = CopiesMade /\ CopyFails' = CopyFails
      BY DEF CopiesMade, CopyFails, Stops
    <2> QED BY <2>1, <2>2, <2>3 DEF CopiesInv
  <1>3. CopiesInv => JobHasConfig
    BY CopiesComplete DEF CopiesInv, JobHasConfig, Wanted
  <1> QED BY <1>1, <1>2, <1>3, SameSourceNext, TypesAlways, PTL DEF Spec

-----------------------------------------------------------------------------
\* What a reconcile knows.

\* It has read the spec and may still act on it; the spec that counts until it ends.
Reading == w.pc \in {"observe", "source"}
Heeded == IF Reading THEN w.spec ELSE spec
Starting == w.pc \in {"instances", "cleanup"}

\* A request is named by a number that grows; a bootstrap has a number of its own.
Older(id, s) == id = BootstrapID \/ id <= s.id

\* What was served, what is being served and what is asked for follow each other.
IdsOrdered ==
    /\ Older(status.id, spec)
    /\ w.pc # "idle" => Older(w.st.id, spec)
    /\ Reading => /\ w.spec.id <= spec.id /\ Older(status.id, w.spec)
                  /\ w.spec.source = spec.source
    /\ Reading /\ w.spec.id = spec.id /\ spec.enabled => w.spec.enabled
    /\ BootstrapID \in {status.id, w.st.id} => spec.source \in {"cluster", "cloud"}

\* Behind the back of a reconcile the user may ask for a newer restore, or disable
\* restores when the last one is complete.
SpecMoved ==
    Reading => \/ RestoreID(w.spec) = RestoreID(spec)
               \/ RestoreInPlace(spec) /\ spec.id > w.spec.id
               \/ status.progress = "none" /\ status.init = "true" /\ status.id = spec.id

\* Until it has looked at the restore Job, a reconcile has the status as it is stored,
\* but for what it adds: a startup instance, that the cluster was bootstrapped.
StatusInHand ==
    Reading => /\ w.st.progress = status.progress /\ w.st.init = status.init
               /\ w.st.id = status.id
               /\ status.startup # None => w.st.startup = status.startup

\* A restore that is under way is still asked for.
RestoringRequested ==
    /\ Restoring(status) => status.id # 0 /\ RestoreID(Heeded) # 0 /\ RestoreID(spec) # 0
    /\ w.pc # "idle" /\ Restoring(w.st) => w.st.id # 0 /\ RestoreID(spec) # 0
    /\ w.pc # "idle" /\ Restoring(w.st) /\ ~Restoring(status) =>
         status.id = BootstrapID \/ status.id < w.st.id

\* The cluster is ready for a restore that has not been completed.
Gap(st) == st.progress = "ready" /\ st.init # "true"

LeaderRunning == leader # None => pod[leader] = "running"
AbsentJob == job.state = "absent" => job = NoJob

KnowledgeInv ==
    /\ IdsOrdered /\ SpecMoved /\ StatusInHand /\ RestoringRequested
    /\ Starting => ~Gap(w.st)
    /\ LeaderRunning /\ AbsentJob

\* Which restore a spec asks for.
LEMMA RestoreIDs ==
    ASSUME NEW s \in Spec_
    PROVE  /\ RestoreInPlace(s) => RestoreID(s) = s.id /\ RestoreID(s) \in 1..MaxRestores
           /\ ~RestoreInPlace(s) => RestoreID(s) = IF s.source \in {"cluster", "cloud"}
                                                  THEN BootstrapID ELSE 0
           /\ s.id \in 0..MaxRestores /\ MaxRestores \in Nat /\ BootstrapID = MaxRestores + 1
           /\ RestoreInPlace(s) <=> s.id # 0 /\ s.enabled
  <1>1. s.id \in 0..MaxRestores
    BY DEF Spec_
  <1> QED BY <1>1, RestoreAssumption DEF RestoreID, RestoreInPlace, BootstrapID

LEMMA KnowledgeInit == Init => KnowledgeInv
  <1> SUFFICES ASSUME Init PROVE KnowledgeInv
    OBVIOUS
  <1>1. spec \in Spec_ /\ w = Idle /\ status.id = 0 /\ status.progress = "none" /\ status \in Status
    BY TypesInit DEF Init, Types, NoStatus
  <1>2. w.pc = "idle" /\ w.st.id = 0
    BY <1>1 DEF Idle, NoStatus
  <1>3. LeaderRunning /\ AbsentJob
    BY RestoreAssumption DEF Init, LeaderRunning, AbsentJob
  <1> QED BY <1>1, <1>2, <1>3, RestoreIDs
          DEF KnowledgeInv, IdsOrdered, SpecMoved, StatusInHand, RestoringRequested, Restoring,
              Reading, Starting, Older

LEMMA LeaderNext == ASSUME Types, LeaderRunning, [Next]_vars PROVE LeaderRunning'
  <1> USE DEF LeaderRunning
  <1>1. ASSUME NEW i \in Instances,
               \/ CreatePod(i) \/ StartContainer(i) \/ DeletePod(i) \/ RestartContainer(i)
               \/ BecomeLeader(i) \/ Bootstrap(i)
        PROVE  LeaderRunning'
    BY <1>1, RestoreAssumption
       DEF CreatePod, StartContainer, DeletePod, RestartContainer, BecomeLeader, Bootstrap, Types
  <1>2. CASE UNCHANGED <<leader, pod>>
    BY <1>2
  <1>3. ASSUME NEW r, Move(r) PROVE UNCHANGED <<leader, pod>>
    BY <1>3 DEF Move, MovePGDataDir, MoveWALDir, MoveRepoDir, EndMove
  <1>4. User => UNCHANGED <<leader, pod>>
    BY UserSpec DEF Types
  <1> QED
    BY <1>1, <1>2, <1>3, <1>4
       DEF Next, vars, Reconcile, Kubernetes, Patroni, Failure, Begin, Observe, RemoveRestoreJob,
           RemoveRunners, RemoveEndpoints, ReadyForRestore, DataSourceDone, RestoreNothing,
           CopyFile, RestoreFromCluster, RestoreFromCloud, ReconcileInstances, Cleanup, PatchStatus,
           StartRestore, FinishRestore, FailRestore, WriteEndpoints, Follow, CallFails, Crash

LEMMA AbsentNext == ASSUME Types, AbsentJob, [Next]_vars PROVE AbsentJob'
  <1>1. CASE job' = NoJob \/ job' = job
    BY <1>1 DEF AbsentJob
  <1>2. CASE StartRestore \/ FinishRestore \/ FailRestore
    BY <1>2 DEF AbsentJob, StartRestore, FinishRestore, FailRestore, Types, Job
  <1>3. CASE (RestoreFromCluster \/ RestoreFromCloud) /\ job = NoJob /\ job' # NoJob
    <2>1. job' = RestoreJobIntent(ObserveRestoreEnv(w.st))
      BY <1>3 DEF RestoreFromCluster, RestoreFromCloud, ReconcileRestoreJob
    <2> QED BY <2>1 DEF RestoreJobIntent, AbsentJob
  <1> QED BY <1>1, <1>2, <1>3, JobSteps

\* What a reconcile goes on with when it has read all it needs: the restore the status
\* names, or the one of the spec when that is a new one.
LEMMA Acting ==
    ASSUME Types, Types', KnowledgeInv, UNCHANGED <<spec, status>>, w.pc # "idle",
           w'.pc \in {"instances", "cleanup", "save"},
           \/ w'.st.id = w.st.id /\ (Restoring(w'.st) => Restoring(w.st))
           \/ MustPrepare /\ w'.st.id = RestoreID(w.spec),
           w'.pc # "save" => ~Gap(w'.st)
    PROVE  IdsOrdered' /\ SpecMoved' /\ StatusInHand' /\ RestoringRequested' /\ (Starting => ~Gap(w.st))'
  <1> USE DEF KnowledgeInv
  <1>0. ~Reading' /\ Heeded' = spec /\ status.id \in 0..BootstrapID /\ spec \in Spec_
    BY DEF Reading, Heeded, Types, Status
  <1>1. CASE w'.st.id = w.st.id /\ (Restoring(w'.st) => Restoring(w.st))
    <2>1. IdsOrdered'
      BY <1>0, <1>1 DEF IdsOrdered, Older
    <2>2. RestoringRequested'
      BY <1>0, <1>1 DEF RestoringRequested, Restoring
    <2> QED BY <1>0, <2>1, <2>2 DEF SpecMoved, StatusInHand, Starting, Gap
  <1>2. CASE MustPrepare /\ w'.st.id = RestoreID(w.spec)
    <2>1. Reading /\ w.spec \in Spec_ /\ RestoreID(w.spec) # 0 /\ w.st \in Status
      BY <1>2 DEF MustPrepare, Reading, Types, Work
    <2>2. Older(RestoreID(w.spec), spec)
          /\ (RestoreID(w.spec) = BootstrapID => spec.source \in {"cluster", "cloud"})
      BY <1>0, <2>1, RestoreIDs DEF IdsOrdered, Older
    <2>3. IdsOrdered'
      BY <1>0, <1>2, <2>2 DEF IdsOrdered, Older
    <2>4. ~Restoring(status) => RestoreID(w.spec) # status.id
      BY <1>2, <2>1 DEF MustPrepare, PrepareNeeded, Restoring, StatusInHand, ObserveRestoreEnv, Status
    <2>5. RestoreID(spec) # 0
      BY <1>0, <2>1, <2>4, RestoreIDs DEF SpecMoved, Restoring, IdsOrdered, Older
    <2>6. ~Restoring(status) => status.id = BootstrapID \/ status.id < RestoreID(w.spec)
      BY <1>0, <2>1, <2>4, RestoreIDs DEF IdsOrdered, Older
    <2>7. RestoringRequested'
      BY <1>0, <1>2, <2>1, <2>5, <2>6 DEF RestoringRequested, Restoring
    <2> QED BY <1>0, <2>3, <2>7 DEF SpecMoved, StatusInHand, Starting, Gap
  <1> QED BY <1>1, <1>2

LEMMA KnowledgeUser ==
    ASSUME Types, Types', KnowledgeInv, User
    PROVE  IdsOrdered' /\ SpecMoved' /\ StatusInHand' /\ RestoringRequested' /\ (Starting => ~Gap(w.st))'
  <1> USE DEF KnowledgeInv
  <1>1. /\ spec \in Spec_ /\ spec' \in Spec_ /\ spec'.source = spec.source
        /\ \/ spec'.id = spec.id + 1 /\ spec'.enabled
           \/ spec'.id = spec.id /\ spec'.enabled = spec.enabled
           \/ /\ spec'.id = spec.id /\ ~spec'.enabled /\ RestoreInPlace(spec)
              /\ status.id = spec.id /\ status.init = "true" /\ status.progress = "none"
        /\ UNCHANGED <<status, w>>
    BY UserSpec DEF Types
  <1>2. /\ status.id \in 0..BootstrapID /\ w.st.id \in 0..BootstrapID
        /\ Reading => w.spec \in Spec_
        /\ Reading' = Reading /\ (Reading => Heeded' = w.spec) /\ (~Reading => Heeded' = spec')
        /\ w.st \in Status
    BY <1>1 DEF Types, Work, Status, Reading, Heeded
  <1>3. \/ RestoreID(spec') = RestoreID(spec)
        \/ RestoreInPlace(spec') /\ spec'.id > spec.id
        \/ /\ spec'.id = spec.id /\ status.id = spec.id /\ status.init = "true"
           /\ status.progress = "none" /\ RestoreInPlace(spec)
    BY <1>1, RestoreIDs
  <1>4. IdsOrdered'
    BY <1>1, <1>2, RestoreIDs DEF IdsOrdered, Older
  <1>5. SpecMoved'
    <2> SUFFICES ASSUME Reading PROVE SpecMoved'
      BY <1>2 DEF SpecMoved
    <2>1. w.spec.id <= spec.id /\ w.spec \in Spec_
      BY <1>2 DEF IdsOrdered
    <2> QED BY <1>1, <1>2, <1>3, <2>1, RestoreIDs DEF SpecMoved
  <1>6. StatusInHand'
    BY <1>1, <1>2 DEF StatusInHand
  <1>7. RestoringRequested'
    <2>1. Restoring(status) => RestoreID(spec') # 0
      BY <1>1, <1>3, RestoreIDs DEF RestoringRequested, Restoring
    <2>2. Restoring(status) => RestoreID(Heeded') # 0
      BY <1>2, <2>1 DEF RestoringRequested, Heeded
    <2>3. w.pc # "idle" /\ Restoring(w.st) => RestoreID(spec') # 0
      <3> SUFFICES ASSUME w.pc # "idle", Restoring(w.st) PROVE RestoreID(spec') # 0
        OBVIOUS
      <3>1. RestoreID(spec) # 0 /\ (~Restoring(status) => status.id = BootstrapID \/ status.id < w.st.id)
            /\ Older(w.st.id, spec)
            /\ (BootstrapID \in {status.id, w.st.id} => spec.source \in {"cluster", "cloud"})
        BY DEF RestoringRequested, IdsOrdered
      <3> QED BY <1>1, <1>2, <1>3, <3>1, RestoreIDs DEF Restoring, Older
    <2>4. Heeded' = IF Reading THEN w.spec ELSE spec'
      BY <1>2
    <2> QED BY <1>1, <2>1, <2>2, <2>3 DEF RestoringRequested, Restoring
  <1> QED BY <1>1, <1>4, <1>5, <1>6, <1>7 DEF Starting, Gap

LEMMA KnowledgeNext ==
    ASSUME Types, Types', KnowledgeInv, [Next]_vars
    PROVE  KnowledgeInv'
  <1> DEFINE Goal == /\ IdsOrdered' /\ SpecMoved' /\ StatusInHand' /\ RestoringRequested'
                     /\ (Starting => ~Gap(w.st))'
  <1> SUFFICES Goal
    BY LeaderNext, AbsentNext DEF KnowledgeInv
  <1>0. /\ spec \in Spec_ /\ status \in Status /\ w.st \in Status
        /\ status.id \in 0..BootstrapID /\ w.st.id \in 0..BootstrapID
    BY DEF Types, Work, Status
  <1>1. CASE UNCHANGED <<spec, status, w>>
    BY <1>1 DEF KnowledgeInv, IdsOrdered, SpecMoved, StatusInHand, RestoringRequested, Restoring, Reading,
                Heeded, Starting, Older, Gap, RestoreID, RestoreInPlace, BootstrapID
  <1>2. CASE User
    BY <1>2, KnowledgeUser
  <1>3. CASE PatchStatus \/ Crash
    <2>1. w' = Idle /\ spec' = spec /\ (status' = status \/ (w.pc # "idle" /\ status' = w.st))
      BY <1>3 DEF PatchStatus, Crash
    <2>2. w'.pc = "idle" /\ w'.st.id = 0 /\ BootstrapID # 0
      BY <2>1, Constants_ DEF Idle, NoStatus
    <2>3. ~Reading' /\ ~Starting' /\ Heeded' = spec
      BY <2>1, <2>2 DEF Reading, Starting, Heeded
    <2>4. IdsOrdered'
      BY <2>1, <2>2, <2>3 DEF KnowledgeInv, IdsOrdered, Older
    <2>5. RestoringRequested'
      BY <2>1, <2>2, <2>3 DEF KnowledgeInv, RestoringRequested, Restoring
    <2> QED BY <2>3, <2>4, <2>5 DEF SpecMoved, StatusInHand
  <1>4. CASE Begin
    <2>1. CASE w' = [pc |-> "observe", spec |-> spec, st |-> status, obs |-> Unseen]
      <3>1. /\ Reading' /\ ~Starting' /\ w'.st = status /\ w'.spec = spec /\ Heeded' = spec
            /\ UNCHANGED <<spec, status>>
        BY <1>4, <2>1 DEF Begin, Reading, Starting, Heeded
      <3>2. IdsOrdered'
        BY <1>0, <3>1, RestoreIDs DEF KnowledgeInv, IdsOrdered, Older
      <3>3. RestoringRequested'
        BY <3>1 DEF KnowledgeInv, RestoringRequested, Restoring
      <3> QED BY <3>1, <3>2, <3>3 DEF SpecMoved, StatusInHand
    <2>2. CASE Return(status)
      <3>1. /\ w'.pc = "save" /\ w'.st = status /\ UNCHANGED <<spec, status>>
        BY <1>0, <1>4, <2>2, ReturnType DEF Begin
      <3>2. ~Reading' /\ ~Starting' /\ Heeded' = spec
        BY <3>1 DEF Reading, Starting, Heeded
      <3>3. IdsOrdered'
        BY <3>1, <3>2 DEF KnowledgeInv, IdsOrdered, Older
      <3>4. RestoringRequested'
        BY <3>1, <3>2 DEF KnowledgeInv, RestoringRequested, Restoring
      <3> QED BY <3>2, <3>3, <3>4 DEF SpecMoved, StatusInHand
    <2> QED BY <1>4, <2>1, <2>2 DEF Begin
  <1>5. CASE Observe
    <2>1. /\ w.pc = "observe" /\ w'.pc = "source" /\ w'.spec = w.spec
          /\ w'.st = PatroniStatus(ExistingVolumes(w.st)) /\ UNCHANGED <<spec, status>>
      BY <1>5 DEF Observe, Types, Work
    <2>2. /\ w'.st.progress = w.st.progress /\ w'.st.init = w.st.init /\ w'.st.id = w.st.id
          /\ w.st.startup # None => w'.st.startup = w.st.startup
      BY <1>0, <2>1 DEF PatroniStatus, ExistingVolumes, Status
    <2>3. Reading /\ Reading' /\ ~Starting' /\ Heeded = w.spec /\ Heeded' = w.spec
      BY <2>1 DEF Reading, Starting, Heeded
    <2>4. IdsOrdered'
      BY <2>1, <2>2, <2>3 DEF KnowledgeInv, IdsOrdered, Older
    <2>5. RestoringRequested'
      BY <2>1, <2>2, <2>3 DEF KnowledgeInv, RestoringRequested, Restoring
    <2>6. SpecMoved' /\ StatusInHand'
      BY <2>1, <2>2, <2>3 DEF KnowledgeInv, SpecMoved, StatusInHand
    <2> QED BY <2>3, <2>4, <2>5, <2>6
  <1>6. CASE RemoveRestoreJob \/ RemoveRunners \/ RemoveEndpoints \/ ReadyForRestore
    <2>1. MustPrepare /\ UNCHANGED <<spec, status>>
      BY <1>6 DEF RemoveRestoreJob, RemoveRunners, RemoveEndpoints, ReadyForRestore
    <2>2. PICK i \in StartupInstances(w.st), p \in {"requested", "ready"} :
            \/ Return(Prepared(i, p))
            \/ Return([Prepared(i, p) EXCEPT !.init = "none", !.bootstrapped = FALSE])
      BY <1>6 DEF RemoveRestoreJob, RemoveRunners, RemoveEndpoints, ReadyForRestore
    <2>3. Prepared(i, p) \in Status /\ Prepared(i, p).id = RestoreID(w.spec) /\ w.pc = "source"
      BY <2>1, <2>2, StartupType, PreparedType DEF MustPrepare
    <2>4. [Prepared(i, p) EXCEPT !.init = "none", !.bootstrapped = FALSE] \in Status
          /\ [Prepared(i, p) EXCEPT !.init = "none", !.bootstrapped = FALSE].id = RestoreID(w.spec)
      BY <2>3 DEF Status
    <2>5. w'.pc = "save" /\ w'.st.id = RestoreID(w.spec)
      BY <2>2, <2>3, <2>4, ReturnType
    <2> QED BY <2>1, <2>3, <2>5, Acting
  <1>7. CASE DataSourceDone \/ RestoreNothing \/ RestoreFromCluster \/ RestoreFromCloud
    <2> DEFINE st == ObserveRestoreEnv(w.st)
    <2>1. w.pc = "source" /\ UNCHANGED <<spec, status>> /\ st \in Status /\ st.id = w.st.id
          /\ (Restoring(st) => Restoring(w.st))
      BY <1>0, <1>7, ObserveType
         DEF DataSourceDone, RestoreNothing, RestoreFromCluster, MustRestoreFromCluster, RestoreFromCloud, MustRestore
    <2>2. CASE DataSourceDone
      <3>1. Step("instances", st, w.obs.primary) /\ (RestoreID(w.spec) = 0 \/ st.init = "true")
            /\ w.obs.primary \in Instances \cup {None}
        BY <2>2 DEF DataSourceDone, Types, Work, Observed
      <3>2. ~Gap(st)
        <4>1. Restoring(w.st) => RestoreID(w.spec) # 0
          BY <2>1 DEF KnowledgeInv, RestoringRequested, StatusInHand, Reading, Heeded, Restoring
        <4> QED BY <2>1, <3>1, <4>1 DEF Gap, Restoring
      <3> HIDE DEF st
      <3>3. w'.pc = "instances" /\ w'.st = st
        BY <2>1, <3>1, StepType
      <3> QED BY <2>1, <3>2, <3>3, Acting
    <2>3. CASE RestoreNothing \/ RestoreFromCluster \/ RestoreFromCloud
      <3>1. Return(st) \/ Return([st EXCEPT !.init = "true"])
        BY <2>3 DEF RestoreNothing, RestoreFromCluster, RestoreFromCloud
      <3> HIDE DEF st
      <3>2. [st EXCEPT !.init = "true"] \in Status /\ [st EXCEPT !.init = "true"].id = st.id
            /\ [st EXCEPT !.init = "true"].progress = st.progress
        BY <2>1 DEF Status
      <3>3. w'.pc = "save" /\ w'.st.id = st.id /\ w'.st.progress = st.progress
        BY <2>1, <3>1, <3>2, ReturnType
      <3>4. Restoring(w'.st) => Restoring(w.st)
        BY <2>1, <3>3 DEF Restoring
      <3> QED BY <2>1, <3>3, <3>4, Acting
    <2> QED BY <1>7, <2>2, <2>3
  <1>8. CASE CallFails
    <2>1. PICK st \in {w.st, ObserveRestoreEnv(w.st)} : Return(st)
      BY <1>8 DEF CallFails
    <2>2. st \in Status /\ st.id = w.st.id /\ (Restoring(st) => Restoring(w.st))
      BY <1>0, <2>1, ObserveType
    <2>3. w'.pc = "save" /\ w'.st = st /\ w.pc # "idle" /\ UNCHANGED <<spec, status>>
      BY <1>8, <2>1, <2>2, ReturnType DEF CallFails
    <2> QED BY <2>2, <2>3, Acting
  <1>9. CASE ReconcileInstances
    <2> DEFINE startup == IF w.obs.primary # None THEN None ELSE w.st.startup
               st == [w.st EXCEPT !.startup = startup]
    <2>1. st \in Status /\ st.id = w.st.id /\ st.progress = w.st.progress /\ st.init = w.st.init
      BY <1>0 DEF Status
    <2>2. Step("cleanup", st, None) /\ w.pc = "instances" /\ UNCHANGED <<spec, status>>
      BY <1>9 DEF ReconcileInstances
    <2> HIDE DEF st
    <2>3. w'.pc = "cleanup" /\ w'.st = st
      BY <2>1, <2>2, StepType
    <2>4. ~Gap(w.st)
      BY <2>2 DEF KnowledgeInv, Starting
    <2> QED BY <2>1, <2>2, <2>3, <2>4, Acting DEF Gap, Restoring
  <1>10. CASE Cleanup
    <2>1. w'.pc = "save" /\ w'.st = w.st /\ w.pc = "cleanup" /\ UNCHANGED <<spec, status>>
      BY <1>0, <1>10, ReturnType DEF Cleanup
    <2> QED BY <2>1, Acting
  <1>11. ASSUME NEW r, Move(r) PROVE UNCHANGED <<spec, status, w>>
    BY <1>11 DEF Move, MovePGDataDir, MoveWALDir, MoveRepoDir, EndMove
  <1> HIDE DEF Goal
  <1> QED
    BY <1>1, <1>2, <1>3, <1>4, <1>5, <1>6, <1>7, <1>8, <1>9, <1>10, <1>11
       DEF Next, vars, Reconcile, Kubernetes, Patroni, Failure, CopyFile, CreatePod, StartContainer,
           DeletePod, RestartContainer, StartRestore, FinishRestore, FailRestore, WriteEndpoints,
           BecomeLeader, Bootstrap, Follow

-----------------------------------------------------------------------------
\* What stands between a restore and the instances of the old cluster.

\* Nothing of Postgres runs, will run or is on record.
Quiet ==
    dcs = "none" /\ \A i \in Instances : pod[i] = "none" /\ runner[i] \notin {"up", "deleting"}

Pending(st) == st.progress # "none" /\ st.init # "true"

\* The Job has not restored anything; restored data waits to be bootstrapped; an
\* instance must not start.
Unfinished == job.state \in {"active", "restoring", "failed"}
Waiting(i) == disk[i].boot.kind = "restored"
Dirty == Unfinished \/ \E i \in Instances : Waiting(i) /\ disk[i].data # Nothing

\* Once a restore is over the data is initialized.
Settled ==
    /\ status.id # 0 /\ status.progress = "none" => status.init = "true"
    /\ w.pc # "idle" /\ w.st.id # 0 /\ w.st.progress = "none" => w.st.init = "true"

\* While an instance must not start nothing runs, and no reconcile will start it.
DirtyIsQuiet ==
    Dirty => /\ Quiet /\ job.state # "complete" /\ Pending(status)
             /\ w.pc # "idle" => Pending(w.st)
             /\ ~Starting

\* A cluster that is ready and not quiet has been bootstrapped, and a reconcile that
\* might create a Job knows.
ReadyIsQuiet ==
    Gap(status) /\ RestoreID(Heeded) = status.id /\ ~Quiet /\ job.state # "complete" =>
        job = NoJob /\ dcs = "initialized" /\ (w.pc = "source" => w.st.bootstrapped)

\* Instances start because the Job is complete, which the status may not say yet.
StartedByJob == Starting /\ Gap(status) => job.state = "complete"

\* A cluster that is ready and bootstrapped has been bootstrapped since.
BootstrappedSince ==
    /\ Gap(status) /\ RestoreID(Heeded) = status.id =>
         /\ status.bootstrapped => dcs = "initialized"
         /\ w.pc \notin {"idle", "save"} /\ w.st.bootstrapped => dcs = "initialized"
    /\ w.pc = "save" /\ Gap(w.st) /\ w.st.bootstrapped /\ RestoreID(spec) = w.st.id =>
         dcs = "initialized"

\* A reconcile that found the cluster ready for a new restore found it quiet.
FoundQuiet ==
    w.pc = "save" /\ Gap(w.st) =>
        \/ Quiet /\ ~w.st.bootstrapped
        \/ Gap(status) /\ w.st.id = status.id

\* The Job is that of the startup instance, and no primary has been seen.
JobInstance ==
    Unfinished => /\ job.inst \in Instances /\ status.startup = job.inst
                  /\ w.pc # "idle" => w.st.startup = job.inst /\ w.obs.primary = None

StartupKnown ==
    /\ Gap(status) => status.startup # None
    /\ w.pc # "idle" /\ Gap(w.st) => w.st.startup # None

\* Where restored data waits no other instance runs or will run.
WaitingAlone ==
    \A i \in Instances : Waiting(i) =>
        /\ leader = None /\ dcs # "initialized" /\ status.startup = i
        /\ w.pc # "idle" => w.st.startup = i /\ w.obs.primary = None
        /\ \A j \in Instances \ {i} : runner[j] # "up" /\ pod[j] = "none"

RestoreInv ==
    /\ Settled /\ DirtyIsQuiet /\ ReadyIsQuiet /\ StartedByJob /\ BootstrappedSince
    /\ FoundQuiet /\ JobInstance /\ StartupKnown /\ WaitingAlone

LEMMA RestoreInit == Init => RestoreInv
  <1> SUFFICES ASSUME Init PROVE RestoreInv
    OBVIOUS
  <1>1. /\ status.id = 0 /\ status.progress = "none" /\ w.pc = "idle" /\ job.state = "absent"
        /\ \A i \in Instances : disk[i].boot = Nothing
    BY DEF Init, NoStatus, Idle, NoJob
  <1>2. ~Dirty /\ ~Unfinished /\ \A i \in Instances : ~Waiting(i)
    BY <1>1 DEF Dirty, Unfinished, Waiting, Nothing
  <1> QED BY <1>1, <1>2
          DEF RestoreInv, Settled, DirtyIsQuiet, ReadyIsQuiet, StartedByJob, BootstrappedSince,
              FoundQuiet, JobInstance, StartupKnown, WaitingAlone, Gap, Starting

\* What is quiet stays so unless a reconcile starts the instances.
LEMMA QuietNext ==
    ASSUME Types, [Next]_vars, Quiet, ~ReconcileInstances
    PROVE  Quiet'
  <1>1. ASSUME NEW i \in Instances PROVE pod'[i] = "none" /\ runner'[i] \notin {"up", "deleting"}
    BY RunnerSteps DEF Quiet
  <1>2. dcs' = "none"
    <2>1. ~WriteEndpoints /\ \A i \in Instances : ~Bootstrap(i)
      BY DEF WriteEndpoints, Bootstrap, Quiet
    <2>2. ASSUME NEW r, Move(r) PROVE dcs' = dcs
      BY <2>2 DEF Move, MovePGDataDir, MoveWALDir, MoveRepoDir, EndMove
    <2>3. User => dcs' = dcs
      BY UserSpec DEF Types
    <2> QED
      BY <2>1, <2>2, <2>3
         DEF Quiet, Next, vars, Reconcile, Kubernetes, Patroni, Failure, Begin, Observe,
             RemoveRestoreJob, RemoveRunners, RemoveEndpoints, ReadyForRestore, DataSourceDone,
             RestoreNothing, CopyFile, RestoreFromCluster, RestoreFromCloud, Cleanup, PatchStatus, CreatePod,
             StartContainer, DeletePod, RestartContainer, StartRestore, FinishRestore, FailRestore,
             BecomeLeader, Follow, CallFails, Crash
  <1> QED BY <1>1, <1>2 DEF Quiet

\* A reconcile that ends has served the spec it read as well as the one there is now.
LEMMA StillAsked ==
    ASSUME Types, KnowledgeInv, Restoring(status), RestoreID(spec) = status.id
    PROVE  RestoreID(Heeded) = status.id
  <1>1. CASE Reading
    <2>1. w.spec \in Spec_ /\ spec \in Spec_ /\ Heeded = w.spec
      BY <1>1 DEF Reading, Types, Heeded
    <2> QED BY <1>1, <2>1, RestoreIDs DEF KnowledgeInv, SpecMoved, IdsOrdered, Older, Restoring
  <1>2. CASE ~Reading
    BY <1>2 DEF Heeded
  <1> QED BY <1>1, <1>2

\* A cluster that is ready is prepared again only because the options of the Job changed.
LEMMA PreparedAgain ==
    ASSUME Types, KnowledgeInv, Gap(status), RestoreID(Heeded) = status.id, MustPrepare
    PROVE  job # NoJob /\ job.state # "complete"
  <1>1. w.st \in Status /\ w.pc = "source" /\ Heeded = w.spec
        /\ w.st.progress = "ready" /\ w.st.id = status.id
    BY DEF MustPrepare, Types, Work, KnowledgeInv, StatusInHand, Reading, Heeded, Gap
  <1>2. PrepareNeeded(ObserveRestoreEnv(w.st)) /\ RestoreID(w.spec) = w.st.id
    BY <1>1 DEF MustPrepare
  <1>3. ObserveRestoreEnv(w.st).id = w.st.id
    BY <1>1, ObserveType
  <1>4. Restoring(ObserveRestoreEnv(w.st)) /\ (ObserveRestoreEnv(w.st).progress # "ready" \/ job # NoJob)
    BY <1>2, <1>3 DEF PrepareNeeded
  <1> QED BY <1>1, <1>4 DEF ObserveRestoreEnv, Restoring, Status

\* What observeRestoreEnv makes of a restore that is pending.
LEMMA ObservedPending ==
    ASSUME Types, RestoreInv, w.pc # "idle"
    PROVE  /\ Gap(ObserveRestoreEnv(w.st)) => Gap(w.st)
           /\ Pending(w.st) /\ job.state # "complete" => Pending(ObserveRestoreEnv(w.st))
           /\ ObserveRestoreEnv(w.st).init = "true" => job.state = "complete" \/ w.st.init = "true"
           /\ ObserveRestoreEnv(w.st).id # 0 /\ ObserveRestoreEnv(w.st).progress = "none"
                => ObserveRestoreEnv(w.st).init = "true"
  <1>1. w.st \in Status
    BY DEF Types, Work
  <1>2. job.state = "failed" => Pending(w.st)
    BY DEF RestoreInv, DirtyIsQuiet, Dirty, Unfinished
  <1> QED BY <1>1, <1>2 DEF ObserveRestoreEnv, Gap, Pending, Status, RestoreInv, Settled

\* A reconcile that wants to restore has the restore that the cluster is ready for.
LEMMA RestoreReady ==
    ASSUME Types, KnowledgeInv, RestoreInv, MustRestore
    PROVE  /\ Gap(status) /\ RestoreID(Heeded) = status.id /\ job.state # "complete"
           /\ Heeded = w.spec /\ w.pc = "source"
  <1>1. w.st \in Status /\ w.pc = "source" /\ Heeded = w.spec
        /\ w.st.progress = status.progress /\ w.st.id = status.id /\ w.st.init = status.init
    BY DEF MustRestore, Types, Work, KnowledgeInv, StatusInHand, Reading, Heeded
  <1>2. ~PrepareNeeded(ObserveRestoreEnv(w.st)) /\ RestoreID(w.spec) # 0
        /\ ObserveRestoreEnv(w.st).init # "true"
    BY <1>1 DEF MustRestore, MustPrepare
  <1>3. ObserveRestoreEnv(w.st).id = w.st.id
    BY <1>1, ObserveType
  <1>4. RestoreID(w.spec) = w.st.id
        /\ (Restoring(ObserveRestoreEnv(w.st)) => ObserveRestoreEnv(w.st).progress = "ready")
    BY <1>2, <1>3 DEF PrepareNeeded
  <1>5. job.state # "complete"
    BY <1>1, <1>2 DEF ObserveRestoreEnv, Status
  <1>6. ObserveRestoreEnv(w.st).progress = w.st.progress
    BY <1>1, <1>5 DEF ObserveRestoreEnv, Status
  <1>7. w.st.progress = "ready"
    BY <1>1, <1>2, <1>3, <1>4, <1>6, ObservedPending DEF Restoring
  <1>8. w.st.init # "true"
    <2>1. CASE job.state = "failed"
      BY <1>1, <2>1 DEF RestoreInv, DirtyIsQuiet, Dirty, Unfinished, Pending
    <2>2. CASE job.state # "failed"
      BY <1>2, <1>5, <2>2 DEF ObserveRestoreEnv
    <2> QED BY <2>1, <2>2
  <1> QED BY <1>1, <1>4, <1>5, <1>7, <1>8 DEF Gap

\* Steps of Kubernetes, Patroni and the Jobs that move directories.
LEMMA Environment ==
    ASSUME Types, Types', KnowledgeInv, RestoreInv, [Next]_vars, ~ReconcileInstances,
           UNCHANGED <<spec, status, w, job>>,
           dcs = "initialized" => dcs' = "initialized",
           Dirty' => Dirty,
           \A i \in Instances :
             disk'[i].boot.kind = "restored" => Waiting(i) /\ leader' = None /\ dcs' # "initialized"
    PROVE  RestoreInv'
  <1>1. Quiet => Quiet'
    BY QuietNext
  <1>2. Settled' /\ StartedByJob' /\ JobInstance' /\ StartupKnown' /\ DirtyIsQuiet'
    BY <1>1 DEF RestoreInv, Settled, StartedByJob, JobInstance, StartupKnown, DirtyIsQuiet, Unfinished,
                Starting, Gap, Pending
  <1>3. RestoreID(Heeded)' = RestoreID(Heeded) /\ RestoreID(spec)' = RestoreID(spec) /\ BootstrapID' = BootstrapID
    BY DEF Heeded, Reading, RestoreID, RestoreInPlace, BootstrapID
  <1>4. ReadyIsQuiet' /\ BootstrappedSince' /\ FoundQuiet'
    BY <1>1, <1>3 DEF RestoreInv, ReadyIsQuiet, BootstrappedSince, FoundQuiet, Gap
  <1>5. WaitingAlone'
    <2>1. ASSUME NEW i \in Instances, disk'[i].boot.kind = "restored"
          PROVE  /\ leader' = None /\ dcs' # "initialized" /\ status'.startup = i
                 /\ w'.pc # "idle" => w'.st.startup = i /\ w'.obs.primary = None
                 /\ \A j \in Instances \ {i} : runner'[j] # "up" /\ pod'[j] = "none"
      BY <2>1, RunnerSteps DEF RestoreInv, WaitingAlone
    <2> QED BY <2>1 DEF WaitingAlone, Waiting
  <1> QED BY <1>2, <1>4, <1>5 DEF RestoreInv

LEMMA RestoreEnvironment ==
    ASSUME Types, Types', KnowledgeInv, RestoreInv, [Next]_vars,
           \/ \E i \in Instances : \/ CreatePod(i) \/ StartContainer(i) \/ DeletePod(i)
                                   \/ RestartContainer(i) \/ BecomeLeader(i) \/ Bootstrap(i)
                                   \/ Follow(i)
           \/ WriteEndpoints
           \/ Move("complete") \/ Move("failed")
           \/ CopyFile \/ UNCHANGED vars
    PROVE  RestoreInv'
  <1>0. ASSUME NEW i \in Instances, Waiting(i)
        PROVE  /\ leader = None /\ dcs # "initialized"
               /\ \A j \in Instances : pod[j] = "running" => j = i /\ disk[i].data = Nothing
    BY <1>0 DEF RestoreInv, WaitingAlone, DirtyIsQuiet, Dirty, Quiet
  <1>1. /\ UNCHANGED <<spec, status, w, job>>
        /\ dcs = "initialized" => dcs' = "initialized"
    <2>1. ASSUME NEW r, Move(r) PROVE UNCHANGED <<spec, status, w, job, dcs>>
      BY <2>1 DEF Move, MovePGDataDir, MoveWALDir, MoveRepoDir, EndMove
    <2> QED BY <2>1 DEF CreatePod, StartContainer, DeletePod, RestartContainer, BecomeLeader, Bootstrap,
                        Follow, WriteEndpoints, CopyFile, vars
  <1>2. ~ReconcileInstances
    BY <1>1 DEF ReconcileInstances, Step, Idle
  <1>3. ASSUME NEW i \in Instances, disk'[i].boot.kind = "restored"
        PROVE  /\ Waiting(i) /\ leader' = None /\ dcs' # "initialized" /\ disk'[i].data = disk[i].data
    <2>1. CASE \E j \in Instances : \/ CreatePod(j) \/ StartContainer(j) \/ DeletePod(j)
                                   \/ RestartContainer(j) \/ BecomeLeader(j)
      <3>1. Waiting(i) /\ disk' = disk
        BY <1>3, <2>1 DEF CreatePod, StartContainer, DeletePod, RestartContainer, BecomeLeader, Waiting
      <3> QED BY <1>0, <2>1, <3>1
              DEF CreatePod, StartContainer, DeletePod, RestartContainer, BecomeLeader
    <2>2. ASSUME NEW j \in Instances, Bootstrap(j)
          PROVE  /\ Waiting(i) /\ leader' = None /\ dcs' # "initialized" /\ disk'[i].data = disk[i].data
      <3>1. i # j => disk'[i] = disk[i]
        BY <2>2 DEF Bootstrap, Types
      <3>2. disk'[j].boot = IF disk[j].data = Nothing THEN Nothing ELSE disk[j].boot
        BY <2>2 DEF Bootstrap, Types
      <3>3. Waiting(i) /\ (i = j => disk[i].data # Nothing)
        BY <1>3, <3>1, <3>2 DEF Waiting, Nothing
      <3> QED BY <1>0, <2>2, <3>3 DEF Bootstrap
    <2>3. ASSUME NEW j \in Instances, Follow(j)
          PROVE  /\ Waiting(i) /\ leader' = None /\ dcs' # "initialized" /\ disk'[i].data = disk[i].data
      <3>1. disk'[i].boot = disk[i].boot /\ leader # None
        BY <2>3 DEF Follow, Types
      <3> QED BY <1>0, <1>3, <3>1 DEF Waiting
    <2>4. CASE WriteEndpoints \/ CopyFile \/ UNCHANGED vars
      BY <1>0, <1>3, <2>4 DEF WriteEndpoints, CopyFile, vars, Waiting
    <2>5. ASSUME NEW r, Move(r)
          PROVE  /\ Waiting(i) /\ leader' = None /\ dcs' # "initialized" /\ disk'[i].data = disk[i].data
      <3>1. UNCHANGED <<leader, dcs>>
        BY <2>5 DEF Move, MovePGDataDir, MoveWALDir, MoveRepoDir, EndMove
      <3>2. disk'[i] = disk[i] \/ disk'[i].boot = Original
        BY <2>5 DEF Move, MovePGDataDir, MoveWALDir, MoveRepoDir, Types
      <3>3. disk'[i] = disk[i]
        BY <1>3, <3>2 DEF Original
      <3> QED BY <1>0, <1>3, <3>1, <3>3 DEF Waiting
    <2> QED BY <2>1, <2>2, <2>3, <2>4, <2>5
  <1>4. Dirty' => Dirty
    BY <1>1, <1>3 DEF Dirty, Unfinished, Waiting, Nothing, NoKey
  <1> QED BY <1>1, <1>2, <1>3, <1>4, Environment

\* Steps of the restore Job.
LEMMA RestoreJobRuns ==
    ASSUME Types, Types', KnowledgeInv, KnowledgeInv', RestoreInv, [Next]_vars,
           StartRestore \/ FinishRestore \/ FailRestore
    PROVE  RestoreInv'
  <1>0. /\ UNCHANGED <<spec, status, w, runner, pod, leader, dcs>>
        /\ job.state \in {"active", "restoring"} /\ job'.inst = job.inst /\ job'.state # "absent"
    BY DEF StartRestore, FinishRestore, FailRestore, Types, Job
  <1>1. /\ Dirty /\ Unfinished /\ Quiet /\ Quiet' /\ job.inst \in Instances /\ leader = None
        /\ Pending(status) /\ (w.pc # "idle" => Pending(w.st)) /\ ~Starting
        /\ status.startup = job.inst
        /\ w.pc # "idle" => w.st.startup = job.inst /\ w.obs.primary = None
    BY <1>0 DEF RestoreInv, DirtyIsQuiet, JobInstance, Dirty, Unfinished, Quiet, KnowledgeInv,
                LeaderRunning, Types
  <1>2. \A i \in Instances : Waiting(i) => i = job.inst
    BY <1>1 DEF RestoreInv, WaitingAlone
  <1>3. ASSUME NEW i \in Instances, disk'[i].boot.kind = "restored"
        PROVE  i = job.inst
    <2>1. i # job.inst => disk'[i] = disk[i]
      BY DEF StartRestore, FinishRestore, FailRestore, Types
    <2> QED BY <1>2, <1>3, <2>1 DEF Waiting
  <1>4. Settled' /\ StartupKnown'
    BY <1>0 DEF RestoreInv, Settled, StartupKnown, Gap
  <1>5. ReadyIsQuiet' /\ FoundQuiet'
    BY <1>0, <1>1 DEF RestoreInv, ReadyIsQuiet, FoundQuiet, Gap
  <1>6. BootstrappedSince'
    BY <1>0 DEF RestoreInv, BootstrappedSince, Gap, Heeded, Reading, RestoreID, RestoreInPlace, BootstrapID
  <1>7. JobInstance' /\ StartedByJob'
    BY <1>0, <1>1 DEF JobInstance, StartedByJob, Starting
  <1>8. WaitingAlone'
    BY <1>0, <1>1, <1>3 DEF WaitingAlone, Waiting, Quiet
  <1>9. DirtyIsQuiet'
    <2>1. CASE StartRestore \/ FailRestore
      <3>1. job'.state # "complete"
        BY <2>1 DEF StartRestore, FailRestore, Types, Job
      <3> QED BY <1>0, <1>1, <3>1 DEF DirtyIsQuiet, Pending, Starting
    <2>2. CASE FinishRestore
      <3>1. job'.state = "complete" /\ disk'[job.inst].data = Nothing
        BY <1>1, <2>2 DEF FinishRestore, Types, Job
      <3>2. ~Dirty'
        BY <1>3, <3>1 DEF Dirty, Unfinished, Waiting, Nothing, NoKey
      <3> QED BY <3>2 DEF DirtyIsQuiet
    <2> QED BY <2>1, <2>2
  <1> QED BY <1>4, <1>5, <1>6, <1>7, <1>8, <1>9 DEF RestoreInv

\* A user's step.
LEMMA RestoreUser ==
    ASSUME Types, Types', KnowledgeInv, RestoreInv, User
    PROVE  RestoreInv'
  <1>1. /\ spec \in Spec_ /\ spec' \in Spec_ /\ spec'.source = spec.source
        /\ \/ spec'.id = spec.id + 1 /\ spec'.enabled
           \/ spec'.id = spec.id /\ spec'.enabled = spec.enabled
           \/ /\ spec'.id = spec.id /\ ~spec'.enabled /\ RestoreInPlace(spec)
              /\ status.id = spec.id /\ status.init = "true" /\ status.progress = "none"
        /\ UNCHANGED <<status, job, runner, pod, leader, dcs, disk, w>>
    BY UserSpec DEF Types
  <1>2. /\ Quiet' = Quiet /\ Unfinished' = Unfinished /\ Dirty' = Dirty /\ Starting' = Starting
    BY <1>1 DEF Quiet, Unfinished, Dirty, Waiting, Starting
  <1>3. Settled' /\ DirtyIsQuiet' /\ StartedByJob' /\ JobInstance' /\ StartupKnown' /\ WaitingAlone'
    BY <1>1, <1>2 DEF RestoreInv, Settled, DirtyIsQuiet, StartedByJob, JobInstance, StartupKnown, WaitingAlone,
                Waiting, Gap, Pending
  <1>4. FoundQuiet'
    BY <1>1, <1>2 DEF RestoreInv, FoundQuiet, Gap
  <1>5. ASSUME NEW id \in 0..BootstrapID, Older(id, spec), Restoring(status), RestoreID(spec') = id
        PROVE  RestoreID(spec) = id
    BY <1>1, <1>5, RestoreIDs DEF Older, Restoring
  <1>6. Older(status.id, spec) /\ status.id \in 0..BootstrapID
        /\ (w.pc # "idle" => Older(w.st.id, spec)) /\ w.st.id \in 0..BootstrapID
    BY DEF KnowledgeInv, IdsOrdered, Types, Status, Work
  <1>7. Gap(status) /\ RestoreID(Heeded)' = status.id => RestoreID(Heeded) = status.id
    <2>1. CASE Reading
      BY <1>1, <2>1 DEF Heeded, Reading, RestoreID, RestoreInPlace, BootstrapID
    <2>2. CASE ~Reading
      <3>1. Heeded = spec /\ RestoreID(Heeded)' = RestoreID(spec')
        BY <1>1, <2>2 DEF Heeded, Reading, RestoreID, RestoreInPlace, BootstrapID
      <3> QED BY <1>5, <1>6, <3>1 DEF Gap, Restoring
    <2> QED BY <2>1, <2>2
  <1>8. ReadyIsQuiet'
    BY <1>1, <1>2, <1>7 DEF RestoreInv, ReadyIsQuiet, Gap
  <1>9. BootstrappedSince'
    <2>1. w.pc = "save" /\ Gap(w.st) /\ w.st.bootstrapped /\ RestoreID(spec') = w.st.id =>
            RestoreID(spec) = w.st.id
      BY <1>5, <1>6 DEF RestoreInv, FoundQuiet, Gap, Restoring
    <2>2. RestoreID(spec)' = RestoreID(spec')
      BY DEF RestoreID, RestoreInPlace, BootstrapID
    <2> QED BY <1>1, <1>7, <2>1, <2>2 DEF RestoreInv, BootstrappedSince, Gap
  <1> QED BY <1>3, <1>4, <1>8, <1>9 DEF RestoreInv

\* A reconcile that has read what it needs: it prepares the restore, creates the Job, or
\* goes on to the instances.
LEMMA Continues ==
    ASSUME Types, Types', KnowledgeInv, RestoreInv, [Next]_vars,
           UNCHANGED <<spec, status, disk, leader, pod>>,
           w.pc \notin {"idle", "save"}, w'.pc \in {"save", "instances"},
           dcs' = dcs \/ (MustPrepare /\ job = NoJob /\ dcs' = "none"),
           \/ job' = job
           \/ MustPrepare /\ job' = NoJob
           \/ /\ MustRestore /\ job = NoJob /\ Quiet /\ w.st.startup # None
              /\ job'.state = "active" /\ job'.inst = w.st.startup /\ w'.pc = "save",
           w'.obs.primary \in {None, w.obs.primary}, w'.pc = "save" => w'.obs.primary = None,
           w.st.startup # None => w'.st.startup = w.st.startup,
           w'.st.id # 0 /\ w'.st.progress = "none" => w'.st.init = "true",
           Gap(w'.st) => w'.st.startup # None,
           Dirty' => w'.pc = "save" /\ Pending(w'.st),
           w'.pc = "save" /\ Gap(w'.st) =>
             \/ Quiet /\ ~w'.st.bootstrapped
             \/ /\ Gap(w.st) /\ w'.st.id = w.st.id /\ w'.st.bootstrapped = w.st.bootstrapped,
           w'.pc = "instances" => /\ Gap(status) => job'.state = "complete"
                                  /\ w'.st.bootstrapped = w.st.bootstrapped
    PROVE  RestoreInv'
  <1>1. Quiet => Quiet'
    <2>1. ~ReconcileInstances
      BY DEF ReconcileInstances, Step, Idle
    <2> QED BY <2>1, QuietNext
  <1>2. Heeded' = spec /\ RestoreID(Heeded)' = RestoreID(spec) /\ RestoreID(spec)' = RestoreID(spec)
    BY DEF Heeded, Reading, RestoreID, RestoreInPlace, BootstrapID
  <1>3. Gap(w.st) => Gap(status) /\ status.id = w.st.id
    BY DEF KnowledgeInv, StatusInHand, Reading, Starting, Gap, Types, Work, PCs
  <1>4. Gap(status) /\ RestoreID(spec) = status.id => RestoreID(Heeded) = status.id
    BY StillAsked DEF Gap, Restoring
  <1>5. Gap(status) /\ RestoreID(Heeded) = status.id => dcs' = dcs
    BY PreparedAgain
  <1>6. MustRestore => Gap(status) /\ status.startup # None /\ Reading
    BY RestoreReady DEF RestoreInv, StartupKnown, Reading
  <1>7. Settled' /\ StartupKnown' /\ StartedByJob'
    BY DEF RestoreInv, Settled, StartupKnown, StartedByJob, Starting, Gap
  <1>8. FoundQuiet'
    BY <1>1, <1>3 DEF FoundQuiet, Gap
  <1>9. DirtyIsQuiet'
    <2> SUFFICES ASSUME Dirty' PROVE Quiet' /\ job'.state # "complete" /\ Pending(status)
      BY DEF DirtyIsQuiet, Starting, Pending
    <2>1. CASE MustRestore /\ Quiet /\ job'.state = "active"
      BY <1>1, <1>6, <2>1 DEF Gap, Pending
    <2>2. CASE job' = job \/ job' = NoJob
      <3>1. Dirty
        BY <2>2 DEF Dirty, Unfinished, Waiting, NoJob
      <3> QED BY <1>1, <2>2, <3>1 DEF RestoreInv, DirtyIsQuiet, NoJob
    <2> QED BY <2>1, <2>2
  <1>10. ReadyIsQuiet'
    <2> SUFFICES ASSUME Gap(status), RestoreID(spec) = status.id, ~Quiet', job'.state # "complete"
                 PROVE  job' = NoJob /\ dcs' = "initialized"
      BY <1>2 DEF ReadyIsQuiet, Gap
    <2>1. RestoreID(Heeded) = status.id /\ ~Quiet /\ dcs' = dcs
      BY <1>1, <1>4, <1>5
    <2>2. MustPrepare => job # NoJob /\ job.state # "complete"
      BY <2>1, PreparedAgain
    <2>3. ~MustPrepare
      BY <2>1, <2>2 DEF RestoreInv, ReadyIsQuiet
    <2>4. job' = job
      BY <2>1, <2>3
    <2> QED BY <2>1, <2>4 DEF RestoreInv, ReadyIsQuiet
  <1>11. BootstrappedSince'
    <2>1. Gap(status) /\ RestoreID(spec) = status.id =>
            /\ dcs' = dcs
            /\ status.bootstrapped \/ w.st.bootstrapped => dcs = "initialized"
      BY <1>4, <1>5 DEF RestoreInv, BootstrappedSince
    <2> QED BY <1>2, <1>3, <2>1 DEF BootstrappedSince, Gap
  <1>12. JobInstance'
    <2>1. CASE MustRestore /\ w.st.startup # None /\ job'.inst = w.st.startup /\ w'.pc = "save"
      BY <1>6, <2>1 DEF JobInstance, KnowledgeInv, StatusInHand, Types, Work, Status
    <2>2. CASE job' = job \/ job' = NoJob
      BY <2>2, RestoreAssumption DEF RestoreInv, JobInstance, Unfinished, NoJob
    <2> QED BY <2>1, <2>2
  <1>13. WaitingAlone'
    <2>1. ASSUME NEW i \in Instances, Waiting(i)
          PROVE  /\ leader' = None /\ dcs' # "initialized" /\ status'.startup = i
                 /\ w'.st.startup = i /\ w'.obs.primary = None
                 /\ \A j \in Instances \ {i} : runner'[j] # "up" /\ pod'[j] = "none"
      <3>1. ~ReconcileInstances
        BY DEF ReconcileInstances, Step, Idle
      <3> QED BY <2>1, <3>1, RunnerSteps, RestoreAssumption DEF RestoreInv, WaitingAlone
    <2> QED BY <2>1 DEF WaitingAlone, Waiting
  <1> QED BY <1>7, <1>8, <1>9, <1>10, <1>11, <1>12, <1>13 DEF RestoreInv

LEMMA RestorePrepares ==
    ASSUME Types, Types', KnowledgeInv, RestoreInv, [Next]_vars, ~leftover',
           RemoveRestoreJob \/ RemoveRunners \/ RemoveEndpoints \/ ReadyForRestore
    PROVE  RestoreInv'
  <1>1. MustPrepare /\ w.pc = "source" /\ UNCHANGED <<spec, status, disk, leader, pod>>
    BY DEF RemoveRestoreJob, RemoveRunners, RemoveEndpoints, ReadyForRestore, MustPrepare
  <1>2. /\ dcs' = dcs \/ (job = NoJob /\ dcs' = "none")
        /\ job' = job \/ job' = NoJob
    BY DEF RemoveRestoreJob, RemoveRunners, RemoveEndpoints, ReadyForRestore
  <1>3. Dirty' => Dirty
    BY <1>1, <1>2 DEF Dirty, Unfinished, Waiting, NoJob
  <1>4. Dirty => Pending(ObserveRestoreEnv(w.st))
    BY <1>1, ObservedPending DEF RestoreInv, DirtyIsQuiet
  <1>5. ASSUME NEW i \in StartupInstances(w.st), NEW p \in {"requested", "ready"}
        PROVE  /\ Prepared(i, p) \in Status /\ Prepared(i, p).startup = i
               /\ Prepared(i, p).progress = p /\ i # None
               /\ Prepared(i, p).init = ObserveRestoreEnv(w.st).init
               /\ w.st.startup # None => i = w.st.startup
    <2>1. i \in Instances /\ ObserveRestoreEnv(w.st) \in Status
      BY <1>1, StartupType, ObserveType DEF Types, Work
    <2>2. Prepared(i, p).init = ObserveRestoreEnv(w.st).init
      BY <2>1 DEF Prepared, Status
    <2> QED BY <1>1, <2>1, <2>2, PreparedType, RestoreAssumption DEF StartupInstances
  <1>6. CASE RemoveRestoreJob \/ RemoveRunners \/ RemoveEndpoints
    <2>1. PICK i \in StartupInstances(w.st) : Return(Prepared(i, "requested"))
      BY <1>6 DEF RemoveRestoreJob, RemoveRunners, RemoveEndpoints
    <2>2. w'.pc = "save" /\ w'.obs.primary = None /\ w'.st = Prepared(i, "requested")
      BY <1>5, <2>1, ReturnType
    <2>3. ~Gap(w'.st) /\ w'.st.progress # "none" /\ w'.st.startup = i
          /\ (w.st.startup # None => i = w.st.startup)
          /\ w'.st.init = ObserveRestoreEnv(w.st).init
      BY <1>5, <2>1, <2>2 DEF Gap
    <2>4. Dirty' => Pending(w'.st)
      BY <1>3, <1>4, <2>3 DEF Pending
    <2> QED BY <1>1, <1>2, <2>2, <2>3, <2>4, Continues
  <1>7. CASE ReadyForRestore
    <2>1. PICK i \in StartupInstances(w.st) :
            Return([Prepared(i, "ready") EXCEPT !.init = "none", !.bootstrapped = FALSE])
      BY <1>7 DEF ReadyForRestore
    <2>0. Prepared(i, "ready") \in Status /\ Prepared(i, "ready").startup = i
          /\ Prepared(i, "ready").progress = "ready" /\ i # None
          /\ (w.st.startup # None => i = w.st.startup)
      BY <1>5, <2>1
    <2> DEFINE st == [Prepared(i, "ready") EXCEPT !.init = "none", !.bootstrapped = FALSE]
    <2>2. /\ st \in Status /\ ~st.bootstrapped /\ st.init = "none" /\ st.progress = "ready" /\ st.startup = i
          /\ i # None /\ (w.st.startup # None => i = w.st.startup)
      BY <2>0 DEF Status
    <2> HIDE DEF st
    <2>3. Return(st)
      BY <2>1 DEF st
    <2>4. w'.pc = "save" /\ w'.obs.primary = None /\ w'.st = st
      BY <2>2, <2>3, ReturnType
    <2>5. Quiet
      BY <1>7 DEF ReadyForRestore, Quiet
    <2> QED BY <1>1, <1>2, <2>2, <2>4, <2>5, Continues DEF Pending
  <1> QED BY <1>6, <1>7

LEMMA RestoreContinues ==
    ASSUME Types, Types', KnowledgeInv, RestoreInv, [Next]_vars,
           DataSourceDone \/ RestoreNothing \/ RestoreFromCluster \/ RestoreFromCloud \/ CallFails
    PROVE  RestoreInv'
  <1> DEFINE st == ObserveRestoreEnv(w.st)
  <1>1. /\ w.pc \notin {"idle", "save"} /\ UNCHANGED <<spec, status, disk, leader, pod, dcs, runner>>
        /\ CallFails \/ w.pc = "source"
    BY DEF DataSourceDone, RestoreNothing, RestoreFromCluster, MustRestoreFromCluster, RestoreFromCloud, MustRestore, CallFails
  <1>2. /\ st \in Status /\ st.id = w.st.id /\ st.startup = w.st.startup
        /\ st.bootstrapped = w.st.bootstrapped /\ w.st \in Status
    BY ObserveType DEF Types, Work
  <1>3. /\ Gap(st) => Gap(w.st)
        /\ Pending(w.st) /\ job.state # "complete" => Pending(st)
        /\ st.init = "true" => job.state = "complete" \/ w.st.init = "true"
        /\ st.id # 0 /\ st.progress = "none" => st.init = "true"
    BY <1>1, ObservedPending
  <1>4. Gap(w.st) => w.st.startup # None
    BY <1>1 DEF RestoreInv, StartupKnown
  <1>5. /\ w.st.id # 0 /\ w.st.progress = "none" => w.st.init = "true"
        /\ Dirty => Pending(w.st) /\ Pending(st) /\ Pending(status) /\ Quiet
    BY <1>1, <1>3 DEF RestoreInv, Settled, DirtyIsQuiet
  <1> HIDE DEF st
  <1>6. job' = job => Dirty' = Dirty
    BY <1>1 DEF Dirty, Unfinished, Waiting
  <1>7. CASE CallFails
    <2>1. PICK x \in {w.st, st} : Return(x)
      BY <1>7 DEF CallFails, st
    <2>2. w'.pc = "save" /\ w'.obs.primary = None /\ w'.st = x /\ job' = job
      BY <1>2, <1>7, <2>1, ReturnType DEF CallFails
    <2>3. Dirty' => Pending(w'.st)
      BY <1>5, <1>6, <2>1, <2>2
    <2>4. /\ w'.st.id # 0 /\ w'.st.progress = "none" => w'.st.init = "true"
          /\ Gap(w'.st) => w'.st.startup # None /\ Gap(w.st)
          /\ w'.st.id = w.st.id /\ w'.st.bootstrapped = w.st.bootstrapped /\ w'.st.startup = w.st.startup
      BY <1>2, <1>3, <1>4, <1>5, <2>1, <2>2
    <2> QED BY <1>1, <2>2, <2>3, <2>4, Continues
  <1>8. CASE DataSourceDone
    <2>1. Step("instances", st, w.obs.primary) /\ (RestoreID(w.spec) = 0 \/ st.init = "true")
          /\ w.obs.primary \in Instances \cup {None} /\ job' = job /\ w.pc = "source"
      BY <1>8 DEF DataSourceDone, st, Types, Work, Observed
    <2>2. w'.pc = "instances" /\ w'.obs.primary = w.obs.primary /\ w'.st = st
      BY <1>2, <2>1, StepType
    <2>3. /\ Restoring(status) => RestoreID(w.spec) # 0
          /\ w.st.init = status.init
      BY <2>1 DEF KnowledgeInv, RestoringRequested, StatusInHand, Heeded, Reading
    <2>4. Gap(status) => job'.state = "complete"
      BY <1>3, <2>1, <2>3 DEF Gap, Restoring
    <2>5. ~Dirty'
      BY <1>5, <1>6, <2>1, <2>3 DEF Pending, Restoring
    <2>6. Gap(w'.st) => w'.st.startup # None
      BY <1>2, <1>3, <1>4, <2>2
    <2> QED BY <1>1, <1>2, <1>3, <2>1, <2>2, <2>4, <2>5, <2>6, Continues
  <1>9. CASE RestoreNothing \/ RestoreFromCluster \/ RestoreFromCloud
    <2>1. MustRestore /\ Gap(status) /\ RestoreID(Heeded) = status.id /\ w.pc = "source"
      BY <1>9, RestoreReady DEF RestoreNothing, RestoreFromCluster, MustRestoreFromCluster, RestoreFromCloud
    <2>2. ~w.st.bootstrapped => Quiet \/ job.state = "complete"
      BY <2>1 DEF RestoreInv, ReadyIsQuiet
    <2>3. CASE Return(st)
      <3>1. w'.pc = "save" /\ w'.obs.primary = None /\ w'.st = st
        BY <1>2, <2>3, ReturnType
      <3>2. \/ job' = job
            \/ /\ job = NoJob /\ Quiet /\ w.st.startup # None
               /\ job'.state = "active" /\ job'.inst = w.st.startup
        <4>1. CASE RestoreNothing
          BY <4>1 DEF RestoreNothing
        <4>2. CASE RestoreFromCluster \/ RestoreFromCloud
          <5>1. st.startup # None /\ ~st.bootstrapped /\ (job' = job \/ ReconcileRestoreJob(st))
            BY <4>2 DEF RestoreFromCluster, MustRestoreFromCluster, RestoreFromCloud, st
          <5>2. job' = job \/ (job = NoJob /\ job' = RestoreJobIntent(st))
            BY <5>1 DEF ReconcileRestoreJob
          <5> QED BY <1>2, <2>2, <5>1, <5>2 DEF RestoreJobIntent, NoJob
        <4> QED BY <1>9, <4>1, <4>2
      <3>3. Dirty' => Pending(w'.st)
        <4>1. CASE job' = job
          BY <1>5, <1>6, <3>1, <4>1
        <4>2. CASE job = NoJob
          <5>1. Pending(w.st) /\ job.state # "complete"
            BY <2>1, <4>2 DEF NoJob, KnowledgeInv, StatusInHand, Reading, Gap, Pending
          <5> QED BY <1>3, <3>1, <5>1
        <4> QED BY <3>2, <4>1, <4>2
      <3> QED BY <1>1, <1>2, <1>3, <1>4, <2>1, <3>1, <3>2, <3>3, Continues
    <2>4. CASE st.bootstrapped /\ Return([st EXCEPT !.init = "true"]) /\ job' = job
      <3> DEFINE x == [st EXCEPT !.init = "true"]
      <3>1. x \in Status /\ x.id = st.id /\ x.init = "true" /\ x.startup = st.startup
        BY <1>2 DEF Status
      <3> HIDE DEF x
      <3>2. w'.pc = "save" /\ w'.obs.primary = None /\ w'.st = x
        BY <2>4, <3>1, ReturnType DEF x
      <3>3. dcs = "initialized"
        BY <1>2, <2>1, <2>4 DEF RestoreInv, BootstrappedSince
      <3>4. ~Dirty'
        BY <1>5, <1>6, <2>4, <3>3 DEF Quiet
      <3> QED BY <1>1, <1>2, <2>4, <3>1, <3>2, <3>4, Continues DEF Gap
    <2> QED BY <1>9, <2>3, <2>4 DEF RestoreNothing, RestoreFromCluster, RestoreFromCloud, st
  <1> QED BY <1>7, <1>8, <1>9

\* The instances start, or the restore is cleaned up after.
LEMMA RestoreStarts ==
    ASSUME Types, Types', KnowledgeInv, RestoreInv, [Next]_vars, ReconcileInstances \/ Cleanup
    PROVE  RestoreInv'
  <1> DEFINE startup == IF w.obs.primary # None THEN None ELSE w.st.startup
             st == IF w.pc = "instances" THEN [w.st EXCEPT !.startup = startup] ELSE w.st
  <1>1. /\ Starting /\ w.pc \in {"instances", "cleanup"} /\ UNCHANGED <<spec, status, disk, leader, pod, dcs>>
        /\ job' = job \/ (w.pc = "cleanup" /\ w.st.bootstrapped /\ job' = NoJob)
    BY DEF ReconcileInstances, Cleanup, Starting
  <1>2. w.st \in Status /\ startup \in Instances \cup {None}
    BY DEF Types, Work, Observed, Status
  <1>3. /\ st \in Status /\ st.id = w.st.id /\ st.progress = w.st.progress /\ st.init = w.st.init
        /\ st.bootstrapped = w.st.bootstrapped
        /\ w.obs.primary = None => st.startup = w.st.startup
    BY <1>2 DEF Status
  <1>4. Step(IF w.pc = "instances" THEN "cleanup" ELSE "save", st, None)
    BY DEF ReconcileInstances, Cleanup, Return
  <1> HIDE DEF st, startup
  <1>5. w'.pc \in {"cleanup", "save"} /\ (w'.pc = "cleanup" => w.pc = "instances")
        /\ w'.st = st /\ w'.obs.primary = None
    BY <1>1, <1>3, <1>4, StepType
  <1>6. ~Dirty /\ ~Dirty' /\ ~Gap(w.st) /\ ~Gap(w'.st)
    BY <1>1, <1>3, <1>5 DEF RestoreInv, DirtyIsQuiet, Dirty, Unfinished, Waiting, NoJob, KnowledgeInv, Gap
  <1>7. Heeded = spec /\ Heeded' = spec /\ RestoreID(Heeded)' = RestoreID(Heeded)
    BY <1>1, <1>5 DEF Heeded, Reading, RestoreID, RestoreInPlace, BootstrapID
  <1>8. Gap(status) => job.state = "complete"
    BY <1>1 DEF RestoreInv, StartedByJob
  <1>9. Settled' /\ StartupKnown' /\ DirtyIsQuiet' /\ FoundQuiet' /\ JobInstance' /\ StartedByJob'
    BY <1>1, <1>3, <1>5, <1>6, <1>8
       DEF RestoreInv, Settled, StartupKnown, DirtyIsQuiet, FoundQuiet, JobInstance, StartedByJob, Starting,
           Gap, Dirty
  <1>10. BootstrappedSince'
    BY <1>1, <1>3, <1>5, <1>6, <1>7 DEF RestoreInv, BootstrappedSince, Gap
  <1>11. ReadyIsQuiet'
    <2> SUFFICES ASSUME Gap(status), RestoreID(Heeded) = status.id, job'.state # "complete"
                 PROVE  job' = NoJob /\ dcs' = "initialized"
      BY <1>1, <1>5, <1>7 DEF ReadyIsQuiet, Gap
    <2>1. w.st.bootstrapped /\ job' = NoJob
      BY <1>1, <1>8
    <2> QED BY <1>1, <2>1 DEF RestoreInv, BootstrappedSince
  <1>12. WaitingAlone'
    <2>1. ASSUME NEW i \in Instances, Waiting(i)
          PROVE  /\ leader' = None /\ dcs' # "initialized" /\ status'.startup = i
                 /\ w'.st.startup = i /\ w'.obs.primary = None
                 /\ \A j \in Instances \ {i} : runner'[j] # "up" /\ pod'[j] = "none"
      <3>1. /\ leader = None /\ dcs # "initialized" /\ status.startup = i
            /\ w.st.startup = i /\ w.obs.primary = None
            /\ \A j \in Instances \ {i} : runner[j] # "up" /\ pod[j] = "none"
        BY <1>1, <2>1 DEF RestoreInv, WaitingAlone
      <3>2. ASSUME NEW j \in Instances \ {i} PROVE runner'[j] # "up"
        <4>1. CASE ReconcileInstances
          BY <3>1, <4>1, RestoreAssumption DEF ReconcileInstances
        <4>2. CASE Cleanup
          BY <3>1, <4>2 DEF Cleanup
        <4> QED BY <4>1, <4>2
      <3> QED BY <1>1, <1>3, <1>5, <3>1, <3>2
    <2> QED BY <1>1, <2>1 DEF WaitingAlone, Waiting
  <1> QED BY <1>9, <1>10, <1>11, <1>12 DEF RestoreInv

\* A reconcile begins, looks at the instances, and ends.
LEMMA RestoreBegins ==
    ASSUME Types, Types', KnowledgeInv, RestoreInv, [Next]_vars,
           Begin \/ Observe \/ PatchStatus \/ Crash
    PROVE  RestoreInv'
  <1>0. UNCHANGED <<spec, job, runner, pod, leader, dcs, disk>>
    BY DEF Begin, Observe, PatchStatus, Crash
  <1>1. /\ Quiet' = Quiet /\ Unfinished' = Unfinished /\ Dirty' = Dirty
        /\ \A i \in Instances : (disk'[i].boot.kind = "restored") = Waiting(i)
    BY <1>0 DEF Quiet, Unfinished, Dirty, Waiting
  <1>2. /\ RestoreID(spec)' = RestoreID(spec)
        /\ Dirty => leader = None
        /\ \A i \in Instances : Waiting(i) => leader = None
        /\ status \in Status /\ w.st \in Status
    BY <1>0 DEF RestoreID, RestoreInPlace, BootstrapID, RestoreInv, DirtyIsQuiet, WaitingAlone, Quiet,
                KnowledgeInv, LeaderRunning, Types, Work
  <1>3. CASE Begin
    <2>1. /\ w.pc = "idle" /\ w'.pc \in {"observe", "save"} /\ w'.st = status /\ w'.obs.primary = None
          /\ w'.pc = "observe" => w'.spec = spec
          /\ status' = status
      BY <1>2, <1>3, ReturnType DEF Begin, Unseen
    <2>2. RestoreID(Heeded)' = RestoreID(spec) /\ Heeded = spec
      BY <1>0, <2>1 DEF Heeded, Reading, RestoreID, RestoreInPlace, BootstrapID
    <2>3. Settled' /\ DirtyIsQuiet' /\ StartedByJob' /\ FoundQuiet' /\ StartupKnown'
      BY <1>0, <1>1, <2>1 DEF RestoreInv, Settled, DirtyIsQuiet, StartedByJob, FoundQuiet, StartupKnown, Starting,
                        Gap, Pending
    <2>4. ReadyIsQuiet' /\ BootstrappedSince'
      BY <1>0, <1>1, <1>2, <2>1, <2>2 DEF RestoreInv, ReadyIsQuiet, BootstrappedSince, Gap
    <2>5. JobInstance' /\ WaitingAlone'
      BY <1>0, <1>1, <2>1 DEF RestoreInv, JobInstance, WaitingAlone, Waiting
    <2> QED BY <2>3, <2>4, <2>5 DEF RestoreInv
  <1>4. CASE Observe
    <2>1. /\ w.pc = "observe" /\ w'.pc = "source" /\ w'.spec = w.spec /\ status' = status
          /\ w'.st = PatroniStatus(ExistingVolumes(w.st)) /\ w'.obs.primary = leader
      BY <1>4 DEF Observe, Types, Work
    <2>2. /\ w'.st.progress = w.st.progress /\ w'.st.init = w.st.init /\ w'.st.id = w.st.id
          /\ w.st.startup # None => w'.st.startup = w.st.startup
          /\ w'.st.bootstrapped <=> w.st.bootstrapped \/ dcs = "initialized"
      BY <1>2, <2>1 DEF PatroniStatus, ExistingVolumes, Status
    <2>3. RestoreID(Heeded)' = RestoreID(Heeded)
      BY <2>1 DEF Heeded, Reading, RestoreID, RestoreInPlace, BootstrapID
    <2>4. Settled' /\ DirtyIsQuiet' /\ StartedByJob' /\ FoundQuiet' /\ StartupKnown'
      BY <1>0, <1>1, <2>1, <2>2
         DEF RestoreInv, Settled, DirtyIsQuiet, StartedByJob, FoundQuiet, StartupKnown, Starting, Gap, Pending
    <2>5. ReadyIsQuiet' /\ BootstrappedSince'
      BY <1>0, <1>1, <2>1, <2>2, <2>3 DEF RestoreInv, ReadyIsQuiet, BootstrappedSince, Gap
    <2>6. JobInstance' /\ WaitingAlone'
      BY <1>0, <1>1, <1>2, <2>1, <2>2, RestoreAssumption DEF RestoreInv, JobInstance, WaitingAlone, Waiting, Dirty
    <2> QED BY <2>4, <2>5, <2>6 DEF RestoreInv
  <1>5. CASE PatchStatus \/ Crash
    <2>1. /\ w'.pc = "idle" /\ w.pc # "idle"
          /\ \/ status' = status
             \/ w.pc = "save" /\ status' = w.st
      BY <1>5 DEF PatchStatus, Crash, Idle
    <2>2. RestoreID(Heeded)' = RestoreID(spec) /\ (w.pc = "save" => Heeded = spec)
      BY <1>0, <2>1 DEF Heeded, Reading, RestoreID, RestoreInPlace, BootstrapID
    <2>3. Gap(status) /\ RestoreID(spec) = status.id => RestoreID(Heeded) = status.id
      BY StillAsked DEF Gap, Restoring
    <2>4. Settled' /\ DirtyIsQuiet' /\ StartedByJob' /\ FoundQuiet' /\ StartupKnown'
      BY <1>0, <1>1, <2>1
         DEF RestoreInv, Settled, DirtyIsQuiet, StartedByJob, FoundQuiet, StartupKnown, Starting, Gap, Pending
    <2>5. ReadyIsQuiet' /\ BootstrappedSince'
      BY <1>0, <1>1, <2>1, <2>2, <2>3 DEF RestoreInv, ReadyIsQuiet, BootstrappedSince, FoundQuiet, Gap
    <2>6. JobInstance' /\ WaitingAlone'
      BY <1>0, <1>1, <2>1 DEF RestoreInv, JobInstance, WaitingAlone, Waiting
    <2> QED BY <2>4, <2>5, <2>6 DEF RestoreInv
  <1> QED BY <1>3, <1>4, <1>5

\* Unless an instance was left when the cluster was found ready.
RestoreIInv == KnowledgeInv /\ (~leftover => RestoreInv)

LEMMA RestoreNext == Types /\ Types' /\ RestoreIInv /\ [Next]_vars => RestoreIInv'
  <1> SUFFICES ASSUME Types, Types', RestoreIInv, [Next]_vars PROVE RestoreIInv'
    OBVIOUS
  <1>1. KnowledgeInv /\ KnowledgeInv'
    BY KnowledgeNext DEF RestoreIInv
  <1>2. leftover => leftover'
    <2>1. ASSUME NEW r, Move(r) PROVE leftover' = leftover
      BY <2>1 DEF Move, MovePGDataDir, MoveWALDir, MoveRepoDir, EndMove
    <2>2. User => leftover' = leftover
      BY UserSpec DEF Types
    <2> QED
      BY <2>1, <2>2
         DEF Next, vars, Reconcile, Kubernetes, Patroni, Failure, Begin, Observe, RemoveRestoreJob,
             RemoveRunners, RemoveEndpoints, ReadyForRestore, DataSourceDone, RestoreNothing,
             CopyFile, RestoreFromCluster, RestoreFromCloud, ReconcileInstances, Cleanup, PatchStatus,
             CreatePod, StartContainer, DeletePod, RestartContainer, StartRestore, FinishRestore,
             FailRestore, WriteEndpoints, BecomeLeader, Bootstrap, Follow, CallFails, Crash
  <1>3. ASSUME ~leftover' PROVE RestoreInv'
    <2>1. RestoreInv
      BY <1>2, <1>3 DEF RestoreIInv
    <2> QED
      BY <1>1, <1>3, <2>1, RestoreEnvironment, RestoreJobRuns, RestoreUser, RestorePrepares,
         RestoreContinues, RestoreStarts, RestoreBegins
         DEF Next, Reconcile, Kubernetes, Patroni, Failure
  <1> QED BY <1>1, <1>3 DEF RestoreIInv

LEMMA RestoreAlways == Spec => []RestoreIInv
  <1>1. Init => RestoreIInv
    BY KnowledgeInit, RestoreInit DEF RestoreIInv
  <1> QED BY <1>1, RestoreNext, TypesAlways, PTL DEF Spec

\* A restore Job works on the volumes of a cluster of which nothing runs (RestoreAlone),
\* for any number of instances, restores, changes of the options, crashes and lost
\* patches: what prepareForRestore found when it declared the cluster ready still
\* holds in the later reconcile that creates the Job, and until the Job has ended.
THEOREM RestoreRunsAlone == Spec => []RestoreAlone
  <1>1. RestoreIInv => RestoreAlone
    BY DEF RestoreIInv, RestoreInv, RestoreAlone, Busy, DirtyIsQuiet, Dirty, Unfinished, Quiet
  <1> QED BY <1>1, RestoreAlways, PTL

\* Until Patroni has bootstrapped from restored data the instance that holds them is the
\* only one with a Pod (RestoredStartsAlone).
THEOREM RestoredDataStartAlone == Spec => []RestoredStartsAlone
  <1>1. RestoreIInv => RestoredStartsAlone
    BY DEF RestoreIInv, RestoreInv, RestoredStartsAlone, WaitingAlone, Waiting
  <1> QED BY <1>1, RestoreAlways, PTL

-----------------------------------------------------------------------------
\* A restore is not repeated.

\* A cluster that was cloned is never asked to be cloned a second time: there is none, or
\* its user does not disable restores in place, which falls back to the data source.
NoSecondClone == ~CloneDisabled \/ Sources \cap {"cluster", "cloud"} = {}

\* The order in which a cluster is asked for restores: the bootstrap, then by number.
Rank(id) == IF id = 0 THEN 0 ELSE IF id = BootstrapID THEN 1 ELSE id + 1

\* The restores that completed or have a Job.
Known == done \cup (IF job = NoJob THEN {} ELSE {job.key})

AlwaysAsked ==
    /\ spec.source \in {"cluster", "cloud"} /\ spec.id # 0 => spec.enabled
    /\ Reading /\ w.spec.source \in {"cluster", "cloud"} /\ w.spec.id # 0 => w.spec.enabled

\* Requests and options only move on, and no restore is ahead of them.
KnownOrdered ==
    /\ \A k \in Known : /\ k.id # 0 /\ (k.bootstrap <=> k.id = BootstrapID)
                        /\ Rank(k.id) <= Rank(status.id) /\ k.config <= Heeded.config
    /\ Reading => w.spec.config <= spec.config
    /\ w.pc # "idle" => Rank(status.id) <= Rank(w.st.id)

\* A Job restores what no Job before it restored, while the status says so.
JobIsNext ==
    Unfinished => /\ \A k \in done : /\ Rank(k.id) <= Rank(job.key.id)
                                     /\ k.id = job.key.id => k.config < job.key.config
                  /\ Restoring(status) /\ (w.pc # "idle" => Restoring(w.st))

\* What is being prepared has not been restored.
New(id, config) == \A k \in Known : k.id = id => k.config < config
RequestedIsNew ==
    /\ status.progress = "requested" => New(status.id, Heeded.config)
    /\ w.pc # "idle" /\ ~Reading /\ w.st.progress = "requested" => New(w.st.id, spec.config)

\* A cluster that is ready and bootstrapped has been bootstrapped since.
ReadyThenBootstrapped ==
    /\ status.progress = "ready" /\ RestoreID(Heeded) = status.id =>
         /\ status.bootstrapped => dcs = "initialized"
         /\ w.pc \notin {"idle", "save"} /\ w.st.bootstrapped => dcs = "initialized"
    /\ w.pc = "save" /\ w.st.progress = "ready" /\ w.st.bootstrapped /\ RestoreID(spec) = w.st.id =>
         dcs = "initialized"

\* Instances start for the restore of the status, which is over.
StartingServed ==
    Starting => /\ w.st.id = status.id /\ (w.st.id # 0 => w.st.init = "true")
                /\ Restoring(w.st) => w.st.progress = status.progress

\* A restore that completed is remembered: by its Job, by the status, or by the cluster
\* that was bootstrapped from it, and a reconcile that might create a Job knows.
Remembered ==
    /\ Key(Heeded) \in done /\ status.id = RestoreID(Heeded) =>
         \/ job.state = "complete" \/ status.init = "true"
         \/ dcs = "initialized" /\ (w.pc = "source" => w.st.bootstrapped)
    /\ w.pc # "idle" /\ ~Reading /\ Key(spec) \in done /\ w.st.id = RestoreID(spec) =>
         job.state = "complete" \/ w.st.init = "true" \/ dcs = "initialized"

OnceInv ==
    /\ AlwaysAsked /\ KnownOrdered /\ JobIsNext /\ RequestedIsNew /\ Settled
    /\ ReadyThenBootstrapped /\ StartingServed /\ Remembered

LEMMA RankOrder ==
    ASSUME NEW a \in 0..BootstrapID, NEW b \in 0..BootstrapID
    PROVE  /\ Rank(a) \in Nat /\ Rank(b) \in Nat
           /\ Rank(a) = Rank(b) => a = b
           /\ Rank(a) <= Rank(b) <=> \/ a = 0 \/ a = b
                                     \/ a = BootstrapID /\ b # 0
                                     \/ a <= b /\ b # BootstrapID
  BY Constants_ DEF Rank

\* The types of what is compared.
LEMMA OnceTypes ==
    ASSUME Types
    PROVE  /\ spec \in Spec_ /\ status \in Status /\ w.st \in Status
           /\ Reading => w.spec \in Spec_
           /\ Heeded \in Spec_ /\ Known \subseteq Keys /\ done \subseteq Keys /\ job.key \in Keys
           /\ status.id \in 0..BootstrapID /\ w.st.id \in 0..BootstrapID
           /\ spec.config \in Nat /\ Heeded.config \in Nat
           /\ \A k \in Keys : k.id \in 0..BootstrapID /\ k.config \in Nat
  <1>1. /\ spec \in Spec_ /\ status \in Status /\ w.st \in Status
        /\ Reading => w.spec \in Spec_
        /\ Heeded \in Spec_ /\ done \subseteq Keys /\ job.key \in Keys
    BY DEF Types, Work, Heeded, Reading, Job
  <1>2. \A k \in Keys : k.id \in 0..BootstrapID /\ k.config \in Nat
    BY RestoreAssumption DEF Keys
  <1>3. \A s \in Spec_ : s.config \in Nat
    BY RestoreAssumption DEF Spec_, Configs
  <1> QED BY <1>1, <1>2, <1>3 DEF Known, Status

\* A restore is that of a request when it has its number and its options.
LEMMA SameKey ==
    ASSUME NEW k \in Keys, NEW s \in Spec_, k.id # 0, k.bootstrap <=> k.id = BootstrapID,
           k.id = RestoreID(s), k.config = s.config
    PROVE  k = Key(s)
  <1>1. k.bootstrap \in BOOLEAN /\ k = [id |-> k.id, bootstrap |-> k.bootstrap, config |-> k.config]
    BY DEF Keys
  <1>2. ~RestoreInPlace(s) <=> RestoreID(s) = BootstrapID
    BY RestoreIDs
  <1>3. k.bootstrap = ~RestoreInPlace(s)
    BY <1>1, <1>2
  <1> QED BY <1>1, <1>3 DEF Key

LEMMA KeyOf ==
    ASSUME NEW s
    PROVE  Key(s).id = RestoreID(s) /\ Key(s).config = s.config /\ Key(s).bootstrap = ~RestoreInPlace(s)
  BY DEF Key

\* A request that is known is the one that the reconcile has read.
LEMMA KnownIsHeeded ==
    ASSUME Types, KnowledgeInv, AlwaysAsked, KnownOrdered, Key(spec) \in Known
    PROVE  Key(Heeded) = Key(spec) /\ RestoreID(Heeded) = RestoreID(spec) /\ RestoreID(spec) # 0
  <1>1. CASE ~Reading
    BY <1>1, KeyOf DEF Heeded, KnownOrdered
  <1>2. CASE Reading
    <2>1. /\ RestoreID(spec) # 0 /\ Rank(RestoreID(spec)) <= Rank(status.id)
          /\ spec.config <= w.spec.config /\ w.spec.config <= spec.config
          /\ RestoreID(spec) \in 0..BootstrapID
      BY <1>2, KeyOf, OnceTypes, KeyType DEF KnownOrdered, Heeded
    <2>2. /\ w.spec.id <= spec.id /\ Older(status.id, w.spec) /\ w.spec.source = spec.source
          /\ w.spec.id = spec.id /\ spec.enabled => w.spec.enabled
          /\ status.id = BootstrapID => spec.source \in {"cluster", "cloud"}
      BY <1>2 DEF KnowledgeInv, IdsOrdered
    <2>3. w.spec.id = spec.id /\ (RestoreInPlace(w.spec) <=> RestoreInPlace(spec))
      <3>1. /\ spec \in Spec_ /\ w.spec \in Spec_ /\ status.id \in 0..BootstrapID
        BY <1>2, OnceTypes
      <3>2. Rank(RestoreID(spec)) <= Rank(status.id) <=>
              \/ RestoreID(spec) = status.id
              \/ RestoreID(spec) = BootstrapID /\ status.id # 0
              \/ RestoreID(spec) <= status.id /\ status.id # BootstrapID
        BY <2>1, <3>1, RankOrder
      <3>3. CASE spec.source \in {"cluster", "cloud"}
        <4>1. spec.id # 0 => spec.enabled /\ RestoreID(spec) = spec.id
          BY <3>1, <3>3, RestoreIDs DEF AlwaysAsked
        <4>2. w.spec.id = spec.id
          BY <2>1, <2>2, <3>1, <3>2, <4>1, RestoreIDs DEF Older
        <4> QED BY <2>2, <3>1, <4>1, <4>2, RestoreIDs
      <3>4. CASE spec.source \notin {"cluster", "cloud"}
        <4>1. RestoreInPlace(spec) /\ RestoreID(spec) = spec.id
          BY <2>1, <3>1, <3>4, RestoreIDs
        <4>2. w.spec.id = spec.id
          BY <2>1, <2>2, <3>1, <3>2, <3>4, <4>1, RestoreIDs DEF Older
        <4> QED BY <2>2, <3>1, <4>1, <4>2, RestoreIDs
      <3> QED BY <3>3, <3>4
    <2>4. w.spec.config = spec.config
      BY <1>2, <2>1, OnceTypes DEF Heeded
    <2>5. RestoreID(w.spec) = RestoreID(spec)
      BY <2>2, <2>3 DEF RestoreID
    <2>6. Key(w.spec) = Key(spec)
      BY <2>3, <2>4, <2>5 DEF Key
    <2> QED BY <1>2, <2>1, <2>5, <2>6 DEF Heeded
  <1> QED BY <1>1, <1>2

\* A request that was served has no Job at work, and is not being prepared.
LEMMA ServedSettled ==
    ASSUME Types, KnowledgeInv, OnceInv, Key(Heeded) \in done, status.id = RestoreID(Heeded)
    PROVE  ~Unfinished /\ status.progress # "requested" /\ status.id # 0
  <1>1. /\ Key(Heeded) \in Known /\ Key(Heeded).id = status.id /\ Key(Heeded).config = Heeded.config
        /\ status.id # 0
    BY KeyOf DEF Known, OnceInv, KnownOrdered
  <1>2. status.progress # "requested"
    BY <1>1, OnceTypes DEF OnceInv, RequestedIsNew, New
  <1>3. ~Unfinished
    <2> SUFFICES ASSUME Unfinished PROVE FALSE
      OBVIOUS
    <2>1. job.key \in Known
      BY DEF Known, Unfinished, NoJob
    <2>2. Rank(job.key.id) <= Rank(status.id) /\ job.key.config <= Heeded.config
          /\ Rank(status.id) <= Rank(job.key.id)
          /\ (status.id = job.key.id => Heeded.config < job.key.config)
      BY <1>1, <2>1 DEF OnceInv, KnownOrdered, JobIsNext
    <2>3. job.key.id = status.id
      BY <2>2, OnceTypes, RankOrder
    <2> QED BY <2>2, <2>3, OnceTypes
  <1> QED BY <1>1, <1>2, <1>3

\* What is prepared has not been restored.
LEMMA PreparedIsNew ==
    ASSUME Types, KnowledgeInv, OnceInv, MustPrepare
    PROVE  /\ New(RestoreID(w.spec), w.spec.config) /\ Key(w.spec) \notin done
           /\ Rank(status.id) <= Rank(RestoreID(w.spec))
  <1> DEFINE id == RestoreID(w.spec)
             st == ObserveRestoreEnv(w.st)
  <1>1. /\ w.pc = "source" /\ Reading /\ Heeded = w.spec /\ w.spec \in Spec_ /\ w.st \in Status
        /\ id # 0 /\ id \in 0..BootstrapID /\ status.id \in 0..BootstrapID
    BY OnceTypes, KeyType DEF MustPrepare, Reading, Heeded
  <1>2. w.st.id = status.id /\ w.st.progress = status.progress
    BY <1>1 DEF KnowledgeInv, StatusInHand
  <1>3. Rank(status.id) <= Rank(id)
    <2>1. Older(status.id, w.spec) /\ w.spec.source = spec.source
          /\ (status.id = BootstrapID => spec.source \in {"cluster", "cloud"})
      BY <1>1 DEF KnowledgeInv, IdsOrdered
    <2>2. status.id = 0 \/ status.id = id \/ status.id = BootstrapID \/ (status.id <= id /\ id # BootstrapID)
      BY <1>1, <2>1, RestoreIDs DEF Older, OnceInv, AlwaysAsked
    <2> QED BY <1>1, <2>2, RankOrder
  <1>4. ASSUME NEW k \in Known, k.id = id PROVE k.config < w.spec.config
    <2>1. /\ k \in Keys /\ k.config \in Nat /\ w.spec.config \in Nat /\ k.config <= w.spec.config
          /\ Rank(id) <= Rank(status.id)
      BY <1>1, <1>4, OnceTypes DEF OnceInv, KnownOrdered
    <2>2. status.id = id
      BY <1>1, <1>3, <2>1, RankOrder
    <2>3. CASE status.progress = "requested"
      BY <1>1, <1>4, <2>2, <2>3 DEF OnceInv, RequestedIsNew, New
    <2>4. CASE status.progress # "requested"
      <3>1. st.id = w.st.id /\ PrepareNeeded(st)
        BY <1>1, ObserveType DEF MustPrepare
      <3>2. Restoring(st) /\ (st.progress # "ready" \/ (job # NoJob /\ ConfigHash(job.key) # ConfigHash(Key(w.spec))))
        BY <1>2, <2>2, <3>1 DEF PrepareNeeded
      <3>3. st.progress = w.st.progress /\ job.state # "complete" /\ w.st.progress \in {"none", "requested", "ready"}
        BY <1>1, <3>2 DEF ObserveRestoreEnv, Restoring, Status
      <3>4. job # NoJob /\ ConfigHash(job.key) # ConfigHash(Key(w.spec))
        BY <1>2, <2>4, <3>2, <3>3 DEF Restoring
      <3>5. Unfinished /\ job.key \in Known /\ job.key \in Keys
        BY <3>3, <3>4, OnceTypes DEF Unfinished, Known, KnowledgeInv, AbsentJob, Types, Job
      <3>6. /\ job.key.id # 0 /\ (job.key.bootstrap <=> job.key.id = BootstrapID)
            /\ Rank(job.key.id) <= Rank(id) /\ job.key.config <= w.spec.config
        BY <1>1, <2>2, <3>5 DEF OnceInv, KnownOrdered
      <3>7. job.key.id = id => job.key.config < w.spec.config
        <4> SUFFICES ASSUME job.key.id = id, job.key.config = w.spec.config PROVE FALSE
          BY <1>1, <3>5, <3>6, OnceTypes
        <4>1. job.key = Key(w.spec)
          BY <1>1, <3>5, <3>6, SameKey
        <4> QED BY <3>4, <4>1
      <3>8. CASE k = job.key
        BY <1>4, <3>7, <3>8
      <3>9. CASE k \in done
        <4>1. Rank(id) <= Rank(job.key.id) /\ (id = job.key.id => k.config < job.key.config)
          BY <1>4, <3>5, <3>9 DEF OnceInv, JobIsNext
        <4>2. job.key.id = id
          BY <1>1, <3>5, <3>6, <4>1, RankOrder, OnceTypes
        <4> QED BY <2>1, <3>5, <3>7, <4>1, <4>2, OnceTypes
      <3> QED BY <1>4, <3>5, <3>8, <3>9 DEF Known
    <2> QED BY <2>3, <2>4
  <1>5. Key(w.spec) \notin done
    <2> SUFFICES ASSUME Key(w.spec) \in done PROVE FALSE
      OBVIOUS
    <2>1. w.spec.config < w.spec.config
      BY <1>4, KeyOf DEF Known
    <2> QED BY <1>1, <2>1, OnceTypes
  <1> QED BY <1>3, <1>4, <1>5 DEF New

LEMMA OnceInit == Init => OnceInv
  <1> SUFFICES ASSUME Init PROVE OnceInv
    OBVIOUS
  <1>1. /\ spec.id = 0 /\ status.id = 0 /\ status.progress = "none" /\ w.pc = "idle"
        /\ job = NoJob /\ done = {}
    BY DEF Init, NoStatus, Idle
  <1>2. ~Reading /\ ~Starting /\ ~Unfinished /\ Known = {}
    BY <1>1 DEF Reading, Starting, Unfinished, NoJob, Known
  <1> QED BY <1>1, <1>2
          DEF OnceInv, AlwaysAsked, KnownOrdered, JobIsNext, RequestedIsNew, Settled,
              ReadyThenBootstrapped, StartingServed, Remembered

\* What the invariant says depends on nothing else, and on Patroni having bootstrapped.
LEMMA OnceFrame ==
    ASSUME OnceInv, UNCHANGED <<spec, status, w, job, done>>,
           dcs = "initialized" => dcs' = "initialized"
    PROVE  OnceInv'
  <1>1. /\ Reading' = Reading /\ Heeded' = Heeded /\ Starting' = Starting /\ Unfinished' = Unfinished
        /\ Known' = Known /\ BootstrapID' = BootstrapID
    BY DEF Reading, Heeded, Starting, Unfinished, Known, NoJob, NoKey, BootstrapID
  <1>2. /\ RestoreID(Heeded)' = RestoreID(Heeded) /\ RestoreID(spec)' = RestoreID(spec)
        /\ Key(Heeded)' = Key(Heeded) /\ Key(spec)' = Key(spec)
    BY <1>1 DEF RestoreID, RestoreInPlace, Key
  <1>3. AlwaysAsked' /\ KnownOrdered' /\ JobIsNext' /\ RequestedIsNew' /\ Settled'
    BY <1>1 DEF OnceInv, AlwaysAsked, KnownOrdered, JobIsNext, RequestedIsNew, Settled, New, Rank, Restoring
  <1>4. ReadyThenBootstrapped' /\ StartingServed' /\ Remembered'
    BY <1>1, <1>2 DEF OnceInv, ReadyThenBootstrapped, StartingServed, Remembered, Restoring
  <1> QED BY <1>3, <1>4 DEF OnceInv

\* The Job works, completes or fails.
LEMMA OnceJobRuns ==
    ASSUME Types, KnowledgeInv, OnceInv, StartRestore \/ FinishRestore \/ FailRestore
    PROVE  OnceInv'
  <1>1. /\ UNCHANGED <<spec, status, w, dcs>> /\ job # NoJob /\ Unfinished
        /\ job'.key = job.key /\ job'.state # "absent" /\ job.state # "complete"
        /\ \/ done' = done
           \/ done' = done \cup {job.key} /\ job'.state = "complete"
    BY DEF StartRestore, FinishRestore, FailRestore, Types, Job, NoJob, Unfinished
  <1>2. job' # NoJob /\ Known' = Known
    BY <1>1 DEF Known, NoJob, NoKey
  <1>3. /\ Reading' = Reading /\ Heeded' = Heeded /\ Starting' = Starting
        /\ BootstrapID' = BootstrapID
    BY <1>1 DEF Reading, Heeded, Starting, BootstrapID
  <1>4. /\ RestoreID(Heeded)' = RestoreID(Heeded) /\ RestoreID(spec)' = RestoreID(spec)
        /\ Key(Heeded)' = Key(Heeded) /\ Key(spec)' = Key(spec)
    BY <1>1, <1>3 DEF RestoreID, RestoreInPlace, Key
  <1>5. AlwaysAsked' /\ KnownOrdered' /\ RequestedIsNew' /\ Settled'
    BY <1>1, <1>2, <1>3 DEF OnceInv, AlwaysAsked, KnownOrdered, RequestedIsNew, Settled, New, Rank
  <1>6. JobIsNext'
    BY <1>1 DEF OnceInv, JobIsNext, Unfinished, Rank, BootstrapID, Restoring
  <1>7. ReadyThenBootstrapped' /\ StartingServed'
    BY <1>1, <1>3, <1>4 DEF OnceInv, ReadyThenBootstrapped, StartingServed, Restoring
  <1>8. Remembered'
    BY <1>1, <1>3, <1>4 DEF OnceInv, Remembered
  <1> QED BY <1>5, <1>6, <1>7, <1>8 DEF OnceInv

\* The user asks for something new, or for nothing: never again for what was restored.
LEMMA OnceUser ==
    ASSUME NoSecondClone, Types, Types', KnowledgeInv, OnceInv, User
    PROVE  OnceInv'
  <1>1. /\ spec \in Spec_ /\ spec' \in Spec_ /\ spec'.source = spec.source
        /\ \/ spec'.id = spec.id + 1 /\ spec'.enabled
           \/ spec'.id = spec.id /\ spec'.enabled = spec.enabled
           \/ /\ spec'.id = spec.id /\ ~spec'.enabled /\ RestoreInPlace(spec)
              /\ status.id = spec.id /\ status.init = "true" /\ status.progress = "none"
        /\ UNCHANGED <<status, w, job, dcs, done>>
    BY UserSpec DEF Types
  <1>2. spec.config <= spec'.config /\ spec.config \in Nat /\ spec'.config \in Nat
    <2>1. spec.config \in Nat /\ spec'.config \in Nat
      BY <1>1, RestoreAssumption DEF Spec_, Configs
    <2>2. spec'.config = spec.config \/ spec'.config = spec.config + 1
      BY <1>1 DEF User, RequestRestore, ChangeOptions, DisableRestores, CorrectSource, Spec_
    <2> QED BY <2>1, <2>2
  <1>3. spec.source \in {"cluster", "cloud"} /\ spec'.id # 0 => spec'.enabled
    <2>1. DisableRestores => spec.source \notin {"cluster", "cloud"}
      BY <1>1 DEF DisableRestores, NoSecondClone, Spec_
    <2>2. RequestRestore => spec'.enabled
      BY <1>1 DEF RequestRestore, Spec_
    <2>3. ChangeOptions \/ CorrectSource => spec'.enabled = spec.enabled /\ spec'.id = spec.id
      BY <1>1 DEF ChangeOptions, CorrectSource, Spec_
    <2> QED BY <2>1, <2>2, <2>3 DEF User, OnceInv, AlwaysAsked
  <1>4. /\ Reading' = Reading /\ (Reading => Heeded' = Heeded) /\ Starting' = Starting
        /\ (~Reading => Heeded = spec /\ Heeded' = spec')
        /\ Unfinished' = Unfinished /\ Known' = Known /\ BootstrapID' = BootstrapID
    BY <1>1 DEF Reading, Heeded, Starting, Unfinished, Known, NoJob, NoKey, BootstrapID
  <1>5. RestoreID(spec') # 0 => \/ RestoreID(spec') = RestoreID(spec) /\ (RestoreInPlace(spec') <=> RestoreInPlace(spec))
                                \/ RestoreID(spec') = spec.id + 1 /\ spec.id + 1 # BootstrapID
    BY <1>1, <1>3, RestoreIDs DEF RestoreInPlace
  <1>6. AlwaysAsked'
    BY <1>1, <1>3, <1>4 DEF OnceInv, AlwaysAsked
  <1>7. KnownOrdered'
    BY <1>1, <1>2, <1>4, OnceTypes DEF OnceInv, KnownOrdered, Rank, Heeded
  <1>8. JobIsNext' /\ Settled' /\ StartingServed'
    BY <1>1, <1>4 DEF OnceInv, JobIsNext, Settled, StartingServed, Rank, Restoring
  <1>9. RequestedIsNew'
    BY <1>1, <1>2, <1>4, OnceTypes DEF OnceInv, RequestedIsNew, New
  <1>10. /\ status.id # 0 /\ RestoreID(spec') = status.id => RestoreID(spec) = status.id
         /\ w.pc # "idle" /\ w.st.id # 0 /\ RestoreID(spec') = w.st.id => RestoreID(spec) = w.st.id
    <2>1. Older(status.id, spec) /\ (w.pc # "idle" => Older(w.st.id, spec))
          /\ status.id \in 0..BootstrapID /\ w.st.id \in 0..BootstrapID /\ spec.id \in Nat
      BY <1>1, OnceTypes, RestoreIDs DEF KnowledgeInv, IdsOrdered
    <2> QED BY <1>5, <2>1 DEF Older
  <1>11. ReadyThenBootstrapped'
    <2>1. Restoring(status) => status.id # 0
      BY DEF KnowledgeInv, RestoringRequested
    <2>2. w.pc # "idle" /\ Restoring(w.st) => w.st.id # 0
      BY DEF KnowledgeInv, RestoringRequested
    <2>3. RestoreID(Heeded)' = RestoreID(Heeded') /\ RestoreID(spec)' = RestoreID(spec')
      BY DEF RestoreID, RestoreInPlace, BootstrapID
    <2> QED BY <1>1, <1>4, <1>10, <2>1, <2>2, <2>3 DEF OnceInv, ReadyThenBootstrapped, Restoring
  <1>12. Key(spec') \in done => Key(spec') = Key(spec) /\ RestoreID(spec') = RestoreID(spec)
    <2> SUFFICES ASSUME Key(spec') \in done
                 PROVE  Key(spec') = Key(spec) /\ RestoreID(spec') = RestoreID(spec)
      OBVIOUS
    <2>1. /\ RestoreID(spec') # 0 /\ Rank(RestoreID(spec')) <= Rank(status.id)
          /\ spec'.config <= Heeded.config /\ RestoreID(spec') \in 0..BootstrapID
      BY <1>1, KeyOf, KeyType DEF OnceInv, KnownOrdered, Known
    <2>2. Older(status.id, spec) /\ status.id \in 0..BootstrapID
      BY OnceTypes DEF KnowledgeInv, IdsOrdered
    <2>3. RestoreID(spec') # spec.id + 1 \/ spec.id + 1 = BootstrapID
      BY <1>1, <2>1, <2>2, RankOrder, RestoreIDs DEF Older
    <2>4. RestoreID(spec') = RestoreID(spec) /\ (RestoreInPlace(spec') <=> RestoreInPlace(spec))
      BY <1>5, <2>1, <2>3
    <2>5. Heeded.config <= spec.config
      BY OnceTypes DEF Heeded, OnceInv, KnownOrdered
    <2>6. spec'.config = spec.config
      BY <1>2, <2>1, <2>5, OnceTypes
    <2> QED BY <2>4, <2>6 DEF Key
  <1>13. Remembered'
    <2>1. /\ RestoreID(Heeded)' = RestoreID(Heeded') /\ RestoreID(spec)' = RestoreID(spec')
          /\ Key(Heeded)' = Key(Heeded') /\ Key(spec)' = Key(spec')
      BY DEF RestoreID, RestoreInPlace, BootstrapID, Key
    <2> QED BY <1>1, <1>4, <1>12, <2>1 DEF OnceInv, Remembered
  <1> QED BY <1>6, <1>7, <1>8, <1>9, <1>11, <1>13 DEF OnceInv

\* A reconcile prepares what has not been restored.
LEMMA OncePrepares ==
    ASSUME Types, Types', KnowledgeInv, OnceInv,
           RemoveRestoreJob \/ RemoveRunners \/ RemoveEndpoints \/ ReadyForRestore
    PROVE  OnceInv'
  <1>1. /\ MustPrepare /\ w.pc = "source" /\ UNCHANGED <<spec, status, done>>
        /\ job' = job \/ job' = NoJob
        /\ dcs' = dcs \/ job = NoJob
    BY DEF RemoveRestoreJob, RemoveRunners, RemoveEndpoints, ReadyForRestore, MustPrepare
  <1>2. PICK i \in StartupInstances(w.st) :
          \/ Return(Prepared(i, "requested"))
          \/ Return([Prepared(i, "ready") EXCEPT !.init = "none", !.bootstrapped = FALSE])
    BY DEF RemoveRestoreJob, RemoveRunners, RemoveEndpoints, ReadyForRestore
  <1>3. /\ w'.pc = "save" /\ w'.st.id = RestoreID(w.spec) /\ w'.st.progress \in {"requested", "ready"}
        /\ w'.st.progress = "ready" => ~w'.st.bootstrapped
    <2>1. CASE Return(Prepared(i, "requested"))
      BY <1>1, <1>2, <2>1, StartupType, PreparedType, ReturnType
    <2>2. CASE Return([Prepared(i, "ready") EXCEPT !.init = "none", !.bootstrapped = FALSE])
      <3> DEFINE st == [Prepared(i, "ready") EXCEPT !.init = "none", !.bootstrapped = FALSE]
      <3>1. Prepared(i, "ready") \in Status /\ Prepared(i, "ready").id = RestoreID(w.spec)
            /\ Prepared(i, "ready").progress = "ready"
        BY <1>1, <1>2, StartupType, PreparedType
      <3>2. st \in Status /\ st.id = RestoreID(w.spec) /\ st.progress = "ready" /\ ~st.bootstrapped
        BY <3>1 DEF Status
      <3>3. Return(st)
        BY <2>2
      <3> HIDE DEF st
      <3> QED BY <3>2, <3>3, ReturnType
    <2> QED BY <1>2, <2>1, <2>2
  <1>4. /\ Reading /\ ~Reading' /\ ~Starting' /\ Heeded = w.spec /\ Heeded' = spec
        /\ w.spec.config <= spec.config /\ w.spec.config \in Nat /\ spec.config \in Nat
    BY <1>1, <1>3, OnceTypes DEF Reading, Starting, Heeded, OnceInv, KnownOrdered
  <1>5. /\ New(RestoreID(w.spec), w.spec.config) /\ Key(w.spec) \notin done
        /\ Rank(status.id) <= Rank(RestoreID(w.spec))
    BY <1>1, PreparedIsNew
  <1>6. Known' \subseteq Known /\ BootstrapID' = BootstrapID
        /\ \A k \in Known : k.config \in Nat
    BY <1>1, OnceTypes DEF Known, NoJob, NoKey, BootstrapID
  <1>7. AlwaysAsked' /\ Settled' /\ StartingServed'
    BY <1>1, <1>3, <1>4 DEF OnceInv, AlwaysAsked, Settled, StartingServed
  <1>8. KnownOrdered'
    BY <1>1, <1>3, <1>4, <1>5, <1>6 DEF OnceInv, KnownOrdered, Rank
  <1>9. JobIsNext'
    BY <1>1, <1>3, <1>6 DEF OnceInv, JobIsNext, Unfinished, NoJob, Rank, Restoring
  <1>10. RequestedIsNew'
    BY <1>1, <1>3, <1>4, <1>5, <1>6 DEF OnceInv, RequestedIsNew, New
  <1>11. RestoreID(spec)' = RestoreID(spec) /\ Key(spec)' = Key(spec)
         /\ RestoreID(Heeded)' = RestoreID(spec) /\ Key(Heeded)' = Key(spec)
    BY <1>1, <1>4 DEF RestoreID, RestoreInPlace, BootstrapID, Key
  <1>12. ReadyThenBootstrapped'
    <2>1. status.progress = "ready" /\ RestoreID(spec) = status.id => RestoreID(Heeded) = status.id
      BY StillAsked DEF Restoring
    <2>2. status.progress = "ready" /\ RestoreID(Heeded) = status.id => job # NoJob
      <3> SUFFICES ASSUME status.progress = "ready", RestoreID(Heeded) = status.id PROVE job # NoJob
        OBVIOUS
      <3>1. w.st.progress = "ready" /\ w.st.id = RestoreID(w.spec) /\ w.st \in Status
        BY <1>4, OnceTypes DEF KnowledgeInv, StatusInHand
      <3>2. ObserveRestoreEnv(w.st).id = w.st.id /\ ObserveRestoreEnv(w.st).progress \in {"ready", "none"}
        BY <3>1 DEF ObserveRestoreEnv, Status
      <3> QED BY <1>1, <3>1, <3>2 DEF MustPrepare, PrepareNeeded, Restoring
    <2> QED BY <1>1, <1>3, <1>11, <2>1, <2>2 DEF OnceInv, ReadyThenBootstrapped
  <1>13. Remembered'
    <2>1. Key(spec) \notin done
      BY <1>4, <1>5, KnownIsHeeded DEF OnceInv, Known
    <2> QED BY <1>1, <1>11, <2>1 DEF Remembered
  <1> QED BY <1>7, <1>8, <1>9, <1>10, <1>12, <1>13 DEF OnceInv

\* A reconcile that has read what it needs goes on with the restore of the status, and
\* may create the Job of a request that no Job has served.
LEMMA OnceGoesOn ==
    ASSUME Types, Types', KnowledgeInv, OnceInv, UNCHANGED <<spec, status, dcs, done>>,
           Reading, w'.pc \in {"instances", "save"},
           w'.st.id = w.st.id, w'.st.bootstrapped = w.st.bootstrapped,
           \/ w'.st.progress = w.st.progress
           \/ job.state = "complete" /\ w'.st.progress = "none" /\ w'.st.init = "true",
           w.st.init = "true" /\ ~Unfinished => w'.st.init = "true",
           \/ job' = job
           \/ /\ job = NoJob /\ job' # NoJob /\ job'.key = Key(w.spec) /\ Key(w.spec) \notin done
              /\ RestoreID(w.spec) = status.id /\ RestoreID(w.spec) # 0 /\ status.progress = "ready"
              /\ w'.pc = "save",
           w'.pc = "instances" => RestoreID(w.spec) = 0 \/ w'.st.init = "true"
    PROVE  OnceInv'
  <1>1. /\ ~Reading' /\ Heeded = w.spec /\ Heeded' = spec /\ w.pc # "idle" /\ BootstrapID' = BootstrapID
        /\ w.spec.config <= spec.config /\ w.spec.config \in Nat /\ spec.config \in Nat
        /\ w.st.id = status.id /\ w.st.progress = status.progress /\ w.st.init = status.init
        /\ \A k \in Known : k.config \in Nat
    BY OnceTypes DEF Reading, Heeded, BootstrapID, OnceInv, KnownOrdered, KnowledgeInv, StatusInHand
  <1>2. RestoreID(spec)' = RestoreID(spec) /\ Key(spec)' = Key(spec)
        /\ RestoreID(Heeded)' = RestoreID(spec) /\ Key(Heeded)' = Key(spec)
    BY <1>1 DEF RestoreID, RestoreInPlace, BootstrapID, Key
  <1>3. status.progress = "ready" /\ RestoreID(spec) = status.id => RestoreID(Heeded) = status.id
    BY StillAsked DEF Restoring
  <1>4. Known' = Known \/ (Known' = Known \cup {Key(w.spec)} /\ job = NoJob /\ status.progress = "ready")
    BY DEF Known, NoJob, NoKey
  <1>5. AlwaysAsked'
    BY <1>1 DEF OnceInv, AlwaysAsked
  <1>6. KnownOrdered'
    <2>1. ASSUME NEW k \in Known
          PROVE  k.id # 0 /\ (k.bootstrap <=> k.id = BootstrapID) /\ Rank(k.id) <= Rank(status.id)
                 /\ k.config <= spec.config
      BY <1>1, <2>1 DEF OnceInv, KnownOrdered
    <2>2. ASSUME RestoreID(w.spec) = status.id, RestoreID(w.spec) # 0
          PROVE  /\ Key(w.spec).id # 0 /\ (Key(w.spec).bootstrap <=> Key(w.spec).id = BootstrapID)
                 /\ Rank(Key(w.spec).id) <= Rank(status.id) /\ Key(w.spec).config <= spec.config
      <3>1. ~RestoreInPlace(w.spec) <=> RestoreID(w.spec) = BootstrapID
        BY <2>2, OnceTypes, RestoreIDs
      <3>2. Key(w.spec).bootstrap <=> Key(w.spec).id = BootstrapID
        BY <3>1 DEF Key
      <3>3. Rank(status.id) <= Rank(status.id)
        BY OnceTypes, RankOrder
      <3> QED BY <1>1, <2>2, <3>2, <3>3, KeyOf
    <2>3. Rank(status.id) <= Rank(w'.st.id)
      BY <1>1, OnceTypes, RankOrder
    <2>4. \A k \in Known' : /\ k.id # 0 /\ (k.bootstrap <=> k.id = BootstrapID)
                            /\ Rank(k.id) <= Rank(status.id) /\ k.config <= spec.config
      BY <1>4, <2>1, <2>2 DEF Known
    <2> QED BY <1>1, <2>3, <2>4 DEF KnownOrdered, Rank
  <1>7. Unfinished /\ job' = job => Restoring(status) /\ Restoring(w'.st)
    BY <1>1 DEF OnceInv, JobIsNext, Restoring, Unfinished
  <1>8. JobIsNext'
    <2>1. CASE job' = job
      BY <1>1, <1>7, <2>1 DEF OnceInv, JobIsNext, Unfinished, Rank, Restoring
    <2>2. CASE job = NoJob /\ job' # NoJob
      <3>1. Restoring(status) /\ Restoring(w'.st)
        BY <1>1, <2>2 DEF Restoring, NoJob
      <3>2. ASSUME NEW k \in done
            PROVE  Rank(k.id) <= Rank(status.id) /\ (k.id = status.id => k.config < w.spec.config)
        <4>1. /\ k \in Known /\ k \in Keys /\ Rank(k.id) <= Rank(status.id) /\ k.config <= w.spec.config
              /\ k.id # 0 /\ (k.bootstrap <=> k.id = BootstrapID) /\ k.config \in Nat
          BY <1>1, <3>2, OnceTypes DEF Known, OnceInv, KnownOrdered
        <4>2. k.id = status.id /\ k.config = w.spec.config => k = Key(w.spec)
          BY <2>2, <4>1, OnceTypes, SameKey
        <4> QED BY <1>1, <2>2, <4>1, <4>2
      <3> QED BY <1>1, <2>2, <3>1, <3>2, KeyOf DEF JobIsNext, Rank, Restoring
    <2> QED BY <2>1, <2>2
  <1>9. RequestedIsNew'
    <2>1. status.progress = "requested" => Known' = Known /\ New(status.id, w.spec.config)
      BY <1>1, <1>4 DEF OnceInv, RequestedIsNew
    <2>2. w'.st.progress = "requested" => status.progress = "requested" /\ w'.st.id = status.id
      BY <1>1
    <2> QED BY <1>1, <2>1, <2>2 DEF RequestedIsNew, New
  <1>10. Settled'
    BY <1>1 DEF OnceInv, Settled, JobIsNext, Restoring
  <1>11. ReadyThenBootstrapped'
    BY <1>1, <1>2, <1>3 DEF OnceInv, ReadyThenBootstrapped, Reading
  <1>12. StartingServed'
    <2>1. RestoreID(w.spec) = 0 => status.progress = "none"
      BY <1>1 DEF KnowledgeInv, RestoringRequested, Restoring
    <2> QED BY <1>1, <1>10, <2>1 DEF StartingServed, Starting, Settled, Restoring
  <1>13. Remembered'
    <2> SUFFICES ASSUME Key(spec) \in done, status.id = RestoreID(spec)
                 PROVE  /\ job'.state = "complete" \/ status.init = "true" \/ dcs = "initialized"
                        /\ job'.state = "complete" \/ w'.st.init = "true" \/ dcs = "initialized"
      BY <1>1, <1>2 DEF Remembered
    <2>1. Key(Heeded) \in done /\ status.id = RestoreID(Heeded)
      BY KnownIsHeeded DEF Known, OnceInv
    <2>2. ~Unfinished
      BY <2>1, ServedSettled
    <2>3. job.state = "complete" \/ status.init = "true" \/ dcs = "initialized"
      BY <2>1 DEF OnceInv, Remembered
    <2> QED BY <1>1, <2>2, <2>3 DEF NoJob
  <1> QED BY <1>5, <1>6, <1>8, <1>9, <1>10, <1>11, <1>12, <1>13 DEF OnceInv

\* At the restore: it goes on, fails, or creates the Job.
LEMMA OnceContinues ==
    ASSUME Types, Types', KnowledgeInv, OnceInv, Reading,
           \/ DataSourceDone \/ RestoreNothing \/ RestoreFromCluster \/ RestoreFromCloud \/ CallFails
    PROVE  OnceInv' /\ (job = NoJob /\ job' # NoJob => job'.key \notin done)
  <1> DEFINE st == ObserveRestoreEnv(w.st)
  <1>1. /\ UNCHANGED <<spec, status, dcs, done>> /\ w.pc # "idle" /\ w.st \in Status
        /\ w.st.id = status.id /\ w.st.progress = status.progress /\ w.st.init = status.init
        /\ w.spec \in Spec_ /\ Heeded = w.spec
    BY OnceTypes
       DEF DataSourceDone, RestoreNothing, RestoreFromCluster, RestoreFromCloud, CallFails, Reading,
           Heeded, KnowledgeInv, StatusInHand
  <1>2. /\ st \in Status /\ st.id = w.st.id /\ st.bootstrapped = w.st.bootstrapped
        /\ \/ st.progress = w.st.progress
           \/ job.state = "complete" /\ st.progress = "none" /\ st.init = "true"
        /\ w.st.init = "true" /\ ~Unfinished => st.init = "true"
        /\ job = NoJob => st = w.st
    <2>1. st \in Status /\ st.id = w.st.id /\ st.bootstrapped = w.st.bootstrapped
      BY <1>1, ObserveType
    <2>2. CASE job.state = "complete"
      BY <1>1, <2>1, <2>2 DEF ObserveRestoreEnv, Status, NoJob
    <2>3. CASE job.state = "failed"
      BY <1>1, <2>1, <2>3 DEF ObserveRestoreEnv, Status, NoJob, Unfinished
    <2>4. CASE job.state \notin {"complete", "failed"}
      BY <2>1, <2>4 DEF ObserveRestoreEnv
    <2> QED BY <2>2, <2>3, <2>4
  <1>3. CASE CallFails
    <2>1. PICK x \in {w.st, st} : Return(x)
      BY <1>3 DEF CallFails
    <2>2. w'.pc = "save" /\ w'.st = x /\ job' = job
      BY <1>1, <1>2, <1>3, <2>1, ReturnType DEF CallFails
    <2> HIDE DEF st
    <2>3. /\ w'.st.id = w.st.id /\ w'.st.bootstrapped = w.st.bootstrapped
          /\ \/ w'.st.progress = w.st.progress
             \/ job.state = "complete" /\ w'.st.progress = "none" /\ w'.st.init = "true"
          /\ w.st.init = "true" /\ ~Unfinished => w'.st.init = "true"
      BY <1>2, <2>1, <2>2
    <2> QED BY <1>1, <2>2, <2>3, OnceGoesOn
  <1>4. CASE DataSourceDone
    <2>1. Step("instances", st, w.obs.primary) /\ (RestoreID(w.spec) = 0 \/ st.init = "true")
          /\ w.obs.primary \in Instances \cup {None} /\ job' = job
      BY <1>4 DEF DataSourceDone, Types, Work, Observed
    <2> HIDE DEF st
    <2>2. w'.pc = "instances" /\ w'.st = st
      BY <1>2, <2>1, StepType
    <2> QED BY <1>1, <1>2, <2>1, <2>2, OnceGoesOn
  <1>5. CASE RestoreNothing \/ RestoreFromCluster \/ RestoreFromCloud
    <2>1. /\ w.pc = "source" /\ RestoreID(w.spec) # 0 /\ ~PrepareNeeded(st) /\ st.init # "true"
          /\ Return(st) \/ Return([st EXCEPT !.init = "true"])
          /\ \/ job' = job
             \/ job = NoJob /\ job' = RestoreJobIntent(st) /\ ~st.bootstrapped
      BY <1>5 DEF RestoreNothing, RestoreFromCluster, MustRestoreFromCluster, RestoreFromCloud, MustRestore, MustPrepare,
                  ReconcileRestoreJob
    <2>2. RestoreID(w.spec) = status.id /\ (Restoring(st) => st.progress = "ready")
      BY <1>1, <1>2, <2>1 DEF PrepareNeeded
    <2> HIDE DEF st
    <2>3. [st EXCEPT !.init = "true"] \in Status /\ [st EXCEPT !.init = "true"].id = st.id
          /\ [st EXCEPT !.init = "true"].progress = st.progress
          /\ [st EXCEPT !.init = "true"].bootstrapped = st.bootstrapped
          /\ [st EXCEPT !.init = "true"].init = "true"
      BY <1>2 DEF Status
    <2>4. /\ w'.pc = "save" /\ w'.st.id = st.id /\ w'.st.progress = st.progress
          /\ w'.st.bootstrapped = st.bootstrapped /\ (st.init = "true" => w'.st.init = "true")
      BY <1>2, <2>1, <2>3, ReturnType
    <2>5. job # job' => /\ job = NoJob /\ job' # NoJob /\ job'.key = Key(w.spec)
                        /\ Key(w.spec) \notin done /\ status.progress = "ready"
      <3> SUFFICES ASSUME job # job'
                   PROVE  /\ job = NoJob /\ job' # NoJob /\ job'.key = Key(w.spec)
                          /\ Key(w.spec) \notin done /\ status.progress = "ready"
        OBVIOUS
      <3>1. /\ job = NoJob /\ job' # NoJob /\ job'.key = Key(w.spec) /\ ~w.st.bootstrapped
            /\ w.st.init # "true"
        BY <1>2, <2>1 DEF RestoreJobIntent, NoJob
      <3>2. Key(w.spec) \notin done
        BY <1>1, <2>1, <2>2, <3>1 DEF OnceInv, Remembered, NoJob
      <3>3. status.progress # "none"
        BY <1>1, <2>1, <2>2, <3>1 DEF OnceInv, Settled
      <3> QED BY <1>1, <1>2, <2>2, <3>1, <3>2, <3>3 DEF Restoring
    <2>6. w.st.init = "true" /\ ~Unfinished => w'.st.init = "true"
      BY <1>2, <2>4
    <2>7. \/ w'.st.progress = w.st.progress
          \/ job.state = "complete" /\ w'.st.progress = "none" /\ w'.st.init = "true"
      BY <1>2, <2>4
    <2>8. OnceInv'
      BY <1>1, <1>2, <2>1, <2>2, <2>4, <2>5, <2>6, <2>7, OnceGoesOn
    <2> QED BY <2>5, <2>8
  <1> QED BY <1>3, <1>4, <1>5

\* The instances start, and when the cluster has been bootstrapped the Job is removed.
LEMMA OnceStarts ==
    ASSUME Types, Types', KnowledgeInv, OnceInv, Starting, ReconcileInstances \/ Cleanup \/ CallFails
    PROVE  OnceInv'
  <1>1. /\ UNCHANGED <<spec, status, dcs, done>> /\ w.st \in Status /\ w.pc # "idle"
        /\ job' = job \/ (job' = NoJob /\ w.st.bootstrapped)
    BY OnceTypes DEF ReconcileInstances, Cleanup, CallFails, Starting
  <1>2. /\ w'.pc \in {"cleanup", "save"} /\ w'.st.id = w.st.id /\ w'.st.progress = w.st.progress
        /\ w'.st.init = w.st.init /\ w'.st.bootstrapped = w.st.bootstrapped
    <2>1. CASE ReconcileInstances
      <3> DEFINE startup == IF w.obs.primary # None THEN None ELSE w.st.startup
                 st == [w.st EXCEPT !.startup = startup]
      <3>1. st \in Status /\ st.id = w.st.id /\ st.progress = w.st.progress /\ st.init = w.st.init
            /\ st.bootstrapped = w.st.bootstrapped
        BY <1>1 DEF Status
      <3>2. Step("cleanup", st, None)
        BY <2>1 DEF ReconcileInstances
      <3> HIDE DEF st
      <3> QED BY <3>1, <3>2, StepType
    <2>2. CASE Cleanup \/ CallFails
      <3>1. Return(w.st)
        BY <2>2 DEF Cleanup, CallFails, Starting
      <3> QED BY <1>1, <3>1, ReturnType
    <2> QED BY <2>1, <2>2
  <1>3. /\ ~Reading /\ ~Reading' /\ Heeded = spec /\ Heeded' = spec /\ BootstrapID' = BootstrapID
        /\ Known' \subseteq Known
    BY <1>1, <1>2 DEF Starting, Reading, Heeded, BootstrapID, Known, NoJob, NoKey
  <1>4. RestoreID(spec)' = RestoreID(spec) /\ Key(spec)' = Key(spec)
        /\ RestoreID(Heeded)' = RestoreID(spec) /\ Key(Heeded)' = Key(spec)
    BY <1>1, <1>3 DEF RestoreID, RestoreInPlace, BootstrapID, Key
  <1>5. AlwaysAsked' /\ Settled' /\ StartingServed'
    BY <1>1, <1>2, <1>3 DEF OnceInv, AlwaysAsked, Settled, StartingServed, Restoring
  <1>6. KnownOrdered'
    BY <1>1, <1>2, <1>3 DEF OnceInv, KnownOrdered, Rank
  <1>7. JobIsNext'
    BY <1>1, <1>2 DEF OnceInv, JobIsNext, Unfinished, NoJob, Rank, BootstrapID, Restoring
  <1>8. RequestedIsNew'
    BY <1>1, <1>2, <1>3 DEF OnceInv, RequestedIsNew, New
  <1>9. ReadyThenBootstrapped'
    <2>1. w.st.progress = "ready" => status.progress = "ready" /\ w.st.id = status.id
      BY DEF OnceInv, StartingServed, Restoring
    <2>2. w.pc \notin {"idle", "save"}
      BY DEF Starting
    <2> QED BY <1>1, <1>2, <1>3, <1>4, <2>1, <2>2 DEF OnceInv, ReadyThenBootstrapped
  <1>10. Remembered'
    <2>1. w.st.id = RestoreID(spec) /\ Key(spec) \in done => w.st.init = "true"
      BY KnownIsHeeded DEF OnceInv, StartingServed, Known
    <2>2. ASSUME Key(spec) \in done, status.id = RestoreID(spec)
          PROVE  job'.state = "complete" \/ status.init = "true" \/ dcs = "initialized"
      <3>1. job.state = "complete" \/ status.init = "true" \/ dcs = "initialized"
        BY <1>3, <2>2 DEF OnceInv, Remembered
      <3>2. status.progress # "requested" /\ status.id # 0
        BY <1>3, <2>2, ServedSettled
      <3>3. status.progress = "none" => status.init = "true"
        BY <3>2 DEF OnceInv, Settled
      <3>4. status.progress = "ready" /\ w.st.bootstrapped => dcs = "initialized"
        BY <1>3, <2>2 DEF OnceInv, ReadyThenBootstrapped, Starting
      <3>5. status.progress \in {"none", "requested", "ready"}
        BY OnceTypes DEF Status
      <3> QED BY <1>1, <3>1, <3>2, <3>3, <3>4, <3>5
    <2> QED BY <1>1, <1>2, <1>4, <2>1, <2>2 DEF Remembered
  <1> QED BY <1>5, <1>6, <1>7, <1>8, <1>9, <1>10 DEF OnceInv

\* A reconcile begins, looks at the instances, and ends.
LEMMA OnceBegins ==
    ASSUME Types, Types', KnowledgeInv, OnceInv, Begin \/ Observe \/ PatchStatus \/ Crash
    PROVE  OnceInv'
  <1>0. /\ UNCHANGED <<spec, job, dcs, done>> /\ Known' = Known /\ Unfinished' = Unfinished
        /\ BootstrapID' = BootstrapID
    BY DEF Begin, Observe, PatchStatus, Crash, Known, NoJob, NoKey, Unfinished, BootstrapID
  <1>1. RestoreID(spec)' = RestoreID(spec) /\ Key(spec)' = Key(spec)
        /\ RestoreID(Heeded)' = RestoreID(Heeded') /\ Key(Heeded)' = Key(Heeded')
    BY <1>0 DEF RestoreID, RestoreInPlace, BootstrapID, Key
  <1>2. CASE Begin
    <2>1. /\ w.pc = "idle" /\ w'.pc \in {"observe", "save"} /\ w'.st = status /\ status' = status
          /\ w'.pc = "observe" => w'.spec = spec
      BY <1>2, OnceTypes, ReturnType DEF Begin
    <2>2. Heeded = spec /\ Heeded' = spec /\ ~Starting' /\ ~Reading /\ (Reading' <=> w'.pc = "observe")
      BY <1>0, <2>1 DEF Heeded, Reading, Starting
    <2>3. AlwaysAsked' /\ JobIsNext' /\ Settled' /\ StartingServed' /\ RequestedIsNew'
      BY <1>0, <2>1, <2>2 DEF OnceInv, AlwaysAsked, JobIsNext, Settled, StartingServed, RequestedIsNew, New,
                              Rank, Restoring
    <2>4. KnownOrdered'
      <3>1. spec.config <= spec.config /\ Rank(status.id) <= Rank(status.id)
        BY OnceTypes, RankOrder
      <3> QED BY <1>0, <2>1, <2>2, <3>1 DEF OnceInv, KnownOrdered, Rank
    <2>5. ReadyThenBootstrapped' /\ Remembered'
      BY <1>0, <1>1, <2>1, <2>2 DEF OnceInv, ReadyThenBootstrapped, Remembered
    <2> QED BY <2>3, <2>4, <2>5 DEF OnceInv
  <1>3. CASE Observe
    <2>1. /\ w.pc = "observe" /\ w'.pc = "source" /\ w'.spec = w.spec /\ status' = status
          /\ w'.st = PatroniStatus(ExistingVolumes(w.st))
      BY <1>3 DEF Observe, Types, Work
    <2>2. /\ w'.st.progress = w.st.progress /\ w'.st.init = w.st.init /\ w'.st.id = w.st.id
          /\ w'.st.bootstrapped <=> w.st.bootstrapped \/ dcs = "initialized"
      BY <2>1, OnceTypes DEF PatroniStatus, ExistingVolumes, Status
    <2>3. Reading /\ Reading' /\ ~Starting' /\ Heeded = w.spec /\ Heeded' = w.spec
      BY <2>1 DEF Reading, Starting, Heeded
    <2>4. AlwaysAsked' /\ JobIsNext' /\ Settled' /\ StartingServed' /\ RequestedIsNew'
      BY <1>0, <2>1, <2>2, <2>3
         DEF OnceInv, AlwaysAsked, JobIsNext, Settled, StartingServed, RequestedIsNew, New, Rank, Restoring
    <2>5. KnownOrdered'
      BY <1>0, <2>1, <2>2, <2>3 DEF OnceInv, KnownOrdered, Rank
    <2>6. ReadyThenBootstrapped' /\ Remembered'
      BY <1>0, <1>1, <2>1, <2>2, <2>3 DEF OnceInv, ReadyThenBootstrapped, Remembered
    <2> QED BY <2>4, <2>5, <2>6 DEF OnceInv
  <1>4. CASE PatchStatus \/ Crash
    <2>1. /\ w'.pc = "idle" /\ w.pc # "idle"
          /\ \/ status' = status
             \/ w.pc = "save" /\ status' = w.st
      BY <1>4 DEF PatchStatus, Crash, Idle
    <2>2. ~Reading' /\ ~Starting' /\ Heeded' = spec /\ (w.pc = "save" => ~Reading /\ Heeded = spec)
      BY <1>0, <2>1 DEF Reading, Starting, Heeded
    <2>3. Heeded.config <= spec.config /\ Heeded.config \in Nat /\ spec.config \in Nat
          /\ \A k \in Known : k.config \in Nat /\ Rank(k.id) \in Nat
      BY OnceTypes, RankOrder DEF OnceInv, KnownOrdered, Heeded
    <2>4. AlwaysAsked' /\ JobIsNext' /\ Settled' /\ StartingServed'
      BY <1>0, <2>1, <2>2 DEF OnceInv, AlwaysAsked, JobIsNext, Settled, StartingServed, Rank, Restoring
    <2>5. RequestedIsNew'
      BY <1>0, <2>1, <2>2, <2>3 DEF OnceInv, RequestedIsNew, New
    <2>6. KnownOrdered'
      <3>1. Rank(status.id) <= Rank(w.st.id) /\ Rank(status.id) \in Nat /\ Rank(w.st.id) \in Nat
        BY <2>1, OnceTypes, RankOrder DEF OnceInv, KnownOrdered
      <3>2. ASSUME NEW k \in Known
            PROVE  k.id # 0 /\ (k.bootstrap <=> k.id = BootstrapID) /\ Rank(k.id) <= Rank(status'.id)
                   /\ k.config <= spec.config
        BY <2>1, <2>3, <3>1, <3>2 DEF OnceInv, KnownOrdered
      <3> QED BY <1>0, <2>1, <2>2, <3>2 DEF KnownOrdered, Rank
    <2>7. ReadyThenBootstrapped'
      <3>1. status.progress = "ready" /\ RestoreID(spec) = status.id => RestoreID(Heeded) = status.id
        BY StillAsked DEF Restoring
      <3> QED BY <1>0, <1>1, <2>1, <2>2, <3>1 DEF OnceInv, ReadyThenBootstrapped
    <2>8. Remembered'
      <3>1. Key(spec) \in done => Key(Heeded) = Key(spec) /\ RestoreID(Heeded) = RestoreID(spec)
        BY KnownIsHeeded DEF Known, OnceInv
      <3> QED BY <1>0, <1>1, <2>1, <2>2, <3>1 DEF OnceInv, Remembered
    <2> QED BY <2>4, <2>5, <2>6, <2>7, <2>8 DEF OnceInv
  <1> QED BY <1>2, <1>3, <1>4

LEMMA OnceNext ==
    ASSUME NoSecondClone, Types, Types', KnowledgeInv, OnceInv, [Next]_vars
    PROVE  OnceInv'
  <1>1. CASE User
    BY <1>1, OnceUser
  <1>2. CASE StartRestore \/ FinishRestore \/ FailRestore
    BY <1>2, OnceJobRuns
  <1>3. CASE RemoveRestoreJob \/ RemoveRunners \/ RemoveEndpoints \/ ReadyForRestore
    BY <1>3, OncePrepares
  <1>4. CASE DataSourceDone \/ RestoreNothing \/ RestoreFromCluster \/ RestoreFromCloud
    <2>1. Reading
      BY <1>4 DEF DataSourceDone, RestoreNothing, RestoreFromCluster, MustRestoreFromCluster, RestoreFromCloud, MustRestore, Reading
    <2> QED BY <1>4, <2>1, OnceContinues
  <1>5. CASE ReconcileInstances \/ Cleanup
    <2>1. Starting
      BY <1>5 DEF ReconcileInstances, Cleanup, Starting
    <2> QED BY <1>5, <2>1, OnceStarts
  <1>6. CASE CallFails
    <2>1. Reading \/ Starting
      BY <1>6 DEF CallFails, Reading, Starting, Types, Work, PCs
    <2> QED BY <1>6, <2>1, OnceContinues, OnceStarts
  <1>7. CASE Begin \/ Observe \/ PatchStatus \/ Crash
    BY <1>7, OnceBegins
  <1>8. CASE UNCHANGED <<spec, status, w, job, done>> /\ (dcs' = dcs \/ dcs' = "initialized" \/ dcs = "none")
    BY <1>8, OnceFrame
  <1>9. ASSUME NEW r, Move(r) PROVE UNCHANGED <<spec, status, w, job, done, dcs>>
    BY <1>9 DEF Move, MovePGDataDir, MoveWALDir, MoveRepoDir, EndMove
  <1> QED
    BY <1>1, <1>2, <1>3, <1>4, <1>5, <1>6, <1>7, <1>8, <1>9
       DEF Next, vars, Reconcile, Kubernetes, Patroni, Failure, CopyFile, CreatePod, StartContainer,
           DeletePod, RestartContainer, WriteEndpoints, BecomeLeader, Bootstrap, Follow

\* A restore that completed is not made again (RestoreOnce), whatever crashes, lost
\* patches, failed calls, new requests and options come between, for any number of them:
\* prepareForRestore prepares only what no Job has restored, and between a Job that is
\* removed and a status that is stored one of Job, status and Patroni remembers it.
\* The exception is a cloned cluster whose user disables restores in place.
THEOREM RestoredOnlyOnce == ASSUME NoSecondClone PROVE Spec => RestoreOnce
  <1> DEFINE Once == job.state = "absent" /\ job'.state # "absent" => job'.key \notin done
  <1>1. Types /\ Types' /\ RestoreIInv /\ OnceInv /\ [Next]_vars => OnceInv'
    BY OnceNext DEF RestoreIInv
  <1>2. Types /\ Types' /\ RestoreIInv /\ OnceInv /\ [Next]_vars => Once
    <2> SUFFICES ASSUME Types, Types', RestoreIInv, OnceInv, [Next]_vars, job.state = "absent",
                        job'.state # "absent"
                 PROVE  job'.key \notin done
      OBVIOUS
    <2>1. job = NoJob /\ job' # NoJob
      BY DEF RestoreIInv, KnowledgeInv, AbsentJob, NoJob
    <2>2. RestoreFromCluster \/ RestoreFromCloud
      BY <2>1, JobSteps DEF StartRestore, FinishRestore, FailRestore, NoJob
    <2>3. Reading
      BY <2>2 DEF RestoreFromCluster, MustRestoreFromCluster, RestoreFromCloud, MustRestore, Reading
    <2> QED BY <2>1, <2>2, <2>3, OnceContinues DEF RestoreIInv
  <1>3. Types /\ Types' /\ RestoreIInv /\ OnceInv /\ [Next]_vars => [Once]_vars
    BY <1>2
  <1>4. Spec => []OnceInv
    BY <1>1, OnceInit, TypesAlways, RestoreAlways, PTL DEF Spec
  <1>5. Spec => [][Once]_vars
    BY <1>3, <1>4, TypesAlways, RestoreAlways, PTL DEF Spec
  <1> QED BY <1>5 DEF RestoreOnce
=============================================================================
