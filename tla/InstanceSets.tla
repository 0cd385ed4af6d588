----------------------------- MODULE InstanceSets -----------------------------
(***************************************************************************)
(* How the operator keeps the instances of a PostgresCluster in line with  *)
(* spec.instances: observeInstances and reconcileInstanceSets of           *)
(* internal/controller/postgrescluster/instance.go, called once from every *)
(* Reconcile (controller.go).                                              *)
(*                                                                         *)
(* A reconcile lists the objects once, decides everything from that        *)
(* snapshot and then makes one API call after another, while Kubernetes,   *)
(* Patroni and the user go on.  Each API call is a step of its own; the    *)
(* operator may crash between any two, and calls may fail.                 *)
(***************************************************************************)
EXTENDS InstanceObjects

CONSTANTS
    InitialReplicas,    \* replicas of each set before the first edit
    ReplicaCounts,      \* replicas the user may ask for; 0 removes the set
    UserEdits,          \* kinds of edit: subset of {"scale","template","shutdown"}
    MaxEdits,           \* bound on edits
    MaxCrashes,         \* bound on operator crashes
    MaxErrors,          \* bound on failing API calls
    StaleReads          \* whether an informer cache may lag behind a reconcile

ASSUME SpecAssumption ==
    /\ IsFiniteSet(Sets)
    /\ ReplicaCounts \subseteq Nat
    /\ InitialReplicas \in [Sets -> ReplicaCounts]
    /\ UserEdits \subseteq {"scale", "template", "shutdown"}
    /\ StaleReads \in BOOLEAN
\* replicas is an int32: there is a largest number that may be asked for.
ASSUME ReplicasAssumption == \E m \in ReplicaCounts : \A n \in ReplicaCounts : n <= m
ASSUME FaultBoundsAssumption ==
    /\ MaxEdits \in Nat
    /\ MaxCrashes \in Nat
    /\ MaxErrors \in Nat

VARIABLES
    spec,           \* spec.instances, the Pod template and spec.shutdown
    startup,        \* status.startupInstance as stored in the API
    pdbs,           \* sets that have a PodDisruptionBudget
    pc,             \* where the reconcile in flight is
    mem,            \* its PostgresCluster: spec read, startup instance decided
    obs,            \* what it listed: Pods, runners and volumes
    todoSets,       \* sets still to be scaled up
    curSet,         \* the set being scaled up
    todo,           \* instances the current loop has not reached
    cur,            \* the instance between two calls of the current loop
    disrupted,      \* history: available instances a rollout took down that
                    \* have neither come back nor been scaled down
    panicked,       \* history: a reconcile dereferenced a nil pointer
    edits, crashes, errors

operatorVars == <<pc, mem, obs, todoSets, curSet, todo, cur>>
boundVars    == <<edits, crashes, errors>>
vars == <<objectVars, spec, startup, pdbs, operatorVars, disrupted, panicked, boundVars>>

Spec_ == [replicas : [Sets -> ReplicaCounts], rev : Revisions, shutdown : BOOLEAN]
Views == [pods    : [Instances -> Pod],
          runners : [Instances -> Runner],
          volumes : [Instances -> VolumePhases]]
Steps == {"idle", "sets", "apply", "delete", "roll", "patch"}

TypeOK ==
    /\ ObjectsTypeOK
    /\ spec \in Spec_
    /\ startup \in Instances \cup {None}
    /\ pdbs \in SUBSET Sets
    /\ pc \in Steps
    /\ mem \in [spec : Spec_, startup : Instances \cup {None}]
    /\ obs \in Views
    /\ todoSets \in SUBSET Sets
    /\ curSet \in Sets \cup {None}
    /\ pc = "apply" => curSet \in Sets
    /\ todo \in SUBSET Instances
    /\ cur \in Instances \cup {None}
    /\ disrupted \in SUBSET Instances
    /\ panicked \in BOOLEAN
    /\ edits \in 0..MaxEdits /\ crashes \in 0..MaxCrashes /\ errors \in 0..MaxErrors

InitialSpec == [replicas |-> InitialReplicas, rev |-> 1, shutdown |-> FALSE]
NoView == [pods    |-> [i \in Instances |-> NoPod],
           runners |-> [i \in Instances |-> NoRunner],
           volumes |-> [i \in Instances |-> "absent"]]

\* No reconcile is in flight, nothing has gone wrong and no edit was made yet.
InitOperator ==
    /\ changed = {} /\ failures = 0 /\ failovers = 0
    /\ spec = InitialSpec
    /\ startup = None
    /\ pc = "idle"
    /\ mem = [spec |-> InitialSpec, startup |-> None]
    /\ obs = IF StaleReads THEN [pods |-> pods, runners |-> runners, volumes |-> volumes]
                            ELSE NoView
    /\ todoSets = {} /\ curSet = None /\ todo = {} /\ cur = None
    /\ disrupted = {}
    /\ panicked = FALSE
    /\ edits = 0 /\ crashes = 0 /\ errors = 0

\* A cluster the user has just created.
Init ==
    /\ pods = NoView.pods /\ runners = NoView.runners /\ volumes = NoView.volumes
    /\ leader = None /\ lastLeader = None
    /\ pdbs = {}
    /\ InitOperator

\* A cluster that has been running for a while, led by l.
InitEstablished ==
    \E members \in SUBSET Instances : \E l \in members :
        /\ \A s \in Sets : Cardinality({i \in members : SetOf[i] = s}) = InitialReplicas[s]
        /\ pods = [i \in Instances |->
                     IF i \in members
                     THEN [phase |-> "running", rev |-> 1, ready |-> TRUE,
                           role |-> IF i = l THEN "master" ELSE "replica"]
                     ELSE NoPod]
        /\ runners = [i \in Instances |->
                        IF i \in members
                        THEN [phase |-> "present", replicas |-> 1, rev |-> 1,
                              synced |-> TRUE]
                        ELSE NoRunner]
        /\ volumes = [i \in Instances |-> IF i \in members THEN "bound" ELSE "absent"]
        /\ leader = l /\ lastLeader = l
        /\ pdbs = {s \in Sets : InitialReplicas[s] > 1}
        /\ InitOperator

-----------------------------------------------------------------------------
(* What a reconcile derives from its snapshot.                             *)

SpecSets(sp) == {s \in Sets : sp.replicas[s] > 0}

\* newObservedInstances: every listed runner and every listed Pod is an
\* instance of the cluster (forCluster).
ObservedPods      == {i \in Instances : obs.pods[i].phase # "absent"}
ObservedRunners   == {i \in Instances : obs.runners[i].phase = "present"}
ObservedInstances == ObservedPods \cup ObservedRunners

\* Instance.IsPrimary, Instance.IsAvailable, Instance.PodMatchesPodTemplate:
\* one listed Pod makes the answer known.
IsPrimary(v, i)     == v.pods[i].role = "master"
IsAvailable(i)      == obs.pods[i].phase = "running" /\ obs.pods[i].ready
NeedsRedeploy(i) ==
    /\ obs.runners[i].phase = "present"
    /\ obs.runners[i].synced
    /\ obs.pods[i].rev # obs.runners[i].rev

\* Mutant: a volume left without a runner is never used again.
NoNamesMutant(s) == {}

\* findAvailableInstanceNames: names whose volume is left without a runner.
AvailableNames(s) ==
    {i \in Instances : /\ SetOf[i] = s
                       /\ obs.volumes[i] = "bound"
                       /\ obs.runners[i].phase = "absent"}

\* naming.GenerateInstance: a random name nothing carries yet.
FreshNames(s) ==
    {i \in Instances : /\ SetOf[i] = s
                       /\ obs.runners[i].phase = "absent"
                       /\ ~ RunnerExists(i) /\ ~ PodExists(i)
                       /\ volumes[i] = "absent"}

\* Mutant: instances are counted by their Pods instead of their runners.
CountPodsMutant(s, names) ==
    LET existing == {i \in ObservedRunners : SetOf[i] = s}
        missing  == Max({0, mem.spec.replicas[s]
                            - Cardinality({i \in ObservedPods : SetOf[i] = s})})
        fresh    == FreshNames(s)
    IN  /\ names \subseteq existing \cup fresh
        /\ existing \subseteq names
        /\ Cardinality(names \cap fresh) = Min({missing, Cardinality(fresh)})

\* scaleUpInstances: the instances to write for set s, the ones listed and as
\* many more, under a name available for reuse or a new one, as are missing.
InstancesFor(s, names) ==
    LET existing == {i \in ObservedRunners : SetOf[i] = s}
        missing  == Max({0, mem.spec.replicas[s] - Cardinality(existing)})
        reuse    == Min({missing, Cardinality(AvailableNames(s))})
        fresh    == FreshNames(s) \ AvailableNames(s)
    IN  /\ names \subseteq existing \cup AvailableNames(s) \cup fresh
        /\ existing \subseteq names
        /\ Cardinality(names \cap AvailableNames(s)) = reuse
        /\ Cardinality(names \cap fresh) =
               Min({missing - reuse, Cardinality(fresh)})

\* Mutant: the replicas of the set instead of those of one instance.
ReplicasOfSetMutant(i) == mem.spec.replicas[SetOf[i]]

\* Mutant: shutdown stops the primary together with the others.
AllAtOnceMutant(i) ==
    IF mem.startup = None \/ (mem.startup = i /\ ~ mem.spec.shutdown) THEN 1 ELSE 0

\* generateInstanceStatefulSetIntent: the replicas of the StatefulSet of i.
ReplicasIntent(i) ==
    LET lastOfShutdown == mem.spec.shutdown /\ Cardinality(ObservedPods) <= 1
    IN  IF mem.startup = None \/ (mem.startup = i /\ ~ lastOfShutdown) THEN 1 ELSE 0

\* Mutant: the primary comes in the order listed, like the others.
PrimaryNotFirstMutant(keep) ==
    /\ keep \subseteq ObservedPods
    /\ \A i \in keep : SetOf[i] \in SpecSets(mem.spec)
    /\ \A s \in SpecSets(mem.spec) :
          LET list == {i \in ObservedPods : SetOf[i] = s}
          IN  Cardinality(keep \cap list) = Min({mem.spec.replicas[s], Cardinality(list)})

\* Mutant: Pods of sets that are not in the spec are never considered.
RemovedSetsKeptMutant(keep) ==
    keep = {i \in ObservedPods : SetOf[i] \notin SpecSets(mem.spec)
                                  \/ IsPrimary(obs, i)}

\* podsToKeep: of every set in the spec all Pods labelled master, then others
\* up to the replicas wanted.  newObservedInstances lists instances with a
\* runner before Pods that lost theirs; otherwise the order is arbitrary.
PodsToKeep(keep) ==
    /\ keep \subseteq ObservedPods
    /\ \A i \in keep : SetOf[i] \in SpecSets(mem.spec)
    /\ \A s \in SpecSets(mem.spec) :
          LET list    == {i \in ObservedPods : SetOf[i] = s}
              masters == {i \in list : IsPrimary(obs, i)}
          IN  /\ masters \subseteq keep
              /\ Cardinality(keep \cap list) =
                    Max({Cardinality(masters),
                         Min({mem.spec.replicas[s], Cardinality(list)})})
              /\ \A i \in (keep \cap list) \ masters, j \in list \ keep :
                    j \in ObservedRunners => i \in ObservedRunners

\* The replicas of every set, counted together.
NumSpecified(sp) ==
    Cardinality({r \in Sets \X (1..Max(ReplicaCounts)) : r[2] <= sp.replicas[r[1]]})

\* rolloutInstances: the instances counted and considered.
Countable ==
    {i \in Instances : /\ SetOf[i] \in SpecSets(mem.spec)
                       /\ obs.pods[i].phase = "running"}

Consider == {i \in Countable : NeedsRedeploy(i)}

\* byPriority: the order in which instances are redeployed.
Rank(i) == CASE IsPrimary(obs, i) -> 2
             [] ~ IsPrimary(obs, i) /\ IsAvailable(i) -> 1
             [] OTHER -> 0

maxUnavailable == 1

\* Mutant: numUnavailable is not incremented after a redeploy.
NotCountedMutant(roll) ==
    LET numAvailable == Cardinality({i \in Countable : IsAvailable(i)})
    IN  roll = {i \in Consider : IsAvailable(i) =>
                   NumSpecified(mem.spec) - numAvailable < maxUnavailable}

\* The instances rolloutInstances redeploys: those that are unavailable anyway
\* and, lowest priority first, as many available ones as may be missing.
ToRedeploy(roll) ==
    LET numAvailable == Cardinality({i \in Countable : IsAvailable(i)})
        allowance    == maxUnavailable - (NumSpecified(mem.spec) - numAvailable)
        up           == {i \in Consider : IsAvailable(i)}
    IN  /\ roll \subseteq Consider
        /\ Consider \ up \subseteq roll
        /\ Cardinality(roll \cap up) = Max({0, Min({allowance, Cardinality(up)})})
        /\ \A i \in roll \cap up, j \in up \ roll : Rank(i) <= Rank(j)

-----------------------------------------------------------------------------
(* The steps of a reconcile.                                               *)

\* Reconcile ends, or the process dies, and its memory is gone.  Only the
\* informer caches outlive a reconcile.
Forget ==
    /\ pc' = "idle"
    /\ mem' = [spec |-> InitialSpec, startup |-> None]
    /\ todoSets' = {} /\ curSet' = None /\ todo' = {} /\ cur' = None
    /\ IF StaleReads THEN UNCHANGED <<obs, changed>>
                     ELSE obs' = NoView /\ changed' = {}

\* After an error every remaining step of Reconcile is skipped but the last.
SkipToPatch ==
    /\ pc' = "patch"
    /\ todoSets' = {} /\ curSet' = None /\ todo' = {} /\ cur' = None
    /\ UNCHANGED <<mem, obs>>

CallFails == errors < MaxErrors /\ errors' = errors + 1

\* A list comes from an informer cache: what the API holds now or, when the
\* cache lags, what the previous reconcile saw.
Freshness == IF StaleReads THEN BOOLEAN ELSE {TRUE}
ListView(fp, fr, fv) ==
    [pods    |-> IF fp THEN pods ELSE obs.pods,
     runners |-> IF fr THEN runners ELSE obs.runners,
     volumes |-> IF fv THEN volumes ELSE obs.volumes]

\* Mutant: a stored startup instance is never cleared.
NotClearedMutant(view, st) ==
    LET primaries == {i \in Instances : IsPrimary(view, i)}
    IN  \/ primaries = {} /\ st = startup
        \/ spec.shutdown /\ st \in primaries
        \/ ~ spec.shutdown /\ primaries # {} /\ st = startup

\* The first loop of reconcileInstanceSets: what the primaries listed make of
\* status.startupInstance.
StartupInstance(view, st) ==
    LET primaries == {i \in Instances : IsPrimary(view, i)}
    IN  \/ primaries = {} /\ st = startup
        \/ spec.shutdown /\ st \in primaries
        \/ ~ spec.shutdown /\ primaries # {} /\ st = None

\* A primary whose set is no longer in the spec has a nil Instance.Spec.
NilSpec(view) ==
    /\ spec.shutdown
    /\ \E i \in Instances : IsPrimary(view, i) /\ SetOf[i] \notin SpecSets(spec)

\* Reconcile reads the PostgresCluster, observePersistentVolumeClaims and
\* observeInstances list the objects, reconcileInstanceSets begins.
Observe ==
    /\ pc = "idle"
    /\ \E fp, fr, fv \in Freshness, st \in Instances \cup {None} :
          LET view == ListView(fp, fr, fv)
          IN  /\ ~ NilSpec(view)
              /\ StartupInstance(view, st)
              /\ obs' = view
              /\ changed' = IF fp THEN {} ELSE changed
              /\ mem' = [spec |-> spec, startup |-> st]
    /\ pc' = "sets"
    /\ todoSets' = SpecSets(spec)
    /\ UNCHANGED <<curSet, todo, cur, pods, runners, volumes, leader, lastLeader,
                   failures, failovers, spec, startup, pdbs, disrupted, panicked,
                   boundVars>>

\* The same, ending in a panic: nothing has been written.
ObservePanics ==
    /\ pc = "idle"
    /\ \E fp, fr, fv \in Freshness : NilSpec(ListView(fp, fr, fv))
    /\ panicked' = TRUE
    /\ UNCHANGED <<objectVars, spec, startup, pdbs, operatorVars, disrupted, boundVars>>

ScaleUpInstances(s) ==
    /\ pc = "sets"
    /\ s \in todoSets
    /\ \E names \in SUBSET Instances : InstancesFor(s, names) /\ todo' = names
    /\ todoSets' = todoSets \ {s}
    /\ curSet' = s
    /\ pc' = "apply"
    /\ UNCHANGED <<objectVars, spec, startup, pdbs, mem, obs, cur, disrupted,
                   panicked, boundVars>>

\* The loop of scaleUpInstances: listed instances come before added ones.
NextToWrite(i) ==
    /\ pc = "apply" /\ i \in todo
    /\ i \in ObservedRunners \/ todo \cap ObservedRunners = {}

\* reconcileInstance builds its intent in the very object that was listed, and
\* apply fills that object with the answer of the API: later steps of this
\* reconcile see the StatefulSet as it was left here.
Relist(i, runner) ==
    obs' = IF i \in ObservedRunners THEN [obs EXCEPT !.runners[i] = runner] ELSE obs

\* reconcileInstance writes the volume first, ...
ReconcileVolume(i) ==
    /\ cur = None /\ NextToWrite(i)
    /\ cur' = i
    /\ volumes' = [volumes EXCEPT ![i] = IF @ = "absent" THEN "bound" ELSE @]
    /\ UNCHANGED <<pods, runners, leader, lastLeader, changed, failures, failovers,
                   spec, startup, pdbs, pc, mem, obs, todoSets, curSet, todo,
                   disrupted, panicked, boundVars>>

\* handlePersistentVolumeClaimError: a claim that the API server refuses to create is an
\* event and no error, and the StatefulSet follows.  A claim that exists is kept then.
ReconcileVolumeRefused(i) ==
    /\ cur = None /\ NextToWrite(i) /\ volumes[i] = "absent"
    /\ CallFails
    /\ cur' = i
    /\ UNCHANGED <<objectVars, spec, startup, pdbs, pc, mem, obs, todoSets, curSet, todo,
                   disrupted, panicked, edits, crashes>>

\* ... then the StatefulSet.  Only a change makes a new generation of it.
ReconcileRunner(i) ==
    LET intent == [phase |-> "present", replicas |-> ReplicasIntent(i),
                   rev |-> mem.spec.rev, synced |-> runners[i].synced]
        result == IF runners[i] = intent THEN intent
                                         ELSE [intent EXCEPT !.synced = FALSE]
    IN  /\ pc = "apply" /\ cur = i
        /\ cur' = None
        /\ todo' = todo \ {i}
        /\ runners' = [runners EXCEPT ![i] = result]
        /\ Relist(i, result)
        /\ UNCHANGED <<pods, volumes, leader, lastLeader, changed, failures, failovers,
                       spec, startup, pdbs, pc, mem, todoSets, curSet,
                       disrupted, panicked, boundVars>>

\* What is left of the listed object when a call fails before or at the apply:
\* an intent without status, whose generations are equal (zero) and whose
\* revision no Pod has.
UnwrittenRunner == [phase |-> "present", replicas |-> 0, rev |-> 0, synced |-> TRUE]

\* scaleUpInstances goes on to the next instance after an error, and returns
\* the error of the last instance only.
ReconcileInstanceFails(i) ==
    /\ IF cur = None THEN NextToWrite(i) ELSE cur = i /\ pc = "apply"
    /\ CallFails
    /\ IF todo = {i}
          THEN SkipToPatch
          ELSE /\ todo' = todo \ {i}
               /\ cur' = None
               /\ Relist(i, UnwrittenRunner)
               /\ UNCHANGED <<pc, mem, todoSets, curSet>>
    /\ UNCHANGED <<objectVars, spec, startup, pdbs, disrupted, panicked, edits, crashes>>

\* reconcileInstanceSetPodDisruptionBudget: getMinAvailable is one when there
\* is more than one replica, zero otherwise.
ReconcilePodDisruptionBudget ==
    /\ pc = "apply" /\ todo = {}
    /\ pdbs' = IF mem.spec.replicas[curSet] > 1 THEN pdbs \cup {curSet}
                                               ELSE pdbs \ {curSet}
    /\ pc' = "sets"
    /\ curSet' = None
    /\ UNCHANGED <<objectVars, spec, startup, mem, obs, todoSets, todo, cur,
                   disrupted, panicked, boundVars>>

\* scaleDownInstances decides which of the listed instances go.
ScaleDownInstances ==
    /\ pc = "sets" /\ todoSets = {}
    /\ \E keep \in SUBSET Instances :
          PodsToKeep(keep) /\ todo' = ObservedPods \ keep
    /\ pc' = "delete"
    /\ UNCHANGED <<objectVars, spec, startup, pdbs, mem, obs, todoSets, curSet, cur,
                   disrupted, panicked, boundVars>>

\* deleteInstance deletes the StatefulSet of an instance first, ...  It lists the object
\* for that and deletes it under its resourceVersion; a conflict is a call that fails.
DeleteRunner(i) ==
    /\ pc = "delete" /\ cur = None /\ i \in todo
    /\ cur' = i
    /\ runners' = [runners EXCEPT ![i] = NoRunner]
    /\ disrupted' = disrupted \ {i}
    /\ UNCHANGED <<pods, volumes, leader, lastLeader, changed, failures, failovers,
                   spec, startup, pdbs, pc, mem, obs, todoSets, curSet, todo,
                   panicked, boundVars>>

\* Mutant: the claims are selected by the label of the set.
SetSelectorMutant(i) ==
    /\ pc = "delete" /\ cur = i
    /\ cur' = None
    /\ todo' = todo \ {i}
    /\ volumes' = [j \in Instances |->
                     IF SetOf[j] = SetOf[i] /\ volumes[j] = "bound" THEN "terminating"
                                                                   ELSE volumes[j]]
    /\ UNCHANGED <<pods, runners, leader, lastLeader, changed, failures, failovers,
                   spec, startup, pdbs, pc, mem, obs, todoSets, curSet,
                   disrupted, panicked, boundVars>>

\* ... then its claims.
DeleteVolume(i) ==
    /\ pc = "delete" /\ cur = i
    /\ cur' = None
    /\ todo' = todo \ {i}
    /\ volumes' = [volumes EXCEPT ![i] = IF @ = "bound" THEN "terminating" ELSE @]
    /\ UNCHANGED <<pods, runners, leader, lastLeader, changed, failures, failovers,
                   spec, startup, pdbs, pc, mem, obs, todoSets, curSet,
                   disrupted, panicked, boundVars>>

\* Any other call fails: on a PodDisruptionBudget, in deleteInstance or in
\* rolloutInstance.
OtherCallFails ==
    /\ \/ pc = "apply" /\ todo = {}
       \/ pc = "delete"
       \/ pc = "roll" /\ todo # {}
    /\ CallFails
    /\ SkipToPatch
    /\ UNCHANGED <<objectVars, spec, startup, pdbs, disrupted, panicked, edits, crashes>>

\* cleanupPodDisruptionBudgets, then rolloutInstances decides what to redeploy.
RolloutInstances ==
    /\ pc = "delete" /\ todo = {}
    /\ pdbs' = pdbs \cap SpecSets(mem.spec)
    /\ \E roll \in SUBSET Instances : ToRedeploy(roll) /\ todo' = roll
    /\ pc' = "roll"
    /\ UNCHANGED <<objectVars, spec, startup, mem, obs, todoSets, curSet, cur,
                   disrupted, panicked, boundVars>>

NextToRoll(i) ==
    /\ pc = "roll" /\ i \in todo
    /\ \A j \in todo : Rank(i) <= Rank(j)

HasFailover == Cardinality(ObservedInstances) > 1

\* patronictl switchover --master=i: Patroni refuses when i does not lead or
\* when no healthy replica can take over.
Candidates(i) ==
    {c \in Instances \ {i} : Available(c) /\ pods[c].role = "replica"}

\* rolloutInstance on the primary of a cluster with failover demotes it; its
\* PostgreSQL restarts as a replica.
RolloutSwitchover(i, c) ==
    /\ NextToRoll(i)
    /\ IsPrimary(obs, i) /\ HasFailover
    /\ leader = i
    /\ c \in Candidates(i)
    /\ pods' = [pods EXCEPT ![i].role = "replica", ![i].ready = FALSE,
                            ![c].role = "master"]
    /\ changed' = changed \cup {i, c}
    /\ leader' = c
    /\ lastLeader' = c
    /\ todo' = todo \ {i}
    /\ UNCHANGED <<runners, volumes, failures, failovers, spec, startup, pdbs,
                   pc, mem, obs, todoSets, curSet, cur, disrupted, panicked, boundVars>>

RolloutSwitchoverRefused(i) ==
    /\ NextToRoll(i)
    /\ IsPrimary(obs, i) /\ HasFailover
    /\ leader # i \/ Candidates(i) = {}
    /\ SkipToPatch
    /\ UNCHANGED <<objectVars, spec, startup, pdbs, disrupted, panicked, boundVars>>

\* Mutant: the delete carries the UID alone.
SameUIDMutant(i) == pods[i].phase # "absent"

\* rolloutInstance on any other instance deletes the Pod it listed: the delete
\* carries the UID and the resourceVersion of the Pod as preconditions.
Unmodified(i) == i \notin changed

RolloutDelete(i) ==
    /\ NextToRoll(i)
    /\ ~ (IsPrimary(obs, i) /\ HasFailover)
    /\ Unmodified(i)
    /\ WritePod(i, [pods[i] EXCEPT !.phase = "terminating"])
    /\ disrupted' = disrupted \cup {j \in {i} : Available(i) /\ RunnerExists(i)}
    /\ todo' = todo \ {i}
    /\ UNCHANGED <<runners, volumes, leader, lastLeader, failures, failovers, spec,
                   startup, pdbs, pc, mem, obs, todoSets, curSet, cur, panicked,
                   boundVars>>

\* The Pod has changed or gone since: the API answers Conflict or NotFound.
RolloutConflict(i) ==
    /\ NextToRoll(i)
    /\ ~ (IsPrimary(obs, i) /\ HasFailover)
    /\ ~ Unmodified(i)
    /\ SkipToPatch
    /\ UNCHANGED <<objectVars, spec, startup, pdbs, disrupted, panicked, boundVars>>

RolloutDone ==
    /\ pc = "roll" /\ todo = {}
    /\ pc' = "patch"
    /\ UNCHANGED <<objectVars, spec, startup, pdbs, mem, obs, todoSets, curSet, todo,
                   cur, disrupted, panicked, boundVars>>

\* patchClusterStatus, the end of every reconcile.
PatchClusterStatus ==
    /\ pc = "patch"
    /\ startup' = mem.startup
    /\ Forget
    /\ UNCHANGED <<pods, runners, volumes, leader, lastLeader, failures, failovers,
                   spec, pdbs, disrupted, panicked, boundVars>>

PatchFails ==
    /\ pc = "patch"
    /\ CallFails
    /\ Forget
    /\ UNCHANGED <<pods, runners, volumes, leader, lastLeader, failures, failovers,
                   spec, startup, pdbs, disrupted, panicked, edits, crashes>>

Crash ==
    /\ pc # "idle"
    /\ crashes < MaxCrashes
    /\ crashes' = crashes + 1
    /\ Forget
    /\ UNCHANGED <<pods, runners, volumes, leader, lastLeader, failures, failovers,
                   spec, startup, pdbs, disrupted, panicked, edits, errors>>

-----------------------------------------------------------------------------
(* The user.                                                               *)

Edit(kind, new) ==
    /\ kind \in UserEdits
    /\ edits < MaxEdits
    /\ edits' = edits + 1
    /\ spec' = new
    /\ UNCHANGED <<objectVars, startup, pdbs, operatorVars, disrupted, panicked,
                   crashes, errors>>

\* At least one set has to remain (validation of spec.instances).
EditReplicas(s, n) ==
    /\ n # spec.replicas[s]
    /\ \E t \in Sets : [spec.replicas EXCEPT ![s] = n][t] > 0
    /\ Edit("scale", [spec EXCEPT !.replicas[s] = n])

EditTemplate == spec.rev < MaxRev /\ Edit("template", [spec EXCEPT !.rev = @ + 1])
EditShutdown == Edit("shutdown", [spec EXCEPT !.shutdown = ~ @])

-----------------------------------------------------------------------------
\* What happens beside the operator.  A rolled out instance that is available
\* again is no longer disrupted.
Beside(environment) ==
    /\ environment
    /\ disrupted' = {i \in disrupted : ~ (pods'[i].phase = "running" /\ pods'[i].ready)}
    /\ UNCHANGED <<spec, startup, pdbs, operatorVars, panicked, boundVars>>

EnvironmentStep == \E i \in Instances : Beside(Environment(i))

ReconcileStep ==
    \/ Observe
    \/ \E s \in Sets : ScaleUpInstances(s)
    \/ \E i \in Instances : \/ ReconcileVolume(i) \/ ReconcileRunner(i)
                            \/ DeleteRunner(i) \/ DeleteVolume(i)
                            \/ RolloutSwitchoverRefused(i)
                            \/ RolloutDelete(i) \/ RolloutConflict(i)
                            \/ \E c \in Instances : RolloutSwitchover(i, c)
    \/ ReconcilePodDisruptionBudget
    \/ ScaleDownInstances
    \/ RolloutInstances
    \/ RolloutDone
    \/ PatchClusterStatus

FaultStep ==
    \/ ObservePanics
    \/ \E i \in Instances : ReconcileInstanceFails(i) \/ ReconcileVolumeRefused(i)
    \/ OtherCallFails
    \/ PatchFails
    \/ Crash

UserStep ==
    \/ \E s \in Sets, n \in ReplicaCounts : EditReplicas(s, n)
    \/ EditTemplate
    \/ EditShutdown

Next == EnvironmentStep \/ ReconcileStep \/ FaultStep \/ UserStep

Spec == Init /\ [][Next]_vars

\* controller-runtime retries after an error and resyncs every hour, so a
\* reconcile always starts again and goes on, be it to panic (runtime.go,
\* refreshInterval).
\* Kubernetes and Patroni do their part; nothing has to fail, and the user has
\* to do nothing.
Fairness ==
    /\ WF_vars(ReconcileStep \/ ObservePanics)
    /\ \A i \in Instances :
          /\ WF_vars(Beside(SyncRunner(i)))
          /\ WF_vars(Beside(CreatePod(i)))
          /\ WF_vars(Beside(StopPod(i)))
          /\ WF_vars(Beside(PodGone(i)))
          /\ WF_vars(Beside(VolumeGone(i)))
          /\ WF_vars(Beside(BecomeReady(i)))
          /\ WF_vars(Beside(Promote(i)))
          /\ WF_vars(Beside(Follow(i)))
          /\ WF_vars(Beside(ReleaseLock(i)))

FairSpec == Spec /\ Fairness

EstablishedSpec == InitEstablished /\ [][Next]_vars
FairEstablishedSpec == EstablishedSpec /\ Fairness

-----------------------------------------------------------------------------
(* Properties.                                                             *)

\* Instance i is deleted by rolloutInstance in this step.
RolledOut(i) ==
    /\ pc = "roll" /\ todo' # todo
    /\ pods[i].phase = "running" /\ pods'[i].phase = "terminating"

\* rolloutInstance: the Pod of a primary is deleted only when the reconcile
\* knows of no other instance, even when Patroni has failed over to that Pod
\* after it was listed, or when the list was stale.
RolloutSparesLeader ==
    [][\A i \in Instances :
          RolledOut(i) => pods[i].role # "master" \/ ObservedInstances = {i}]_vars

\* rolloutInstances calls redeploy only on instances that need their Pod
\* recreated: the Pod deleted is not of the revision its StatefulSet asks for.  The
\* code refutes it when a call of scaleUpInstances fails (README, divergences).
RedeployOnlyOutdated ==
    [][\A i \in Instances :
          RolledOut(i) /\ RunnerExists(i) => pods[i].rev # runners[i].rev]_vars

\* rolloutInstances takes down no second available instance before the first
\* one is back (maxUnavailable, counted over every set of the cluster).
OneRolloutAtATime == Cardinality(disrupted) <= maxUnavailable

\* No reconcile dereferences the nil Spec of an instance whose set is gone.  The code
\* refutes it when a set goes in the course of a shutdown (README, divergences), which
\* is why Converges leaves that case out.
NeverPanics == ~ panicked

\* Instance i is deleted by deleteInstance in this step.
ScaledDown(i) == pc = "delete" /\ RunnerExists(i) /\ runners'[i] = NoRunner

\* scaleDownInstances deletes the primary only when its instance set is gone
\* from the spec.
ScaleDownSparesLeader ==
    [][\A i \in Instances :
          ScaledDown(i) /\ leader = i => SetOf[i] \notin SpecSets(mem.spec)]_vars

\* scaleDownInstances never takes the last data of a set that is in the spec it
\* works from.
DataRetained ==
    [][\A s \in SpecSets(mem.spec) :
          (pc = "delete" /\ \E i \in Instances : SetOf[i] = s /\ volumes[i] = "bound")
          => \E i \in Instances : SetOf[i] = s /\ volumes'[i] = "bound"]_vars

\* scaleUpInstances never makes more instances than were ever asked for, when
\* it was interrupted or failed halfway before too.
NeverTooMany ==
    \A s \in Sets : Cardinality({i \in Instances : SetOf[i] = s /\ RunnerExists(i)})
                    <= Max(ReplicaCounts)

\* The members of a cluster that is to run: as many as specified, of the
\* current revision and available, and nothing else.
Running ==
    /\ \A s \in Sets : Cardinality({i \in Instances : SetOf[i] = s /\ Available(i)})
                       = spec.replicas[s]
    /\ \A i \in Instances : PodExists(i) => Available(i) /\ pods[i].rev = spec.rev
    /\ \A i \in Instances : PodExists(i) <=> RunnerExists(i)
    /\ leader # None
    /\ pdbs = {s \in Sets : spec.replicas[s] > 1}

Stopped == \A i \in Instances : ~ PodExists(i)

\* Whatever the user asked for last is reached in the end, and kept:
\* reconcileInstanceSets scales, rolls out, shuts down and starts up, unless a
\* panic brings the operator down again and again.
Converges == <>[](panicked \/ (IF spec.shutdown THEN Stopped ELSE Running))

\* deleteInstance leaves nothing behind: in the end every volume belongs to an
\* instance that has a StatefulSet.
NoOrphanVolumes == <>[](\A i \in Instances : volumes[i] # "absent" => RunnerExists(i))

\* The startup instance of a cluster that is shut down is the instance that
\* led it last: only its data is certain to be complete.
StartupIsLastLeader ==
    (spec.shutdown /\ pc = "idle" /\ Stopped /\ lastLeader # None /\ startup # None)
    => startup = lastLeader
=============================================================================
