--------------------------- MODULE ClusterDeletion ---------------------------
(***************************************************************************)
(* How a PostgresCluster goes away: handleDelete (delete.go), which keeps  *)
(* a finalizer on the cluster, deleteInstances (instance.go), which stops  *)
(* the replicas first and the primary last, and deletePatroniArtifacts     *)
(* (patroni.go).  Reconcile (controller.go) calls handleDelete before      *)
(* anything else; what it does when the cluster is not being deleted is    *)
(* the subject of InstanceSets, and appears here only as the creation of   *)
(* instances.                                                              *)
(***************************************************************************)
EXTENDS InstanceObjects

CONSTANTS
    Starts,         \* subset of {"new", "established"}: the clusters to start from
    NewInstances,   \* the instances the specification of a new cluster asks for
    MaxDown,        \* replicas without a Pod, at most, when the model starts
    MaxErrors,      \* bound on failing API calls and operator crashes
    MaxOthers       \* bound on edits by another controller or the user

ASSUME DeletionAssumption ==
    /\ Starts \subseteq {"new", "established"}
    /\ NewInstances \subseteq Instances
    /\ MaxDown \in Nat
    /\ MaxErrors \in Nat
    /\ MaxOthers \in Nat

VARIABLES
    cluster,        \* the PostgresCluster in the API
    copy,           \* the PostgresCluster this reconcile has read
    moved,          \* whether the resourceVersion has moved since
    artifacts,      \* whether Patroni's Endpoints exist
    pc,             \* where the reconcile in flight is
    todo,           \* Pods that deleteInstances has still to stop
    errors, others,
    missed          \* history: instances to run that had no Pod, or a Pod with
                    \* no role yet, when deleteInstances listed the Pods

deletionVars == <<cluster, copy, moved, artifacts, pc, todo, errors, others, missed>>
vars == <<objectVars, deletionVars>>

\* metadata.finalizers: ours (naming.Finalizer) and that of another controller.
Finalizers == {"operator", "other"}
Cluster == [exists : BOOLEAN, deleting : BOOLEAN, finalizers : SUBSET Finalizers]

TypeOK ==
    /\ ObjectsTypeOK
    /\ cluster \in Cluster
    /\ copy \in Cluster
    /\ moved \in BOOLEAN
    /\ artifacts \in BOOLEAN
    /\ pc \in {"idle", "set", "maintain", "list", "stop", "clean", "unset"}
    /\ todo \in SUBSET Instances
    /\ errors \in 0..MaxErrors
    /\ others \in 0..MaxOthers
    /\ missed \in SUBSET (Instances \X {"pod", "role"})

\* The instances of a cluster that has been running for a while; the Pods of
\* some replicas are being recreated.
EstablishedInstances ==
    \E l \in Instances, down \in SUBSET Instances :
        /\ l \notin down /\ Cardinality(down) <= MaxDown
        /\ pods = [i \in Instances |->
                     IF i \in down THEN NoPod
                     ELSE [phase |-> "running", rev |-> 1, ready |-> TRUE,
                           role |-> IF i = l THEN "master" ELSE "replica"]]
        /\ runners = [i \in Instances |-> [phase |-> "present", replicas |-> 1,
                                           rev |-> 1, synced |-> TRUE]]
        /\ volumes = [i \in Instances |-> "bound"]
        /\ leader = l /\ lastLeader = l

NoInstances ==
    /\ pods = [i \in Instances |-> NoPod]
    /\ runners = [i \in Instances |-> NoRunner]
    /\ volumes = [i \in Instances |-> "absent"]
    /\ leader = None /\ lastLeader = None

Init ==
    /\ \/ /\ "new" \in Starts
          /\ NoInstances
          /\ cluster = [exists |-> TRUE, deleting |-> FALSE, finalizers |-> {}]
          /\ artifacts = FALSE
       \/ /\ "established" \in Starts
          /\ EstablishedInstances
          /\ \E theirs \in SUBSET {"other"} :
                cluster = [exists |-> TRUE, deleting |-> FALSE,
                           finalizers |-> theirs \cup {"operator"}]
          /\ artifacts = TRUE
    /\ changed = {} /\ failures = 0 /\ failovers = 0
    /\ copy = cluster /\ moved = FALSE
    /\ pc = "idle" /\ todo = {}
    /\ errors = 0 /\ others = 0
    /\ missed = {}

-----------------------------------------------------------------------------
(* The reconcile.                                                          *)

\* An object that is being deleted goes with its last finalizer.
WithFinalizers(c, fs) ==
    [exists |-> c.exists /\ ~ (c.deleting /\ fs = {}),
     deleting |-> c.deleting, finalizers |-> fs]

Goto(step) == pc' = step /\ todo' = {} /\ UNCHANGED <<copy, errors, others, missed>>

\* Reconcile gets the cluster, and handleDelete branches on its deletion
\* timestamp and finalizer.  Deleted without our finalizer: nothing to do.
GetCluster ==
    /\ pc = "idle"
    /\ cluster.exists
    /\ copy' = cluster
    /\ moved' = FALSE
    /\ LET ours == "operator" \in cluster.finalizers
       IN  \/ ~ cluster.deleting /\ ours   /\ pc' = "maintain"
           \/ ~ cluster.deleting /\ ~ ours /\ pc' = "set"
           \/ cluster.deleting   /\ ours   /\ pc' = "list"
    /\ UNCHANGED <<objectVars, cluster, artifacts, todo, errors, others, missed>>

\* Mutant: the patch does not carry the resourceVersion.
NoLockMutant == cluster.exists

\* MergeFromWithOptimisticLock: the patch of the whole list of finalizers is
\* rejected when anything has written the cluster since it was read.
PatchAccepted == cluster.exists /\ ~ moved

\* Mutant: the conflict is ignored and the reconcile goes on.
GoOnMutant ==
    /\ pc = "set"
    /\ ~ PatchAccepted
    /\ Goto("maintain")
    /\ UNCHANGED <<objectVars, cluster, moved, artifacts>>

SetFinalizer ==
    /\ pc = "set"
    /\ PatchAccepted
    /\ cluster' = WithFinalizers(cluster, copy.finalizers \cup {"operator"})
    /\ moved' = TRUE
    /\ Goto("maintain")
    /\ UNCHANGED <<objectVars, artifacts>>

SetFinalizerConflict ==
    /\ pc = "set"
    /\ ~ PatchAccepted
    /\ Goto("idle")
    /\ UNCHANGED <<objectVars, cluster, moved, artifacts>>

\* The rest of Reconcile, as far as it matters here: instances are written,
\* one after another, to run.
WriteInstance(i) ==
    /\ pc = "maintain"
    /\ i \in NewInstances /\ ~ RunnerExists(i)
    /\ volumes' = [volumes EXCEPT ![i] = IF @ = "absent" THEN "bound" ELSE @]
    /\ runners' = [runners EXCEPT ![i] = [phase |-> "present", replicas |-> 1,
                                          rev |-> 1, synced |-> FALSE]]
    /\ UNCHANGED <<pods, leader, lastLeader, changed, failures, failovers, deletionVars>>

EndOfReconcile ==
    /\ pc = "maintain"
    /\ Goto("idle")
    /\ UNCHANGED <<objectVars, cluster, moved, artifacts>>

Listed == {i \in Instances : PodExists(i)}

NoteMissed ==
    LET wanted == {i \in Instances : RunnerExists(i) /\ runners[i].replicas = 1}
    IN  missed' = missed \cup {<<i, "pod">>  : i \in wanted \ Listed}
                         \cup {<<i, "role">> : i \in {j \in wanted \cap Listed : pods[j].role = ""}}

PodMissed(i) == <<i, "pod">> \in missed

\* Mutant: all Pods are stopped at once.
AllMutant == Listed

\* deleteInstances: the Pod to stop when there is one, and otherwise those that
\* are replicas or have no role.
ToStop ==
    IF Cardinality(Listed) = 1 THEN Listed
    ELSE {i \in Listed : pods[i].role \in {"replica", ""}}

\* Mutant: the finalizer logic is over as soon as the Pods are being stopped.
NotWaitingMutant ==
    /\ pc = "list"
    /\ pc' = IF \A i \in Listed : pods[i].phase = "terminating" THEN "clean" ELSE "stop"
    /\ todo' = ToStop
    /\ NoteMissed
    /\ UNCHANGED <<objectVars, cluster, copy, moved, artifacts, errors, others>>

\* With Pods of which none is to be stopped the reconcile is requeued.
DeleteInstances ==
    /\ pc = "list"
    /\ pc' = IF Listed = {} THEN "clean" ELSE "stop"
    /\ todo' = ToStop
    /\ NoteMissed
    /\ UNCHANGED <<objectVars, cluster, copy, moved, artifacts, errors, others>>

\* The replicas of the StatefulSet of the Pod become zero; one that is gone is
\* left to the garbage collector.
StopInstance(i) ==
    /\ pc = "stop" /\ i \in todo
    /\ runners' = IF RunnerExists(i) /\ runners[i].replicas = 1
                  THEN [runners EXCEPT ![i].replicas = 0, ![i].synced = FALSE]
                  ELSE runners
    /\ todo' = todo \ {i}
    /\ UNCHANGED <<pods, volumes, leader, lastLeader, changed, failures, failovers,
                   cluster, copy, moved, artifacts, pc, errors, others, missed>>

\* The caller waits for events, or requeues.
InstancesStopping ==
    /\ pc = "stop" /\ todo = {}
    /\ Goto("idle")
    /\ UNCHANGED <<objectVars, cluster, moved, artifacts>>

\* Mutant: Patroni's Endpoints are left to the garbage collector.
ArtifactsKeptMutant ==
    /\ pc = "clean"
    /\ Goto("unset")
    /\ UNCHANGED <<objectVars, cluster, moved, artifacts>>

\* The leader lock is an annotation of one of the Endpoints.
DeletePatroniArtifacts ==
    /\ pc = "clean"
    /\ artifacts' = FALSE
    /\ leader' = None
    /\ Goto("unset")
    /\ UNCHANGED <<pods, runners, volumes, lastLeader, changed, failures, failovers,
                   cluster, moved>>

RemoveFinalizer ==
    /\ pc = "unset"
    /\ PatchAccepted
    /\ cluster' = WithFinalizers(cluster, copy.finalizers \ {"operator"})
    /\ moved' = TRUE
    /\ Goto("idle")
    /\ UNCHANGED <<objectVars, artifacts>>

RemoveFinalizerConflict ==
    /\ pc = "unset"
    /\ ~ PatchAccepted
    /\ Goto("idle")
    /\ UNCHANGED <<objectVars, cluster, moved, artifacts>>

\* Any call fails, or the operator crashes: Reconcile starts from the top.
Interrupted ==
    /\ pc # "idle"
    /\ errors < MaxErrors
    /\ errors' = errors + 1
    /\ pc' = "idle" /\ todo' = {}
    /\ UNCHANGED <<objectVars, cluster, copy, moved, artifacts, others, missed>>

-----------------------------------------------------------------------------
(* The user, other controllers and the garbage collector.                  *)

\* kubectl delete: an object with finalizers stays, with a deletionTimestamp.
DeleteCluster ==
    /\ cluster.exists /\ ~ cluster.deleting
    /\ cluster' = WithFinalizers([cluster EXCEPT !.deleting = TRUE], cluster.finalizers)
    /\ moved' = TRUE
    /\ UNCHANGED <<objectVars, copy, artifacts, pc, todo, errors, others, missed>>

\* The API accepts no new finalizer on an object that is being deleted.
OtherFinalizer ==
    /\ cluster.exists
    /\ others < MaxOthers
    /\ others' = others + 1
    /\ \/ /\ "other" \notin cluster.finalizers /\ ~ cluster.deleting
          /\ cluster' = WithFinalizers(cluster, cluster.finalizers \cup {"other"})
       \/ /\ "other" \in cluster.finalizers
          /\ cluster' = WithFinalizers(cluster, cluster.finalizers \ {"other"})
    /\ moved' = TRUE
    /\ UNCHANGED <<objectVars, copy, artifacts, pc, todo, errors, missed>>

\* Background deletion of what the cluster owned.
CollectRunner(i) ==
    /\ ~ cluster.exists
    /\ RunnerExists(i)
    /\ runners' = [runners EXCEPT ![i] = NoRunner]
    /\ UNCHANGED <<pods, volumes, leader, lastLeader, changed, failures, failovers,
                   deletionVars>>

CollectVolume(i) ==
    /\ ~ cluster.exists
    /\ volumes[i] = "bound"
    /\ volumes' = [volumes EXCEPT ![i] = "terminating"]
    /\ UNCHANGED <<pods, runners, leader, lastLeader, changed, failures, failovers,
                   deletionVars>>

\* Kubernetes and Patroni; a member that takes the lock writes the Endpoints.
Beside(environment) ==
    /\ environment
    /\ artifacts' = (artifacts \/ (leader' # leader /\ leader' # None))
    /\ UNCHANGED <<cluster, copy, moved, pc, todo, errors, others, missed>>

EnvironmentStep ==
    \E i \in Instances : \/ Beside(Environment(i))
                         \/ CollectRunner(i)
                         \/ CollectVolume(i)

ReconcileStep ==
    \/ GetCluster
    \/ SetFinalizer \/ SetFinalizerConflict
    \/ \E i \in Instances : WriteInstance(i)
    \/ EndOfReconcile
    \/ DeleteInstances
    \/ \E i \in Instances : StopInstance(i)
    \/ InstancesStopping
    \/ DeletePatroniArtifacts
    \/ RemoveFinalizer \/ RemoveFinalizerConflict

Next ==
    \/ EnvironmentStep
    \/ ReconcileStep
    \/ Interrupted
    \/ DeleteCluster
    \/ OtherFinalizer

Spec == Init /\ [][Next]_vars

\* As in InstanceSets; besides, the garbage collector does its work.
Fairness ==
    /\ WF_vars(ReconcileStep)
    /\ \A i \in Instances :
          /\ WF_vars(Beside(SyncRunner(i)))
          /\ WF_vars(Beside(CreatePod(i)))
          /\ WF_vars(Beside(StopPod(i)))
          /\ WF_vars(Beside(PodGone(i)))
          /\ WF_vars(Beside(VolumeGone(i)))
          /\ WF_vars(Beside(BecomeReady(i)))
          /\ WF_vars(Beside(Promote(i)))
          /\ WF_vars(Beside(Follow(i)))
          /\ WF_vars(Beside(ReleaseLock(i)))
          /\ WF_vars(CollectRunner(i))
          /\ WF_vars(CollectVolume(i))

FairSpec == Spec /\ Fairness

-----------------------------------------------------------------------------
(* Properties.                                                             *)

\* handleDelete: a cluster that has instances has the finalizer, so that no
\* deletion can bypass deleteInstances, whatever races with the patch that sets
\* it.
InstancesUnderFinalizer ==
    (cluster.exists /\ ~ cluster.deleting /\ \E i \in Instances : RunnerExists(i))
    => "operator" \in cluster.finalizers

\* handleDelete writes the whole list of finalizers and never loses or brings
\* back the finalizer of another controller.
OthersKept ==
    [][ReconcileStep => ("other" \in cluster.finalizers <=> "other" \in cluster'.finalizers)]_vars

\* handleDelete lets the cluster go only when all its instances are stopped,
\* but for one that had no Pod whenever deleteInstances looked.
StoppedBeforeGone ==
    [][cluster.exists /\ ~ cluster'.exists =>
           \A i \in Instances : ~ PodExists(i) \/ PodMissed(i)]_vars

\* deleteInstances avoids failovers: once the cluster is being deleted no
\* member takes the lock but the one that led last, unless the lock of a
\* running leader had expired or a Pod or its role was missed.
NoFailover ==
    [][(/\ cluster.deleting /\ failovers = 0 /\ missed = {} /\ lastLeader # None
        /\ leader' # leader /\ leader' # None)
       => leader' = lastLeader]_vars

\* Of a deleted cluster the finalizer goes, and with it every instance and
\* Patroni's Endpoints.  A Pod that was missed may write the Endpoints again, and
\* stays as long as the finalizer of another controller keeps the cluster.
DeletionCompletes ==
    cluster.deleting ~> [](/\ "operator" \notin cluster.finalizers
                           /\ artifacts => \E i \in Instances : PodMissed(i)
                           /\ \A i \in Instances :
                                 PodExists(i) => PodMissed(i) /\ cluster.exists)
=============================================================================
