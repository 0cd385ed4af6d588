------------------------ MODULE ClusterDeletionProofs ------------------------
(***************************************************************************)
(* Proofs about ClusterDeletion for every number of instances and every    *)
(* bound on faults: the finalizer protects the instances, the patches that *)
(* set and remove it spare the finalizers of others, the cluster goes when *)
(* its instances are stopped, and its leader is the last of them.          *)
(***************************************************************************)
EXTENDS ClusterDeletion, FiniteSetTheorems, TLAPS

\* A copy whose resourceVersion has not moved is the cluster itself.
CopyCurrent == ~ moved => copy = cluster

\* Instances are written only under the finalizer, and the finalizer logic runs
\* only for a cluster that is being deleted.
StepsGuarded ==
    /\ pc = "maintain" => "operator" \in cluster.finalizers
    /\ pc \in {"list", "stop", "clean", "unset"} => cluster.deleting

IInv ==
    /\ cluster \in Cluster /\ copy \in Cluster
    /\ runners \in [Instances -> Runner]
    /\ CopyCurrent
    /\ StepsGuarded
    /\ InstancesUnderFinalizer

-----------------------------------------------------------------------------
\* WithFinalizers changes the finalizers and nothing else but, for a cluster
\* that is being deleted, whether it exists.
LEMMA WithFinalizersFields ==
    ASSUME NEW c \in Cluster, NEW fs \in SUBSET Finalizers
    PROVE  /\ WithFinalizers(c, fs) \in Cluster
           /\ WithFinalizers(c, fs).finalizers = fs
           /\ WithFinalizers(c, fs).deleting = c.deleting
           /\ WithFinalizers(c, fs).exists => c.exists
  <1>1. c.exists \in BOOLEAN /\ c.deleting \in BOOLEAN
    BY DEF Cluster
  <1>2. PICK e \in BOOLEAN : e = (c.exists /\ ~ (c.deleting /\ fs = {}))
    BY Zenon
  <1>3. WithFinalizers(c, fs) = [exists |-> e, deleting |-> c.deleting, finalizers |-> fs]
    BY <1>2, Zenon DEF WithFinalizers
  <1>4. e => c.exists
    BY <1>2
  <1> QED BY <1>1, <1>3, <1>4 DEF Cluster

\* Kubernetes and Patroni create no StatefulSet.
LEMMA EnvironmentMakesNoRunner ==
    ASSUME runners \in [Instances -> Runner], NEW j \in Instances, Environment(j)
    PROVE  /\ runners' \in [Instances -> Runner]
           /\ \A i \in Instances : RunnerExists(i)' => RunnerExists(i)
  <1>1. CASE SyncRunner(j)
    <2>1. [runners[j] EXCEPT !.synced = TRUE] \in Runner
      BY DEF Runner
    <2>2. runners' = [runners EXCEPT ![j] = [runners[j] EXCEPT !.synced = TRUE]]
      BY <1>1 DEF SyncRunner
    <2>3. [runners[j] EXCEPT !.synced = TRUE].phase = runners[j].phase
      BY DEF Runner
    <2> QED BY <2>1, <2>2, <2>3 DEF RunnerExists
  <1>2. CASE runners' = runners
    BY <1>2 DEF RunnerExists
  <1>3. SyncRunner(j) \/ runners' = runners
    BY DEF Environment, SyncRunner, CreatePod, StopPod, PodGone, VolumeGone, BecomeReady,
           BecomeUnready, Promote, Follow, ReleaseLock, LoseLock
  <1> QED BY <1>1, <1>2, <1>3

LEMMA InitIInv == Init => IInv
  <1> SUFFICES ASSUME Init PROVE IInv
    OBVIOUS
  <1>1. cluster \in Cluster /\ copy \in Cluster /\ CopyCurrent /\ StepsGuarded
    <2>1. PICK fs \in SUBSET Finalizers :
            cluster = [exists |-> TRUE, deleting |-> FALSE, finalizers |-> fs]
      <3>1. \A theirs \in SUBSET {"other"} : theirs \cup {"operator"} \in SUBSET Finalizers
        BY DEF Finalizers
      <3>2. {} \in SUBSET Finalizers
        OBVIOUS
      <3> QED BY <3>1, <3>2, Zenon DEF Init
    <2>2. cluster \in Cluster
      BY <2>1 DEF Cluster
    <2> QED BY <2>2 DEF Init, CopyCurrent, StepsGuarded
  <1>2. /\ NoRunner \in Runner
        /\ [phase |-> "present", replicas |-> 1, rev |-> 1, synced |-> TRUE] \in Runner
    BY ObjectBoundsAssumption DEF NoRunner, Runner
  <1>3. CASE NoInstances
    <2>1. runners = [i \in Instances |-> NoRunner]
      BY <1>3 DEF NoInstances
    <2> QED BY <1>1, <1>2, <2>1
            DEF IInv, InstancesUnderFinalizer, RunnerExists, NoRunner
  <1>4. CASE EstablishedInstances /\ "operator" \in cluster.finalizers
    <2>1. runners = [i \in Instances |-> [phase |-> "present", replicas |-> 1,
                                          rev |-> 1, synced |-> TRUE]]
      BY <1>4 DEF EstablishedInstances
    <2> QED BY <1>1, <1>2, <1>4, <2>1 DEF IInv, InstancesUnderFinalizer
  <1>5. NoInstances \/ (EstablishedInstances /\ "operator" \in cluster.finalizers)
    BY DEF Init
  <1> QED BY <1>3, <1>4, <1>5

\* A step that writes neither the cluster nor a StatefulSet, and that goes to a
\* step already guarded, keeps the invariant.
LEMMA QuietStep ==
    ASSUME IInv,
           runners' \in [Instances -> Runner],
           \A i \in Instances : RunnerExists(i)' => RunnerExists(i),
           UNCHANGED <<cluster, copy, moved>>,
           \/ pc' = pc
           \/ pc' = "idle"
           \/ pc' \in {"stop", "clean", "unset"} /\ cluster.deleting
    PROVE  IInv'
  BY DEF IInv, CopyCurrent, StepsGuarded, InstancesUnderFinalizer

LEMMA NextIInv == IInv /\ [Next]_vars => IInv'
  <1> SUFFICES ASSUME IInv, [Next]_vars PROVE IInv'
    OBVIOUS
  <1> USE DEF IInv
  <1>0. UNCHANGED runners => /\ runners' \in [Instances -> Runner]
                             /\ \A i \in Instances : RunnerExists(i)' => RunnerExists(i)
    BY DEF RunnerExists
  <1>1. CASE UNCHANGED vars
    BY <1>0, <1>1, QuietStep DEF vars, objectVars, deletionVars
  <1>2. CASE \E i \in Instances : Beside(Environment(i))
    BY <1>2, EnvironmentMakesNoRunner, QuietStep DEF Beside
  <1>3. ASSUME NEW i \in Instances, CollectRunner(i) \/ CollectVolume(i) PROVE IInv'
    <2>1. CASE CollectRunner(i)
      <3>1. NoRunner \in Runner /\ NoRunner.phase # "present"
        BY ObjectBoundsAssumption DEF NoRunner, Runner
      <3>2. /\ runners' \in [Instances -> Runner]
            /\ \A j \in Instances : RunnerExists(j)' => RunnerExists(j)
        BY <2>1, <3>1 DEF CollectRunner, RunnerExists
      <3> QED BY <2>1, <3>2, QuietStep DEF CollectRunner, deletionVars
    <2>2. CASE CollectVolume(i)
      BY <1>0, <2>2, QuietStep DEF CollectVolume, deletionVars
    <2> QED BY <1>3, <2>1, <2>2
  <1>4. CASE GetCluster
    <2>1. cluster' = cluster /\ copy' = cluster /\ moved' = FALSE
      BY <1>4 DEF GetCluster
    <2>2. /\ pc' = "maintain" => "operator" \in cluster.finalizers
          /\ pc' \in {"list", "stop", "clean", "unset"} => cluster.deleting
      BY <1>4 DEF GetCluster
    <2>3. UNCHANGED runners
      BY <1>4 DEF GetCluster, objectVars
    <2> QED BY <1>0, <2>1, <2>2, <2>3
            DEF CopyCurrent, StepsGuarded, InstancesUnderFinalizer
  <1>5. CASE SetFinalizer
    <2>1. copy.finalizers \cup {"operator"} \in SUBSET Finalizers
      BY DEF Cluster, Finalizers
    <2>2. cluster' \in Cluster /\ "operator" \in cluster'.finalizers
      BY <1>5, <2>1, WithFinalizersFields DEF SetFinalizer
    <2>3. moved' = TRUE /\ pc' = "maintain" /\ UNCHANGED <<copy, runners>>
      BY <1>5 DEF SetFinalizer, Goto, objectVars
    <2> QED BY <2>2, <2>3 DEF CopyCurrent, StepsGuarded, InstancesUnderFinalizer
  <1>6. CASE SetFinalizerConflict
    BY <1>0, <1>6, QuietStep DEF SetFinalizerConflict, Goto, objectVars
  <1>7. ASSUME NEW i \in Instances, WriteInstance(i) PROVE IInv'
    <2>1. [phase |-> "present", replicas |-> 1, rev |-> 1, synced |-> FALSE] \in Runner
      BY ObjectBoundsAssumption DEF Runner
    <2>2. runners' \in [Instances -> Runner]
      BY <1>7, <2>1 DEF WriteInstance
    <2>3. "operator" \in cluster.finalizers
      BY <1>7 DEF WriteInstance, StepsGuarded
    <2>4. UNCHANGED <<cluster, copy, moved, pc>>
      BY <1>7 DEF WriteInstance, deletionVars
    <2> QED BY <2>2, <2>3, <2>4 DEF CopyCurrent, StepsGuarded, InstancesUnderFinalizer
  <1>8. CASE EndOfReconcile
    BY <1>0, <1>8, QuietStep DEF EndOfReconcile, Goto, objectVars
  <1>9. CASE DeleteInstances
    <2>1. cluster.deleting
      BY <1>9 DEF DeleteInstances, StepsGuarded
    <2> QED BY <1>0, <1>9, <2>1, QuietStep DEF DeleteInstances, objectVars
  <1>10. ASSUME NEW i \in Instances, StopInstance(i) PROVE IInv'
    <2>1. CASE RunnerExists(i) /\ runners[i].replicas = 1
      <3>0. [runners[i] EXCEPT !.replicas = 0] \in Runner
        BY DEF Runner
      <3>1. [[runners[i] EXCEPT !.replicas = 0] EXCEPT !.synced = FALSE] \in Runner
        BY <3>0 DEF Runner
      <3>2. [[runners[i] EXCEPT !.replicas = 0] EXCEPT !.synced = FALSE].phase = runners[i].phase
        BY DEF Runner
      <3>3. runners' = [runners EXCEPT ![i] =
                          [[runners[i] EXCEPT !.replicas = 0] EXCEPT !.synced = FALSE]]
        BY <1>10, <2>1 DEF StopInstance
      <3>4. /\ runners' \in [Instances -> Runner]
            /\ \A j \in Instances : RunnerExists(j)' => RunnerExists(j)
        BY <3>1, <3>2, <3>3 DEF RunnerExists
      <3> QED BY <1>10, <3>4, QuietStep DEF StopInstance
    <2>2. CASE ~ (RunnerExists(i) /\ runners[i].replicas = 1)
      BY <1>0, <1>10, <2>2, QuietStep DEF StopInstance
    <2> QED BY <2>1, <2>2
  <1>11. CASE InstancesStopping
    BY <1>0, <1>11, QuietStep DEF InstancesStopping, Goto, objectVars
  <1>12. CASE DeletePatroniArtifacts
    <2>1. cluster.deleting
      BY <1>12 DEF DeletePatroniArtifacts, StepsGuarded
    <2> QED BY <1>0, <1>12, <2>1, QuietStep DEF DeletePatroniArtifacts, Goto
  <1>13. CASE RemoveFinalizer
    <2>1. copy.finalizers \ {"operator"} \in SUBSET Finalizers
      BY DEF Cluster
    <2>2. cluster' \in Cluster /\ cluster'.deleting = cluster.deleting
      BY <1>13, <2>1, WithFinalizersFields DEF RemoveFinalizer
    <2>3. cluster.deleting
      BY <1>13 DEF RemoveFinalizer, StepsGuarded
    <2>4. moved' = TRUE /\ pc' = "idle" /\ UNCHANGED <<copy, runners>>
      BY <1>13 DEF RemoveFinalizer, Goto, objectVars
    <2> QED BY <2>2, <2>3, <2>4 DEF CopyCurrent, StepsGuarded, InstancesUnderFinalizer
  <1>14. CASE RemoveFinalizerConflict
    BY <1>0, <1>14, QuietStep DEF RemoveFinalizerConflict, Goto, objectVars
  <1>15. CASE Interrupted
    BY <1>0, <1>15, QuietStep DEF Interrupted, objectVars
  <1>16. CASE DeleteCluster
    <2>1. [cluster EXCEPT !.deleting = TRUE] \in Cluster
          /\ [cluster EXCEPT !.deleting = TRUE].deleting = TRUE
          /\ cluster.finalizers \in SUBSET Finalizers
      BY DEF Cluster
    <2>2. cluster' \in Cluster /\ cluster'.deleting = TRUE
          /\ cluster'.finalizers = cluster.finalizers
      BY <1>16, <2>1, WithFinalizersFields DEF DeleteCluster
    <2>3. moved' = TRUE /\ UNCHANGED <<copy, runners, pc>>
      BY <1>16 DEF DeleteCluster, objectVars
    <2> QED BY <2>2, <2>3 DEF CopyCurrent, StepsGuarded, InstancesUnderFinalizer
  <1>17. CASE OtherFinalizer
    <2>1. PICK fs \in SUBSET Finalizers :
             /\ cluster' = WithFinalizers(cluster, fs)
             /\ "operator" \in cluster.finalizers => "operator" \in fs
      <3>1. cluster.finalizers \cup {"other"} \in SUBSET Finalizers
            /\ cluster.finalizers \ {"other"} \in SUBSET Finalizers
        BY DEF Cluster, Finalizers
      <3> QED BY <1>17, <3>1 DEF OtherFinalizer
    <2>2. /\ cluster' \in Cluster /\ cluster'.deleting = cluster.deleting
          /\ cluster'.exists => cluster.exists
          /\ "operator" \in cluster.finalizers => "operator" \in cluster'.finalizers
      BY <2>1, WithFinalizersFields
    <2>3. moved' = TRUE /\ UNCHANGED <<copy, runners, pc>>
      BY <1>17 DEF OtherFinalizer, objectVars
    <2> QED BY <1>0, <2>2, <2>3 DEF CopyCurrent, StepsGuarded, InstancesUnderFinalizer
  <1> QED
    BY <1>1, <1>2, <1>3, <1>4, <1>5, <1>6, <1>7, <1>8, <1>9, <1>10, <1>11, <1>12, <1>13,
       <1>14, <1>15, <1>16, <1>17 DEF Next, EnvironmentStep, ReconcileStep

-----------------------------------------------------------------------------
\* A cluster that has instances and is not being deleted has the operator's
\* finalizer, so that its deletion cannot bypass deleteInstances.
THEOREM InstancesAreProtected == Spec => []InstancesUnderFinalizer
  <1>1. IInv => InstancesUnderFinalizer
    BY DEF IInv
  <1> QED BY InitIInv, NextIInv, <1>1, PTL DEF Spec

\* The patches that set and remove the operator's finalizer neither drop nor
\* restore the finalizer of another controller.
THEOREM FinalizersOfOthers == Spec => OthersKept
  <1>1. IInv /\ [Next]_vars =>
           [ReconcileStep => ("other" \in cluster.finalizers
                              <=> "other" \in cluster'.finalizers)]_vars
    <2> SUFFICES ASSUME IInv, ReconcileStep
                 PROVE  "other" \in cluster.finalizers <=> "other" \in cluster'.finalizers
      OBVIOUS
    <2>1. CASE cluster' = cluster
      BY <2>1
    <2>2. CASE SetFinalizer
      <3>1. copy = cluster
        BY <2>2 DEF SetFinalizer, PatchAccepted, IInv, CopyCurrent
      <3>2. copy.finalizers \cup {"operator"} \in SUBSET Finalizers
        BY DEF IInv, Cluster, Finalizers
      <3>3. cluster'.finalizers = copy.finalizers \cup {"operator"}
        BY <2>2, <3>2, WithFinalizersFields DEF SetFinalizer, IInv
      <3> QED BY <3>1, <3>3
    <2>3. CASE RemoveFinalizer
      <3>1. copy = cluster
        BY <2>3 DEF RemoveFinalizer, PatchAccepted, IInv, CopyCurrent
      <3>2. copy.finalizers \ {"operator"} \in SUBSET Finalizers
        BY DEF IInv, Cluster
      <3>3. cluster'.finalizers = copy.finalizers \ {"operator"}
        BY <2>3, <3>2, WithFinalizersFields DEF RemoveFinalizer, IInv
      <3> QED BY <3>1, <3>3
    <2>4. cluster' = cluster \/ SetFinalizer \/ RemoveFinalizer
      BY DEF ReconcileStep, GetCluster, SetFinalizerConflict, WriteInstance, EndOfReconcile,
             DeleteInstances, StopInstance, InstancesStopping, DeletePatroniArtifacts,
             RemoveFinalizerConflict, deletionVars
    <2> QED BY <2>1, <2>2, <2>3, <2>4
  <1> QED BY InitIInv, NextIInv, <1>1, PTL DEF Spec, OthersKept

-----------------------------------------------------------------------------
\* Instances that run or will run are known to have been missed.
Wanted(i) == RunnerExists(i) /\ runners[i].replicas = 1
AllStopped == \A i \in Instances : PodExists(i) \/ Wanted(i) => PodMissed(i)

DeletionTypes ==
    /\ pods \in [Instances -> Pod]
    /\ leader \in Instances \cup {None} /\ lastLeader \in Instances \cup {None}
    /\ todo \subseteq Instances /\ failovers \in Nat

\* A cluster without the operator's finalizer, or about to lose it, is stopped.  One that
\* is gone has no finalizer, and a reconcile sets it only where it read a live cluster.
StoppedWithoutFinalizer ==
    /\ pc \in {"clean", "unset"} \/ "operator" \notin cluster.finalizers => AllStopped
    /\ cluster.exists \/ cluster.finalizers = {}
    /\ pc = "set" => ~ copy.deleting

\* What a step does to the StatefulSet of an instance.
LEMMA RunnerSteps ==
    ASSUME IInv, [Next]_vars, NEW j \in Instances
    PROVE  \/ runners'[j].phase = runners[j].phase /\ runners'[j].replicas = runners[j].replicas
           \/ pc = "maintain" /\ ~ RunnerExists(j)
           \/ StopInstance(j) /\ ~ Wanted(j)'
           \/ ~ cluster.exists /\ ~ Wanted(j)'
  <1>0. runners \in [Instances -> Runner]
    BY DEF IInv
  <1>1. ASSUME NEW i \in Instances, SyncRunner(i) PROVE
          runners'[j].phase = runners[j].phase /\ runners'[j].replicas = runners[j].replicas
    <2>1. runners[i] \in Runner
      BY <1>0
    <2>2. runners' = [runners EXCEPT ![i] = [runners[i] EXCEPT !.synced = TRUE]]
      BY <1>1 DEF SyncRunner
    <2> QED BY <1>0, <2>1, <2>2 DEF Runner
  <1>2. ASSUME NEW i \in Instances, WriteInstance(i) PROVE
          runners'[j] = runners[j] \/ (pc = "maintain" /\ ~ RunnerExists(j))
    BY <1>0, <1>2 DEF WriteInstance
  <1>3. ASSUME NEW i \in Instances, StopInstance(i) PROVE
          runners'[j] = runners[j] \/ (StopInstance(j) /\ ~ Wanted(j)')
    <2>1. CASE RunnerExists(i) /\ runners[i].replicas = 1
      <3>1. runners' = [runners EXCEPT ![i] = [[runners[i] EXCEPT !.replicas = 0] EXCEPT !.synced = FALSE]]
        BY <1>3, <2>1 DEF StopInstance
      <3>2. [[runners[i] EXCEPT !.replicas = 0] EXCEPT !.synced = FALSE].replicas = 0
        BY <1>0 DEF Runner
      <3> QED BY <1>0, <1>3, <3>1, <3>2 DEF Wanted
    <2>2. CASE ~ (RunnerExists(i) /\ runners[i].replicas = 1)
      BY <1>3, <2>2 DEF StopInstance
    <2> QED BY <2>1, <2>2
  <1>4. ASSUME NEW i \in Instances, CollectRunner(i) PROVE
          runners'[j] = runners[j] \/ (~ cluster.exists /\ ~ Wanted(j)')
    BY <1>0, <1>4 DEF CollectRunner, NoRunner, Wanted, RunnerExists
  <1>5. CASE runners' = runners
    BY <1>5
  <1>6. ASSUME NEW i \in Instances, Beside(Environment(i)) PROVE SyncRunner(i) \/ runners' = runners
    BY <1>6 DEF Beside, Environment, SyncRunner, CreatePod, StopPod, PodGone, VolumeGone, BecomeReady,
           BecomeUnready, Promote, Follow, ReleaseLock, LoseLock
  <1> QED
    BY <1>1, <1>2, <1>3, <1>4, <1>5, <1>6
       DEF Next, vars, objectVars, EnvironmentStep, ReconcileStep, CollectVolume, GetCluster, SetFinalizer,
           SetFinalizerConflict, EndOfReconcile, DeleteInstances, InstancesStopping,
           DeletePatroniArtifacts, RemoveFinalizer, RemoveFinalizerConflict, Interrupted,
           DeleteCluster, OtherFinalizer

\* What a step does to its Pod.
LEMMA PodSteps ==
    ASSUME IInv, DeletionTypes, [Next]_vars
    PROVE  /\ pods' \in [Instances -> Pod]
           /\ \A j \in Instances :
              \/ pods'[j].phase = pods[j].phase /\ pods'[j].role = pods[j].role
              \/ Wanted(j) /\ ~ PodExists(j) /\ pods'[j].phase = "running" /\ pods'[j].role = ""
              \/ pods[j].phase = "running" /\ pods'[j].phase = "terminating" /\ ~ Wanted(j)
                 /\ pods'[j].role = pods[j].role
              \/ pods[j].phase = "terminating" /\ ~ PodExists(j)'
              \/ pods'[j].phase = "running" /\ pods[j].phase = "running" /\ pods'[j].role = "master"
                 /\ leader = None /\ leader' = j
              \/ pods'[j].phase = pods[j].phase /\ leader \notin {None, j}
  <1> DEFINE Fate(j, p) ==
              \/ p.phase = pods[j].phase /\ p.role = pods[j].role
              \/ Wanted(j) /\ ~ PodExists(j) /\ p.phase = "running" /\ p.role = ""
              \/ pods[j].phase = "running" /\ p.phase = "terminating" /\ ~ Wanted(j)
                 /\ p.role = pods[j].role
              \/ pods[j].phase = "terminating" /\ p.phase = "absent"
              \/ p.phase = "running" /\ pods[j].phase = "running" /\ p.role = "master"
                 /\ leader = None /\ leader' = j
              \/ p.phase = pods[j].phase /\ leader \notin {None, j}
  <1> SUFFICES pods' \in [Instances -> Pod] /\ \A j \in Instances : Fate(j, pods'[j])
    BY DEF PodExists
  <1>0. pods \in [Instances -> Pod] /\ MaxRev \in Nat
    BY ObjectBoundsAssumption DEF DeletionTypes
  <1>1. CASE pods' = pods
    BY <1>0, <1>1
  <1>2. ASSUME NEW i \in Instances, NEW p \in Pod, WritePod(i, p), Fate(i, p)
        PROVE  pods' \in [Instances -> Pod] /\ \A j \in Instances : Fate(j, pods'[j])
    <2>1. pods' = [pods EXCEPT ![i] = p]
      BY <1>2 DEF WritePod
    <2>2. \A j \in Instances : pods'[j] = IF i = j THEN p ELSE pods[j]
      BY <1>0, <2>1
    <2>3. \A j \in Instances : Fate(j, pods[j])
      OBVIOUS
    <2> HIDE DEF Fate
    <2> QED BY <1>0, <1>2, <2>1, <2>2, <2>3
  <1>3. ASSUME NEW i \in Instances, Environment(i)
        PROVE  pods' \in [Instances -> Pod] /\ \A j \in Instances : Fate(j, pods'[j])
    <2>0. pods[i] \in Pod
      BY <1>0
    <2>1. CASE CreatePod(i)
      <3> DEFINE p == [phase |-> "running", rev |-> runners[i].rev, ready |-> FALSE, role |-> ""]
      <3>1. p \in Pod
        BY <1>0, <2>1 DEF Pod, Roles, IInv, Runner
      <3>2. WritePod(i, p) /\ Wanted(i) /\ ~ PodExists(i)
        BY <2>1 DEF CreatePod, Wanted
      <3>3. Fate(i, p)
        BY <3>2
      <3> HIDE DEF p, Fate
      <3> QED BY <1>2, <3>1, <3>2, <3>3
    <2>2. CASE StopPod(i)
      <3> DEFINE p == [pods[i] EXCEPT !.phase = "terminating"]
      <3>1. p \in Pod /\ p.phase = "terminating" /\ p.role = pods[i].role
        BY <2>0 DEF Pod
      <3>2. WritePod(i, p) /\ ~ Wanted(i) /\ pods[i].phase = "running"
        BY <2>2 DEF StopPod, Wanted
      <3> HIDE DEF p
      <3>3. Fate(i, p)
        BY <3>1, <3>2
      <3> HIDE DEF Fate
      <3> QED BY <1>2, <3>1, <3>2, <3>3
    <2>3. CASE PodGone(i)
      <3>1. NoPod \in Pod /\ NoPod.phase = "absent"
        <4>1. 0 \in 0..MaxRev
          BY <1>0
        <4> QED BY <4>1 DEF NoPod, Pod, Roles
      <3>2. WritePod(i, NoPod) /\ pods[i].phase = "terminating"
        BY <2>3 DEF PodGone
      <3>3. Fate(i, NoPod)
        BY <3>1, <3>2
      <3> HIDE DEF Fate
      <3> QED BY <1>2, <3>1, <3>2, <3>3
    <2>4. CASE BecomeReady(i)
      BY <1>2, <2>0, <2>4 DEF BecomeReady, Pod
    <2>5. CASE BecomeUnready(i)
      BY <1>2, <2>0, <2>5 DEF BecomeUnready, Pod
    <2>6. CASE Promote(i)
      BY <1>2, <2>0, <2>6 DEF Promote, Pod, Roles
    <2>7. CASE Follow(i)
      BY <1>2, <2>0, <2>7 DEF Follow, Pod, Roles
    <2>8. CASE SyncRunner(i) \/ VolumeGone(i) \/ ReleaseLock(i) \/ LoseLock(i)
      BY <1>1, <2>8 DEF SyncRunner, VolumeGone, ReleaseLock, LoseLock
    <2> QED BY <1>3, <2>1, <2>2, <2>3, <2>4, <2>5, <2>6, <2>7, <2>8 DEF Environment
  <1> HIDE DEF Fate
  <1> QED
    BY <1>1, <1>3
       DEF Next, vars, objectVars, EnvironmentStep, ReconcileStep, Beside, CollectRunner, CollectVolume,
           GetCluster, SetFinalizer, SetFinalizerConflict, WriteInstance, EndOfReconcile,
           DeleteInstances, StopInstance, InstancesStopping, DeletePatroniArtifacts,
           RemoveFinalizer, RemoveFinalizerConflict, Interrupted, DeleteCluster, OtherFinalizer

\* Only a reconcile of a live cluster makes an instance run that did not.
LEMMA ActiveSteps ==
    ASSUME IInv, DeletionTypes, [Next]_vars, NEW j \in Instances, PodExists(j)' \/ Wanted(j)'
    PROVE  PodExists(j) \/ Wanted(j) \/ pc = "maintain"
  BY RunnerSteps, PodSteps DEF PodExists, Wanted, RunnerExists

\* What a step does to the leader lock, and to what was noted.
LEMMA LockSteps ==
    ASSUME DeletionTypes, [Next]_vars
    PROVE  /\ leader' \in Instances \cup {None} /\ lastLeader' \in Instances \cup {None}
           /\ todo' \subseteq Instances /\ failovers' \in Nat
           /\ failovers' = 0 => failovers = 0
           /\ missed \subseteq missed'
           /\ \/ UNCHANGED <<leader, lastLeader>>
              \/ /\ leader' = None /\ lastLeader' = lastLeader
                 /\ \/ failovers' # 0 \/ pc = "clean"
                    \/ leader # None /\ pods[leader].phase # "running"
              \/ \E i \in Instances : Beside(Promote(i))
  <1> USE DEF DeletionTypes
  <1>1. ASSUME NEW i \in Instances, Beside(Environment(i))
        PROVE  /\ todo' = todo /\ missed' = missed
               /\ leader' \in Instances \cup {None} /\ lastLeader' \in Instances \cup {None}
               /\ failovers' \in Nat /\ (failovers' = 0 => failovers = 0)
               /\ \/ UNCHANGED <<leader, lastLeader>>
                  \/ /\ leader' = None /\ lastLeader' = lastLeader
                     /\ failovers' # 0 \/ (leader # None /\ pods[leader].phase # "running")
                  \/ Beside(Promote(i))
    <2>1. Environment(i) /\ todo' = todo /\ missed' = missed
          /\ artifacts' = (artifacts \/ (leader' # leader /\ leader' # None))
          /\ UNCHANGED <<cluster, copy, moved, pc, todo, errors, others, missed>>
      BY <1>1 DEF Beside
    <2>2. CASE Promote(i)
      BY <2>1, <2>2 DEF Beside, Promote
    <2>3. CASE PodGone(i) \/ ReleaseLock(i)
      BY <2>1, <2>3, InstancesAssumption DEF PodGone, ReleaseLock
    <2>4. CASE LoseLock(i)
      BY <2>1, <2>4 DEF LoseLock
    <2>5. CASE SyncRunner(i) \/ CreatePod(i) \/ StopPod(i) \/ VolumeGone(i) \/ BecomeReady(i)
               \/ BecomeUnready(i) \/ Follow(i)
      BY <2>1, <2>5 DEF SyncRunner, CreatePod, StopPod, VolumeGone, BecomeReady, BecomeUnready, Follow
    <2> QED BY <2>1, <2>2, <2>3, <2>4, <2>5 DEF Environment
  <1>2. ASSUME NEW i \in Instances, CollectRunner(i) \/ CollectVolume(i) \/ WriteInstance(i) \/ StopInstance(i)
        PROVE  UNCHANGED <<leader, lastLeader, failovers, missed>> /\ todo' \subseteq todo
    BY <1>2 DEF CollectRunner, CollectVolume, WriteInstance, StopInstance, deletionVars
  <1>3. CASE DeleteInstances
    BY <1>3 DEF DeleteInstances, ToStop, Listed, NoteMissed, objectVars
  <1>4. CASE DeletePatroniArtifacts
    BY <1>4 DEF DeletePatroniArtifacts, Goto
  <1>5. CASE \/ GetCluster \/ SetFinalizer \/ SetFinalizerConflict \/ EndOfReconcile \/ InstancesStopping
             \/ RemoveFinalizer \/ RemoveFinalizerConflict \/ Interrupted \/ DeleteCluster
             \/ OtherFinalizer \/ UNCHANGED vars
    BY <1>5
       DEF vars, objectVars, deletionVars, GetCluster, SetFinalizer, SetFinalizerConflict,
           EndOfReconcile, InstancesStopping, RemoveFinalizer, RemoveFinalizerConflict, Interrupted,
           DeleteCluster, OtherFinalizer, Goto
  <1> QED BY <1>1, <1>2, <1>3, <1>4, <1>5 DEF Next, EnvironmentStep, ReconcileStep

\* Who writes the cluster.
LEMMA ClusterSteps ==
    ASSUME IInv, [Next]_vars
    PROVE  \/ UNCHANGED cluster
           \/ SetFinalizer /\ cluster'.exists = cluster.exists /\ "operator" \in cluster'.finalizers
           \/ /\ RemoveFinalizer
              /\ cluster'.exists \/ cluster'.finalizers = {}
           \/ /\ DeleteCluster \/ OtherFinalizer
              /\ "operator" \in cluster'.finalizers <=> "operator" \in cluster.finalizers
              /\ cluster.exists /\ (cluster'.exists \/ cluster'.finalizers = {})
  <1>0. cluster \in Cluster /\ copy \in Cluster
    BY DEF IInv
  <1>1. CASE SetFinalizer
    <2>1. copy.finalizers \cup {"operator"} \in SUBSET Finalizers
      BY <1>0 DEF Cluster, Finalizers
    <2>2. cluster' = [exists |-> cluster.exists /\ ~ (cluster.deleting /\ copy.finalizers \cup {"operator"} = {}),
                      deleting |-> cluster.deleting, finalizers |-> copy.finalizers \cup {"operator"}]
      BY <1>1 DEF SetFinalizer, WithFinalizers
    <2>3. copy.finalizers \cup {"operator"} # {} /\ cluster.exists \in BOOLEAN
      BY <1>0 DEF Cluster
    <2>4. (cluster.exists /\ ~ (cluster.deleting /\ copy.finalizers \cup {"operator"} = {})) = cluster.exists
      BY <2>3
    <2> QED BY <1>1, <2>2, <2>4
  <1>2. ASSUME NEW c \in Cluster, NEW fs \in SUBSET Finalizers, cluster' = WithFinalizers(c, fs), c.exists
        PROVE  /\ cluster'.finalizers = fs
               /\ cluster'.exists \/ cluster'.finalizers = {}
    <2>1. PICK e \in BOOLEAN : e = (c.exists /\ ~ (c.deleting /\ fs = {}))
      BY Zenon
    <2>2. cluster' = [exists |-> e, deleting |-> c.deleting, finalizers |-> fs]
      BY <1>2, <2>1, Zenon DEF WithFinalizers
    <2>3. e \/ fs = {}
      BY <1>2, <2>1
    <2> QED BY <2>2, <2>3
  <1>3. CASE RemoveFinalizer
    <2>1. copy.finalizers \ {"operator"} \in SUBSET Finalizers
      BY <1>0 DEF Cluster, Finalizers
    <2> QED BY <1>0, <1>2, <1>3, <2>1 DEF RemoveFinalizer, PatchAccepted
  <1>4. CASE DeleteCluster
    <2>1. [cluster EXCEPT !.deleting = TRUE] \in Cluster /\ cluster.finalizers \in SUBSET Finalizers
          /\ ([cluster EXCEPT !.deleting = TRUE].exists <=> cluster.exists)
      BY <1>0 DEF Cluster
    <2> QED BY <1>2, <1>4, <2>1 DEF DeleteCluster
  <1>5. CASE OtherFinalizer
    <2>1. cluster.finalizers \cup {"other"} \in SUBSET Finalizers
          /\ cluster.finalizers \ {"other"} \in SUBSET Finalizers
      BY <1>0 DEF Cluster, Finalizers
    <2>2. PICK fs \in SUBSET Finalizers :
             /\ cluster' = WithFinalizers(cluster, fs)
             /\ "operator" \in cluster.finalizers <=> "operator" \in fs
      BY <1>5, <2>1 DEF OtherFinalizer
    <2>3. cluster.exists
      BY <1>5 DEF OtherFinalizer
    <2> QED BY <1>0, <1>2, <1>5, <2>2, <2>3
  <1>6. ASSUME NEW i \in Instances, Beside(Environment(i)) PROVE UNCHANGED cluster
    BY <1>6 DEF Beside
  <1> QED
    BY <1>1, <1>3, <1>4, <1>5, <1>6
       DEF Next, vars, EnvironmentStep, ReconcileStep, CollectRunner, CollectVolume,
           GetCluster, SetFinalizerConflict, WriteInstance, EndOfReconcile,
           DeleteInstances, StopInstance, InstancesStopping, DeletePatroniArtifacts,
           RemoveFinalizerConflict, Interrupted, deletionVars

\* Where a reconcile comes from.
LEMMA PcSteps ==
    ASSUME [Next]_vars
    PROVE  /\ pc' = "set" => (copy' = copy /\ pc = "set") \/ (copy' = cluster /\ ~ cluster.deleting)
           /\ pc' = "clean" => pc = "clean" \/ DeleteInstances
           /\ pc' = "unset" => pc \in {"clean", "unset"}
           /\ pc' = "maintain" => pc = "maintain" \/ SetFinalizer \/ ~ cluster.deleting
  <1>1. ASSUME NEW i \in Instances, Beside(Environment(i)) PROVE UNCHANGED <<pc, copy>>
    BY <1>1 DEF Beside
  <1> QED
    BY <1>1
       DEF Next, vars, EnvironmentStep, ReconcileStep, CollectRunner, CollectVolume,
           GetCluster, SetFinalizer, SetFinalizerConflict, WriteInstance, EndOfReconcile,
           DeleteInstances, StopInstance, InstancesStopping, DeletePatroniArtifacts, RemoveFinalizer,
           RemoveFinalizerConflict, Interrupted, DeleteCluster, OtherFinalizer, deletionVars, Goto

\* Where deleteInstances finds no Pod, what will run has been noted.
LEMMA ListedNone ==
    ASSUME DeleteInstances, pc' = "clean"
    PROVE  AllStopped'
  <1>1. Listed = {} /\ UNCHANGED <<pods, runners>>
    BY DEF DeleteInstances, objectVars
  <1>2. ASSUME NEW i \in Instances PROVE ~ PodExists(i)' /\ (Wanted(i)' => <<i, "pod">> \in missed')
    BY <1>1 DEF DeleteInstances, NoteMissed, Listed, PodExists, Wanted, RunnerExists
  <1> QED BY <1>2 DEF AllStopped, PodMissed

LEMMA StoppedNext ==
    ASSUME IInv, DeletionTypes, StoppedWithoutFinalizer, [Next]_vars
    PROVE  StoppedWithoutFinalizer'
  <1>1. AllStopped /\ pc # "maintain" => AllStopped'
    BY ActiveSteps, LockSteps DEF AllStopped, PodMissed
  <1>2. pc' \in {"clean", "unset"} \/ "operator" \notin cluster'.finalizers => AllStopped'
    <2>1. CASE pc \in {"clean", "unset"} \/ "operator" \notin cluster.finalizers
      BY <1>1, <2>1 DEF StoppedWithoutFinalizer, IInv, StepsGuarded
    <2>2. CASE pc \notin {"clean", "unset"} /\ "operator" \in cluster.finalizers
      <3>1. "operator" \in cluster'.finalizers
        BY <2>2, ClusterSteps DEF RemoveFinalizer
      <3>2. pc' \in {"clean", "unset"} => DeleteInstances /\ pc' = "clean"
        BY <2>2, PcSteps
      <3> QED BY <3>1, <3>2, ListedNone
    <2> QED BY <2>1, <2>2
  <1>3. cluster'.exists \/ cluster'.finalizers = {}
    BY ClusterSteps DEF StoppedWithoutFinalizer, SetFinalizer, PatchAccepted
  <1>4. pc' = "set" => ~ copy'.deleting
    BY PcSteps DEF StoppedWithoutFinalizer
  <1> QED BY <1>2, <1>3, <1>4 DEF StoppedWithoutFinalizer

LEMMA StoppedInit == Init => DeletionTypes /\ StoppedWithoutFinalizer
  <1> SUFFICES ASSUME Init PROVE DeletionTypes /\ StoppedWithoutFinalizer
    OBVIOUS
  <1>1. pc = "idle" /\ cluster.exists /\ todo = {} /\ failovers = 0
    BY DEF Init
  <1>0. MaxRev \in Nat \ {0}
    BY ObjectBoundsAssumption
  <1>2. CASE NoInstances
    <2>1. NoPod \in Pod
      <3>1. 0 \in 0..MaxRev
        BY <1>0
      <3> QED BY <3>1 DEF NoPod, Pod, Roles
    <2>2. \A i \in Instances : ~ PodExists(i) /\ ~ Wanted(i)
      BY <1>2 DEF NoInstances, PodExists, Wanted, RunnerExists, NoPod, NoRunner
    <2> QED BY <1>1, <1>2, <2>1, <2>2 DEF NoInstances, DeletionTypes, StoppedWithoutFinalizer, AllStopped
  <1>3. CASE EstablishedInstances /\ "operator" \in cluster.finalizers
    <2>1. PICK l \in Instances, down \in SUBSET Instances :
            /\ pods = [i \in Instances |->
                         IF i \in down THEN NoPod
                         ELSE [phase |-> "running", rev |-> 1, ready |-> TRUE,
                               role |-> IF i = l THEN "master" ELSE "replica"]]
            /\ leader = l /\ lastLeader = l
      BY <1>3 DEF EstablishedInstances
    <2>2. 0 \in 0..MaxRev /\ 1 \in 0..MaxRev
      BY <1>0
    <2>3. pods \in [Instances -> Pod]
      BY <2>1, <2>2 DEF NoPod, Pod, Roles
    <2> QED BY <1>1, <1>3, <2>1, <2>3 DEF DeletionTypes, StoppedWithoutFinalizer
  <1>4. NoInstances \/ (EstablishedInstances /\ "operator" \in cluster.finalizers)
    BY DEF Init
  <1> QED BY <1>2, <1>3, <1>4

LEMMA StoppedAlways == Spec => [](IInv /\ DeletionTypes /\ StoppedWithoutFinalizer)
  <1>1. IInv /\ DeletionTypes /\ StoppedWithoutFinalizer /\ [Next]_vars => DeletionTypes'
    <2> SUFFICES ASSUME IInv, DeletionTypes, [Next]_vars PROVE DeletionTypes'
      OBVIOUS
    <2>1. pods' \in [Instances -> Pod]
      BY PodSteps
    <2> QED BY <2>1, LockSteps DEF DeletionTypes
  <1> QED BY <1>1, InitIInv, NextIInv, StoppedInit, StoppedNext, PTL DEF Spec

\* A cluster that goes leaves no instance running (StoppedBeforeGone), whoever removes the
\* last finalizer and however often the reconcile was interrupted: the operator's goes only
\* after a list of the Pods that was empty, and no instance is made to run after that.
THEOREM InstancesStopFirst == Spec => StoppedBeforeGone
  <1>1. IInv /\ DeletionTypes /\ StoppedWithoutFinalizer /\ [Next]_vars =>
          [cluster.exists /\ ~ cluster'.exists =>
             \A i \in Instances : ~ PodExists(i) \/ PodMissed(i)]_vars
    <2> SUFFICES ASSUME IInv, StoppedWithoutFinalizer, [Next]_vars, cluster.exists, ~ cluster'.exists
                 PROVE  \A i \in Instances : ~ PodExists(i) \/ PodMissed(i)
      OBVIOUS
    <2>1. AllStopped
      BY ClusterSteps DEF StoppedWithoutFinalizer, RemoveFinalizer
    <2> QED BY <2>1 DEF AllStopped
  <1> QED BY <1>1, StoppedAlways, PTL DEF Spec, StoppedBeforeGone

-----------------------------------------------------------------------------
\* The leader is the last to stop.

\* It holds the lock, runs and is left alone.
Leads(l) ==
    /\ leader = l /\ Wanted(l) /\ pods[l].phase = "running" /\ pods[l].role = "master"
    /\ l \notin todo

\* No other instance runs or will run.
Last(l) == \A j \in Instances \ {l} : ~ PodExists(j) /\ ~ Wanted(j)

\* Before the first leader all Pods are without a role, so that none is stopped without
\* being noted.  From then on the leader leads until it is the last.
LeaderLast ==
    failovers = 0 /\ missed = {} =>
        /\ lastLeader = None =>
             /\ leader = None /\ todo = {}
             /\ \A i \in Instances :
                  PodExists(i) => pods[i].phase = "running" /\ pods[i].role = "" /\ Wanted(i)
        /\ lastLeader # None =>
             \/ Leads(lastLeader)
             \/ Last(lastLeader) /\ cluster.deleting /\ pc # "maintain"

LEMMA LeaderLastInit == Init => LeaderLast
  <1> SUFFICES ASSUME Init PROVE LeaderLast
    OBVIOUS
  <1>1. CASE NoInstances
    BY <1>1 DEF NoInstances, LeaderLast, Init, PodExists, NoPod
  <1>2. CASE EstablishedInstances
    <2>1. PICK l \in Instances, down \in SUBSET Instances :
            /\ l \notin down
            /\ pods = [i \in Instances |->
                         IF i \in down THEN NoPod
                         ELSE [phase |-> "running", rev |-> 1, ready |-> TRUE,
                               role |-> IF i = l THEN "master" ELSE "replica"]]
            /\ leader = l /\ lastLeader = l
      BY <1>2 DEF EstablishedInstances
    <2>2. Wanted(l)
      BY <1>2 DEF EstablishedInstances, Wanted, RunnerExists
    <2>3. pods[l].phase = "running" /\ pods[l].role = "master" /\ l \notin todo
      BY <2>1 DEF Init
    <2> QED BY <2>1, <2>2, <2>3, InstancesAssumption DEF LeaderLast, Leads
  <1> QED BY <1>1, <1>2 DEF Init

\* Where nothing was missed a cluster without the operator's finalizer has nothing that runs.
LEMMA NothingRuns ==
    ASSUME StoppedWithoutFinalizer, missed = {},
           pc = "clean" \/ ~ cluster.exists, NEW i \in Instances
    PROVE  ~ PodExists(i) /\ ~ Wanted(i)
  BY DEF StoppedWithoutFinalizer, AllStopped, PodMissed

\* What deleteInstances is about to stop.
LEMMA TodoSteps ==
    ASSUME [Next]_vars
    PROVE  todo' \subseteq todo \/ DeleteInstances
  <1>1. ASSUME NEW i \in Instances, Beside(Environment(i)) PROVE todo' = todo
    BY <1>1 DEF Beside
  <1> QED
    BY <1>1
       DEF Next, vars, EnvironmentStep, ReconcileStep, CollectRunner, CollectVolume,
           GetCluster, SetFinalizer, SetFinalizerConflict, WriteInstance, EndOfReconcile,
           StopInstance, InstancesStopping, DeletePatroniArtifacts, RemoveFinalizer,
           RemoveFinalizerConflict, Interrupted, DeleteCluster, OtherFinalizer, deletionVars, Goto

\* A leader is stopped only as the last.
LEMMA LeaderListed ==
    ASSUME IInv, DeletionTypes, DeleteInstances, missed' = {}, NEW l \in Instances, Leads(l), l \in todo'
    PROVE  Last(l)'
  <1>1. UNCHANGED <<pods, runners>> /\ todo' = ToStop /\ l \in Listed
    BY DEF DeleteInstances, objectVars, Leads, Listed, PodExists
  <1>2. Cardinality(Listed) = 1 /\ Listed \subseteq Instances
    BY <1>1 DEF ToStop, Leads, Listed
  <1>3. Listed = {l}
    BY <1>1, <1>2, InstancesAssumption, FS_Subset, FS_Singleton
  <1>4. ASSUME NEW j \in Instances \ {l} PROVE ~ PodExists(j) /\ ~ Wanted(j)
    <2>1. j \notin Listed
      BY <1>3
    <2>2. ~ PodExists(j)
      BY <2>1 DEF Listed
    <2>3. Wanted(j) => <<j, "pod">> \in missed'
      BY <2>1 DEF DeleteInstances, NoteMissed, Wanted
    <2> QED BY <2>2, <2>3
  <1> QED BY <1>1, <1>4 DEF Last, PodExists, Wanted, RunnerExists

\* A cluster that is being deleted remains so.
LEMMA DeletingStays ==
    ASSUME IInv, [Next]_vars, cluster.deleting
    PROVE  cluster'.deleting
  <1>1. ASSUME NEW c, NEW fs, cluster' = WithFinalizers(c, fs), c.deleting PROVE cluster'.deleting
    BY <1>1 DEF WithFinalizers
  <1>2. ~ DeleteCluster
    BY DEF DeleteCluster
  <1>3. CASE SetFinalizer \/ RemoveFinalizer \/ OtherFinalizer
    BY <1>1, <1>3 DEF SetFinalizer, RemoveFinalizer, OtherFinalizer
  <1> QED BY <1>2, <1>3, ClusterSteps

LEMMA LeaderLastNext ==
    ASSUME IInv, DeletionTypes, StoppedWithoutFinalizer, LeaderLast, [Next]_vars
    PROVE  LeaderLast'
  <1> SUFFICES ASSUME failovers' = 0, missed' = {} PROVE LeaderLast'
    BY DEF LeaderLast
  <1>1. failovers = 0 /\ missed = {}
    BY LockSteps
  <1>2. CASE lastLeader = None
    <2>1. /\ leader = None /\ todo = {}
          /\ \A i \in Instances :
               PodExists(i) => pods[i].phase = "running" /\ pods[i].role = "" /\ Wanted(i)
      BY <1>1, <1>2 DEF LeaderLast
    <2>2. todo' = {}
      <3>1. CASE DeleteInstances
        <4>1. \A i \in Instances : PodExists(i) => <<i, "role">> \in missed'
          BY <2>1, <3>1 DEF DeleteInstances, NoteMissed, Wanted, Listed
        <4>2. Listed = {}
          BY <4>1 DEF Listed
        <4> QED BY <3>1, <4>2 DEF DeleteInstances, ToStop
      <3> QED BY <2>1, <3>1, TodoSteps
    <2>3. ASSUME NEW i \in Instances, PodExists(i)'
          PROVE  pods'[i].phase = "running" /\ Wanted(i)' /\ (pods'[i].role = "" \/ leader' = i)
      <3>1. PodExists(i) \/ Wanted(i)
        BY <2>3, PodSteps DEF PodExists
      <3>2. Wanted(i) /\ pods'[i].phase = "running" /\ (pods'[i].role = "" \/ leader' = i)
        BY <2>1, <2>3, <3>1, PodSteps DEF PodExists
      <3>3. cluster.exists /\ ~ StopInstance(i)
        BY <1>1, <2>1, <3>2, NothingRuns DEF StopInstance
      <3> QED BY <3>2, <3>3, RunnerSteps DEF Wanted, RunnerExists
    <2>4. CASE UNCHANGED <<leader, lastLeader>>
      BY <1>2, <2>1, <2>2, <2>3, <2>4, InstancesAssumption DEF LeaderLast
    <2>5. ASSUME NEW i \in Instances, Beside(Promote(i)) PROVE LeaderLast'
      <3>1. leader' = i /\ lastLeader' = i /\ pods[i].phase = "running" /\ PodExists(i)'
            /\ pods'[i].role = "master"
        BY <2>5 DEF Beside, Promote, WritePod, PodExists, DeletionTypes, Pod
      <3> QED BY <2>2, <2>3, <3>1, InstancesAssumption DEF LeaderLast, Leads
    <2>6. CASE leader' = None /\ lastLeader' = lastLeader
      BY <1>2, <2>1, <2>4, <2>6
    <2> QED BY <2>4, <2>5, <2>6, LockSteps
  <1>3. CASE lastLeader # None
    <2>0. PICK l \in Instances : l = lastLeader
      BY <1>3 DEF DeletionTypes
    <2>1. CASE Last(l) /\ cluster.deleting /\ pc # "maintain"
      <3>1. Last(l)'
        BY <2>1, ActiveSteps DEF Last
      <3>2. pc' # "maintain"
        BY <2>1, PcSteps DEF SetFinalizer, PatchAccepted, IInv, CopyCurrent, StoppedWithoutFinalizer
      <3>3. cluster'.deleting
        BY <2>1, DeletingStays
      <3>4. lastLeader' = lastLeader
        <4>1. ASSUME NEW i \in Instances, Beside(Promote(i)) PROVE lastLeader' = l
          BY <2>1, <4>1 DEF Beside, Promote, Last, PodExists
        <4> QED BY <2>0, <4>1, LockSteps
      <3> QED BY <1>3, <2>0, <3>1, <3>2, <3>3, <3>4 DEF LeaderLast, Last
    <2>2. CASE Leads(l)
      <3>1. PodExists(l) /\ Wanted(l) /\ pc # "clean" /\ cluster.exists
        BY <1>1, <2>0, <2>2, NothingRuns DEF Leads, PodExists
      <3>2. UNCHANGED <<leader, lastLeader>>
        <4>1. ASSUME NEW i \in Instances, Beside(Promote(i)) PROVE FALSE
          BY <1>3, <2>0, <2>2, <4>1 DEF Beside, Promote, Leads
        <4> QED BY <1>3, <2>0, <2>2, <3>1, <4>1, LockSteps DEF Leads
      <3>3. pods'[l].phase = "running" /\ pods'[l].role = "master"
        BY <1>3, <2>0, <2>2, <3>1, PodSteps DEF Leads, PodExists
      <3>4. Wanted(l)'
        <4>1. ~ StopInstance(l)
          BY <2>2 DEF StopInstance, Leads
        <4> QED BY <2>0, <3>1, <4>1, RunnerSteps DEF Wanted, RunnerExists
      <3>5. CASE l \notin todo'
        BY <1>3, <2>0, <2>2, <3>2, <3>3, <3>4, <3>5 DEF LeaderLast, Leads
      <3>6. CASE l \in todo'
        <4>1. DeleteInstances
          BY <2>2, <3>6, TodoSteps DEF Leads
        <4>2. Last(l)'
          BY <2>0, <2>2, <3>6, <4>1, LeaderListed
        <4>3. cluster'.deleting /\ pc' # "maintain"
          BY <4>1 DEF DeleteInstances, IInv, StepsGuarded
        <4> QED BY <1>3, <2>0, <3>2, <4>2, <4>3 DEF LeaderLast, Last
      <3> QED BY <3>5, <3>6
    <2> QED BY <1>1, <1>3, <2>0, <2>1, <2>2 DEF LeaderLast
  <1> QED BY <1>2, <1>3

\* Deleting a cluster makes no failover (NoFailover), for any number of instances and
\* interruptions: deleteInstances stops the one that led only when no other instance runs
\* or will run, so that no other is there to take its lock.
THEOREM DeletionMakesNoFailover == Spec => NoFailover
  <1> DEFINE Kept == /\ cluster.deleting /\ failovers = 0 /\ missed = {} /\ lastLeader # None
                     /\ leader' # leader /\ leader' # None
                     => leader' = lastLeader
             Inv == IInv /\ DeletionTypes /\ StoppedWithoutFinalizer
  <1>1. Inv /\ LeaderLast /\ [Next]_vars => [Kept]_vars
    <2> SUFFICES ASSUME Inv, LeaderLast, [Next]_vars, failovers = 0, missed = {}, lastLeader # None,
                        leader' # leader, leader' # None
                 PROVE  leader' = lastLeader
      OBVIOUS
    <2>1. PICK i \in Instances : Beside(Promote(i))
      BY LockSteps
    <2>2. leader = None /\ leader' = i /\ PodExists(i)
      BY <2>1 DEF Beside, Promote, PodExists
    <2>3. Last(lastLeader)
      BY <2>2 DEF LeaderLast, Leads
    <2> QED BY <2>2, <2>3 DEF Last
  <1>2. Inv /\ LeaderLast /\ [Next]_vars => LeaderLast'
    BY LeaderLastNext
  <1> HIDE DEF Kept
  <1>3. Spec => [][Kept]_vars
    BY <1>1, <1>2, LeaderLastInit, StoppedAlways, PTL DEF Spec
  <1> QED BY <1>3 DEF NoFailover, Kept
=============================================================================
