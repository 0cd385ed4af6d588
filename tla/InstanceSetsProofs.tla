-------------------------- MODULE InstanceSetsProofs --------------------------
(***************************************************************************)
(* Proofs about InstanceSets for every number of instances and sets, every *)
(* bound on edits and faults, with and without stale reads.                *)
(***************************************************************************)
EXTENDS InstanceSets, FiniteSetTheorems, TLAPS

\* The initial values of the objects have their types.
LEMMA InitialValuesTyped ==
    /\ NoPod \in Pod
    /\ NoRunner \in Runner
    /\ NoView \in Views
    /\ InitialSpec \in Spec_
  <1>1. NoPod \in Pod
    BY ObjectBoundsAssumption DEF NoPod, Pod, Roles
  <1>2. NoRunner \in Runner
    BY ObjectBoundsAssumption DEF NoRunner, Runner
  <1>3. NoView \in Views
    BY <1>1, <1>2 DEF NoView, Views, VolumePhases
  <1>4. InitialSpec \in Spec_
    BY SpecAssumption, ObjectBoundsAssumption DEF InitialSpec, Spec_, Revisions
  <1> QED BY <1>1, <1>2, <1>3, <1>4

\* A field of a listed Pod or runner can be changed without leaving its type.
LEMMA PodUpdatesTyped ==
    ASSUME NEW pod \in Pod
    PROVE  /\ \A b \in BOOLEAN : [pod EXCEPT !.ready = b] \in Pod
           /\ \A r \in Roles : [pod EXCEPT !.role = r] \in Pod
           /\ [pod EXCEPT !.phase = "terminating"] \in Pod
  BY DEF Pod

-----------------------------------------------------------------------------
(* Type correctness.                                                       *)

\* What the environment does to the objects keeps their types.
LEMMA EnvironmentTyped ==
    ASSUME TypeOK, NEW i \in Instances, Environment(i)
    PROVE  ObjectsTypeOK'
  <1> USE DEF TypeOK, ObjectsTypeOK
  <1>1. CASE SyncRunner(i)
    <2>1. [runners[i] EXCEPT !.synced = TRUE] \in Runner
      BY DEF Runner
    <2>2. runners' = [runners EXCEPT ![i] = [runners[i] EXCEPT !.synced = TRUE]]
      BY <1>1 DEF SyncRunner
    <2> QED BY <1>1, <2>1, <2>2 DEF SyncRunner
  <1>2. CASE CreatePod(i)
    <2>1. runners[i].rev \in 0..MaxRev
      BY DEF Runner
    <2>2. [phase |-> "running", rev |-> runners[i].rev, ready |-> FALSE, role |-> ""] \in Pod
      BY <2>1 DEF Pod, Roles
    <2> QED BY <1>2, <2>2 DEF CreatePod, WritePod
  <1>3. CASE StopPod(i)
    BY <1>3, PodUpdatesTyped DEF StopPod, WritePod
  <1>4. CASE PodGone(i)
    BY <1>4, InitialValuesTyped DEF PodGone, WritePod
  <1>5. CASE VolumeGone(i)
    BY <1>5 DEF VolumeGone, VolumePhases
  <1>6. CASE BecomeReady(i)
    BY <1>6, PodUpdatesTyped DEF BecomeReady, WritePod
  <1>7. CASE BecomeUnready(i)
    <2>1. failures' \in 0..MaxFailures
      BY <1>7, ObjectBoundsAssumption DEF BecomeUnready
    <2> QED BY <1>7, <2>1, PodUpdatesTyped DEF BecomeUnready, WritePod
  <1>8. CASE Promote(i)
    BY <1>8, PodUpdatesTyped DEF Promote, WritePod, Roles
  <1>9. CASE Follow(i)
    BY <1>9, PodUpdatesTyped DEF Follow, WritePod, Roles
  <1>10. CASE ReleaseLock(i)
    BY <1>10 DEF ReleaseLock
  <1>11. CASE LoseLock(i)
    <2>1. failovers' \in 0..MaxFailovers
      BY <1>11, ObjectBoundsAssumption DEF LoseLock
    <2> QED BY <1>11, <2>1 DEF LoseLock
  <1> QED BY <1>1, <1>2, <1>3, <1>4, <1>5, <1>6, <1>7, <1>8, <1>9, <1>10, <1>11
          DEF Environment

\* The initial states are typed.
LEMMA InitTyped == Init => TypeOK
  <1> SUFFICES ASSUME Init PROVE TypeOK
    OBVIOUS
  <1>1. ObjectsTypeOK
    <2>1. /\ NoView.pods \in [Instances -> Pod]
          /\ NoView.runners \in [Instances -> Runner]
          /\ NoView.volumes \in [Instances -> VolumePhases]
      BY InitialValuesTyped DEF Views
    <2> QED BY <2>1, ObjectBoundsAssumption DEF Init, InitOperator, ObjectsTypeOK
  <1>2. edits \in 0..MaxEdits /\ crashes \in 0..MaxCrashes /\ errors \in 0..MaxErrors
    BY FaultBoundsAssumption DEF Init, InitOperator
  <1>3. pc \in Steps /\ pc # "apply"
    BY DEF Init, InitOperator, Steps
  <1>4. obs \in Views
    BY <1>1, InitialValuesTyped DEF Init, InitOperator, ObjectsTypeOK, Views
  <1> QED BY <1>1, <1>2, <1>3, <1>4, InitialValuesTyped DEF Init, InitOperator, TypeOK

LEMMA EstablishedTyped == InitEstablished => TypeOK
  <1> SUFFICES ASSUME InitEstablished PROVE TypeOK
    OBVIOUS
  <1>1. PICK members \in SUBSET Instances : \E l \in members :
          /\ pods = [i \in Instances |->
                       IF i \in members
                       THEN [phase |-> "running", rev |-> 1, ready |-> TRUE,
                             role |-> IF i = l THEN "master" ELSE "replica"]
                       ELSE NoPod]
          /\ runners = [i \in Instances |->
                          IF i \in members
                          THEN [phase |-> "present", replicas |-> 1, rev |-> 1, synced |-> TRUE]
                          ELSE NoRunner]
          /\ volumes = [i \in Instances |-> IF i \in members THEN "bound" ELSE "absent"]
          /\ leader = l /\ lastLeader = l
          /\ pdbs = {s \in Sets : InitialReplicas[s] > 1}
          /\ InitOperator
    BY DEF InitEstablished
  <1>2. ObjectsTypeOK
    <2>1. 1 \in 0..MaxRev
      BY ObjectBoundsAssumption
    <2>2. \A r \in Roles : [phase |-> "running", rev |-> 1, ready |-> TRUE, role |-> r] \in Pod
      BY <2>1 DEF Pod
    <2>3. [phase |-> "present", replicas |-> 1, rev |-> 1, synced |-> TRUE] \in Runner
      BY <2>1 DEF Runner
    <2>4. pods \in [Instances -> Pod]
      BY <1>1, <2>2, InitialValuesTyped DEF Roles
    <2>5. runners \in [Instances -> Runner]
      BY <1>1, <2>3, InitialValuesTyped
    <2>6. volumes \in [Instances -> VolumePhases]
      BY <1>1 DEF VolumePhases
    <2> QED BY <1>1, <2>4, <2>5, <2>6, ObjectBoundsAssumption DEF InitOperator, ObjectsTypeOK
  <1>3. edits \in 0..MaxEdits /\ crashes \in 0..MaxCrashes /\ errors \in 0..MaxErrors
    BY <1>1, FaultBoundsAssumption DEF InitOperator
  <1>4. pc \in Steps /\ pc # "apply"
    BY <1>1 DEF InitOperator, Steps
  <1>5. obs \in Views
    BY <1>1, <1>2, InitialValuesTyped DEF InitOperator, ObjectsTypeOK, Views
  <1>6. InitOperator /\ pdbs \in SUBSET Sets
    BY <1>1
  <1> QED BY <1>2, <1>3, <1>4, <1>5, <1>6, InitialValuesTyped DEF InitOperator, TypeOK

\* Ending a reconcile or skipping to its last step keeps the operator's memory
\* typed.
LEMMA MemoryTyped ==
    ASSUME TypeOK
    PROVE  /\ Forget => /\ pc' \in Steps /\ pc' # "apply"
                        /\ obs' \in Views /\ changed' \in SUBSET Instances
                        /\ mem' \in [spec : Spec_, startup : Instances \cup {None}]
                        /\ todoSets' \in SUBSET Sets /\ curSet' \in Sets \cup {None}
                        /\ todo' \in SUBSET Instances /\ cur' \in Instances \cup {None}
           /\ SkipToPatch => /\ pc' \in Steps /\ pc' # "apply" /\ obs' \in Views
                             /\ mem' \in [spec : Spec_, startup : Instances \cup {None}]
                             /\ todoSets' \in SUBSET Sets /\ curSet' \in Sets \cup {None}
                             /\ todo' \in SUBSET Instances /\ cur' \in Instances \cup {None}
  <1>1. pc' = "idle" => pc' \in Steps /\ pc' # "apply"
    BY DEF Steps
  <1>2. pc' = "patch" => pc' \in Steps /\ pc' # "apply"
    BY DEF Steps
  <1> QED BY <1>1, <1>2, InitialValuesTyped DEF TypeOK, ObjectsTypeOK, Forget, SkipToPatch

\* A list from the API or from a cache is a view.
LEMMA ListViewTyped ==
    ASSUME TypeOK, NEW fp, NEW fr, NEW fv
    PROVE  ListView(fp, fr, fv) \in Views
  BY DEF TypeOK, ObjectsTypeOK, ListView, Views

\* Writing one runner into the snapshot gives a snapshot.
LEMMA RelistTyped ==
    ASSUME TypeOK, NEW i \in Instances, NEW r \in Runner, Relist(i, r)
    PROVE  /\ obs' \in Views
           /\ obs'.pods = obs.pods
  <1> DEFINE new == [obs.runners EXCEPT ![i] = r]
  <1>1. obs.runners \in [Instances -> Runner]
    BY DEF TypeOK, Views
  <1>2. new \in [Instances -> Runner]
    BY <1>1
  <1>3. CASE obs' = obs
    BY <1>3 DEF TypeOK
  <1>4. CASE obs' = [obs EXCEPT !.runners[i] = r]
    <2>1. obs' = [obs EXCEPT !.runners = new]
      BY <1>4
    <2> QED BY <2>1, <1>2 DEF TypeOK, Views
  <1> QED BY <1>3, <1>4 DEF Relist

\* Every step of the operator and the user is typed.
LEMMA NextTyped == TypeOK /\ [Next]_vars => TypeOK'
  <1> SUFFICES ASSUME TypeOK, [Next]_vars PROVE TypeOK'
    OBVIOUS
  <1>1. CASE EnvironmentStep
    <2>1. PICK i \in Instances : Beside(Environment(i))
      BY <1>1 DEF EnvironmentStep
    <2>2. ObjectsTypeOK'
      BY <2>1, EnvironmentTyped DEF Beside
    <2> QED BY <2>1, <2>2 DEF TypeOK, Beside, operatorVars, boundVars
  <1>2. CASE Observe
    <2>1. PICK fp, fr, fv \in Freshness, st \in Instances \cup {None} :
             /\ obs' = ListView(fp, fr, fv)
             /\ changed' = IF fp THEN {} ELSE changed
             /\ mem' = [spec |-> spec, startup |-> st]
      BY <1>2 DEF Observe
    <2>2. obs' \in Views
      BY <2>1, ListViewTyped
    <2>3. todoSets' \in SUBSET Sets
      BY <1>2 DEF Observe, SpecSets
    <2>4. pc' \in Steps
      BY <1>2 DEF Observe, Steps
    <2> QED BY <1>2, <2>1, <2>2, <2>3, <2>4 DEF Observe, TypeOK, ObjectsTypeOK, boundVars
  <1>3. CASE \E s \in Sets : ScaleUpInstances(s)
    <2>1. pc' \in Steps
      BY <1>3 DEF ScaleUpInstances, Steps
    <2> QED BY <1>3, <2>1 DEF ScaleUpInstances, TypeOK, ObjectsTypeOK, objectVars, boundVars
  <1>4. ASSUME NEW i \in Instances, ReconcileVolume(i) PROVE TypeOK'
    <2>1. volumes' \in [Instances -> VolumePhases]
      BY <1>4 DEF ReconcileVolume, TypeOK, ObjectsTypeOK, VolumePhases
    <2> QED BY <1>4, <2>1 DEF ReconcileVolume, TypeOK, ObjectsTypeOK, boundVars
  <1>4a. ASSUME NEW i \in Instances, ReconcileVolumeRefused(i) PROVE TypeOK'
    <2>1. errors' \in 0..MaxErrors
      BY <1>4a, FaultBoundsAssumption DEF ReconcileVolumeRefused, CallFails, TypeOK
    <2> QED BY <1>4a, <2>1 DEF ReconcileVolumeRefused, TypeOK, ObjectsTypeOK, objectVars
  <1>5. ASSUME NEW i \in Instances, ReconcileRunner(i) PROVE TypeOK'
    <2> DEFINE intent == [phase |-> "present", replicas |-> ReplicasIntent(i),
                          rev |-> mem.spec.rev, synced |-> runners[i].synced]
               result == IF runners[i] = intent THEN intent
                                                ELSE [intent EXCEPT !.synced = FALSE]
    <2>1. ReplicasIntent(i) \in 0..1
      BY DEF ReplicasIntent
    <2>2. mem.spec.rev \in 0..MaxRev
      BY ObjectBoundsAssumption DEF TypeOK, Spec_, Revisions
    <2>3. runners[i].synced \in BOOLEAN
      BY DEF TypeOK, ObjectsTypeOK, Runner
    <2>4. result \in Runner
      BY <2>1, <2>2, <2>3 DEF Runner
    <2>5. runners' = [runners EXCEPT ![i] = result] /\ Relist(i, result)
      BY <1>5 DEF ReconcileRunner
    <2> HIDE DEF result
    <2>6. obs' \in Views
      BY <2>4, <2>5, RelistTyped
    <2>7. runners' \in [Instances -> Runner]
      BY <2>4, <2>5 DEF TypeOK, ObjectsTypeOK
    <2> QED BY <1>5, <2>6, <2>7 DEF ReconcileRunner, TypeOK, ObjectsTypeOK, boundVars
  <1>6. ASSUME NEW i \in Instances, DeleteRunner(i) PROVE TypeOK'
    <2>1. runners' \in [Instances -> Runner]
      BY <1>6, InitialValuesTyped DEF DeleteRunner, TypeOK, ObjectsTypeOK
    <2> QED BY <1>6, <2>1 DEF DeleteRunner, TypeOK, ObjectsTypeOK, boundVars
  <1>7. ASSUME NEW i \in Instances, DeleteVolume(i) PROVE TypeOK'
    <2>1. volumes' \in [Instances -> VolumePhases]
      BY <1>7 DEF DeleteVolume, TypeOK, ObjectsTypeOK, VolumePhases
    <2> QED BY <1>7, <2>1 DEF DeleteVolume, TypeOK, ObjectsTypeOK, boundVars
  <1>8. ASSUME NEW i \in Instances, RolloutSwitchoverRefused(i) PROVE TypeOK'
    BY <1>8, MemoryTyped
    DEF RolloutSwitchoverRefused, TypeOK, ObjectsTypeOK, objectVars, boundVars
  <1>9. ASSUME NEW i \in Instances, RolloutDelete(i) PROVE TypeOK'
    <2>1. pods' \in [Instances -> Pod] /\ changed' \in SUBSET Instances
      BY <1>9, PodUpdatesTyped DEF RolloutDelete, WritePod, TypeOK, ObjectsTypeOK
    <2> QED BY <1>9, <2>1 DEF RolloutDelete, TypeOK, ObjectsTypeOK, boundVars
  <1>10. ASSUME NEW i \in Instances, RolloutConflict(i) PROVE TypeOK'
    BY <1>10, MemoryTyped
    DEF RolloutConflict, TypeOK, ObjectsTypeOK, objectVars, boundVars
  <1>11. ASSUME NEW i \in Instances, NEW c \in Instances, RolloutSwitchover(i, c)
         PROVE TypeOK'
    <2> DEFINE demoted  == [[pods[i] EXCEPT !.role = "replica"] EXCEPT !.ready = FALSE]
               promoted == [pods[c] EXCEPT !.role = "master"]
    <2>1. demoted \in Pod /\ promoted \in Pod
      BY PodUpdatesTyped DEF TypeOK, ObjectsTypeOK, Roles
    <2>2. c # i
      BY <1>11 DEF RolloutSwitchover, Candidates
    <2>3. pods' = [[pods EXCEPT ![i] = demoted] EXCEPT ![c] = promoted]
      BY <1>11, <2>2 DEF RolloutSwitchover, TypeOK, ObjectsTypeOK
    <2>4. pods' \in [Instances -> Pod]
      BY <2>1, <2>3 DEF TypeOK, ObjectsTypeOK
    <2> QED BY <1>11, <2>4 DEF RolloutSwitchover, TypeOK, ObjectsTypeOK, boundVars
  <1>12. CASE ReconcilePodDisruptionBudget
    <2>1. pc' \in Steps
      BY <1>12 DEF ReconcilePodDisruptionBudget, Steps
    <2>2. pdbs' \in SUBSET Sets
      BY <1>12 DEF ReconcilePodDisruptionBudget, TypeOK
    <2> QED BY <1>12, <2>1, <2>2
            DEF ReconcilePodDisruptionBudget, TypeOK, ObjectsTypeOK, objectVars, boundVars
  <1>13. CASE ScaleDownInstances
    <2>1. pc' \in Steps
      BY <1>13 DEF ScaleDownInstances, Steps
    <2> QED BY <1>13, <2>1
            DEF ScaleDownInstances, ObservedPods, TypeOK, ObjectsTypeOK, objectVars, boundVars
  <1>14. CASE RolloutInstances
    <2>1. pc' \in Steps
      BY <1>14 DEF RolloutInstances, Steps
    <2> QED BY <1>14, <2>1
            DEF RolloutInstances, TypeOK, ObjectsTypeOK, objectVars, boundVars
  <1>15. CASE RolloutDone
    <2>1. pc' \in Steps
      BY <1>15 DEF RolloutDone, Steps
    <2> QED BY <1>15, <2>1 DEF RolloutDone, TypeOK, ObjectsTypeOK, objectVars, boundVars
  <1>16. CASE PatchClusterStatus
    BY <1>16, MemoryTyped DEF PatchClusterStatus, TypeOK, ObjectsTypeOK, boundVars
  <1>17. CASE ObservePanics
    BY <1>17 DEF ObservePanics, TypeOK, ObjectsTypeOK, objectVars, operatorVars, boundVars
  <1>18. ASSUME NEW i \in Instances, ReconcileInstanceFails(i) PROVE TypeOK'
    <2>1. errors' \in 0..MaxErrors
      BY <1>18, FaultBoundsAssumption DEF ReconcileInstanceFails, CallFails, TypeOK
    <2>2. CASE SkipToPatch
      BY <1>18, <2>1, <2>2, MemoryTyped
      DEF ReconcileInstanceFails, TypeOK, ObjectsTypeOK, objectVars
    <2>3. CASE /\ todo' = todo \ {i} /\ cur' = None /\ Relist(i, UnwrittenRunner)
               /\ UNCHANGED <<pc, mem, todoSets, curSet>>
      <3>1. UnwrittenRunner \in Runner
        BY ObjectBoundsAssumption DEF UnwrittenRunner, Runner
      <3>2. obs' \in Views
        BY <2>3, <3>1, RelistTyped
      <3> QED BY <1>18, <2>1, <2>3, <3>2
              DEF ReconcileInstanceFails, TypeOK, ObjectsTypeOK, objectVars
    <2> QED BY <1>18, <2>2, <2>3 DEF ReconcileInstanceFails
  <1>19. CASE OtherCallFails
    <2>1. errors' \in 0..MaxErrors
      BY <1>19, FaultBoundsAssumption DEF OtherCallFails, CallFails, TypeOK
    <2> QED BY <1>19, <2>1, MemoryTyped
            DEF OtherCallFails, TypeOK, ObjectsTypeOK, objectVars
  <1>20. CASE PatchFails
    <2>1. errors' \in 0..MaxErrors
      BY <1>20, FaultBoundsAssumption DEF PatchFails, CallFails, TypeOK
    <2> QED BY <1>20, <2>1, MemoryTyped DEF PatchFails, TypeOK, ObjectsTypeOK
  <1>21. CASE Crash
    <2>1. crashes' \in 0..MaxCrashes
      BY <1>21, FaultBoundsAssumption DEF Crash, TypeOK
    <2> QED BY <1>21, <2>1, MemoryTyped DEF Crash, TypeOK, ObjectsTypeOK
  <1>22. CASE UserStep
    <2>1. \E new \in Spec_ : \E kind \in UserEdits : Edit(kind, new)
      <3>1. ASSUME NEW s \in Sets, NEW n \in ReplicaCounts, EditReplicas(s, n)
            PROVE  [spec EXCEPT !.replicas[s] = n] \in Spec_
        <4>1. [spec.replicas EXCEPT ![s] = n] \in [Sets -> ReplicaCounts]
          BY DEF TypeOK, Spec_
        <4>2. [spec EXCEPT !.replicas[s] = n]
                = [spec EXCEPT !.replicas = [spec.replicas EXCEPT ![s] = n]]
          BY DEF TypeOK, Spec_
        <4> QED BY <4>1, <4>2 DEF TypeOK, Spec_
      <3>2. ASSUME EditTemplate PROVE [spec EXCEPT !.rev = spec.rev + 1] \in Spec_
        BY <3>2, ObjectBoundsAssumption DEF EditTemplate, TypeOK, Spec_, Revisions
      <3>3. [spec EXCEPT !.shutdown = ~ spec.shutdown] \in Spec_
        BY DEF TypeOK, Spec_
      <3>4. CASE \E s \in Sets, n \in ReplicaCounts : EditReplicas(s, n)
        BY <3>1, <3>4 DEF EditReplicas, Edit
      <3>5. CASE EditTemplate
        BY <3>2, <3>5 DEF EditTemplate, Edit
      <3>6. CASE EditShutdown
        BY <3>3, <3>6 DEF EditShutdown, Edit
      <3> QED BY <1>22, <3>4, <3>5, <3>6 DEF UserStep
    <2>2. PICK new \in Spec_ : \E kind \in UserEdits : Edit(kind, new)
      BY <2>1
    <2>3. edits' \in 0..MaxEdits
      BY <2>2, FaultBoundsAssumption DEF Edit, TypeOK
    <2> QED BY <2>2, <2>3 DEF Edit, TypeOK, ObjectsTypeOK, objectVars, operatorVars
  <1>23. CASE UNCHANGED vars
    BY <1>23 DEF vars, objectVars, operatorVars, boundVars, TypeOK, ObjectsTypeOK
  <1> QED
    BY <1>1, <1>2, <1>3, <1>4, <1>4a, <1>5, <1>6, <1>7, <1>8, <1>9, <1>10, <1>11, <1>12,
       <1>13, <1>14, <1>15, <1>16, <1>17, <1>18, <1>19, <1>20, <1>21, <1>22, <1>23
    DEF Next, ReconcileStep, FaultStep

\* Every variable keeps its type, in every behaviour of a cluster that is being created
\* (Spec) or has been running for a while (EstablishedSpec).
THEOREM TypeCorrect == Spec \/ EstablishedSpec => []TypeOK
  BY InitTyped, EstablishedTyped, NextTyped, PTL DEF Spec, EstablishedSpec

-----------------------------------------------------------------------------
(* The precondition on the delete in rolloutInstance.                      *)

\* The resourceVersion in a snapshot tells whether the snapshot is still true:
\* a Pod that was not written since it was listed is as it was listed.
SnapshotCurrent ==
    (pc # "idle" \/ StaleReads) =>
        \A i \in Instances \ changed : obs.pods[i] = pods[i]

\* Whatever writes a Pod beside the operator moves its resourceVersion.
LEMMA EnvironmentMovesVersion ==
    ASSUME TypeOK, NEW i \in Instances, Environment(i), NEW j \in Instances
    PROVE  /\ changed \subseteq changed'
           /\ j \notin changed' => pods'[j] = pods[j]
  <1> USE DEF TypeOK, ObjectsTypeOK, WritePod
  <1>1. CASE SyncRunner(i) \/ VolumeGone(i) \/ ReleaseLock(i) \/ LoseLock(i)
    BY <1>1 DEF SyncRunner, VolumeGone, ReleaseLock, LoseLock
  <1>2. CASE CreatePod(i) \/ StopPod(i) \/ PodGone(i)
    BY <1>2 DEF CreatePod, StopPod, PodGone
  <1>3. CASE BecomeReady(i) \/ BecomeUnready(i)
    BY <1>3 DEF BecomeReady, BecomeUnready
  <1>4. CASE Promote(i) \/ Follow(i)
    BY <1>4 DEF Promote, Follow
  <1> QED BY <1>1, <1>2, <1>3, <1>4 DEF Environment

\* SnapshotCurrent is inductive, given the types.
LEMMA SnapshotStep == TypeOK /\ SnapshotCurrent /\ [Next]_vars => SnapshotCurrent'
  <1> SUFFICES ASSUME TypeOK, SnapshotCurrent, [Next]_vars,
                      (pc # "idle" \/ StaleReads)',
                      NEW j \in Instances, j \notin changed'
               PROVE  obs'.pods[j] = pods'[j]
    BY DEF SnapshotCurrent
  <1> DEFINE Kept == /\ pc # "idle" \/ StaleReads
                     /\ changed \subseteq changed'
                     /\ obs'.pods[j] = obs.pods[j]
                     /\ pods'[j] = pods[j]
  <1>1. Kept => obs'.pods[j] = pods'[j]
    BY DEF SnapshotCurrent
  <1>2. ASSUME UNCHANGED <<pods, changed, obs>>, pc # "idle" \/ StaleReads
        PROVE  Kept
    BY <1>2
  <1>3. ASSUME Forget, UNCHANGED pods PROVE Kept
    BY <1>3 DEF Forget
  <1>4. CASE EnvironmentStep
    <2>1. PICK i \in Instances : Beside(Environment(i))
      BY <1>4 DEF EnvironmentStep
    <2>2. changed \subseteq changed' /\ pods'[j] = pods[j]
      BY <2>1, EnvironmentMovesVersion DEF Beside
    <2> QED BY <1>1, <2>1, <2>2 DEF Beside, operatorVars
  <1>5. CASE Observe
    <2>1. PICK fp, fr, fv \in Freshness :
             /\ obs' = ListView(fp, fr, fv)
             /\ changed' = IF fp THEN {} ELSE changed
      BY <1>5 DEF Observe
    <2>2. pods' = pods
      BY <1>5 DEF Observe
    <2>3. CASE fp
      BY <2>1, <2>2, <2>3 DEF ListView
    <2>4. CASE ~ fp
      <3>1. StaleReads
        BY <2>4, SpecAssumption DEF Freshness
      <3>2. obs'.pods = obs.pods
        BY <2>1, <2>4 DEF ListView
      <3> QED BY <2>1, <2>2, <2>4, <3>1, <3>2 DEF SnapshotCurrent
    <2> QED BY <2>3, <2>4
  <1>6. ASSUME NEW s \in Sets, ScaleUpInstances(s) PROVE obs'.pods[j] = pods'[j]
    BY <1>1, <1>2, <1>6 DEF ScaleUpInstances, objectVars
  <1>7. ASSUME NEW i \in Instances,
               ReconcileVolume(i) \/ ReconcileVolumeRefused(i) \/ DeleteRunner(i) \/ DeleteVolume(i)
        PROVE  obs'.pods[j] = pods'[j]
    BY <1>1, <1>2, <1>7 DEF ReconcileVolume, ReconcileVolumeRefused, DeleteRunner, DeleteVolume, objectVars
  <1>8. ASSUME NEW i \in Instances, ReconcileRunner(i) PROVE obs'.pods[j] = pods'[j]
    <2>1. obs'.pods = obs.pods
      BY <1>8 DEF ReconcileRunner, Relist, TypeOK, Views
    <2> QED BY <1>1, <1>8, <2>1 DEF ReconcileRunner
  <1>9. ASSUME NEW i \in Instances,
               RolloutSwitchoverRefused(i) \/ RolloutConflict(i)
        PROVE  obs'.pods[j] = pods'[j]
    BY <1>1, <1>2, <1>9
    DEF RolloutSwitchoverRefused, RolloutConflict, SkipToPatch, NextToRoll, objectVars
  <1>10. ASSUME NEW i \in Instances, RolloutDelete(i) PROVE obs'.pods[j] = pods'[j]
    BY <1>1, <1>10 DEF RolloutDelete, WritePod, NextToRoll, TypeOK, ObjectsTypeOK
  <1>11. ASSUME NEW i \in Instances, NEW c \in Instances, RolloutSwitchover(i, c)
         PROVE  obs'.pods[j] = pods'[j]
    BY <1>1, <1>11 DEF RolloutSwitchover, NextToRoll, TypeOK, ObjectsTypeOK
  <1>12. CASE ReconcilePodDisruptionBudget \/ ScaleDownInstances \/ RolloutInstances
              \/ RolloutDone
    BY <1>1, <1>2, <1>12 DEF ReconcilePodDisruptionBudget, ScaleDownInstances,
       RolloutInstances, RolloutDone, objectVars
  <1>13. CASE PatchClusterStatus \/ PatchFails \/ Crash
    BY <1>1, <1>3, <1>13 DEF PatchClusterStatus, PatchFails, Crash
  <1>14. CASE ObservePanics \/ UserStep
    BY <1>1, <1>2, <1>14 DEF ObservePanics, UserStep, EditReplicas, EditTemplate,
       EditShutdown, Edit, objectVars, operatorVars
  <1>15. ASSUME NEW i \in Instances, ReconcileInstanceFails(i)
         PROVE  obs'.pods[j] = pods'[j]
    <2>1. obs'.pods = obs.pods
      BY <1>15 DEF ReconcileInstanceFails, Relist, SkipToPatch, TypeOK, Views
    <2> QED BY <1>1, <1>15, <2>1 DEF ReconcileInstanceFails, NextToWrite, objectVars
  <1>16. CASE OtherCallFails
    BY <1>1, <1>2, <1>16 DEF OtherCallFails, SkipToPatch, objectVars
  <1>17. CASE UNCHANGED vars
    BY <1>1, <1>2, <1>17 DEF vars, objectVars, operatorVars
  <1> QED
    BY <1>4, <1>5, <1>6, <1>7, <1>8, <1>9, <1>10, <1>11, <1>12, <1>13, <1>14, <1>15,
       <1>16, <1>17 DEF Next, ReconcileStep, FaultStep

\* A snapshot that knows of no failover but has i knows of i alone.
LEMMA OnlyInstance ==
    ASSUME NEW i \in ObservedInstances, ~ HasFailover
    PROVE  ObservedInstances = {i}
  <1>1. ObservedInstances \subseteq Instances
    BY DEF ObservedInstances, ObservedPods, ObservedRunners
  <1>2. IsFiniteSet(ObservedInstances)
    BY <1>1, InstancesAssumption, FS_Subset
  <1>3. Cardinality(ObservedInstances) \in Nat /\ Cardinality(ObservedInstances) <= 1
    BY <1>2, FS_CardinalityType DEF HasFailover
  <1>4. \A j \in ObservedInstances : j = i
    <2> SUFFICES ASSUME NEW j \in ObservedInstances, j # i PROVE FALSE
      OBVIOUS
    <2>1. IsFiniteSet({i, j}) /\ Cardinality({i, j}) = 2
      <3>1. IsFiniteSet({i}) /\ Cardinality({i}) = 1
        BY FS_Singleton
      <3>2. {i, j} = {i} \cup {j} /\ j \notin {i}
        OBVIOUS
      <3> QED BY <3>1, <3>2, FS_AddElement
    <2>2. Cardinality({i, j}) <= Cardinality(ObservedInstances)
      BY <1>2, FS_Subset
    <2> QED BY <1>3, <2>1, <2>2
  <1> QED BY <1>4

\* A step that rolls out an instance is the delete of a Pod unmodified since
\* it was listed.
LEMMA RolledOutByDelete ==
    ASSUME TypeOK, [Next]_vars, NEW i \in Instances, RolledOut(i)
    PROVE  RolloutDelete(i)
  <1> USE DEF RolledOut
  <1>1. ASSUME EnvironmentStep PROVE FALSE
    BY <1>1 DEF EnvironmentStep, Beside, operatorVars
  <1>2. ASSUME Observe \/ ObservePanics \/ PatchClusterStatus \/ PatchFails
               \/ RolloutDone \/ RolloutInstances \/ ScaleDownInstances
               \/ ReconcilePodDisruptionBudget
        PROVE  FALSE
    BY <1>2 DEF Observe, ObservePanics, PatchClusterStatus, PatchFails,
       RolloutDone, RolloutInstances, ScaleDownInstances, ReconcilePodDisruptionBudget
  <1>3. ASSUME NEW s \in Sets, ScaleUpInstances(s) PROVE FALSE
    BY <1>3 DEF ScaleUpInstances
  <1>4. ASSUME NEW j \in Instances,
               ReconcileVolume(j) \/ ReconcileRunner(j) \/ DeleteRunner(j) \/ DeleteVolume(j)
               \/ ReconcileInstanceFails(j) \/ ReconcileVolumeRefused(j)
        PROVE  FALSE
    BY <1>4 DEF ReconcileVolume, ReconcileVolumeRefused, ReconcileRunner, DeleteRunner, DeleteVolume,
       ReconcileInstanceFails, NextToWrite
  <1>5. ASSUME NEW j \in Instances, RolloutSwitchoverRefused(j) \/ RolloutConflict(j)
        PROVE  FALSE
    BY <1>5 DEF RolloutSwitchoverRefused, RolloutConflict, objectVars
  <1>6. ASSUME NEW j \in Instances, NEW c \in Instances, RolloutSwitchover(j, c)
        PROVE  FALSE
    <2>1. pods'[i].phase = pods[i].phase
      BY <1>6 DEF RolloutSwitchover, TypeOK, ObjectsTypeOK, Pod
    <2> QED BY <2>1
  <1>7. ASSUME NEW j \in Instances, RolloutDelete(j) PROVE j = i
    BY <1>7 DEF RolloutDelete, WritePod, TypeOK, ObjectsTypeOK
  <1>8. ASSUME OtherCallFails \/ Crash \/ UserStep \/ UNCHANGED vars PROVE FALSE
    BY <1>8 DEF OtherCallFails, Crash, UserStep, EditReplicas, EditTemplate, EditShutdown, Edit,
       vars, objectVars, operatorVars
  <1> QED BY <1>1, <1>2, <1>3, <1>4, <1>5, <1>6, <1>7, <1>8
          DEF Next, ReconcileStep, FaultStep

\* The UID and resourceVersion preconditions make the delete in rolloutInstance
\* safe: no Pod labelled as the leader is deleted while the reconcile knows of
\* another instance, however stale its snapshot and whatever Patroni does.
THEOREM RolloutIsSafe == Spec \/ EstablishedSpec => RolloutSparesLeader
  <1>1. Init \/ InitEstablished => SnapshotCurrent
    BY DEF Init, InitEstablished, InitOperator, SnapshotCurrent, NoView
  <1>2. ASSUME TypeOK, SnapshotCurrent, [Next]_vars
        PROVE  [\A i \in Instances : RolledOut(i) =>
                   pods[i].role # "master" \/ ObservedInstances = {i}]_vars
    <2> SUFFICES ASSUME NEW i \in Instances, RolledOut(i), pods[i].role = "master"
                 PROVE  ObservedInstances = {i}
      OBVIOUS
    <2>1. RolloutDelete(i)
      BY <1>2, RolledOutByDelete
    <2>2. obs.pods[i] = pods[i]
      BY <1>2, <2>1 DEF RolloutDelete, NextToRoll, Unmodified, SnapshotCurrent
    <2>3. ~ HasFailover
      BY <2>1, <2>2 DEF RolloutDelete, IsPrimary
    <2>4. i \in ObservedInstances
      BY <2>2 DEF RolledOut, ObservedInstances, ObservedPods
    <2> QED BY <2>3, <2>4, OnlyInstance
  <1>3. Spec \/ EstablishedSpec => []SnapshotCurrent
    BY <1>1, TypeCorrect, SnapshotStep, PTL DEF Spec, EstablishedSpec
  <1> QED BY <1>2, <1>3, TypeCorrect, PTL DEF Spec, EstablishedSpec, RolloutSparesLeader

-----------------------------------------------------------------------------
(* How many instances scaleUpInstances makes.                              *)

\* The largest element of a set of naturals that has one, and of a pair.
LEMMA MaxIsBound ==
    ASSUME NEW S, S \subseteq Nat, \E m \in S : \A n \in S : n <= m
    PROVE  Max(S) \in S /\ \A n \in S : n <= Max(S)
  BY DEF Max

LEMMA MaxMinOfTwo ==
    ASSUME NEW m \in Int, NEW n \in Int
    PROVE  /\ Max({m, n}) = IF m >= n THEN m ELSE n
           /\ Min({m, n}) = IF m <= n THEN m ELSE n
  <1>1. Max({m, n}) = IF m >= n THEN m ELSE n
    <2> DEFINE x == IF m >= n THEN m ELSE n
    <2>1. x \in {m, n} /\ \A y \in {m, n} : x >= y
      OBVIOUS
    <2>2. \A z \in {m, n} : (\A y \in {m, n} : z >= y) => z = x
      OBVIOUS
    <2> QED BY <2>1, <2>2 DEF Max
  <1>2. Min({m, n}) = IF m <= n THEN m ELSE n
    <2> DEFINE x == IF m <= n THEN m ELSE n
    <2>1. x \in {m, n} /\ \A y \in {m, n} : x <= y
      OBVIOUS
    <2>2. \A z \in {m, n} : (\A y \in {m, n} : z <= y) => z = x
      OBVIOUS
    <2> QED BY <2>1, <2>2 DEF Min
  <1> QED BY <1>1, <1>2

LEMMA MinBelow ==
    ASSUME NEW m \in Int, NEW n \in Nat
    PROVE  /\ Min({m, n}) <= m
           /\ m \in Nat => Min({m, n}) \in Nat
  <1>1. Min({m, n}) = IF m <= n THEN m ELSE n
    BY MaxMinOfTwo
  <1> QED BY <1>1

MostReplicas == Max(ReplicaCounts)

LEMMA MostReplicasBounds ==
    /\ MostReplicas \in Nat
    /\ \A n \in ReplicaCounts : n \in Nat /\ n <= MostReplicas
  BY MaxIsBound, SpecAssumption, ReplicasAssumption DEF MostReplicas

\* A subset of the instances is no larger than a set of instances that includes it.
LEMMA SmallerSet ==
    ASSUME NEW S \in SUBSET Instances, NEW T \in SUBSET S
    PROVE  /\ IsFiniteSet(T) /\ Cardinality(T) \in Nat /\ Cardinality(S) \in Nat
           /\ Cardinality(T) <= Cardinality(S)
  <1>1. IsFiniteSet(S)
    BY InstancesAssumption, FS_Subset
  <1> QED BY <1>1, FS_Subset, FS_CardinalityType

LEMMA UnionSize ==
    ASSUME NEW S, IsFiniteSet(S), NEW T, IsFiniteSet(T)
    PROVE  /\ IsFiniteSet(S \cup T) /\ Cardinality(S \cup T) \in Nat
           /\ Cardinality(S \cup T) <= Cardinality(S) + Cardinality(T)
  <1>1. /\ Cardinality(S) \in Nat /\ Cardinality(T) \in Nat
        /\ Cardinality(S \cap T) \in Nat
    BY FS_CardinalityType, FS_Intersection
  <1>2. /\ IsFiniteSet(S \cup T)
        /\ Cardinality(S \cup T) = Cardinality(S) + Cardinality(T) - Cardinality(S \cap T)
    BY FS_Union
  <1>3. Cardinality(S \cup T) \in Nat
    BY <1>2, FS_CardinalityType
  <1> QED BY <1>1, <1>2, <1>3

\* The most instances of a set that were ever asked for: if nobody scales, those the
\* cluster was created with.
Asked(s) == IF "scale" \in UserEdits THEN MostReplicas ELSE InitialReplicas[s]
SpecKept ==
    "scale" \notin UserEdits =>
        spec.replicas = InitialReplicas /\ mem.spec.replicas = InitialReplicas

LEMMA AskedBounds == \A s \in Sets : Asked(s) \in Nat /\ Asked(s) <= MostReplicas
  <1> SUFFICES ASSUME NEW s \in Sets PROVE Asked(s) \in Nat /\ Asked(s) <= MostReplicas
    OBVIOUS
  <1>1. InitialReplicas[s] \in ReplicaCounts
    BY SpecAssumption
  <1>2. /\ InitialReplicas[s] \in Nat /\ InitialReplicas[s] <= MostReplicas
        /\ MostReplicas \in Nat
    BY <1>1, MostReplicasBounds
  <1>3. CASE "scale" \in UserEdits
    <2>1. Asked(s) = MostReplicas
      BY <1>3 DEF Asked
    <2> QED BY <1>2, <2>1
  <1>4. CASE "scale" \notin UserEdits
    <2>1. Asked(s) = InitialReplicas[s]
      BY <1>4 DEF Asked
    <2> QED BY <1>2, <2>1
  <1> QED BY <1>3, <1>4

\* A spec that the reconcile may have read asks for no more.
LEMMA ReplicasAsked ==
    ASSUME TypeOK, SpecKept, NEW s \in Sets
    PROVE  mem.spec.replicas[s] \in Nat /\ mem.spec.replicas[s] <= Asked(s)
  <1>1. mem.spec.replicas[s] \in ReplicaCounts
    BY DEF TypeOK, Spec_
  <1>2. mem.spec.replicas[s] \in Nat /\ mem.spec.replicas[s] <= MostReplicas
    BY <1>1, MostReplicasBounds
  <1>3. CASE "scale" \in UserEdits
    <2>1. Asked(s) = MostReplicas
      BY <1>3 DEF Asked
    <2> QED BY <1>2, <2>1
  <1>4. CASE "scale" \notin UserEdits
    <2>1. Asked(s) = mem.spec.replicas[s]
      BY <1>4 DEF Asked, SpecKept
    <2> QED BY <1>2, <2>1
  <1> QED BY <1>3, <1>4

LEMMA SpecKeptInit == Init \/ InitEstablished => SpecKept
  BY DEF Init, InitEstablished, InitOperator, InitialSpec, SpecKept

LEMMA SpecKeptStep == TypeOK /\ SpecKept /\ [Next]_vars => SpecKept'
  <1> SUFFICES ASSUME TypeOK, SpecKept, [Next]_vars, "scale" \notin UserEdits
               PROVE  spec'.replicas = InitialReplicas /\ mem'.spec.replicas = InitialReplicas
    BY DEF SpecKept
  <1>1. spec.replicas = InitialReplicas /\ mem.spec.replicas = InitialReplicas
    BY DEF SpecKept
  <1>2. CASE Observe
    BY <1>1, <1>2 DEF Observe
  <1>3. CASE UserStep
    <2>1. ~ \E s \in Sets, n \in ReplicaCounts : EditReplicas(s, n)
      BY DEF EditReplicas, Edit
    <2>2. mem' = mem
      BY <1>3 DEF UserStep, EditReplicas, EditTemplate, EditShutdown, Edit, operatorVars
    <2>3. spec'.replicas = spec.replicas
      BY <1>3, <2>1 DEF UserStep, EditTemplate, EditShutdown, Edit, TypeOK, Spec_
    <2> QED BY <1>1, <2>2, <2>3
  <1>4. CASE PatchClusterStatus \/ PatchFails \/ Crash
    BY <1>1, <1>4 DEF PatchClusterStatus, PatchFails, Crash, Forget, InitialSpec
  <1>5. CASE /\ ~ Observe /\ ~ UserStep
             /\ ~ (PatchClusterStatus \/ PatchFails \/ Crash)
    <2>1. ASSUME NEW i \in Instances, ReconcileInstanceFails(i) PROVE UNCHANGED <<spec, mem>>
      BY <2>1 DEF ReconcileInstanceFails, SkipToPatch
    <2>2. ASSUME NEW i \in Instances,
                 DeleteRunner(i) \/ DeleteVolume(i) \/ RolloutSwitchoverRefused(i)
                 \/ RolloutDelete(i) \/ RolloutConflict(i)
                 \/ (\E c \in Instances : RolloutSwitchover(i, c))
          PROVE  UNCHANGED <<spec, mem>>
      BY <2>2 DEF DeleteRunner, DeleteVolume, RolloutSwitchoverRefused, RolloutDelete,
         RolloutConflict, RolloutSwitchover, SkipToPatch
    <2>3. ASSUME NEW i \in Instances,
                 ReconcileVolume(i) \/ ReconcileVolumeRefused(i) \/ ReconcileRunner(i)
          PROVE  UNCHANGED <<spec, mem>>
      BY <2>3 DEF ReconcileVolume, ReconcileVolumeRefused, ReconcileRunner
    <2>4. ASSUME NEW s \in Sets, ScaleUpInstances(s) PROVE UNCHANGED <<spec, mem>>
      BY <2>4 DEF ScaleUpInstances
    <2>5. ASSUME ReconcilePodDisruptionBudget \/ ScaleDownInstances \/ RolloutInstances
                 \/ RolloutDone \/ OtherCallFails \/ ObservePanics \/ UNCHANGED vars
          PROVE  UNCHANGED <<spec, mem>>
      BY <2>5 DEF ReconcilePodDisruptionBudget, ScaleDownInstances, RolloutInstances, RolloutDone,
         OtherCallFails, ObservePanics, SkipToPatch, vars, operatorVars
    <2>6. ASSUME EnvironmentStep PROVE UNCHANGED <<spec, mem>>
      BY <2>6 DEF EnvironmentStep, Beside, operatorVars
    <2>7. UNCHANGED <<spec, mem>>
      BY <1>5, <2>1, <2>2, <2>3, <2>4, <2>5, <2>6 DEF Next, ReconcileStep, FaultStep
    <2> QED BY <1>1, <2>7
  <1> QED BY <1>2, <1>3, <1>4, <1>5

\* InstancesFor adds to the instances listed what they lack of the replicas asked for.
LEMMA InstancesForFew ==
    ASSUME TypeOK, NEW s \in Sets, NEW names \in SUBSET Instances, InstancesFor(s, names),
           SpecKept, Cardinality({i \in ObservedRunners : SetOf[i] = s}) <= Asked(s)
    PROVE  Cardinality(names) <= Asked(s)
  <1> DEFINE existing  == {i \in ObservedRunners : SetOf[i] = s}
             missing   == Max({0, mem.spec.replicas[s] - Cardinality(existing)})
             available == Cardinality(AvailableNames(s))
             reuse     == Min({missing, available})
             fresh     == FreshNames(s) \ AvailableNames(s)
             unused    == Cardinality(fresh)
             A == names \cap AvailableNames(s)
             F == names \cap fresh
  <1>1. /\ existing \in SUBSET Instances
        /\ AvailableNames(s) \in SUBSET Instances
        /\ fresh \in SUBSET Instances
    BY DEF ObservedRunners, AvailableNames, FreshNames
  <1>2. names = existing \cup (A \cup F)
    BY DEF InstancesFor
  <1>3. Cardinality(A) = reuse /\ Cardinality(F) = Min({missing - reuse, unused})
    BY DEF InstancesFor
  <1>4. /\ IsFiniteSet(existing) /\ Cardinality(existing) \in Nat
        /\ IsFiniteSet(A) /\ Cardinality(A) \in Nat
        /\ IsFiniteSet(F) /\ Cardinality(F) \in Nat
        /\ available \in Nat /\ unused \in Nat
    BY <1>1, SmallerSet
  <1>5. mem.spec.replicas[s] \in Nat /\ mem.spec.replicas[s] <= Asked(s)
    BY ReplicasAsked
  <1>6. /\ missing \in Nat
        /\ missing = 0 \/ missing = mem.spec.replicas[s] - Cardinality(existing)
    <2> DEFINE wanted == mem.spec.replicas[s]
               listed == Cardinality(existing)
    <2>1. wanted - listed \in Int /\ 0 \in Int
      <3> HIDE DEF existing
      <3> QED BY <1>4, <1>5
    <2> HIDE DEF existing, wanted, listed
    <2>2. Max({0, wanted - listed}) = IF 0 >= wanted - listed THEN 0 ELSE wanted - listed
      BY <2>1, MaxMinOfTwo
    <2>3. /\ Max({0, wanted - listed}) \in Nat
          /\ Max({0, wanted - listed}) = 0 \/ Max({0, wanted - listed}) = wanted - listed
      BY <2>1, <2>2
    <2> QED BY <2>3 DEF wanted, listed
  <1>7. reuse \in Nat /\ reuse <= missing
    <2> HIDE DEF missing, available
    <2>1. missing \in Int /\ available \in Nat
      BY <1>4, <1>6
    <2> QED BY <1>6, <2>1, MinBelow
  <1>8. Cardinality(F) <= missing - reuse
    <2> DEFINE rest == missing - reuse
    <2>1. rest \in Int
      <3> HIDE DEF missing, reuse
      <3> QED BY <1>6, <1>7
    <2> HIDE DEF rest, unused
    <2>2. Min({rest, unused}) <= rest
      BY <1>4, <2>1, MinBelow
    <2> QED BY <1>3, <2>2 DEF rest
  <1>9. /\ IsFiniteSet(A \cup F) /\ Cardinality(A \cup F) \in Nat
        /\ Cardinality(A \cup F) <= Cardinality(A) + Cardinality(F)
    BY <1>4, UnionSize
  <1>10. /\ Cardinality(names) \in Nat
         /\ Cardinality(names) <= Cardinality(existing) + Cardinality(A \cup F)
    BY <1>2, <1>4, <1>9, UnionSize
  <1>11. Cardinality(existing) <= Asked(s) /\ Asked(s) \in Nat
    BY AskedBounds
  <1> HIDE DEF existing, A, F, missing, reuse
  <1> QED BY <1>3, <1>4, <1>5, <1>6, <1>7, <1>8, <1>9, <1>10, <1>11

\* Instances of a set that exist or that the reconcile is about to make.
Planned(s) ==
    {i \in Instances : SetOf[i] = s /\ (RunnerExists(i) \/ (pc = "apply" /\ i \in todo))}
PlannedFew == \A s \in Sets : Cardinality(Planned(s)) <= Asked(s)

\* Where scaleUpInstances is: the instance between two calls is one of those to write,
\* and they belong to the current set, which is not still to come.
Writing ==
    /\ pc \in {"idle", "sets"} => cur = None
    /\ pc = "apply" => /\ curSet \notin todoSets
                       /\ cur = None \/ cur \in todo
                       /\ \A i \in todo : SetOf[i] = curSet

\* A set still to come has the runners that were listed: nobody but the reconcile makes
\* or deletes any.
RunnersListed ==
    pc \in {"sets", "apply"} =>
        \A i \in Instances :
            SetOf[i] \in todoSets => (RunnerExists(i) <=> i \in ObservedRunners)

ScaleIInv == PlannedFew /\ Writing /\ RunnersListed

LEMMA FewerPlanned ==
    ASSUME PlannedFew, \A s \in Sets : Planned(s)' \subseteq Planned(s)
    PROVE  PlannedFew'
  <1> SUFFICES ASSUME NEW s \in Sets PROVE Cardinality(Planned(s)') <= Asked(s)
    BY DEF PlannedFew
  <1>1. Planned(s) \in SUBSET Instances /\ Planned(s)' \in SUBSET Planned(s)
    BY DEF Planned
  <1>2. /\ Cardinality(Planned(s)') \in Nat /\ Cardinality(Planned(s)) \in Nat
        /\ Cardinality(Planned(s)') <= Cardinality(Planned(s))
    BY <1>1, SmallerSet
  <1>3. Cardinality(Planned(s)) <= Asked(s)
    BY DEF PlannedFew
  <1> QED BY <1>2, <1>3, AskedBounds

\* What is left of the list after a runner was written into it is the same list of names.
LEMMA RelistNames ==
    ASSUME TypeOK, NEW i \in Instances, NEW r \in Runner, r.phase = "present", Relist(i, r)
    PROVE  ObservedRunners' = ObservedRunners
  <1>1. obs.runners \in [Instances -> Runner]
    BY DEF TypeOK, Views
  <1>2. CASE obs' = obs
    BY <1>2 DEF ObservedRunners
  <1>3. CASE i \in ObservedRunners /\ obs' = [obs EXCEPT !.runners[i] = r]
    <2>1. obs'.runners = [obs.runners EXCEPT ![i] = r]
      BY <1>3 DEF TypeOK, Views
    <2> QED BY <1>1, <1>3, <2>1 DEF ObservedRunners
  <1> QED BY <1>2, <1>3 DEF Relist

\* A step that leaves the place in the reconcile, the list and the existence of runners
\* alone.
LEMMA ScaleElsewhere ==
    ASSUME ScaleIInv, UNCHANGED <<pc, todoSets, curSet, todo, cur, obs>>,
           \A i \in Instances : runners'[i].phase = runners[i].phase
    PROVE  ScaleIInv'
  <1>1. \A s \in Sets : Planned(s)' \subseteq Planned(s)
    BY DEF Planned, RunnerExists
  <1>2. PlannedFew'
    BY <1>1, FewerPlanned DEF ScaleIInv
  <1> QED BY <1>2 DEF ScaleIInv, Writing, RunnersListed, RunnerExists, ObservedRunners

\* A step that goes on to a part of the reconcile that makes no instances.
LEMMA ScaleBeyond ==
    ASSUME ScaleIInv, pc' \notin {"sets", "apply"}, pc' = "idle" => cur' = None,
           \A i \in Instances : runners'[i].phase = "present" => runners[i].phase = "present"
    PROVE  ScaleIInv'
  <1>1. \A s \in Sets : Planned(s)' \subseteq Planned(s)
    BY DEF Planned, RunnerExists
  <1>2. PlannedFew'
    BY <1>1, FewerPlanned DEF ScaleIInv
  <1> QED BY <1>2 DEF ScaleIInv, Writing, RunnersListed

\* The count of reconcileInstanceSets for one set: the instances listed are those that
\* exist, so that those it adds make up what is missing.
LEMMA ScaleUpStep ==
    ASSUME TypeOK, SpecKept, ScaleIInv, NEW s \in Sets, ScaleUpInstances(s)
    PROVE  ScaleIInv'
  <1>1. PICK names \in SUBSET Instances : InstancesFor(s, names) /\ todo' = names
    BY DEF ScaleUpInstances
  <1>2. \A i \in names : SetOf[i] = s
    BY <1>1 DEF InstancesFor, AvailableNames, FreshNames
  <1>3. /\ pc = "sets" /\ pc' = "apply" /\ s \in todoSets /\ curSet' = s
        /\ todoSets' = todoSets \ {s} /\ cur' = cur /\ runners' = runners /\ obs' = obs
    BY DEF ScaleUpInstances, objectVars
  <1>4. \A i \in Instances : SetOf[i] = s => (RunnerExists(i) <=> i \in ObservedRunners)
    BY <1>3 DEF ScaleIInv, RunnersListed
  <1>5. Cardinality({i \in ObservedRunners : SetOf[i] = s}) <= Asked(s)
    <2>1. {i \in ObservedRunners : SetOf[i] = s} = Planned(s)
      BY <1>3, <1>4 DEF Planned, ObservedRunners
    <2> QED BY <2>1 DEF ScaleIInv, PlannedFew
  <1>6. Cardinality(names) <= Asked(s)
    BY <1>1, <1>5, InstancesForFew
  <1>7. PlannedFew'
    <2> SUFFICES ASSUME NEW t \in Sets PROVE Cardinality(Planned(t)') <= Asked(t)
      BY DEF PlannedFew
    <2>1. CASE t = s
      <3>1. Planned(t)' \subseteq names
        BY <1>1, <1>3, <1>4, <2>1 DEF Planned, RunnerExists, InstancesFor
      <3>2. /\ Cardinality(Planned(t)') \in Nat /\ Cardinality(names) \in Nat
            /\ Cardinality(Planned(t)') <= Cardinality(names)
        BY <3>1, SmallerSet
      <3>3. Asked(s) \in Nat
        BY AskedBounds
      <3> QED BY <1>6, <2>1, <3>2, <3>3
    <2>2. CASE t # s
      <3>1. Planned(t)' = Planned(t)
        BY <1>1, <1>2, <1>3, <2>2 DEF Planned, RunnerExists
      <3> QED BY <3>1 DEF ScaleIInv, PlannedFew
    <2> QED BY <2>1, <2>2
  <1>8. Writing'
    BY <1>1, <1>2, <1>3 DEF ScaleIInv, Writing
  <1>9. RunnersListed'
    BY <1>3 DEF ScaleIInv, RunnersListed, RunnerExists, ObservedRunners
  <1> QED BY <1>7, <1>8, <1>9 DEF ScaleIInv

\* reconcileInstance creates the runner of an instance that was planned.
LEMMA RunnerStep ==
    ASSUME TypeOK, ScaleIInv, NEW i \in Instances, ReconcileRunner(i)
    PROVE  ScaleIInv'
  <1> DEFINE intent == [phase |-> "present", replicas |-> ReplicasIntent(i),
                        rev |-> mem.spec.rev, synced |-> runners[i].synced]
             result == IF runners[i] = intent THEN intent
                                              ELSE [intent EXCEPT !.synced = FALSE]
  <1>1. result \in Runner /\ result.phase = "present"
    <2>1. mem.spec.rev \in 0..MaxRev
      BY ObjectBoundsAssumption DEF TypeOK, Spec_, Revisions
    <2>2. ReplicasIntent(i) \in 0..1
      BY DEF ReplicasIntent
    <2>3. runners[i].synced \in BOOLEAN
      BY DEF TypeOK, ObjectsTypeOK, Runner
    <2> QED BY <2>1, <2>2, <2>3 DEF Runner
  <1>2. /\ pc = "apply" /\ pc' = "apply" /\ cur = i /\ cur' = None /\ todo' = todo \ {i}
        /\ runners' = [runners EXCEPT ![i] = result] /\ Relist(i, result)
        /\ todoSets' = todoSets /\ curSet' = curSet
    BY DEF ReconcileRunner
  <1> HIDE DEF result
  <1>3. i \in todo /\ SetOf[i] = curSet /\ curSet \notin todoSets
    BY <1>2, InstancesAssumption DEF ScaleIInv, Writing
  <1>4. ObservedRunners' = ObservedRunners
    BY <1>1, <1>2, RelistNames
  <1>5. \A j \in Instances \ {i} : runners'[j] = runners[j]
    BY <1>2 DEF TypeOK, ObjectsTypeOK
  <1>6. \A s \in Sets : Planned(s)' \subseteq Planned(s)
    BY <1>2, <1>3, <1>5 DEF Planned, RunnerExists
  <1>7. PlannedFew'
    BY <1>6, FewerPlanned DEF ScaleIInv
  <1>8. Writing'
    BY <1>2 DEF ScaleIInv, Writing
  <1>9. RunnersListed'
    BY <1>2, <1>3, <1>4, <1>5 DEF ScaleIInv, RunnersListed, RunnerExists
  <1> QED BY <1>7, <1>8, <1>9 DEF ScaleIInv

\* An instance that could not be written is passed over, or the reconcile is given up.
LEMMA InstanceFailsStep ==
    ASSUME TypeOK, ScaleIInv, NEW i \in Instances, ReconcileInstanceFails(i)
    PROVE  ScaleIInv'
  <1>1. runners' = runners /\ pc = "apply"
    BY DEF ReconcileInstanceFails, NextToWrite, objectVars
  <1>2. CASE SkipToPatch
    BY <1>1, <1>2, ScaleBeyond DEF SkipToPatch
  <1>3. CASE ~ SkipToPatch
    <2>1. /\ todo' = todo \ {i} /\ cur' = None /\ Relist(i, UnwrittenRunner)
          /\ UNCHANGED <<pc, mem, todoSets, curSet>>
      BY <1>3 DEF ReconcileInstanceFails
    <2>2. UnwrittenRunner \in Runner /\ UnwrittenRunner.phase = "present"
      BY ObjectBoundsAssumption DEF UnwrittenRunner, Runner
    <2>3. ObservedRunners' = ObservedRunners
      BY <2>1, <2>2, RelistNames
    <2>4. \A s \in Sets : Planned(s)' \subseteq Planned(s)
      BY <1>1, <2>1 DEF Planned, RunnerExists
    <2>5. PlannedFew'
      BY <2>4, FewerPlanned DEF ScaleIInv
    <2> QED BY <1>1, <2>1, <2>3, <2>5 DEF ScaleIInv, Writing, RunnersListed, RunnerExists
  <1> QED BY <1>2, <1>3

LEMMA ScaleStep ==
    ASSUME ~ StaleReads, TypeOK, SpecKept, ScaleIInv, [Next]_vars
    PROVE  ScaleIInv'
  <1>1. CASE EnvironmentStep
    <2>1. PICK i \in Instances : Beside(Environment(i))
      BY <1>1 DEF EnvironmentStep
    <2>2. \A j \in Instances : runners'[j].phase = runners[j].phase
      <3>1. CASE SyncRunner(i)
        BY <3>1 DEF SyncRunner, TypeOK, ObjectsTypeOK, Runner
      <3>2. CASE ~ SyncRunner(i)
        BY <2>1, <3>2 DEF Beside, Environment, CreatePod, StopPod, PodGone, VolumeGone, BecomeReady,
           BecomeUnready, Promote, Follow, ReleaseLock, LoseLock
      <3> QED BY <3>1, <3>2
    <2> QED BY <2>1, <2>2, ScaleElsewhere DEF Beside, operatorVars
  <1>2. CASE Observe
    <2>1. PICK fp, fr, fv \in Freshness : obs' = ListView(fp, fr, fv)
      BY <1>2 DEF Observe
    <2>2. fr
      BY <2>1 DEF Freshness
    <2>3. obs'.runners = runners
      BY <2>1, <2>2 DEF ListView
    <2>4. /\ pc = "idle" /\ pc' = "sets" /\ runners' = runners /\ cur' = cur
      BY <1>2 DEF Observe
    <2>5. \A s \in Sets : Planned(s)' \subseteq Planned(s)
      BY <2>4 DEF Planned, RunnerExists
    <2>6. PlannedFew'
      BY <2>5, FewerPlanned DEF ScaleIInv
    <2> QED BY <2>3, <2>4, <2>6 DEF ScaleIInv, Writing, RunnersListed, RunnerExists, ObservedRunners
  <1>3. ASSUME NEW s \in Sets, ScaleUpInstances(s) PROVE ScaleIInv'
    BY <1>3, ScaleUpStep
  <1>4. ASSUME NEW i \in Instances, ReconcileVolume(i) \/ ReconcileVolumeRefused(i)
        PROVE  ScaleIInv'
    <2>1. /\ pc = "apply" /\ i \in todo /\ cur' = i /\ runners' = runners
          /\ UNCHANGED <<pc, todoSets, curSet, todo, obs>>
      BY <1>4 DEF ReconcileVolume, ReconcileVolumeRefused, NextToWrite, objectVars
    <2>2. \A s \in Sets : Planned(s)' \subseteq Planned(s)
      BY <2>1 DEF Planned, RunnerExists
    <2>3. PlannedFew'
      BY <2>2, FewerPlanned DEF ScaleIInv
    <2> QED BY <2>1, <2>3 DEF ScaleIInv, Writing, RunnersListed, RunnerExists, ObservedRunners
  <1>5. ASSUME NEW i \in Instances, ReconcileRunner(i) PROVE ScaleIInv'
    BY <1>5, RunnerStep
  <1>6. ASSUME NEW i \in Instances, ReconcileInstanceFails(i) PROVE ScaleIInv'
    BY <1>6, InstanceFailsStep
  <1>7. CASE ReconcilePodDisruptionBudget
    <2>1. /\ pc = "apply" /\ pc' = "sets" /\ todo = {} /\ runners' = runners
          /\ UNCHANGED <<todoSets, todo, cur, obs>>
      BY <1>7 DEF ReconcilePodDisruptionBudget, objectVars
    <2>2. \A s \in Sets : Planned(s)' \subseteq Planned(s)
      BY <2>1 DEF Planned, RunnerExists
    <2>3. PlannedFew'
      BY <2>2, FewerPlanned DEF ScaleIInv
    <2> QED BY <2>1, <2>3 DEF ScaleIInv, Writing, RunnersListed, RunnerExists, ObservedRunners
  <1>8. ASSUME NEW i \in Instances, DeleteRunner(i) PROVE ScaleIInv'
    <2>1. \A j \in Instances : runners'[j].phase = "present" => runners[j].phase = "present"
      BY <1>8 DEF DeleteRunner, TypeOK, ObjectsTypeOK, NoRunner
    <2> QED BY <1>8, <2>1, ScaleBeyond DEF DeleteRunner
  <1>9. ASSUME NEW i \in Instances,
               DeleteVolume(i) \/ RolloutSwitchoverRefused(i) \/ RolloutDelete(i)
               \/ RolloutConflict(i) \/ (\E c \in Instances : RolloutSwitchover(i, c))
        PROVE  ScaleIInv'
    <2>1. runners' = runners /\ pc' \in {"delete", "roll", "patch"}
      BY <1>9 DEF DeleteVolume, RolloutSwitchoverRefused, RolloutDelete, RolloutConflict,
         RolloutSwitchover, NextToRoll, SkipToPatch, objectVars
    <2> QED BY <2>1, ScaleBeyond
  <1>10. CASE ScaleDownInstances \/ RolloutInstances \/ RolloutDone \/ OtherCallFails
    <2>1. runners' = runners /\ pc' \in {"delete", "roll", "patch"}
      BY <1>10 DEF ScaleDownInstances, RolloutInstances, RolloutDone, OtherCallFails, SkipToPatch,
         objectVars
    <2> QED BY <2>1, ScaleBeyond
  <1>11. CASE PatchClusterStatus \/ PatchFails \/ Crash
    BY <1>11, ScaleBeyond DEF PatchClusterStatus, PatchFails, Crash, Forget
  <1>12. CASE ObservePanics \/ UserStep \/ UNCHANGED vars
    <2>1. runners' = runners /\ UNCHANGED <<pc, todoSets, curSet, todo, cur, obs>>
      BY <1>12 DEF ObservePanics, UserStep, EditReplicas, EditTemplate, EditShutdown, Edit, vars,
         objectVars, operatorVars
    <2> QED BY <2>1, ScaleElsewhere
  <1> QED BY <1>1, <1>2, <1>3, <1>4, <1>5, <1>6, <1>7, <1>8, <1>9, <1>10, <1>11, <1>12
          DEF Next, ReconcileStep, FaultStep

LEMMA ScaleHolds == ASSUME ~ StaleReads PROVE Spec \/ EstablishedSpec => []ScaleIInv
  <1>1. Init => ScaleIInv
    <2> SUFFICES ASSUME Init PROVE ScaleIInv
      OBVIOUS
    <2>1. pc = "idle" /\ cur = None /\ \A i \in Instances : ~ RunnerExists(i)
      BY DEF Init, InitOperator, NoView, NoRunner, RunnerExists
    <2>2. \A s \in Sets : Planned(s) = {}
      BY <2>1 DEF Planned
    <2>3. PlannedFew
      BY <2>2, FS_EmptySet, AskedBounds DEF PlannedFew
    <2> QED BY <2>1, <2>3 DEF ScaleIInv, Writing, RunnersListed
  <1>2. InitEstablished => ScaleIInv
    <2> SUFFICES ASSUME InitEstablished PROVE ScaleIInv
      OBVIOUS
    <2>1. PICK members \in SUBSET Instances :
            /\ \A s \in Sets : Cardinality({i \in members : SetOf[i] = s}) = InitialReplicas[s]
            /\ runners = [i \in Instances |->
                            IF i \in members
                            THEN [phase |-> "present", replicas |-> 1, rev |-> 1, synced |-> TRUE]
                            ELSE NoRunner]
            /\ InitOperator
      BY DEF InitEstablished
    <2>2. pc = "idle" /\ cur = None
      BY <2>1 DEF InitOperator
    <2>3. \A i \in Instances : RunnerExists(i) <=> i \in members
      BY <2>1 DEF NoRunner, RunnerExists
    <2>4. \A s \in Sets : Planned(s) = {i \in members : SetOf[i] = s}
      BY <2>2, <2>3 DEF Planned
    <2>5. PlannedFew
      <3> SUFFICES ASSUME NEW s \in Sets PROVE InitialReplicas[s] <= Asked(s)
        BY <2>1, <2>4 DEF PlannedFew
      <3>1. InitialReplicas[s] \in ReplicaCounts
        BY SpecAssumption
      <3>2. InitialReplicas[s] \in Nat /\ InitialReplicas[s] <= MostReplicas
        BY <3>1, MostReplicasBounds
      <3> QED BY <3>2 DEF Asked
    <2> QED BY <2>2, <2>5 DEF ScaleIInv, Writing, RunnersListed
  <1>3. TypeOK /\ SpecKept /\ ScaleIInv /\ [Next]_vars => ScaleIInv'
    BY ScaleStep
  <1> QED BY <1>1, <1>2, <1>3, TypeCorrect, SpecKeptInit, SpecKeptStep, PTL DEF Spec, EstablishedSpec

\* scaleUpInstances never makes more instances of a set than were ever asked for, however
\* often it was interrupted, failed or had its spec changed before, as long as it lists
\* what the API holds: the count of runners listed is that of the runners that exist when
\* the set's turn comes, in whatever order the sets come.
THEOREM InstancesNeverTooMany ==
    ASSUME ~ StaleReads
    PROVE  Spec \/ EstablishedSpec => []NeverTooMany
  <1>1. ScaleIInv => NeverTooMany
    <2> SUFFICES ASSUME ScaleIInv, NEW s \in Sets
                 PROVE  Cardinality({i \in Instances : SetOf[i] = s /\ RunnerExists(i)}) <= MostReplicas
      BY DEF NeverTooMany, MostReplicas
    <2> DEFINE made == {i \in Instances : SetOf[i] = s /\ RunnerExists(i)}
    <2>1. Planned(s) \in SUBSET Instances /\ made \in SUBSET Planned(s)
      BY DEF Planned
    <2>2. /\ Cardinality(made) \in Nat /\ Cardinality(Planned(s)) \in Nat
          /\ Cardinality(made) <= Cardinality(Planned(s))
      BY <2>1, SmallerSet
    <2>3. Cardinality(Planned(s)) <= Asked(s)
      BY DEF ScaleIInv, PlannedFew
    <2>4. Asked(s) \in Nat /\ Asked(s) <= MostReplicas /\ MostReplicas \in Nat
      BY AskedBounds, MostReplicasBounds
    <2> QED BY <2>2, <2>3, <2>4
  <1> QED BY <1>1, ScaleHolds, PTL

-----------------------------------------------------------------------------
(* How many instances rolloutInstances takes down.                         *)

\* Instances that are no more in each set than its replicas are no more than the replicas
\* of all sets: number the instances of each set, and pair each with its set.
LEMMA FewInAllSets ==
    ASSUME NEW sp \in Spec_, NEW M \in SUBSET Instances,
           \A s \in Sets : Cardinality({i \in M : SetOf[i] = s}) <= sp.replicas[s]
    PROVE  NumSpecified(sp) \in Nat /\ Cardinality(M) <= NumSpecified(sp)
  <1> DEFINE Of(s)   == {i \in M : SetOf[i] = s}
             size(s) == Cardinality(Of(s))
             enum(s) == CHOOSE f : f \in Bijection(1..size(s), Of(s))
             no(i)   == CHOOSE n \in 1..size(SetOf[i]) : enum(SetOf[i])[n] = i
             R == {r \in Sets \X (1..MostReplicas) : r[2] <= sp.replicas[r[1]]}
             g == [i \in M |-> <<SetOf[i], no(i)>>]
  <1>1. ASSUME NEW s \in Sets
        PROVE  size(s) \in Nat /\ enum(s) \in Bijection(1..size(s), Of(s))
    <2>1. IsFiniteSet(Of(s))
      BY InstancesAssumption, FS_Subset
    <2>2. size(s) \in Nat /\ \E f : f \in Bijection(1..size(s), Of(s))
      BY <2>1, FS_CardinalityType DEF ExistsBijection
    <2> QED BY <2>2
  <1>2. ASSUME NEW i \in M
        PROVE  /\ SetOf[i] \in Sets /\ no(i) \in 1..size(SetOf[i])
               /\ enum(SetOf[i])[no(i)] = i
    <2>1. SetOf[i] \in Sets
      BY InstancesAssumption
    <2>2. enum(SetOf[i]) \in Bijection(1..size(SetOf[i]), Of(SetOf[i])) /\ i \in Of(SetOf[i])
      BY <1>1, <2>1
    <2> HIDE DEF size, enum, Of
    <2>3. \E n \in 1..size(SetOf[i]) : enum(SetOf[i])[n] = i
      BY <2>2 DEF Bijection, Surjection
    <2> QED BY <2>1, <2>3
  <1>3. ASSUME NEW i \in M PROVE g[i] \in R
    <2> DEFINE s == SetOf[i]
    <2>1. s \in Sets /\ no(i) \in 1..size(s)
      BY <1>2
    <2>2. size(s) \in Nat /\ size(s) <= sp.replicas[s]
      BY <1>1, <2>1
    <2>3. sp.replicas[s] \in ReplicaCounts
      BY <2>1 DEF Spec_
    <2>4. sp.replicas[s] \in Nat /\ sp.replicas[s] <= MostReplicas /\ MostReplicas \in Nat
      BY <2>3, MostReplicasBounds
    <2> HIDE DEF s, no, size
    <2>5. no(i) \in 1..MostReplicas /\ no(i) <= sp.replicas[s]
      BY <2>1, <2>2, <2>4
    <2>6. <<s, no(i)>> \in R
      BY <2>1, <2>5
    <2> QED BY <2>6 DEF s
  <1>4. g \in Injection(M, R)
    <2>1. g \in [M -> R]
      <3> HIDE DEF R, no
      <3> QED BY <1>3
    <2>2. ASSUME NEW i \in M, NEW j \in M, g[i] = g[j] PROVE i = j
      <3>1. SetOf[i] = SetOf[j] /\ no(i) = no(j)
        <4> HIDE DEF no
        <4> QED BY <2>2
      <3> HIDE DEF no, enum, size
      <3> QED BY <1>2, <3>1
    <2> HIDE DEF g, R
    <2> QED BY <2>1, <2>2 DEF Injection, IsInjective
  <1>5. IsFiniteSet(R)
    <2>1. IsFiniteSet(Sets) /\ IsFiniteSet(1..MostReplicas)
      BY SpecAssumption, MostReplicasBounds, FS_Interval
    <2>2. IsFiniteSet(Sets \X (1..MostReplicas))
      BY <2>1, FS_Product
    <2> QED BY <2>2, FS_Subset
  <1>6. NumSpecified(sp) = Cardinality(R)
    BY DEF NumSpecified, MostReplicas
  <1> HIDE DEF R, g
  <1> QED BY <1>4, <1>5, <1>6, FS_Injection, FS_CardinalityType

\* Every Pod, and every Pod that was listed, belongs to an instance that has its runner;
\* what is to be redeployed was listed.
PodsRun ==
    /\ \A i \in Instances : PodExists(i) => RunnerExists(i)
    /\ pc # "idle" => \A i \in ObservedPods : RunnerExists(i)
    /\ pc = "roll" => todo \subseteq ObservedPods

\* Nobody has scaled, so that scaleDownInstances finds nothing to delete.
NothingToDelete == pc = "delete" => todo = {}

\* An instance a rollout took down is not available, and was not when the reconcile that
\* comes to its own rollout listed it.
DisruptedDown ==
    /\ \A i \in disrupted : RunnerExists(i) /\ ~ Available(i)
    /\ pc \in {"sets", "apply", "delete"} => \A i \in disrupted : ~ IsAvailable(i)

\* All that is taken down, and all that rolloutInstances is about to take down though it
\* is available, is one instance.
OneGoing ==
    /\ \A i, j \in disrupted : i = j
    /\ pc = "roll" =>
          \A i, j \in disrupted \cup {k \in todo : IsAvailable(k)} : i = j

RolloutInv == PodsRun /\ NothingToDelete /\ DisruptedDown /\ OneGoing

\* scaleDownInstances keeps every Pod when no set has more than its replicas.
LEMMA AllKept ==
    ASSUME TypeOK, SpecKept, ScaleIInv, RolloutInv, "scale" \notin UserEdits,
           pc = "sets", NEW keep \in SUBSET Instances, PodsToKeep(keep)
    PROVE  ObservedPods \ keep = {}
  <1> SUFFICES ASSUME NEW i \in ObservedPods PROVE i \in keep
    OBVIOUS
  <1> DEFINE s == SetOf[i]
             list == {j \in ObservedPods : SetOf[j] = s}
             masters == {j \in list : IsPrimary(obs, j)}
             n == mem.spec.replicas[s]
  <1>1. i \in Instances /\ s \in Sets
    BY InstancesAssumption DEF ObservedPods
  <1>2. n = Asked(s) /\ n \in Nat
    <2>1. n \in Nat
      BY <1>1, ReplicasAsked
    <2> QED BY <2>1 DEF SpecKept, Asked
  <1>3. list \in SUBSET Planned(s) /\ Planned(s) \in SUBSET Instances
    BY <1>1 DEF Planned, RolloutInv, PodsRun, ObservedPods
  <1>4. Cardinality(Planned(s)) <= n
    BY <1>1, <1>2 DEF ScaleIInv, PlannedFew
  <1>5. /\ Cardinality(list) \in Nat /\ Cardinality(Planned(s)) \in Nat
        /\ Cardinality(list) <= Cardinality(Planned(s)) /\ IsFiniteSet(list)
    BY <1>3, SmallerSet
  <1>6. Cardinality(list) # 0
    <2>1. i \in list
      OBVIOUS
    <2> HIDE DEF list
    <2> QED BY <1>5, <2>1, FS_EmptySet
  <1>7. Cardinality(masters) \in Nat /\ Cardinality(masters) <= Cardinality(list)
    BY <1>5, FS_Subset, FS_CardinalityType
  <1> DEFINE l == Cardinality(list)
             m == Cardinality(masters)
  <1>8. s \in SpecSets(mem.spec)
    <2>1. n > 0
      <3> HIDE DEF n, l, list, s
      <3> QED BY <1>2, <1>4, <1>5, <1>6
    <2> QED BY <1>1, <2>1 DEF SpecSets
  <1>9. Cardinality(keep \cap list) = Max({m, Min({n, l})})
    BY <1>8 DEF PodsToKeep
  <1>10. Max({m, Min({n, l})}) = l
    <2>1. n \in Int /\ l \in Int /\ m \in Int /\ l <= n /\ m <= l
      <3> HIDE DEF n, list, s, masters
      <3> QED BY <1>2, <1>4, <1>5, <1>7
    <2> HIDE DEF n, l, m
    <2>2. Min({n, l}) = l
      BY <2>1, MaxMinOfTwo
    <2> QED BY <2>1, <2>2, MaxMinOfTwo
  <1>11. keep \cap list = list
    <2>1. keep \cap list \in SUBSET list
      OBVIOUS
    <2> HIDE DEF list
    <2> QED BY <1>5, <1>9, <1>10, <2>1, FS_Subset
  <1> QED BY <1>11

\* rolloutInstances counts an instance that is down against the replicas of the whole
\* cluster, and then chooses no other that is available; otherwise it chooses one.
LEMMA OneChosen ==
    ASSUME TypeOK, SpecKept, ScaleIInv, RolloutInv, "scale" \notin UserEdits,
           pc = "delete", NEW roll \in SUBSET Instances, ToRedeploy(roll)
    PROVE  \A i, j \in disrupted \cup {k \in roll : IsAvailable(k)} : i = j
  <1> DEFINE members == {i \in Instances : RunnerExists(i)}
             free    == {i \in Countable : IsAvailable(i)}
             up      == {i \in Consider : IsAvailable(i)}
             n == NumSpecified(mem.spec)
             a == Cardinality(free)
             u == Cardinality(up)
  <1>1. mem.spec \in Spec_
    BY DEF TypeOK
  <1>2. \A s \in Sets : Cardinality({i \in members : SetOf[i] = s}) <= mem.spec.replicas[s]
    <2> SUFFICES ASSUME NEW s \in Sets
                 PROVE  Cardinality({i \in members : SetOf[i] = s}) <= mem.spec.replicas[s]
      OBVIOUS
    <2>1. {i \in members : SetOf[i] = s} = Planned(s)
      BY DEF Planned
    <2>2. mem.spec.replicas[s] = Asked(s)
      BY DEF SpecKept, Asked
    <2> QED BY <2>1, <2>2 DEF ScaleIInv, PlannedFew
  <1>3. n \in Nat /\ Cardinality(members) <= n
    <2> HIDE DEF members
    <2>1. members \in SUBSET Instances
      BY DEF members
    <2> QED BY <1>1, <1>2, <2>1, FewInAllSets
  <1>4. free \in SUBSET members
    BY DEF RolloutInv, PodsRun, ObservedPods, Countable
  <1>5. /\ IsFiniteSet(members) /\ Cardinality(members) \in Nat
        /\ a \in Nat /\ a <= Cardinality(members)
    BY <1>4, SmallerSet, InstancesAssumption, FS_Subset
  <1>6. u \in Nat /\ up \in SUBSET Instances
    BY SmallerSet DEF Consider, Countable
  <1>7. Cardinality(roll \cap up) = Max({0, Min({maxUnavailable - (n - a), u})})
    BY DEF ToRedeploy
  <1>8. {k \in roll : IsAvailable(k)} = roll \cap up
    BY DEF ToRedeploy
  <1>9. /\ IsFiniteSet(roll \cap up)
        /\ a < n => Cardinality(roll \cap up) = 0
        /\ Cardinality(roll \cap up) <= 1
    <2>1. IsFiniteSet(roll \cap up)
      BY <1>6, InstancesAssumption, FS_Subset
    <2> DEFINE al == maxUnavailable - (n - a)
               mi == Min({al, u})
    <2>2. a \in Nat /\ n \in Nat /\ a <= n /\ u \in Nat
      <3> HIDE DEF a, n, u, members
      <3> QED BY <1>3, <1>5, <1>6
    <2>3. al \in Int /\ al <= 1 /\ (a < n => al <= 0)
      <3> HIDE DEF a, n, u
      <3> QED BY <2>2 DEF maxUnavailable
    <2>4. mi \in Int /\ mi <= al
      <3> HIDE DEF al, u
      <3>1. al \in Int /\ u \in Int
        BY <2>2, <2>3
      <3>2. Min({al, u}) = IF al <= u THEN al ELSE u
        BY <3>1, MaxMinOfTwo
      <3> QED BY <3>1, <3>2
    <2>5. Max({0, mi}) = IF 0 >= mi THEN 0 ELSE mi
      <3> HIDE DEF mi
      <3> QED BY <2>4, MaxMinOfTwo
    <2>6. Cardinality(roll \cap up) = IF 0 >= mi THEN 0 ELSE mi
      BY <1>7, <2>5
    <2> HIDE DEF mi, al, a, n, u, up
    <2> QED BY <2>1, <2>2, <2>3, <2>4, <2>6
  <1>10. CASE disrupted = {}
    <2>1. Cardinality(roll \cap up) \in Nat
      BY <1>9, FS_CardinalityType
    <2>2. Cardinality(roll \cap up) = 0 \/ Cardinality(roll \cap up) = 1
      <3> HIDE DEF up
      <3> QED BY <1>9, <2>1
    <2>3. roll \cap up = {} \/ \E x : roll \cap up = {x}
      <3> HIDE DEF up
      <3> QED BY <1>9, <2>2, FS_EmptySet, FS_Singleton
    <2> HIDE DEF up
    <2> QED BY <1>8, <1>10, <2>3
  <1>11. CASE disrupted # {}
    <2>1. PICK d \in disrupted : TRUE
      BY <1>11
    <2>2. d \in members /\ d \notin free
      BY <2>1 DEF RolloutInv, DisruptedDown, TypeOK
    <2>3. a # Cardinality(members)
      <3> HIDE DEF members, free
      <3> QED BY <1>4, <1>5, <2>2, FS_Subset
    <2>4. a < n
      <3> HIDE DEF members, a, n
      <3> QED BY <1>3, <1>5, <2>3
    <2>5. roll \cap up = {}
      <3> HIDE DEF up
      <3> QED BY <1>9, <2>4, FS_EmptySet
    <2> QED BY <1>8, <2>5 DEF RolloutInv, OneGoing
  <1> QED BY <1>10, <1>11

\* A step that leaves the Pods and what was listed of them alone, deletes no runner and
\* chooses nothing.
LEMMA RolloutElsewhere ==
    ASSUME TypeOK, RolloutInv, UNCHANGED <<pods, disrupted>>,
           \A i \in Instances : RunnerExists(i) => RunnerExists(i)',
           pc' # "idle" => pc # "idle" /\ obs'.pods = obs.pods,
           pc' \in {"sets", "apply", "delete"} => pc \in {"sets", "apply", "delete"},
           pc' \in {"delete", "roll"} => pc' = pc /\ todo' \subseteq todo
    PROVE  RolloutInv'
  <1> USE DEF RolloutInv
  <1>1. PodsRun'
    BY DEF PodsRun, PodExists, ObservedPods
  <1>2. NothingToDelete'
    BY DEF NothingToDelete
  <1>3. DisruptedDown'
    BY DEF DisruptedDown, Available, IsAvailable, TypeOK
  <1>4. OneGoing'
    BY DEF OneGoing, IsAvailable
  <1> QED BY <1>1, <1>2, <1>3, <1>4

\* What happens beside the operator: an instance that is back is no longer disrupted.
LEMMA RolloutBeside ==
    ASSUME TypeOK, RolloutInv, EnvironmentStep
    PROVE  RolloutInv'
  <1>1. PICK i \in Instances : Beside(Environment(i))
    BY DEF EnvironmentStep
  <1>2. /\ UNCHANGED <<pc, obs, todo>>
        /\ disrupted' = {j \in disrupted : ~ (pods'[j].phase = "running" /\ pods'[j].ready)}
    BY <1>1 DEF Beside, operatorVars
  <1>3. \A j \in Instances : runners'[j].phase = runners[j].phase
    <2>1. CASE SyncRunner(i)
      BY <2>1 DEF SyncRunner, TypeOK, ObjectsTypeOK, Runner
    <2>2. CASE ~ SyncRunner(i)
      BY <1>1, <2>2 DEF Beside, Environment, CreatePod, StopPod, PodGone, VolumeGone,
         BecomeReady, BecomeUnready, Promote, Follow, ReleaseLock, LoseLock
    <2> QED BY <2>1, <2>2
  <1>4. \A j \in Instances : pods'[j].phase # "absent" =>
                                pods[j].phase # "absent" \/ RunnerExists(j)
    <2> USE DEF TypeOK, ObjectsTypeOK, WritePod, Pod
    <2>1. CASE SyncRunner(i) \/ VolumeGone(i) \/ ReleaseLock(i) \/ LoseLock(i)
      BY <2>1 DEF SyncRunner, VolumeGone, ReleaseLock, LoseLock
    <2>2. CASE CreatePod(i)
      BY <2>2 DEF CreatePod
    <2>3. CASE StopPod(i)
      BY <2>3 DEF StopPod
    <2>4. CASE PodGone(i)
      BY <2>4 DEF PodGone, NoPod
    <2>5. CASE BecomeReady(i) \/ BecomeUnready(i)
      BY <2>5 DEF BecomeReady, BecomeUnready, Available
    <2>6. CASE Promote(i) \/ Follow(i)
      BY <2>6 DEF Promote, Follow
    <2> QED BY <1>1, <2>1, <2>2, <2>3, <2>4, <2>5, <2>6 DEF Beside, Environment
  <1> USE DEF RolloutInv
  <1>5. PodsRun'
    BY <1>2, <1>3, <1>4 DEF PodsRun, PodExists, RunnerExists, ObservedPods
  <1>6. NothingToDelete'
    BY <1>2 DEF NothingToDelete
  <1>7. DisruptedDown'
    BY <1>2, <1>3 DEF DisruptedDown, Available, IsAvailable, RunnerExists, TypeOK
  <1>8. OneGoing'
    BY <1>2 DEF OneGoing, IsAvailable
  <1> QED BY <1>5, <1>6, <1>7, <1>8

\* A reconcile that begins lists what is disrupted as unavailable.
LEMMA RolloutObserve ==
    ASSUME ~ StaleReads, TypeOK, RolloutInv, Observe
    PROVE  RolloutInv'
  <1>1. PICK fp, fr, fv \in Freshness : obs' = ListView(fp, fr, fv)
    BY DEF Observe
  <1>2. obs'.pods = pods
    BY <1>1 DEF Freshness, ListView
  <1>3. pc' = "sets" /\ UNCHANGED <<pods, runners, disrupted>>
    BY DEF Observe
  <1> USE DEF RolloutInv
  <1>4. PodsRun'
    BY <1>2, <1>3 DEF PodsRun, PodExists, RunnerExists, ObservedPods
  <1>5. DisruptedDown'
    BY <1>2, <1>3 DEF DisruptedDown, Available, IsAvailable, RunnerExists
  <1> QED BY <1>3, <1>4, <1>5 DEF NothingToDelete, OneGoing

\* rolloutInstance takes down the one available instance that was chosen; any other it
\* deletes was listed as unavailable, and is so still when the delete is accepted.
LEMMA RolloutDeletes ==
    ASSUME TypeOK, SnapshotCurrent, RolloutInv, NEW i \in Instances, RolloutDelete(i)
    PROVE  RolloutInv'
  <1>1. /\ pc = "roll" /\ pc' = "roll" /\ i \in todo /\ todo' = todo \ {i} /\ i \notin changed
        /\ pods' = [pods EXCEPT ![i] = [pods[i] EXCEPT !.phase = "terminating"]]
        /\ UNCHANGED <<obs, runners>>
        /\ disrupted' = disrupted \cup {j \in {i} : Available(i) /\ RunnerExists(i)}
    BY DEF RolloutDelete, NextToRoll, WritePod, Unmodified
  <1>2. obs.pods[i] = pods[i]
    BY <1>1 DEF SnapshotCurrent
  <1>3. Available(i) <=> IsAvailable(i)
    BY <1>2 DEF Available, IsAvailable
  <1>4. /\ \A j \in Instances \ {i} : pods'[j] = pods[j]
        /\ pods'[i].phase = "terminating"
    BY <1>1 DEF TypeOK, ObjectsTypeOK, Pod
  <1> USE DEF RolloutInv
  <1>5. i \in ObservedPods
    BY <1>1 DEF PodsRun
  <1>6. PodsRun'
    BY <1>1, <1>4, <1>5 DEF PodsRun, PodExists, RunnerExists, ObservedPods
  <1>7. DisruptedDown'
    BY <1>1, <1>4 DEF DisruptedDown, Available, RunnerExists, TypeOK
  <1>8. OneGoing'
    BY <1>1, <1>3 DEF OneGoing, IsAvailable
  <1> QED BY <1>1, <1>6, <1>7, <1>8 DEF NothingToDelete

\* rolloutInstance has Patroni promote an available instance; the one demoted is unready.
LEMMA RolloutSwitches ==
    ASSUME TypeOK, RolloutInv, NEW i \in Instances, NEW c \in Instances, RolloutSwitchover(i, c)
    PROVE  RolloutInv'
  <1>1. /\ pc = "roll" /\ pc' = "roll" /\ todo' = todo \ {i}
        /\ UNCHANGED <<obs, runners, disrupted>>
        /\ c # i /\ Available(c)
        /\ pods' = [pods EXCEPT ![i].role = "replica", ![i].ready = FALSE, ![c].role = "master"]
    BY DEF RolloutSwitchover, NextToRoll, Candidates
  <1>2. /\ \A j \in Instances : pods'[j].phase = pods[j].phase
        /\ \A j \in Instances \ {i} : pods'[j].ready = pods[j].ready
        /\ pods'[i].ready = FALSE
    <2>1. pods \in [Instances -> Pod]
      BY DEF TypeOK, ObjectsTypeOK
    <2>2. pods'[i] = [pods[i] EXCEPT !.role = "replica", !.ready = FALSE]
      BY <1>1, <2>1
    <2>3. pods'[c] = [pods[c] EXCEPT !.role = "master"]
      BY <1>1, <2>1
    <2>4. \A j \in Instances \ {i, c} : pods'[j] = pods[j]
      BY <1>1, <2>1
    <2>5. pods[i] \in Pod /\ pods[c] \in Pod
      BY <2>1
    <2>6. pods'[i].phase = pods[i].phase /\ pods'[i].ready = FALSE
      BY <2>2, <2>5 DEF Pod
    <2>7. pods'[c].phase = pods[c].phase /\ pods'[c].ready = pods[c].ready
      BY <2>3, <2>5 DEF Pod
    <2> QED BY <1>1, <2>4, <2>6, <2>7
  <1> USE DEF RolloutInv
  <1>3. PodsRun'
    BY <1>1, <1>2 DEF PodsRun, PodExists, RunnerExists, ObservedPods
  <1>4. DisruptedDown'
    BY <1>1, <1>2 DEF DisruptedDown, Available, RunnerExists, TypeOK
  <1>5. OneGoing'
    BY <1>1 DEF OneGoing, IsAvailable
  <1> QED BY <1>1, <1>3, <1>4, <1>5 DEF NothingToDelete

LEMMA RolloutStep ==
    ASSUME ~ StaleReads, "scale" \notin UserEdits, TypeOK, SnapshotCurrent, SpecKept, ScaleIInv,
           RolloutInv, [Next]_vars
    PROVE  RolloutInv'
  <1>1. CASE EnvironmentStep
    BY <1>1, RolloutBeside
  <1>2. CASE Observe
    BY <1>2, RolloutObserve
  <1>3. ASSUME NEW s \in Sets, ScaleUpInstances(s) PROVE RolloutInv'
    <2>1. pc = "sets" /\ pc' = "apply" /\ UNCHANGED <<pods, runners, obs, disrupted>>
      BY <1>3 DEF ScaleUpInstances, objectVars
    <2> QED BY <2>1, RolloutElsewhere DEF RunnerExists
  <1>4. ASSUME NEW i \in Instances, ReconcileVolume(i) \/ ReconcileVolumeRefused(i)
        PROVE  RolloutInv'
    <2>1. pc = "apply" /\ pc' = "apply" /\ UNCHANGED <<pods, runners, obs, disrupted>>
      BY <1>4 DEF ReconcileVolume, ReconcileVolumeRefused, NextToWrite, objectVars
    <2> QED BY <2>1, RolloutElsewhere DEF RunnerExists
  <1>5. ASSUME NEW i \in Instances, ReconcileRunner(i) PROVE RolloutInv'
    <2>1. pc = "apply" /\ pc' = "apply" /\ UNCHANGED <<pods, disrupted>>
      BY <1>5 DEF ReconcileRunner
    <2>2. \A j \in Instances : RunnerExists(j) => RunnerExists(j)'
      BY <1>5 DEF ReconcileRunner, RunnerExists, TypeOK, ObjectsTypeOK
    <2>3. obs'.pods = obs.pods
      BY <1>5 DEF ReconcileRunner, Relist, TypeOK, Views
    <2> QED BY <2>1, <2>2, <2>3, RolloutElsewhere
  <1>6. ASSUME NEW i \in Instances, ReconcileInstanceFails(i) PROVE RolloutInv'
    <2>1. pc = "apply" /\ pc' \in {"apply", "patch"} /\ UNCHANGED <<pods, runners, disrupted>>
      BY <1>6 DEF ReconcileInstanceFails, NextToWrite, SkipToPatch, objectVars
    <2>2. obs'.pods = obs.pods
      BY <1>6 DEF ReconcileInstanceFails, SkipToPatch, Relist, TypeOK, Views
    <2> QED BY <2>1, <2>2, RolloutElsewhere DEF RunnerExists
  <1>7. CASE ReconcilePodDisruptionBudget
    <2>1. pc = "apply" /\ pc' = "sets" /\ UNCHANGED <<pods, runners, obs, disrupted>>
      BY <1>7 DEF ReconcilePodDisruptionBudget, objectVars
    <2> QED BY <2>1, RolloutElsewhere DEF RunnerExists
  <1>8. ASSUME NEW i \in Instances, DeleteRunner(i) PROVE RolloutInv'
    BY <1>8 DEF DeleteRunner, RolloutInv, NothingToDelete
  <1>9. ASSUME NEW i \in Instances, DeleteVolume(i) PROVE RolloutInv'
    <2>1. /\ pc = "delete" /\ pc' = "delete" /\ todo' \subseteq todo
          /\ UNCHANGED <<pods, runners, obs, disrupted>>
      BY <1>9 DEF DeleteVolume
    <2> QED BY <2>1, RolloutElsewhere DEF RunnerExists
  <1>10. CASE ScaleDownInstances
    <2>1. PICK keep \in SUBSET Instances : PodsToKeep(keep) /\ todo' = ObservedPods \ keep
      BY <1>10 DEF ScaleDownInstances
    <2>2. pc = "sets" /\ pc' = "delete" /\ UNCHANGED <<pods, runners, obs, disrupted>>
      BY <1>10 DEF ScaleDownInstances, objectVars
    <2>3. todo' = {}
      BY <2>1, <2>2, AllKept
    <2> QED BY <2>2, <2>3 DEF RolloutInv, PodsRun, PodExists, RunnerExists, ObservedPods,
            NothingToDelete, DisruptedDown, Available, IsAvailable, OneGoing
  <1>11. CASE RolloutInstances
    <2>1. PICK roll \in SUBSET Instances : ToRedeploy(roll) /\ todo' = roll
      BY <1>11 DEF RolloutInstances
    <2>2. pc = "delete" /\ pc' = "roll" /\ UNCHANGED <<pods, runners, obs, disrupted>>
      BY <1>11 DEF RolloutInstances, objectVars
    <2>3. \A i, j \in disrupted \cup {k \in roll : IsAvailable(k)} : i = j
      BY <2>1, <2>2, OneChosen
    <2>4. roll \subseteq ObservedPods
      BY <2>1 DEF ToRedeploy, Consider, Countable, ObservedPods
    <2> USE DEF RolloutInv
    <2>5. PodsRun'
      BY <2>1, <2>2, <2>4 DEF PodsRun, PodExists, RunnerExists, ObservedPods
    <2>6. DisruptedDown'
      BY <2>2 DEF DisruptedDown, Available, RunnerExists
    <2>7. OneGoing'
      BY <2>1, <2>2, <2>3 DEF OneGoing, IsAvailable
    <2> QED BY <2>2, <2>5, <2>6, <2>7 DEF NothingToDelete
  <1>12. ASSUME NEW i \in Instances, RolloutDelete(i) PROVE RolloutInv'
    BY <1>12, RolloutDeletes
  <1>13. ASSUME NEW i \in Instances, NEW c \in Instances, RolloutSwitchover(i, c)
         PROVE  RolloutInv'
    BY <1>13, RolloutSwitches
  <1>14. ASSUME NEW i \in Instances, RolloutSwitchoverRefused(i) \/ RolloutConflict(i)
         PROVE  RolloutInv'
    <2>1. pc = "roll" /\ pc' = "patch" /\ UNCHANGED <<pods, runners, obs, disrupted>>
      BY <1>14 DEF RolloutSwitchoverRefused, RolloutConflict, NextToRoll, SkipToPatch, objectVars
    <2> QED BY <2>1, RolloutElsewhere DEF RunnerExists
  <1>15. CASE RolloutDone \/ OtherCallFails
    <2>1. pc # "idle" /\ pc' = "patch" /\ UNCHANGED <<pods, runners, obs, disrupted>>
      BY <1>15 DEF RolloutDone, OtherCallFails, SkipToPatch, objectVars
    <2> QED BY <2>1, RolloutElsewhere DEF RunnerExists
  <1>16. CASE PatchClusterStatus \/ PatchFails \/ Crash
    <2>1. pc' = "idle" /\ UNCHANGED <<pods, runners, disrupted>>
      BY <1>16 DEF PatchClusterStatus, PatchFails, Crash, Forget
    <2> QED BY <2>1, RolloutElsewhere DEF RunnerExists
  <1>17. CASE ObservePanics \/ UserStep \/ UNCHANGED vars
    <2>1. UNCHANGED <<pc, pods, runners, obs, todo, disrupted>>
      BY <1>17 DEF ObservePanics, UserStep, EditReplicas, EditTemplate, EditShutdown, Edit, vars,
         objectVars, operatorVars
    <2> QED BY <2>1, RolloutElsewhere DEF RunnerExists
  <1> QED BY <1>1, <1>2, <1>3, <1>4, <1>5, <1>6, <1>7, <1>8, <1>9, <1>10, <1>11, <1>12, <1>13,
             <1>14, <1>15, <1>16, <1>17 DEF Next, ReconcileStep, FaultStep

\* rolloutInstances takes down no second available instance before the first one is back,
\* in a new cluster or a running one, with any number of sets and instances, whatever
\* fails, becomes unready, fails over or is edited in between, as long as the lists are
\* current and nobody changes the replicas of a set: when a set shrinks, instances that
\* are about to go are counted as available (README, divergences).
THEOREM RolloutOneAtATime ==
    ASSUME ~ StaleReads, "scale" \notin UserEdits
    PROVE  Spec \/ EstablishedSpec => []OneRolloutAtATime
  <1>1. Init \/ InitEstablished => SnapshotCurrent
    BY DEF Init, InitEstablished, InitOperator, SnapshotCurrent
  <1>2. Init => RolloutInv
    <2> SUFFICES ASSUME Init PROVE RolloutInv
      OBVIOUS
    <2>1. pc = "idle" /\ disrupted = {} /\ \A i \in Instances : ~ PodExists(i)
      BY DEF Init, InitOperator, NoView, NoPod, PodExists
    <2> QED BY <2>1 DEF RolloutInv, PodsRun, NothingToDelete, DisruptedDown, OneGoing
  <1>3. InitEstablished => RolloutInv
    <2> SUFFICES ASSUME InitEstablished PROVE RolloutInv
      OBVIOUS
    <2>1. pc = "idle" /\ disrupted = {}
      BY DEF InitEstablished, InitOperator
    <2>2. PICK members \in SUBSET Instances :
            \E l \in members :
              /\ pods = [i \in Instances |->
                           IF i \in members
                           THEN [phase |-> "running", rev |-> 1, ready |-> TRUE,
                                 role |-> IF i = l THEN "master" ELSE "replica"]
                           ELSE NoPod]
              /\ runners = [i \in Instances |->
                              IF i \in members
                              THEN [phase |-> "present", replicas |-> 1, rev |-> 1,
                                    synced |-> TRUE]
                              ELSE NoRunner]
      BY DEF InitEstablished
    <2>3. \A i \in Instances : PodExists(i) => RunnerExists(i)
      <3>1. \A i \in Instances \ members : pods[i] = NoPod
        BY <2>2
      <3>2. \A i \in members : runners[i].phase = "present"
        BY <2>2
      <3>3. NoPod.phase = "absent"
        BY DEF NoPod
      <3>4. \A i \in Instances \ members : ~ PodExists(i)
        BY <3>1, <3>3 DEF PodExists
      <3> QED BY <3>2, <3>4 DEF RunnerExists
    <2> QED BY <2>1, <2>3 DEF RolloutInv, PodsRun, NothingToDelete, DisruptedDown, OneGoing
  <1>4. TypeOK /\ RolloutInv => OneRolloutAtATime
    <2> SUFFICES ASSUME TypeOK, RolloutInv PROVE Cardinality(disrupted) <= 1
      BY DEF OneRolloutAtATime, maxUnavailable
    <2>1. disrupted = {} \/ \E i : disrupted = {i}
      BY DEF RolloutInv, OneGoing
    <2>2. Cardinality(disrupted) = 0 \/ Cardinality(disrupted) = 1
      BY <2>1, FS_EmptySet, FS_Singleton
    <2> QED BY <2>2
  <1>5. TypeOK /\ SnapshotCurrent /\ SpecKept /\ ScaleIInv /\ RolloutInv /\ [Next]_vars
           => RolloutInv'
    BY RolloutStep
  <1> QED BY <1>1, <1>2, <1>3, <1>4, <1>5, TypeCorrect, SnapshotStep, SpecKeptInit, SpecKeptStep,
             ScaleHolds, PTL DEF Spec, EstablishedSpec
=============================================================================
