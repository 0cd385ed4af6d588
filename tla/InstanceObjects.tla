--------------------------- MODULE InstanceObjects ---------------------------
(***************************************************************************)
(* The Kubernetes objects that make up the PostgreSQL instances of one     *)
(* PostgresCluster, and everything that changes them other than the        *)
(* operator: the StatefulSet controller, the garbage collector, the        *)
(* kubelet and Patroni.  None of those is part of the repository; they are *)
(* modelled from what the operator relies on (internal/controller/         *)
(* postgrescluster/instance.go and patroni.go).                            *)
(*                                                                         *)
(* An instance is named after its StatefulSet, which the code calls its    *)
(* "runner"; the runner keeps one Pod, and the instance one data volume.   *)
(***************************************************************************)
EXTENDS Integers, FiniteSets, FiniteSetsExt

CONSTANTS
    Instances,      \* instance names that may ever be generated
    Sets,           \* names of instance sets
    SetOf,          \* the set a name was generated for (it is part of the name)
    MaxRev,         \* revisions of the Pod template the user may reach
    MaxFailures,    \* bound on instances that become unready by themselves
    MaxFailovers,   \* bound on leader elections nobody asked for
    None            \* no instance: the empty string of the Go code

ASSUME InstancesAssumption ==
    /\ IsFiniteSet(Instances)
    /\ SetOf \in [Instances -> Sets]
    /\ None \notin Instances
ASSUME ObjectBoundsAssumption ==
    /\ MaxRev \in Nat \ {0}
    /\ MaxFailures \in Nat
    /\ MaxFailovers \in Nat

VARIABLES
    pods,           \* the Pod of each instance
    runners,        \* the StatefulSet of each instance
    volumes,        \* the data PersistentVolumeClaim of each instance
    leader,         \* the holder of Patroni's leader lock
    lastLeader,     \* history: the last holder of the lock
    changed,        \* instances whose Pod was written since the operator
                    \* listed it, i.e. whose resourceVersion has moved
    failures,       \* unready events so far
    failovers       \* unrequested elections so far

objectVars ==
    <<pods, runners, volumes, leader, lastLeader, changed, failures, failovers>>

Revisions == 1..MaxRev

\* LabelRole: absent until Patroni has labelled the Pod, then "master"
\* (naming.RolePatroniLeader) or "replica" (naming.RolePatroniReplica).
Roles == {"", "master", "replica"}

Pod == [phase : {"absent", "running", "terminating"},
        rev   : 0..MaxRev,      \* appsv1.StatefulSetRevisionLabel
        ready : BOOLEAN,        \* condition corev1.PodReady
        role  : Roles]

NoPod == [phase |-> "absent", rev |-> 0, ready |-> FALSE, role |-> ""]

\* synced: Status.ObservedGeneration = Generation.
Runner == [phase    : {"absent", "present"},
           replicas : 0..1,
           rev      : 0..MaxRev,
           synced   : BOOLEAN]

NoRunner == [phase |-> "absent", replicas |-> 0, rev |-> 0, synced |-> FALSE]

VolumePhases == {"absent", "bound", "terminating"}

PodExists(i)    == pods[i].phase # "absent"
RunnerExists(i) == runners[i].phase = "present"
Available(i)    == pods[i].phase = "running" /\ pods[i].ready

ObjectsTypeOK ==
    /\ pods \in [Instances -> Pod]
    /\ runners \in [Instances -> Runner]
    /\ volumes \in [Instances -> VolumePhases]
    /\ leader \in Instances \cup {None}
    /\ lastLeader \in Instances \cup {None}
    /\ changed \in SUBSET Instances
    /\ failures \in 0..MaxFailures
    /\ failovers \in 0..MaxFailovers

\* Every write to a Pod moves its resourceVersion.
WritePod(i, pod) ==
    /\ pods' = [pods EXCEPT ![i] = pod]
    /\ changed' = changed \cup {i}

-----------------------------------------------------------------------------
(* The StatefulSet controller, the kubelet and the garbage collector.      *)

\* The StatefulSet controller has seen the current spec of its object.
SyncRunner(i) ==
    /\ RunnerExists(i)
    /\ ~ runners[i].synced
    /\ runners' = [runners EXCEPT ![i].synced = TRUE]
    /\ UNCHANGED <<pods, volumes, leader, lastLeader, changed, failures, failovers>>

CreatePod(i) ==
    /\ RunnerExists(i)
    /\ runners[i].synced
    /\ runners[i].replicas = 1
    /\ volumes[i] = "bound"
    /\ ~ PodExists(i)
    /\ WritePod(i, [phase |-> "running", rev |-> runners[i].rev,
                    ready |-> FALSE, role |-> ""])
    /\ UNCHANGED <<runners, volumes, leader, lastLeader, failures, failovers>>

\* A Pod goes when its StatefulSet is scaled to zero, or, through the garbage
\* collector, when its StatefulSet is gone.
StopPod(i) ==
    /\ pods[i].phase = "running"
    /\ \/ ~ RunnerExists(i)
       \/ runners[i].synced /\ runners[i].replicas = 0
    /\ WritePod(i, [pods[i] EXCEPT !.phase = "terminating"])
    /\ UNCHANGED <<runners, volumes, leader, lastLeader, failures, failovers>>

PodGone(i) ==
    /\ pods[i].phase = "terminating"
    /\ WritePod(i, NoPod)
    /\ leader' = IF leader = i THEN None ELSE leader
    /\ UNCHANGED <<runners, volumes, lastLeader, failures, failovers>>

\* A deleted claim stays until no Pod mounts it.
VolumeGone(i) ==
    /\ volumes[i] = "terminating"
    /\ ~ PodExists(i)
    /\ volumes' = [volumes EXCEPT ![i] = "absent"]
    /\ UNCHANGED <<pods, runners, leader, lastLeader, changed, failures, failovers>>

\* The readiness probe asks Patroni, which needs a leader to follow or to be.
BecomeReady(i) ==
    /\ pods[i].phase = "running"
    /\ ~ pods[i].ready
    /\ pods[i].role # ""
    /\ WritePod(i, [pods[i] EXCEPT !.ready = TRUE])
    /\ UNCHANGED <<runners, volumes, leader, lastLeader, failures, failovers>>

BecomeUnready(i) ==
    /\ failures < MaxFailures
    /\ Available(i)
    /\ WritePod(i, [pods[i] EXCEPT !.ready = FALSE])
    /\ failures' = failures + 1
    /\ UNCHANGED <<runners, volumes, leader, lastLeader, failovers>>

-----------------------------------------------------------------------------
(* Patroni.  Each member labels its own Pod, so the label of a Pod may lag *)
(* behind the lock.                                                        *)

\* A running member takes a free lock.
Promote(i) ==
    /\ leader = None
    /\ pods[i].phase = "running"
    /\ leader' = i
    /\ lastLeader' = i
    /\ WritePod(i, [pods[i] EXCEPT !.role = "master"])
    /\ UNCHANGED <<runners, volumes, failures, failovers>>

\* A member that does not hold the lock labels itself a replica.
Follow(i) ==
    /\ leader # None
    /\ leader # i
    /\ pods[i].phase = "running"
    /\ pods[i].role # "replica"
    /\ WritePod(i, [pods[i] EXCEPT !.role = "replica"])
    /\ UNCHANGED <<runners, volumes, leader, lastLeader, failures, failovers>>

\* The lock of a leader that is stopping is released.
ReleaseLock(i) ==
    /\ leader = i
    /\ pods[i].phase # "running"
    /\ leader' = None
    /\ UNCHANGED <<pods, runners, volumes, lastLeader, changed, failures, failovers>>

\* The leader fails to renew its lock, which then expires; another member may
\* take it before the old leader has changed its own label.
LoseLock(i) ==
    /\ failovers < MaxFailovers
    /\ leader = i
    /\ leader' = None
    /\ failovers' = failovers + 1
    /\ UNCHANGED <<pods, runners, volumes, lastLeader, changed, failures>>

Environment(i) ==
    \/ SyncRunner(i)
    \/ CreatePod(i)
    \/ StopPod(i)
    \/ PodGone(i)
    \/ VolumeGone(i)
    \/ BecomeReady(i)
    \/ BecomeUnready(i)
    \/ Promote(i)
    \/ Follow(i)
    \/ ReleaseLock(i)
    \/ LoseLock(i)
=============================================================================
