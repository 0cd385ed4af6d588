---------------------------- MODULE Certificates ----------------------------
(***************************************************************************)
(* The certificates of the clusters of one namespace (pki.go, internal/pki *)
(* and the Secrets that patroni.go, instance.go, pgbackrest.go and         *)
(* pgbouncer.go fill).  All clusters of a namespace share one root         *)
(* authority, in a Secret that each of them owns and none controls; every  *)
(* cluster has Secrets of its own with a leaf certificate and a copy of    *)
(* the root certificate that signed it.                                    *)
(*                                                                         *)
(* Reconciles of different clusters run at the same time.  Each reads the  *)
(* root from a cache, applies it again with itself among the owners, and   *)
(* signs with the key it has in hand.  Nothing is queued when the root     *)
(* Secret changes.                                                         *)
(***************************************************************************)
EXTENDS Integers, FiniteSets, Sequences

CONSTANTS
    Clusters,
    Kinds,          \* the leaf Secrets of a cluster, in the order of Reconcile
    MaxUid,         \* bound on how often a cluster is created
    MaxEdits,       \* bound on what the user does and what time spoils
    MaxFaults,      \* bound on failed calls and crashes
    MaxStale,       \* bound on reconciles that begin with an outdated cache
    Edited          \* the clusters that users delete and change, and whose calls fail

ASSUME CertificatesAssumption ==
    /\ Kinds \in Seq({"replication", "cluster", "instance", "repository", "proxy"})
    /\ IsFiniteSet(Clusters)
    /\ MaxUid \in Nat \ {0} /\ MaxEdits \in Nat /\ MaxFaults \in Nat /\ MaxStale \in Nat
    /\ Edited \subseteq Clusters

VARIABLES
    uid,        \* of each cluster; 0 when it does not exist
    born,       \* how often each cluster has been created
    off,        \* the leaf Secrets that the spec does not ask the operator for
    root,       \* the Secret of the root authority
    cached,     \* the operator's copy of it
    leaf,       \* the Secrets of each cluster
    queued,     \* a reconcile of the cluster is due
    op,         \* the reconcile of each cluster
    edits, faults, stale,
    dropped     \* history: the owners removed by a user, or a reconcile with an outdated copy

vars == <<uid, born, off, root, cached, leaf, queued, op, edits, faults, stale, dropped>>

KindSet == {Kinds[n] : n \in DOMAIN Kinds}
Keys == 0..(2 + Cardinality(Clusters) * (2 * Len(Kinds) + 1))
Owners == Clusters \X (1..MaxUid)
Owner(c) == <<c, uid[c]>>
Exists(c) == uid[c] # 0
Alive == {Owner(c) : c \in {d \in Clusters : Exists(d)}}

\* Certificates and keys that can be read, belong together and have not expired
\* are good.
Root == [key : Keys, good : BOOLEAN, owners : SUBSET Owners]
NoRoot == [key |-> 0, good |-> FALSE, owners |-> {}]
Leaf == [signer : Keys, ca : Keys, age : {"none", "fresh", "due", "expired", "bad"},
         owner : 0..MaxUid]
NoLeaf == [signer |-> 0, ca |-> 0, age |-> "none", owner |-> 0]
Idle == [pc |-> "idle", seen |-> NoRoot, due |-> {}]

-----------------------------------------------------------------------------
\* The policies of internal/pki.

\* A new key is one that is stored nowhere.
InUse == {0, root.key, cached.key} \cup {op[c].seen.key : c \in Clusters}
         \cup UNION {{leaf[c][k].signer, leaf[c][k].ca} : c \in Clusters, k \in KindSet}
NewRoot == CHOOSE n \in Keys \ InUse : \A k \in 0..(n - 1) : k \in InUse

\* Mutant: expiration is not checked.
RootParsesMutant(r) == r.key # 0

RootIsValid(r) == r.good

\* Mutant: any certificate that has not to be renewed will do.
AnySignerMutant(l, key) == l.age = "fresh"

\* A leaf is valid when root signed it and it is not yet time to renew it.
leafIsValid(l, key) == l.signer = key /\ l.age = "fresh"

GenerateLeafCertificate(key) == [NoLeaf EXCEPT !.signer = key, !.age = "fresh"]

RegenerateLeafWhenNecessary(l, key) ==
    IF leafIsValid(l, key) THEN l ELSE GenerateLeafCertificate(key)

-----------------------------------------------------------------------------
\* Reconcile.

Fault(c) == c \in Edited /\ faults < MaxFaults /\ faults' = faults + 1

Reconcile(c) ==
    /\ op[c].pc = "idle" /\ Exists(c) /\ queued[c]
    /\ op' = [op EXCEPT ![c] = [pc |-> "root", seen |-> cached,
                                due |-> {k \in KindSet : leaf[c][k].age = "due"}]]
    /\ IF cached = root THEN UNCHANGED stale ELSE stale < MaxStale /\ stale' = stale + 1
    /\ queued' = [queued EXCEPT ![c] = FALSE]
    /\ UNCHANGED <<uid, born, off, root, cached, leaf, edits, faults, dropped>>

\* setOwnerReference replaces an earlier reference to a cluster of that name.
SetOwnerReference(c, owners) == {o \in owners : o[1] # c} \cup {Owner(c)}

\* Mutant: the other owners are forgotten.
OneOwnerMutant(c, r) ==
    [key |-> IF RootIsValid(r) THEN r.key ELSE NewRoot,
     good |-> RootIsValid(r) => r.good,
     owners |-> {Owner(c)}]

\* The root that was read, or a new one when that is no good.
RootIntent(c, r) ==
    [key |-> IF RootIsValid(r) THEN r.key ELSE NewRoot,
     good |-> RootIsValid(r) => r.good,
     owners |-> SetOwnerReference(c, r.owners)]

\* It is applied over whatever is there.
ReconcileRootCertificate(c) ==
    /\ op[c].pc = "root"
    /\ root' = RootIntent(c, op[c].seen)
    /\ op' = [op EXCEPT ![c].pc = "leaves", ![c].seen = [NoRoot EXCEPT !.key = root'.key]]
    /\ dropped' = (dropped \ {Owner(c)}) \cup
                  (IF op[c].seen = root THEN {} ELSE (root.owners \cap Alive) \ root'.owners)
    /\ UNCHANGED <<uid, born, off, cached, leaf, queued, edits, faults, stale>>

Wanted(c, k) == k \notin off[c]

\* A Secret that is no longer wanted: these two stay, others are deleted when the
\* cluster controls them.
Unwanted(c, k) ==
    IF k \in {"replication", "cluster"} \/ leaf[c][k].owner # uid[c] THEN leaf[c][k] ELSE NoLeaf

\* The Secret holds the leaf, beside the certificate of the root that was applied.
LeafSecret(c, k) ==
    [RegenerateLeafWhenNecessary(leaf[c][k], op[c].seen.key) EXCEPT
        !.ca = op[c].seen.key, !.owner = uid[c]]

\* reconcileClusterCertificate keeps the owners that it finds, and two controllers
\* are refused: the Secret of a deleted cluster of the same name is in the way.
OwnedByAnother(c, k) == k = "cluster" /\ Wanted(c, k) /\ leaf[c][k].owner \notin {0, uid[c]}

Reached(c) ==
    CHOOSE n \in 0..Len(Kinds) :
        /\ \A j \in 1..n : ~OwnedByAnother(c, Kinds[j])
        /\ n < Len(Kinds) => OwnedByAnother(c, Kinds[n + 1])

\* The first n Secrets are reconciled.
LeavesUpTo(c, n) ==
    [k \in KindSet |->
        IF \A j \in 1..n : Kinds[j] # k THEN leaf[c][k]
        ELSE IF Wanted(c, k) THEN LeafSecret(c, k) ELSE Unwanted(c, k)]

\* Certificates are renewed months before they expire, and a cluster is reconciled
\* every hour: what was due when a reconcile began expires only after it is done.
Expired(c, secrets) ==
    [k \in KindSet |->
        IF k \in op[c].due /\ secrets[k].age = "due" THEN [secrets[k] EXCEPT !.age = "expired"]
        ELSE secrets[k]]

\* reconcileReplicationSecret, reconcileClusterCertificate, reconcileInstanceCertificates,
\* reconcilePGBackRestSecret and reconcilePGBouncerSecret.  Changes to a Secret, and
\* errors, queue the cluster again.
ReconcileLeaves(c) ==
    /\ op[c].pc = "leaves"
    /\ \E n \in 0..Reached(c) :
         /\ IF n < Reached(c) THEN Fault(c) ELSE UNCHANGED faults
         /\ leaf' = [leaf EXCEPT ![c] = IF n < Len(Kinds) THEN LeavesUpTo(c, n)
                                        ELSE Expired(c, LeavesUpTo(c, n))]
         /\ queued' = [queued EXCEPT ![c] = @ \/ n < Len(Kinds) \/ LeavesUpTo(c, n) # leaf[c]]
    /\ op' = [op EXCEPT ![c] = Idle]
    /\ UNCHANGED <<uid, born, off, root, cached, edits, stale, dropped>>

\* A call fails or the operator stops before the root has been applied.
Abandon(c) ==
    /\ op[c].pc = "root" /\ Fault(c)
    /\ op' = [op EXCEPT ![c] = Idle]
    /\ queued' = [queued EXCEPT ![c] = TRUE]
    /\ UNCHANGED <<uid, born, off, root, cached, leaf, edits, stale, dropped>>

\* The cache is resynchronized every hour, which queues each cluster.
Resync(c) ==
    /\ op[c].pc = "idle" /\ Exists(c) /\ ~queued[c]
    /\ queued' = [queued EXCEPT ![c] = TRUE]
    /\ UNCHANGED <<uid, born, off, root, cached, leaf, op, edits, faults, stale, dropped>>

-----------------------------------------------------------------------------
\* Kubernetes.

Sync ==
    /\ cached # root /\ cached' = root
    /\ UNCHANGED <<uid, born, off, root, leaf, queued, op, edits, faults, stale, dropped>>

\* The garbage collector deletes what has no owner left, and removes references to
\* owners that are gone.
CollectRoot ==
    /\ ~(root.owners \subseteq Alive)
    /\ root' = IF root.owners \cap Alive = {} THEN NoRoot
               ELSE [root EXCEPT !.owners = @ \cap Alive]
    /\ UNCHANGED <<uid, born, off, cached, leaf, queued, op, edits, faults, stale, dropped>>

CollectLeaf(c, k) ==
    /\ leaf[c][k].owner \notin {0, uid[c]}
    /\ leaf' = [leaf EXCEPT ![c][k] = NoLeaf]
    /\ queued' = [queued EXCEPT ![c] = Exists(c)]
    /\ UNCHANGED <<uid, born, off, root, cached, op, edits, faults, stale, dropped>>

-----------------------------------------------------------------------------
\* Users and time.

Edit == edits < MaxEdits /\ edits' = edits + 1

CreateCluster(c) ==
    /\ ~Exists(c) /\ born[c] < MaxUid
    /\ born' = [born EXCEPT ![c] = @ + 1]
    /\ uid' = [uid EXCEPT ![c] = born'[c]]
    /\ queued' = [queued EXCEPT ![c] = TRUE]
    /\ UNCHANGED <<off, root, cached, leaf, op, edits, faults, stale, dropped>>

\* The finalizer is removed by a reconcile, so none is in progress.
DeleteCluster(c) ==
    /\ Exists(c) /\ op[c].pc = "idle" /\ Edit
    /\ uid' = [uid EXCEPT ![c] = 0]
    /\ queued' = [queued EXCEPT ![c] = FALSE]
    /\ UNCHANGED <<born, off, root, cached, leaf, op, faults, stale, dropped>>

\* A certificate of the user's own, or a part that is not enabled.
Toggle(c, k) ==
    /\ Exists(c) /\ k # "instance" /\ Edit
    /\ off' = [off EXCEPT ![c] = IF k \in @ THEN @ \ {k} ELSE @ \cup {k}]
    /\ queued' = [queued EXCEPT ![c] = TRUE]
    /\ UNCHANGED <<uid, born, root, cached, leaf, op, faults, stale, dropped>>

\* The root expires or is overwritten, or it is deleted.
SpoilRoot ==
    /\ root.good /\ Edit
    /\ \/ root' = [root EXCEPT !.good = FALSE] /\ UNCHANGED dropped
       \/ root' = NoRoot /\ dropped' = Alive
    /\ UNCHANGED <<uid, born, off, cached, leaf, queued, op, faults, stale>>

\* It becomes time to renew a leaf, or its Secret is overwritten.
SpoilLeaf(c, k) ==
    /\ leaf[c][k].age = "fresh" /\ Edit
    /\ \/ leaf' = [leaf EXCEPT ![c][k].age = "due"] /\ UNCHANGED queued
       \/ leaf' = [leaf EXCEPT ![c][k].age = "bad"] /\ queued' = [queued EXCEPT ![c] = Exists(c)]
    /\ UNCHANGED <<uid, born, off, root, cached, op, faults, stale, dropped>>

-----------------------------------------------------------------------------
\* New clusters in a new namespace.
Init ==
    /\ uid = [c \in Clusters |-> 1] /\ born = uid
    /\ off = [c \in Clusters |-> {}]
    /\ root = NoRoot /\ cached = NoRoot
    /\ leaf = [c \in Clusters |-> [k \in KindSet |-> NoLeaf]]
    /\ queued = [c \in Clusters |-> TRUE] /\ op = [c \in Clusters |-> Idle]
    /\ edits = 0 /\ faults = 0 /\ stale = 0 /\ dropped = {}

Operator(c) == Reconcile(c) \/ ReconcileRootCertificate(c) \/ ReconcileLeaves(c) \/ Resync(c)

Collector == CollectRoot \/ \E c \in Clusters, k \in KindSet : CollectLeaf(c, k)

User ==
    \/ SpoilRoot
    \/ \E c \in Edited : CreateCluster(c) \/ DeleteCluster(c)
    \/ \E c \in Edited, k \in KindSet : Toggle(c, k) \/ SpoilLeaf(c, k)

Next ==
    \/ Sync \/ Collector \/ User
    \/ \E c \in Clusters : Operator(c) \/ Abandon(c)

Spec == Init /\ [][Next]_vars

\* The cache catches up, garbage is collected, the work queue serves each cluster and
\* the hourly resynchronization does not stop.
FairSpec ==
    Spec /\ WF_vars(Sync) /\ WF_vars(Collector) /\ \A c \in Clusters : WF_vars(Operator(c))

-----------------------------------------------------------------------------
TypeOK ==
    /\ uid \in [Clusters -> 0..MaxUid] /\ born \in [Clusters -> 0..MaxUid]
    /\ off \in [Clusters -> SUBSET KindSet]
    /\ root \in Root /\ cached \in Root
    /\ leaf \in [Clusters -> [KindSet -> Leaf]]
    /\ queued \in [Clusters -> BOOLEAN]
    /\ op \in [Clusters -> [pc : {"idle", "root", "leaves"}, seen : Root, due : SUBSET KindSet]]
    /\ edits \in 0..MaxEdits /\ faults \in 0..MaxFaults /\ stale \in 0..MaxStale
    /\ dropped \subseteq Owners

\* The certificate in a Secret verifies with the authority that is beside it, though
\* the root may change between any two steps and be written by any cluster.
KeysMatch == \A c \in Clusters, k \in KindSet : leaf[c][k].signer = leaf[c][k].ca

\* A cluster that has certificates is an owner of the root, so that the root is not
\* collected while it is in use ("This allows for multiple owners to guide garbage
\* collection"), unless a reconcile of another cluster wrote an outdated
\* copy of the root, or a user deleted it.
OwnersKept ==
    \A c \in Clusters :
        Exists(c) /\ (\E k \in KindSet : leaf[c][k].owner = uid[c]) =>
            Owner(c) \in root.owners \cup dropped

Settled ==
    \A c \in Clusters : Exists(c) =>
        /\ root.good /\ Owner(c) \in root.owners
        /\ \A k \in KindSet : Wanted(c, k) =>
             leafIsValid(leaf[c][k], root.key) /\ leaf[c][k].owner = uid[c]

\* When clusters stop writing outdated copies of the root over each other's, every
\* cluster comes to own a good root and has certificates that this root has signed,
\* although nothing tells a cluster that the root has changed.
Settles ==
    <>[](\A c \in Clusters : op[c].pc = "root" => op[c].seen = root) => <>[]Settled
=============================================================================
