------------------------- MODULE CertificatesProofs -------------------------
(***************************************************************************)
(* Proofs about Certificates for any number of clusters, any Secrets and   *)
(* any bounds: a leaf certificate and the authority beside it are of the   *)
(* same key, and a cluster that has certificates owns the root.            *)
(*                                                                         *)
(* That a fresh key can be found among finitely many is not needed: the    *)
(* arguments use which parts of the Secrets a step copies, so it is enough *)
(* to know the shape of the state.                                         *)
(***************************************************************************)
EXTENDS Certificates, TLAPS

RootFields == {"key", "good", "owners"}
LeafFields == {"signer", "ca", "age", "owner"}
OpFields   == {"pc", "seen", "due"}

Shape ==
    /\ DOMAIN leaf = Clusters /\ DOMAIN op = Clusters
    /\ DOMAIN root = RootFields
    /\ \A c \in Clusters :
         /\ DOMAIN op[c] = OpFields
         /\ DOMAIN leaf[c] = KindSet
         /\ \A k \in KindSet : DOMAIN leaf[c][k] = LeafFields

KeysIInv == Shape /\ KeysMatch

-----------------------------------------------------------------------------
LEMMA EditedAreClusters == ASSUME NEW c \in Edited PROVE c \in Clusters
  BY CertificatesAssumption

\* A Secret that is written has the fields of one, and holds a leaf beside the root
\* that signed it: a leaf that is kept was signed by the root being written.
LEMMA LeafSecretFields ==
    ASSUME Shape, NEW c \in Clusters, NEW k \in KindSet
    PROVE  /\ DOMAIN LeafSecret(c, k) = LeafFields
           /\ LeafSecret(c, k).signer = LeafSecret(c, k).ca
           /\ LeafSecret(c, k).owner = uid[c]
  <1> DEFINE key == op[c].seen.key
             l == RegenerateLeafWhenNecessary(leaf[c][k], key)
  <1>1. DOMAIN l = LeafFields
    BY DEF Shape, RegenerateLeafWhenNecessary, GenerateLeafCertificate, NoLeaf, LeafFields
  <1>2. l.signer = key
    BY DEF Shape, RegenerateLeafWhenNecessary, GenerateLeafCertificate, NoLeaf, leafIsValid
  <1>3. LeafSecret(c, k) = [l EXCEPT !.ca = key, !.owner = uid[c]]
    BY DEF LeafSecret
  <1> HIDE DEF l, key
  <1> QED BY <1>1, <1>2, <1>3 DEF LeafFields

\* What ReconcileLeaves makes of a Secret: it writes it, deletes it or leaves it, and
\* time may pass.
LEMMA ReconcileLeavesSecrets ==
    ASSUME Shape, NEW c \in Clusters, ReconcileLeaves(c)
    PROVE  /\ DOMAIN leaf' = Clusters
           /\ \A d \in Clusters : d # c => leaf'[d] = leaf[d]
           /\ DOMAIN leaf'[c] = KindSet
           /\ \A k \in KindSet : \E l \in {leaf[c][k], NoLeaf, LeafSecret(c, k)} :
                /\ DOMAIN leaf'[c][k] = LeafFields
                /\ leaf'[c][k].signer = l.signer
                /\ leaf'[c][k].ca = l.ca
                /\ leaf'[c][k].owner = l.owner
  <1>1. PICK n \in 0..Reached(c) :
          leaf' = [leaf EXCEPT ![c] = IF n < Len(Kinds) THEN LeavesUpTo(c, n)
                                      ELSE Expired(c, LeavesUpTo(c, n))]
    BY DEF ReconcileLeaves
  <1> DEFINE F == LeavesUpTo(c, n)
             G == Expired(c, F)
  <1>2. DOMAIN F = KindSet /\ DOMAIN G = KindSet
    BY DEF LeavesUpTo, Expired
  <1>3. \A k \in KindSet : F[k] \in {leaf[c][k], NoLeaf, LeafSecret(c, k)}
    BY DEF LeavesUpTo, Unwanted
  <1>4. \A k \in KindSet : DOMAIN F[k] = LeafFields
    <2>1. DOMAIN NoLeaf = LeafFields
      BY DEF NoLeaf, LeafFields
    <2>2. \A k \in KindSet : DOMAIN LeafSecret(c, k) = LeafFields
      BY LeafSecretFields
    <2>3. \A k \in KindSet : DOMAIN leaf[c][k] = LeafFields
      BY DEF Shape
    <2> QED BY <1>3, <2>1, <2>2, <2>3
  <1>5. \A k \in KindSet : G[k] \in {F[k], [F[k] EXCEPT !.age = "expired"]}
    BY DEF Expired
  <1>6. \A k \in KindSet : /\ DOMAIN G[k] = LeafFields
                           /\ G[k].signer = F[k].signer
                           /\ G[k].ca = F[k].ca
                           /\ G[k].owner = F[k].owner
    <2> SUFFICES ASSUME NEW k \in KindSet
                 PROVE  /\ DOMAIN G[k] = LeafFields
                        /\ G[k].signer = F[k].signer
                        /\ G[k].ca = F[k].ca
                        /\ G[k].owner = F[k].owner
      OBVIOUS
    <2> HIDE DEF F, G
    <2> QED BY <1>4, <1>5 DEF LeafFields
  <1>7. /\ DOMAIN leaf' = Clusters
        /\ \A d \in Clusters : d # c => leaf'[d] = leaf[d]
        /\ leaf'[c] \in {F, G}
    BY <1>1 DEF Shape
  <1> HIDE DEF F, G
  <1> QED BY <1>2, <1>3, <1>4, <1>6, <1>7

\* Of the leaf Secrets, no other step writes more than NoLeaf or the age of one.
LEMMA OtherStepsSecrets ==
    ASSUME Shape, [Next]_vars, \A c \in Clusters : ~ReconcileLeaves(c)
    PROVE  /\ DOMAIN leaf' = Clusters
           /\ \A c \in Clusters :
                /\ DOMAIN leaf'[c] = KindSet
                /\ \A k \in KindSet : \E l \in {leaf[c][k], NoLeaf} :
                     /\ DOMAIN leaf'[c][k] = LeafFields
                     /\ leaf'[c][k].signer = l.signer
                     /\ leaf'[c][k].ca = l.ca
                     /\ leaf'[c][k].owner = l.owner
  <1> DEFINE P == /\ DOMAIN leaf' = Clusters
                  /\ \A c \in Clusters :
                       /\ DOMAIN leaf'[c] = KindSet
                       /\ \A k \in KindSet : \E l \in {leaf[c][k], NoLeaf} :
                            /\ DOMAIN leaf'[c][k] = LeafFields
                            /\ leaf'[c][k].signer = l.signer
                            /\ leaf'[c][k].ca = l.ca
                            /\ leaf'[c][k].owner = l.owner
  <1> SUFFICES P
    OBVIOUS
  <1>1. CASE leaf' = leaf
    BY <1>1 DEF Shape
  <1>2. ASSUME NEW c \in Clusters, NEW k \in KindSet, leaf' = [leaf EXCEPT ![c][k] = NoLeaf]
        PROVE  P
    BY <1>2 DEF Shape, NoLeaf, LeafFields
  <1>3. ASSUME NEW c \in Clusters, NEW k \in KindSet, NEW a \in {"due", "bad"},
               leaf' = [leaf EXCEPT ![c][k].age = a]
        PROVE  P
    BY <1>3 DEF Shape, LeafFields
  <1> HIDE DEF P
  <1>4. CASE UNCHANGED vars
    BY <1>1, <1>4 DEF vars
  <1>5. CASE Sync \/ CollectRoot \/ SpoilRoot
    BY <1>1, <1>5 DEF Sync, CollectRoot, SpoilRoot
  <1>6. ASSUME NEW c \in Clusters, NEW k \in KindSet, CollectLeaf(c, k) PROVE P
    BY <1>2, <1>6 DEF CollectLeaf
  <1>7. ASSUME NEW c \in Edited, CreateCluster(c) \/ DeleteCluster(c) PROVE P
    BY <1>1, <1>7 DEF CreateCluster, DeleteCluster
  <1>8. ASSUME NEW c \in Edited, NEW k \in KindSet, Toggle(c, k) PROVE P
    BY <1>1, <1>8 DEF Toggle
  <1>9. ASSUME NEW c \in Edited, NEW k \in KindSet, SpoilLeaf(c, k) PROVE P
    BY <1>3, <1>9, EditedAreClusters DEF SpoilLeaf
  <1>10. ASSUME NEW c \in Clusters, Operator(c) \/ Abandon(c) PROVE P
    BY <1>1, <1>10 DEF Operator, Reconcile, ReconcileRootCertificate, Resync, Abandon
  <1> QED BY <1>4, <1>5, <1>6, <1>7, <1>8, <1>9, <1>10 DEF Next, Collector, User

LEMMA ShapeInit == Init => Shape
  BY DEF Init, Shape, NoRoot, NoLeaf, Idle, RootFields, LeafFields, OpFields

LEMMA ShapeNext == Shape /\ [Next]_vars => Shape'
  <1> SUFFICES ASSUME Shape, [Next]_vars PROVE Shape'
    OBVIOUS
  <1>1. /\ DOMAIN leaf' = Clusters
        /\ \A c \in Clusters :
             /\ DOMAIN leaf'[c] = KindSet
             /\ \A k \in KindSet : DOMAIN leaf'[c][k] = LeafFields
    <2>1. CASE \E d \in Clusters : ReconcileLeaves(d)
      BY <2>1, ReconcileLeavesSecrets DEF Shape
    <2>2. CASE \A d \in Clusters : ~ReconcileLeaves(d)
      BY <2>2, OtherStepsSecrets
    <2> QED BY <2>1, <2>2
  <1>2. DOMAIN root' = RootFields
    <2>1. CASE root' = root \/ root' = NoRoot
      BY <2>1 DEF Shape, NoRoot, RootFields
    <2>2. CASE CollectRoot
      BY <2>2 DEF Shape, CollectRoot, NoRoot, RootFields
    <2>3. CASE SpoilRoot
      BY <2>3 DEF Shape, SpoilRoot, NoRoot, RootFields
    <2>4. ASSUME NEW c \in Clusters, ReconcileRootCertificate(c) PROVE DOMAIN root' = RootFields
      BY <2>4 DEF ReconcileRootCertificate, RootIntent, RootFields
    <2> QED BY <2>1, <2>2, <2>3, <2>4
            DEF Next, vars, Sync, Collector, CollectLeaf, User, CreateCluster, DeleteCluster,
                Toggle, SpoilLeaf, Operator, Reconcile, ReconcileLeaves, Resync, Abandon
  <1>3. DOMAIN op' = Clusters /\ \A c \in Clusters : DOMAIN op'[c] = OpFields
    <2>1. CASE op' = op
      BY <2>1 DEF Shape
    <2>2. ASSUME NEW c \in Clusters, Operator(c) \/ Abandon(c)
          PROVE  DOMAIN op' = Clusters /\ \A d \in Clusters : DOMAIN op'[d] = OpFields
      BY <2>2 DEF Shape, Operator, Reconcile, ReconcileRootCertificate, ReconcileLeaves, Resync,
                  Abandon, Idle, OpFields
    <2> QED BY <2>1, <2>2
            DEF Next, vars, Sync, Collector, CollectRoot, CollectLeaf, User, SpoilRoot,
                CreateCluster, DeleteCluster, Toggle, SpoilLeaf
  <1> QED BY <1>1, <1>2, <1>3 DEF Shape

-----------------------------------------------------------------------------
\* The certificate in every Secret verifies with the authority that is beside it
\* (KeysMatch), however reconciles of different clusters, expiration, users and the
\* garbage collector interleave: a Secret is written in one piece, from the key that
\* this reconcile applied, whatever the root has become since.
THEOREM CertificatesVerify == Spec => []KeysMatch
  <1>1. Init => KeysIInv
    BY ShapeInit DEF Init, KeysIInv, KeysMatch, NoLeaf
  <1>2. KeysIInv /\ [Next]_vars => KeysIInv'
    <2> SUFFICES ASSUME Shape, KeysMatch, [Next]_vars PROVE KeysMatch'
      BY ShapeNext DEF KeysIInv
    <2>1. NoLeaf.signer = NoLeaf.ca
      BY DEF NoLeaf
    <2>2. ASSUME NEW c \in Clusters, ReconcileLeaves(c) PROVE KeysMatch'
      <3>1. \A k \in KindSet : LeafSecret(c, k).signer = LeafSecret(c, k).ca
        BY LeafSecretFields
      <3>2. \A k \in KindSet : leaf'[c][k].signer = leaf'[c][k].ca
        BY <2>1, <2>2, <3>1, ReconcileLeavesSecrets DEF KeysMatch
      <3>3. \A d \in Clusters : d # c => leaf'[d] = leaf[d]
        BY <2>2, ReconcileLeavesSecrets
      <3> QED BY <3>2, <3>3 DEF KeysMatch
    <2>3. CASE \A c \in Clusters : ~ReconcileLeaves(c)
      BY <2>1, <2>3, OtherStepsSecrets DEF KeysMatch
    <2> QED BY <2>2, <2>3
  <1>3. KeysIInv => KeysMatch
    BY DEF KeysIInv
  <1> QED BY <1>1, <1>2, <1>3, PTL DEF Spec

-----------------------------------------------------------------------------
\* Names are used again, uids are not: a Secret that outlives its cluster does not
\* belong to the next cluster of that name.
UidsUnique ==
    /\ uid \in [Clusters -> Nat] /\ born \in [Clusters -> Nat]
    /\ \A c \in Clusters : uid[c] \in {0, born[c]}
    /\ \A c \in Clusters, k \in KindSet : leaf[c][k].owner \in 0..born[c]

\* Only clusters that exist are reconciled, and a reconcile that writes leaves has
\* made its cluster an owner of the root: it still is, or was dropped since.
OwnerBeforeLeaves ==
    \A c \in Clusters :
        /\ op[c].pc # "idle" => Exists(c)
        /\ op[c].pc = "leaves" => Owner(c) \in root.owners \cup dropped

OwnersIInv == Shape /\ UidsUnique /\ OwnerBeforeLeaves /\ OwnersKept

\* No step takes the ownership of the root from a cluster that exists without telling
\* so in "dropped".  Applying the root over a newer one is what drops owners.
LEMMA OwnerStays ==
    ASSUME Shape, [Next]_vars, NEW c \in Clusters, uid'[c] = uid[c], Exists(c),
           Owner(c) \in root.owners \cup dropped
    PROVE  Owner(c)' \in root'.owners \cup dropped'
  <1>1. Owner(c)' = Owner(c) /\ Owner(c) \in Alive /\ Owner(c)[1] = c
    BY DEF Owner, Alive
  <1>2. CASE UNCHANGED <<root, dropped>>
    BY <1>1, <1>2
  <1>3. CASE CollectRoot
    <2>1. dropped' = dropped
      BY <1>3 DEF CollectRoot
    <2>2. CASE root.owners \cap Alive = {}
      BY <1>1, <2>1, <2>2
    <2>3. CASE root.owners \cap Alive # {}
      <3>1. root' = [root EXCEPT !.owners = root.owners \cap Alive]
        BY <1>3, <2>3 DEF CollectRoot
      <3>2. root'.owners = root.owners \cap Alive
        BY <3>1 DEF Shape, RootFields
      <3> QED BY <1>1, <2>1, <3>2
    <2> QED BY <2>2, <2>3
  <1>4. CASE SpoilRoot
    <2>1. CASE root' = [root EXCEPT !.good = FALSE] /\ dropped' = dropped
      <3>1. root'.owners = root.owners
        BY <2>1 DEF Shape, RootFields
      <3> QED BY <1>1, <2>1, <3>1
    <2>2. CASE dropped' = Alive
      BY <1>1, <2>2
    <2> QED BY <1>4, <2>1, <2>2 DEF SpoilRoot
  <1>5. ASSUME NEW d \in Clusters, ReconcileRootCertificate(d)
        PROVE  Owner(c)' \in root'.owners \cup dropped'
    <2> DEFINE seen == op[d].seen
    <2>1. root'.owners = {o \in seen.owners : o[1] # d} \cup {Owner(d)}
      BY <1>5 DEF ReconcileRootCertificate, RootIntent, SetOwnerReference
    <2>2. dropped' = (dropped \ {Owner(d)}) \cup
                     (IF seen = root THEN {} ELSE (root.owners \cap Alive) \ root'.owners)
      BY <1>5 DEF ReconcileRootCertificate
    <2>3. CASE c = d
      BY <1>1, <2>1, <2>3
    <2>4. CASE c # d
      <3>1. Owner(c) # Owner(d)
        BY <2>4 DEF Owner
      <3>2. seen = root => seen.owners = root.owners
        OBVIOUS
      <3> HIDE DEF seen
      <3> QED BY <1>1, <2>1, <2>2, <2>4, <3>1, <3>2
    <2> QED BY <2>3, <2>4
  <1> QED BY <1>2, <1>3, <1>4, <1>5
          DEF Next, vars, Sync, Collector, CollectLeaf, User, CreateCluster, DeleteCluster,
              Toggle, SpoilLeaf, Operator, Reconcile, ReconcileLeaves, Resync, Abandon

LEMMA OwnersInit == Init => OwnersIInv
  BY ShapeInit, CertificatesAssumption
     DEF Init, OwnersIInv, UidsUnique, OwnerBeforeLeaves, OwnersKept, NoLeaf, Idle, Exists

\* A cluster comes into being with a uid of its own, without a reconcile and without
\* Secrets, and none is being reconciled when it goes.
LEMMA UidSteps ==
    ASSUME OwnersIInv, [Next]_vars, NEW c \in Clusters, uid'[c] # uid[c]
    PROVE  /\ op'[c] = op[c] /\ op[c].pc = "idle" /\ leaf' = leaf
           /\ uid'[c] # 0 => \A k \in KindSet : leaf[c][k].owner # uid'[c]
  <1>1. PICK d \in Edited : CreateCluster(d) \/ DeleteCluster(d)
    BY DEF Next, vars, Sync, Collector, CollectRoot, CollectLeaf, User, SpoilRoot, Toggle, SpoilLeaf,
           Operator, Reconcile, ReconcileRootCertificate, ReconcileLeaves, Resync, Abandon
  <1>2. c = d /\ op' = op /\ leaf' = leaf
    BY <1>1, EditedAreClusters DEF CreateCluster, DeleteCluster, OwnersIInv, UidsUnique
  <1>3. CASE CreateCluster(d)
    <2>1. uid'[c] = born[c] + 1 /\ born[c] \in Nat
      BY <1>2, <1>3 DEF CreateCluster, OwnersIInv, UidsUnique
    <2>2. op[c].pc = "idle"
      BY <1>2, <1>3 DEF CreateCluster, OwnersIInv, OwnerBeforeLeaves
    <2> QED BY <1>2, <2>1, <2>2 DEF OwnersIInv, UidsUnique
  <1>4. CASE DeleteCluster(d)
    BY <1>2, <1>4 DEF DeleteCluster, OwnersIInv, UidsUnique
  <1> QED BY <1>1, <1>3, <1>4

LEMMA UidsNext == OwnersIInv /\ [Next]_vars => UidsUnique'
  <1> SUFFICES ASSUME OwnersIInv, [Next]_vars PROVE UidsUnique'
    OBVIOUS
  <1> USE DEF OwnersIInv
  <1>1. /\ uid' \in [Clusters -> Nat] /\ born' \in [Clusters -> Nat]
        /\ \A c \in Clusters : uid'[c] \in {0, born'[c]} /\ born'[c] >= born[c]
    <2>1. CASE UNCHANGED <<uid, born>>
      BY <2>1 DEF UidsUnique
    <2>2. CASE \E c \in Edited : CreateCluster(c) \/ DeleteCluster(c)
      BY <2>2, EditedAreClusters DEF CreateCluster, DeleteCluster, UidsUnique
    <2> QED BY <2>1, <2>2
            DEF Next, vars, Sync, Collector, CollectRoot, CollectLeaf, User, SpoilRoot, Toggle,
                SpoilLeaf, Operator, Reconcile, ReconcileRootCertificate, ReconcileLeaves, Resync,
                Abandon
  <1>2. \A c \in Clusters, k \in KindSet : leaf'[c][k].owner \in 0..born[c]
    <2>1. NoLeaf.owner = 0
      BY DEF NoLeaf
    <2>2. \A c \in Clusters : 0 \in 0..born[c] /\ uid[c] \in 0..born[c]
      BY DEF UidsUnique
    <2>3. \A c \in Clusters, k \in KindSet : LeafSecret(c, k).owner = uid[c]
      BY LeafSecretFields
    <2>4. CASE \E d \in Clusters : ReconcileLeaves(d)
      <3>0. PICK d \in Clusters : ReconcileLeaves(d)
        BY <2>4
      <3>1. \A k \in KindSet : leaf'[d][k].owner \in 0..born[d]
        BY <2>1, <2>2, <2>3, <3>0, ReconcileLeavesSecrets DEF UidsUnique
      <3>2. \A c \in Clusters : c # d => leaf'[c] = leaf[c]
        BY <3>0, ReconcileLeavesSecrets
      <3> QED BY <3>1, <3>2 DEF UidsUnique
    <2>5. CASE \A d \in Clusters : ~ReconcileLeaves(d)
      BY <2>1, <2>2, <2>5, OtherStepsSecrets DEF UidsUnique
    <2> QED BY <2>4, <2>5
  <1>3. \A c \in Clusters : 0..born[c] \subseteq 0..born'[c]
    BY <1>1 DEF UidsUnique
  <1> QED BY <1>1, <1>2, <1>3 DEF UidsUnique

\* Where a reconcile is: it begins for a cluster that exists, and comes to the leaves by
\* applying the root.
LEMMA OpSteps ==
    ASSUME Shape, [Next]_vars, NEW c \in Clusters
    PROVE  /\ op'[c].pc # "idle" => op[c].pc # "idle" \/ Exists(c)
           /\ op'[c].pc = "leaves" => op[c].pc = "leaves" \/ ReconcileRootCertificate(c)
  <1>1. CASE op' = op
    BY <1>1
  <1>2. ASSUME NEW d \in Clusters, Operator(d) \/ Abandon(d)
        PROVE  /\ op'[c].pc # "idle" => op[c].pc # "idle" \/ Exists(c)
               /\ op'[c].pc = "leaves" => op[c].pc = "leaves" \/ ReconcileRootCertificate(c)
    <2>1. CASE c # d
      <3>1. op'[c] = op[c]
        BY <1>2, <2>1 DEF Shape, Operator, Reconcile, ReconcileRootCertificate, ReconcileLeaves,
                          Resync, Abandon
      <3> QED BY <3>1
    <2>2. CASE c = d
      <3>1. CASE Reconcile(c)
        BY <3>1 DEF Reconcile, Shape
      <3>2. CASE ReconcileRootCertificate(c)
        BY <3>2 DEF ReconcileRootCertificate
      <3>3. CASE ReconcileLeaves(c) \/ Abandon(c)
        <4>1. op'[c] = Idle
          BY <3>3 DEF ReconcileLeaves, Abandon, Shape
        <4> QED BY <4>1 DEF Idle
      <3>4. CASE Resync(c)
        BY <3>4 DEF Resync
      <3> QED BY <1>2, <2>2, <3>1, <3>2, <3>3, <3>4 DEF Operator
    <2> QED BY <2>1, <2>2
  <1> QED BY <1>1, <1>2
          DEF Next, vars, Sync, Collector, CollectRoot, CollectLeaf, User, SpoilRoot, CreateCluster,
              DeleteCluster, Toggle, SpoilLeaf

LEMMA OwnersNext == OwnersIInv /\ [Next]_vars => OwnersIInv'
  <1> SUFFICES ASSUME OwnersIInv, [Next]_vars PROVE OwnerBeforeLeaves' /\ OwnersKept'
    BY ShapeNext, UidsNext DEF OwnersIInv
  <1> USE DEF OwnersIInv
  <1>1. OwnerBeforeLeaves'
    <2> SUFFICES ASSUME NEW c \in Clusters, op'[c].pc # "idle"
                 PROVE  /\ Exists(c)'
                        /\ op'[c].pc = "leaves" => Owner(c)' \in root'.owners \cup dropped'
      BY DEF OwnerBeforeLeaves
    <2>1. uid'[c] = uid[c]
      BY UidSteps
    <2>2. Exists(c) /\ Exists(c)'
      BY <2>1, OpSteps DEF OwnerBeforeLeaves, Exists
    <2>3. CASE op[c].pc = "leaves"
      BY <2>1, <2>2, <2>3, OwnerStays DEF OwnerBeforeLeaves
    <2>4. CASE ReconcileRootCertificate(c)
      BY <2>2, <2>4
         DEF ReconcileRootCertificate, RootIntent, SetOwnerReference, Owner
    <2> QED BY <2>2, <2>3, <2>4, OpSteps
  <1>2. OwnersKept'
    <2> SUFFICES ASSUME NEW c \in Clusters, Exists(c)',
                        NEW k \in KindSet, leaf'[c][k].owner = uid'[c]
                 PROVE  Owner(c)' \in root'.owners \cup dropped'
      BY DEF OwnersKept
    <2>1. uid'[c] = uid[c] /\ Exists(c)
      BY UidSteps DEF Exists
    <2>2. Owner(c) \in root.owners \cup dropped
      <3>1. CASE leaf[c][k].owner = uid[c]
        BY <2>1, <3>1 DEF OwnersKept
      <3>2. CASE op[c].pc = "leaves"
        BY <3>2 DEF OwnerBeforeLeaves
      <3>3. leaf[c][k].owner = uid[c] \/ op[c].pc = "leaves"
        <4>1. NoLeaf.owner = 0 /\ uid[c] # 0
          BY <2>1 DEF NoLeaf, Exists
        <4>2. CASE \E d \in Clusters : ReconcileLeaves(d)
          <5>0. PICK d \in Clusters : ReconcileLeaves(d)
            BY <4>2
          <5>1. op[d].pc = "leaves" /\ (c # d => leaf'[c] = leaf[c])
            BY <5>0, ReconcileLeavesSecrets DEF ReconcileLeaves
          <5> QED BY <2>1, <5>1
        <4>3. CASE \A d \in Clusters : ~ReconcileLeaves(d)
          BY <2>1, <4>1, <4>3, OtherStepsSecrets
        <4> QED BY <4>2, <4>3
      <3> QED BY <3>1, <3>2, <3>3
    <2> QED BY <2>1, <2>2, OwnerStays
  <1> QED BY <1>1, <1>2

\* A cluster that has certificates is an owner of the root, or lost that to a reconcile
\* of another cluster with an outdated copy or to a user (OwnersKept), for any number of
\* clusters: a reconcile becomes an owner before it writes a leaf, and leaves of an
\* earlier cluster of the same name do not count.
THEOREM OwnersAreKept == Spec => []OwnersKept
  <1>1. OwnersIInv => OwnersKept
    BY DEF OwnersIInv
  <1> QED BY <1>1, OwnersInit, OwnersNext, PTL DEF Spec
=============================================================================
