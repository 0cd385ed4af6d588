---------------------------- MODULE UpgradeProofs ----------------------------
(***************************************************************************)
(* Proofs about Upgrade for any number of instances and upgrades, any      *)
(* versions, restarts and faults, and a user who is careful.               *)
(***************************************************************************)
EXTENDS Upgrade, FiniteSetTheorems, TLAPS

\* What a reconcile may have left to write: Jobs come first, its own status last.
JobWrites == {"upgradeJob", "removeDataJobs"}
WriteLists ==
    {l \in Seq(Writes) :
       /\ Len(l) >= 1 /\ l[Len(l)] = "status"
       /\ \A k \in 1..Len(l) : (k < Len(l) => l[k] # "status") /\ (k > 1 => l[k] \notin JobWrites)}
Work == [upgrade : Upgrades \cup {None}, writes : WriteLists \cup {<<>>},
         primary : Instances \cup {None}, replicas : SUBSET Instances,
         progressing : Reasons, succeeded : {"", "Succeeded", "Failed"}]
Observations == [at : {"idle", "apply", "failed"}, spec : Spec_, pods : SUBSET Instances,
                 startup : Instances \cup {None}]

Types ==
    /\ spec \in Spec_ /\ status \in Status
    /\ want \in [Instances -> 0..1]
    /\ pods \in [Instances -> Versions \cup {0}]
    /\ leader \in Instances \cup {None} /\ last \in Instances
    /\ data \in [Instances -> SUBSET Versions]
    /\ identifier \in Versions \cup {0}
    /\ ups \in [Upgrades -> PGUpgrade]
    /\ upJob \in [Upgrades -> [state : JobStates, on : Instances \cup {None}]]
    /\ rmJob \in [Upgrades -> [Instances -> JobStates]]
    /\ backupJob \in Versions \cup {0}
    /\ queue \in SUBSET Upgrades
    /\ w \in Work /\ (w = Idle \/ (w.upgrade \in Upgrades /\ w.writes \in WriteLists))
    /\ c \in Observations
    /\ truth \in Versions /\ kept \in BOOLEAN
    /\ starts \in 0..MaxStarts /\ errors \in 0..MaxFaults /\ crashes \in 0..MaxFaults

LEMMA Constants_ ==
    /\ Versions \subseteq Nat /\ Oldest \in Versions /\ NoSpec \in Spec_
    /\ \A u \in Upgrades : To[u] \in Versions /\ To[u] \in Nat /\ From[u] \in Nat
    /\ Idle \in Work /\ NoReconcile \in Observations /\ None \notin Instances
    /\ None \notin Upgrades /\ First \in Instances
    /\ NoJob \in [state : JobStates, on : Instances \cup {None}]
    /\ NoUpgrade \in PGUpgrade
  <1>1. /\ Versions \subseteq Nat /\ Oldest \in Versions
        /\ \A u \in Upgrades : To[u] \in Versions /\ To[u] \in Nat /\ From[u] \in Nat
    BY UpgradeAssumption DEF Versions
  <1>2. NoSpec \in Spec_
    BY <1>1 DEF NoSpec, Spec_
  <1>3. Idle \in Work
    BY DEF Idle, Work, Reasons
  <1>4. NoReconcile \in Observations
    BY <1>2 DEF NoReconcile, Observations
  <1> QED BY <1>1, <1>2, <1>3, <1>4, UpgradeAssumption
          DEF NoJob, JobStates, NoUpgrade, PGUpgrade, Reasons

\* After each write the rest is left, and no Jobs.
LEMMA Lists ==
    ASSUME NEW l \in WriteLists
    PROVE  /\ Head(l) \in Writes
           /\ Head(l) # "status" => Tail(l) \in WriteLists /\ Head(Tail(l)) \notin JobWrites
  <1> USE DEF WriteLists
  <1>0. l \in Seq(Writes) /\ Len(l) >= 1
    OBVIOUS
  <1>1. l \in Seq(Writes) /\ Len(l) >= 1 /\ Len(l) \in Nat /\ Head(l) = l[1] /\ Head(l) \in Writes
    <2> HIDE DEF WriteLists
    <2> QED BY <1>0
  <1>2. ASSUME Head(l) # "status" PROVE Tail(l) \in WriteLists /\ Head(Tail(l)) \notin JobWrites
    <2>1. Len(l) >= 2
      BY <1>1, <1>2
    <2>2. Tail(l) \in Seq(Writes) /\ Len(Tail(l)) = Len(l) - 1
      BY <1>1, <2>1
    <2>3. \A k \in 1..Len(Tail(l)) : Tail(l)[k] = l[k + 1] /\ k + 1 \in 1..Len(l)
      BY <1>1, <2>1, <2>2
    <2>4. Head(Tail(l)) = l[2]
      BY <1>1, <2>1, <2>2, <2>3
    <2>5. Tail(l)[Len(Tail(l))] = "status"
      BY <1>1, <2>1, <2>2, <2>3
    <2>6. \A k \in 1..Len(Tail(l)) : (k < Len(Tail(l)) => Tail(l)[k] # "status")
                                     /\ (k > 1 => Tail(l)[k] \notin JobWrites)
      BY <1>1, <2>1, <2>2, <2>3
    <2>7. l[2] \notin JobWrites /\ Len(Tail(l)) >= 1
      BY <1>1, <2>1, <2>2
    <2> DEFINE t == Tail(l)
    <2> HIDE DEF t, WriteLists
    <2>8. t \in WriteLists
      <3>1. /\ t \in Seq(Writes) /\ Len(t) >= 1 /\ t[Len(t)] = "status"
            /\ \A k \in 1..Len(t) : (k < Len(t) => t[k] # "status") /\ (k > 1 => t[k] \notin JobWrites)
        BY <2>2, <2>5, <2>6, <2>7 DEF t
      <3> QED BY <3>1 DEF WriteLists
    <2> QED BY <2>4, <2>7, <2>8 DEF t
  <1> QED BY <1>1, <1>2

\* What a reconcile plans to write.
LEMMA Plans ==
    ASSUME NEW u \in Upgrades
    PROVE  /\ Plan(u) \o <<"status">> \in WriteLists /\ <<>> \o <<"status">> \in WriteLists
           /\ Head(<<>> \o <<"status">>) = "status"
           /\ Head(Plan(u) \o <<"status">>) = "upgradeJob" =>
                ~ JobsFailed(u) /\ ~ jobCompleted(upJob[u].state)
           /\ Head(Plan(u) \o <<"status">>) = "removeDataJobs" =>
                ~ JobsFailed(u) /\ jobCompleted(upJob[u].state)
  <1> DEFINE clear == IF identifier # 0 THEN <<"endpoints">> ELSE <<>>
             Prefix(l) == /\ l \in Seq(Writes)
                          /\ \A k \in 1..Len(l) : l[k] # "status" /\ (k > 1 => l[k] \notin JobWrites)
  <1>1. ASSUME NEW l, Prefix(l)
        PROVE  l \o <<"status">> \in WriteLists
               /\ Head(l \o <<"status">>) = IF Len(l) = 0 THEN "status" ELSE l[1]
    <2> DEFINE s == l \o <<"status">>
    <2>1. <<"status">> \in Seq(Writes) /\ Len(<<"status">>) = 1 /\ <<"status">>[1] = "status"
      BY DEF Writes
    <2>2. s \in Seq(Writes) /\ Len(s) = Len(l) + 1 /\ Len(l) \in Nat
      BY <1>1, <2>1
    <2>3. \A k \in 1..Len(s) : s[k] = IF k <= Len(l) THEN l[k] ELSE <<"status">>[k - Len(l)]
      BY <1>1, <2>1, <2>2
    <2>4. s[Len(s)] = "status"
      BY <2>1, <2>2, <2>3
    <2>5. \A k \in 1..Len(s) : (k < Len(s) => s[k] # "status") /\ (k > 1 => s[k] \notin JobWrites)
      BY <1>1, <2>1, <2>2, <2>3 DEF JobWrites
    <2> HIDE DEF s
    <2>6. Head(s) = s[1]
      BY <2>2
    <2>7. Head(s) = IF Len(l) = 0 THEN "status" ELSE l[1]
      BY <2>1, <2>2, <2>3, <2>6
    <2>8. s \in WriteLists
      BY <2>2, <2>4, <2>5 DEF WriteLists
    <2> QED BY <2>7, <2>8 DEF s
  <1>2. Prefix(<<>>) /\ Len(<<>>) = 0 /\ Prefix(<<"backupJobs", "clusterStatus">>)
    BY DEF Writes, JobWrites
  <1>3. ASSUME NEW a \in JobWrites
        PROVE  Prefix(<<a>> \o clear) /\ (<<a>> \o clear)[1] = a /\ Len(<<a>> \o clear) >= 1
    <2>1. <<a>> \in Seq(Writes) /\ Len(<<a>>) = 1 /\ <<a>>[1] = a /\ a # "status"
      BY <1>3 DEF JobWrites, Writes
    <2>2. clear \in Seq(Writes) /\ Len(clear) \in 0..1 /\ (Len(clear) = 1 => clear[1] = "endpoints")
      <3>1. CASE clear = <<>>
        BY <3>1
      <3>2. CASE clear = <<"endpoints">>
        <4>1. <<"endpoints">> \in Seq(Writes) /\ Len(<<"endpoints">>) = 1
              /\ <<"endpoints">>[1] = "endpoints"
          BY DEF Writes
        <4> HIDE DEF clear
        <4> QED BY <3>2, <4>1
      <3> QED BY <3>1, <3>2
    <2> HIDE DEF clear
    <2> DEFINE s == <<a>> \o clear
    <2>3. s \in Seq(Writes) /\ Len(s) = 1 + Len(clear)
      BY <2>1, <2>2
    <2>4. \A k \in 1..Len(s) : s[k] = IF k <= 1 THEN <<a>>[k] ELSE clear[k - 1]
      BY <2>1, <2>2, <2>3
    <2>5. \A k \in 1..Len(s) : s[k] # "status" /\ (k > 1 => s[k] \notin JobWrites)
      BY <2>1, <2>2, <2>3, <2>4 DEF JobWrites
    <2> QED BY <2>1, <2>2, <2>3, <2>4, <2>5
  <1>4. \/ Plan(u) = <<>>
        \/ Plan(u) = <<"backupJobs", "clusterStatus">>
        \/ ~ JobsFailed(u) /\ jobCompleted(upJob[u].state) /\ Plan(u) = <<"removeDataJobs">> \o clear
        \/ ~ JobsFailed(u) /\ ~ jobCompleted(upJob[u].state) /\ Plan(u) = <<"upgradeJob">> \o clear
    BY DEF Plan
  <1> HIDE DEF clear, Prefix
  <1>5. CASE Plan(u) = <<>>
    BY <1>1, <1>2, <1>5
  <1>6. CASE Plan(u) = <<"backupJobs", "clusterStatus">>
    <2>1. Len(Plan(u)) = 2 /\ Plan(u)[1] = "backupJobs"
      BY <1>6
    <2>2. Plan(u) \o <<"status">> \in WriteLists /\ Head(Plan(u) \o <<"status">>) = "backupJobs"
      BY <1>1, <1>2, <1>6, <2>1
    <2> QED BY <1>1, <1>2, <2>2
  <1>7. ASSUME NEW a \in JobWrites, Plan(u) = <<a>> \o clear
        PROVE  Plan(u) \o <<"status">> \in WriteLists /\ Head(Plan(u) \o <<"status">>) = a
    BY <1>1, <1>3, <1>7
  <1> QED BY <1>1, <1>2, <1>4, <1>5, <1>6, <1>7 DEF JobWrites

-----------------------------------------------------------------------------
LEMMA TypesInit == Init => Types
  <1> SUFFICES ASSUME Init PROVE Types
    OBVIOUS
  <1>1. spec \in Spec_
    <2>1. PICK e \in BOOLEAN : spec = [NoSpec EXCEPT !.exists = e]
      BY DEF Init
    <2> QED BY <2>1, Constants_ DEF Spec_
  <1>2. status \in Status
    BY DEF Init, Status
  <1>3. /\ want \in [Instances -> 0..1] /\ pods \in [Instances -> Versions \cup {0}]
        /\ leader \in Instances \cup {None} /\ last \in Instances
        /\ data \in [Instances -> SUBSET Versions] /\ identifier \in Versions \cup {0}
        /\ backupJob \in Versions \cup {0} /\ queue \in SUBSET Upgrades /\ truth \in Versions
    BY Constants_ DEF Init
  <1>4. /\ ups \in [Upgrades -> PGUpgrade]
        /\ upJob \in [Upgrades -> [state : JobStates, on : Instances \cup {None}]]
        /\ w \in Work /\ w = Idle /\ c \in Observations
    BY Constants_ DEF Init
  <1>5. rmJob \in [Upgrades -> [Instances -> JobStates]]
    BY DEF Init, JobStates
  <1>6. starts \in 0..MaxStarts /\ errors \in 0..MaxFaults /\ crashes \in 0..MaxFaults
    BY UpgradeAssumption DEF Init
  <1>7. kept \in BOOLEAN
    BY DEF Init
  <1> QED BY <1>1, <1>2, <1>3, <1>4, <1>5, <1>6, <1>7 DEF Types

\* A write of the controller: what is left of the list.
LEMMA WriteType ==
    ASSUME Types, NEW step, step # "status", Writing(step), NextWrite
    PROVE  /\ w' \in Work /\ w'.upgrade = w.upgrade /\ w.upgrade \in Upgrades /\ w' # Idle
           /\ w'.succeeded = w.succeeded
           /\ w'.writes \in WriteLists /\ Head(w'.writes) \notin JobWrites
  <1>1. w # Idle /\ Head(w.writes) = step /\ w.writes \in WriteLists /\ w.upgrade \in Upgrades /\ w \in Work
    BY DEF Writing, Types
  <1>2. Tail(w.writes) \in WriteLists /\ Head(Tail(w.writes)) \notin JobWrites
    BY <1>1, Lists
  <1>3. w' = [w EXCEPT !.writes = Tail(w.writes)]
    BY DEF NextWrite
  <1>4. Idle.upgrade = None /\ None \notin Upgrades
    BY Constants_ DEF Idle
  <1> QED BY <1>1, <1>2, <1>3, <1>4 DEF Work

\* The same when it is one of the remove-data Jobs, perhaps not the last.
LEMMA RemoveType ==
    ASSUME Types, NEW i \in Instances, ApplyRemoveDataJob(i)
    PROVE  /\ w' \in Work /\ w # Idle /\ w' # Idle
           /\ w'.upgrade = w.upgrade /\ w.upgrade \in Upgrades
           /\ w'.succeeded = w.succeeded /\ w'.primary = w.primary
           /\ i \in w.replicas /\ w'.replicas \subseteq w.replicas
           /\ w'.writes \in WriteLists /\ Head(w.writes) = "removeDataJobs"
           /\ w'.writes = w.writes \/ (w'.writes = Tail(w.writes) /\ Head(w'.writes) \notin JobWrites)
  <1>1. /\ w # Idle /\ Head(w.writes) = "removeDataJobs" /\ w.writes \in WriteLists
        /\ w.upgrade \in Upgrades /\ w \in Work /\ i \in w.replicas
    BY DEF ApplyRemoveDataJob, Writing, Types
  <1>2. Tail(w.writes) \in WriteLists /\ Head(Tail(w.writes)) \notin JobWrites
    BY <1>1, Lists
  <1>3. PICK l \in {w.writes, Tail(w.writes)} :
             w' = [w EXCEPT !.replicas = w.replicas \ {i}, !.writes = l]
    BY DEF ApplyRemoveDataJob
  <1>4. /\ w' \in Work /\ w'.upgrade = w.upgrade /\ w'.succeeded = w.succeeded /\ w'.primary = w.primary
        /\ w'.replicas = w.replicas \ {i} /\ w'.writes = l
    BY <1>1, <1>2, <1>3 DEF Work
  <1>5. Idle.upgrade = None /\ None \notin Upgrades
    BY Constants_ DEF Idle
  <1> QED BY <1>1, <1>2, <1>3, <1>4, <1>5

\* And when it fails: the next one is tried, or only the status.
LEMMA FailType ==
    ASSUME Types, WriteFails
    PROVE  /\ w' \in Work /\ w # Idle /\ w' # Idle
           /\ w'.upgrade = w.upgrade /\ w.upgrade \in Upgrades /\ w'.succeeded = w.succeeded
           /\ w'.writes \in WriteLists /\ Head(w'.writes) \notin JobWrites
           /\ w'.writes = Tail(w.writes) \/ w'.writes = <<"status">>
           /\ w.writes \in WriteLists /\ Head(w.writes) # "status"
           /\ Head(w.writes) = "endpoints" => kept'
           /\ kept => kept'
           /\ errors' \in 0..MaxFaults
  <1>1. /\ w # Idle /\ w.writes \in WriteLists /\ w.upgrade \in Upgrades /\ w \in Work
        /\ Head(w.writes) # "status" /\ (Head(w.writes) = "endpoints" => kept')
        /\ kept => kept'
    BY DEF WriteFails, Types
  <1>2. Tail(w.writes) \in WriteLists /\ Head(Tail(w.writes)) \notin JobWrites
    BY <1>1, Lists
  <1>3. <<"status">> \in WriteLists /\ Head(<<"status">>) \notin JobWrites
    <2>1. /\ <<"status">> \in Seq(Writes) /\ Len(<<"status">>) = 1 /\ <<"status">>[1] = "status"
          /\ Head(<<"status">>) = "status"
      BY DEF Writes
    <2> DEFINE s == <<"status">>
    <2> HIDE DEF s
    <2>2. s \in WriteLists
      <3>1. s \in Seq(Writes) /\ Len(s) = 1 /\ s[1] = "status"
        BY <2>1 DEF s
      <3>2. \A k \in 1..Len(s) : k = 1
        BY <3>1
      <3>3. /\ Len(s) >= 1 /\ s[Len(s)] = "status"
            /\ \A k \in 1..Len(s) : (k < Len(s) => s[k] # "status") /\ (k > 1 => s[k] \notin JobWrites)
        BY <3>1, <3>2
      <3> QED BY <3>1, <3>3 DEF WriteLists
    <2> QED BY <2>1, <2>2 DEF s, JobWrites
  <1>4. PICK l : /\ l = Tail(w.writes) \/ l = <<"status">>
                 /\ w' = [w EXCEPT !.writes = l]
    BY DEF WriteFails, NextWrite
  <1>5. l \in WriteLists /\ Head(l) \notin JobWrites
    BY <1>2, <1>3, <1>4
  <1>6. w' \in Work /\ w'.upgrade = w.upgrade /\ w'.succeeded = w.succeeded /\ w'.writes = l
    BY <1>1, <1>4, <1>5 DEF Work
  <1>7. Idle.upgrade = None /\ None \notin Upgrades
    BY Constants_ DEF Idle
  <1>8. errors' \in 0..MaxFaults
    BY UpgradeAssumption DEF WriteFails, Types
  <1> QED BY <1>1, <1>4, <1>5, <1>6, <1>7, <1>8

\* What Reconcile decides to write.
LEMMA ReconcileType ==
    ASSUME Types, NEW u \in Upgrades, Reconcile(u), w' # w
    PROVE  /\ w' \in Work /\ w'.upgrade = u /\ w'.writes \in WriteLists
           /\ ups[u].exists /\ ups[u].succeeded # "Succeeded" /\ w'.succeeded = Succeeded(u)
           /\ w'.replicas = ClusterReplicas /\ w'.primary = status.startup
           /\ Head(w'.writes) \in JobWrites => Blocked(u) = "" /\ ~ JobsFailed(u)
           /\ Head(w'.writes) = "upgradeJob" => ~ jobCompleted(upJob[u].state)
           /\ Head(w'.writes) = "removeDataJobs" => jobCompleted(upJob[u].state)
  <1> DEFINE l == (IF Blocked(u) = "" THEN Plan(u) ELSE <<>>) \o <<"status">>
  <1>1. /\ ups[u].exists /\ ups[u].succeeded # "Succeeded"
        /\ w' = [upgrade |-> u, writes |-> l, primary |-> status.startup, replicas |-> ClusterReplicas,
                 progressing |-> Progressing(u), succeeded |-> Succeeded(u)]
    BY DEF Reconcile
  <1>2. /\ l \in WriteLists
        /\ Head(l) \in JobWrites => Blocked(u) = "" /\ ~ JobsFailed(u)
        /\ Head(l) = "upgradeJob" => ~ jobCompleted(upJob[u].state)
        /\ Head(l) = "removeDataJobs" => jobCompleted(upJob[u].state)
    BY Plans DEF JobWrites
  <1> HIDE DEF l
  <1>3. ClusterReplicas \in SUBSET Instances /\ status.startup \in Instances \cup {None}
    BY DEF ClusterReplicas, Types, Status
  <1>4. Progressing(u) \in Reasons
    BY DEF Progressing, Reasons, Blocked
  <1>5. Succeeded(u) \in {"", "Succeeded", "Failed"}
    BY DEF Succeeded, Types, PGUpgrade
  <1> QED BY <1>1, <1>2, <1>3, <1>4, <1>5 DEF Work

LEMMA TypesController == Types /\ Controller => Types'
  <1> SUFFICES ASSUME Types, Controller PROVE Types'
    OBVIOUS
  <1>1. ASSUME NEW u \in Upgrades, Reconcile(u) PROVE Types'
    <2>1. CASE w' = w
      BY <1>1, <2>1 DEF Types, Reconcile, clusterVars, jobVars, countVars, patroniVars
    <2>2. CASE w' # w
      BY <1>1, <2>2, ReconcileType DEF Types, Reconcile, clusterVars, jobVars, countVars, patroniVars
    <2> QED BY <2>1, <2>2
  <1>2. CASE ApplyUpgradeJob
    <2>1. Writing("upgradeJob") /\ NextWrite /\ w.primary \in Instances \cup {None}
      BY <1>2 DEF ApplyUpgradeJob, Types, Work
    <2>2. w' \in Work /\ w'.upgrade \in Upgrades /\ w'.writes \in WriteLists /\ w.upgrade \in Upgrades
      BY <2>1, WriteType
    <2>3. upJob' \in [Upgrades -> [state : JobStates, on : Instances \cup {None}]]
      BY <1>2, <2>1 DEF ApplyUpgradeJob, Types, JobStates
    <2>4. queue' \in SUBSET Upgrades
      BY <1>2, <2>2 DEF ApplyUpgradeJob, Enqueue, Types
    <2> QED BY <1>2, <2>2, <2>3, <2>4 DEF Types, ApplyUpgradeJob, clusterVars, countVars, patroniVars
  <1>3. ASSUME NEW i \in Instances, ApplyRemoveDataJob(i) PROVE Types'
    <2>1. w' \in Work /\ w'.upgrade \in Upgrades /\ w'.writes \in WriteLists /\ w.upgrade \in Upgrades
      BY <1>3, RemoveType
    <2>2. rmJob' \in [Upgrades -> [Instances -> JobStates]]
      BY <1>3 DEF ApplyRemoveDataJob, Types, JobStates
    <2>3. queue' \in SUBSET Upgrades
      BY <1>3, <2>1 DEF ApplyRemoveDataJob, Enqueue, Types
    <2> QED BY <1>3, <2>1, <2>2, <2>3 DEF Types, ApplyRemoveDataJob, clusterVars, countVars, patroniVars
  <1>4. CASE DeleteEndpoints \/ DeleteBackupJobs \/ PatchClusterStatus
    <2>1. PICK step \in {"endpoints", "backupJobs", "clusterStatus"} : Writing(step) /\ NextWrite
      BY <1>4 DEF DeleteEndpoints, DeleteBackupJobs, PatchClusterStatus
    <2>2. w' \in Work /\ w'.upgrade \in Upgrades /\ w'.writes \in WriteLists /\ w.upgrade \in Upgrades
      BY <2>1, WriteType
    <2>3. CASE DeleteEndpoints
      BY <2>2, <2>3 DEF Types, DeleteEndpoints, clusterVars, jobVars, countVars, patroniVars
    <2>4. CASE DeleteBackupJobs
      BY <2>2, <2>4 DEF Types, DeleteBackupJobs, clusterVars, countVars, patroniVars
    <2>5. CASE PatchClusterStatus
      <3>1. status' \in Status
        BY <2>2, <2>5, Constants_ DEF Types, PatchClusterStatus, Status
      <3> QED BY <2>2, <2>5, <3>1
              DEF Types, PatchClusterStatus, clusterVars, jobVars, countVars, patroniVars,
                  findUpgradesForPostgresCluster, Existing
    <2> QED BY <1>4, <2>3, <2>4, <2>5
  <1>5. CASE PatchStatus
    <2>1. w.upgrade \in Upgrades /\ w.progressing \in Reasons /\ w.succeeded \in {"", "Succeeded", "Failed"}
      BY <1>5 DEF PatchStatus, Writing, Types, Work
    <2>2. [ups[w.upgrade] EXCEPT !.progressing = w.progressing, !.succeeded = w.succeeded] \in PGUpgrade
      <3>1. ups[w.upgrade] \in PGUpgrade
        BY <2>1 DEF Types
      <3> QED BY <2>1, <3>1 DEF PGUpgrade
    <2>3. ups' \in [Upgrades -> PGUpgrade] /\ queue' \in SUBSET Upgrades
      BY <1>5, <2>1, <2>2 DEF PatchStatus, Types
    <2> QED BY <1>5, <2>3, Constants_ DEF Types, PatchStatus, clusterVars, jobVars, countVars, patroniVars
  <1> QED BY <1>1, <1>2, <1>3, <1>4, <1>5 DEF Controller

LEMMA ObservationType ==
    ASSUME Types
    PROVE  Observation \in Observations /\ [Observation EXCEPT !.at = "failed"] \in Observations
  <1>1. Observation \in Observations
    BY DEF Types, Observation, Observations, Status
  <1> QED BY <1>1 DEF Observations

LEMMA TypesEnvironment == Types /\ (Environment \/ ClusterFails) => Types'
  <1> SUFFICES ASSUME Types, Environment \/ ClusterFails PROVE Types'
    OBVIOUS
  <1> USE DEF clusterVars, jobVars, countVars, patroniVars
  <1>1. CASE ClusterObserves \/ ClusterFails
    <2>1. c' \in Observations /\ errors' \in 0..MaxFaults
      <3>1. errors \in 0..MaxFaults /\ crashes \in 0..MaxFaults /\ MaxFaults \in Nat
        BY UpgradeAssumption DEF Types
      <3> QED BY <1>1, <3>1, ObservationType DEF ClusterObserves, ClusterFails
    <2> QED BY <1>1, <2>1 DEF ClusterObserves, ClusterFails, Types
  <1>2. CASE ClusterApplies
    <2>1. want' \in [Instances -> 0..1]
      BY <1>2 DEF ClusterApplies, Types, Replicas
    <2>2. status' \in Status
      <3>1. c.spec.gen \in Nat /\ c.startup \in Instances \cup {None}
        BY DEF Types, Observations, Spec_
      <3> QED BY <1>2, <3>1 DEF ClusterApplies, ObservedStatus, Types, Status
    <2> QED BY <1>2, <2>1, <2>2, Constants_
            DEF ClusterApplies, Types, findUpgradesForPostgresCluster, Existing
  <1>3. ASSUME NEW u \in Upgrades,
               CollectJobs(u) \/ RunUpgradeJob(u) \/ \E i \in Instances : RunRemoveDataJob(u, i)
        PROVE  Types'
    <2>1. CASE CollectJobs(u)
      <3>1. upJob' \in [Upgrades -> [state : JobStates, on : Instances \cup {None}]]
        BY <2>1, Constants_ DEF CollectJobs, Types
      <3>2. rmJob' \in [Upgrades -> [Instances -> JobStates]]
        BY <2>1 DEF CollectJobs, Types, JobStates
      <3> QED BY <2>1, <3>1, <3>2 DEF CollectJobs, Types
    <2>2. CASE RunUpgradeJob(u)
      <3>1. upJob' \in [Upgrades -> [state : JobStates, on : Instances \cup {None}]]
        <4>1. upJob \in [Upgrades -> [state : JobStates, on : Instances \cup {None}]]
              /\ "complete" \in JobStates /\ "failed" \in JobStates
          BY DEF Types, JobStates
        <4>2. PICK r \in {"complete", "failed"} : upJob' = [upJob EXCEPT ![u].state = r]
          BY <2>2 DEF RunUpgradeJob
        <4> QED BY <4>1, <4>2
      <3>2. data' \in [Instances -> SUBSET Versions] /\ truth' \in Versions
        <4>1. data \in [Instances -> SUBSET Versions] /\ truth \in Versions /\ To[u] \in Versions
          BY Constants_ DEF Types
        <4> QED BY <2>2, <4>1 DEF RunUpgradeJob
      <3> QED BY <2>2, <3>1, <3>2 DEF RunUpgradeJob, Types, Enqueue
    <2>3. ASSUME NEW i \in Instances, RunRemoveDataJob(u, i) PROVE Types'
      <3>1. rmJob' \in [Upgrades -> [Instances -> JobStates]]
        <4>1. rmJob \in [Upgrades -> [Instances -> JobStates]]
              /\ "complete" \in JobStates /\ "failed" \in JobStates
          BY DEF Types, JobStates
        <4>2. PICK r \in {"complete", "failed"} : rmJob' = [rmJob EXCEPT ![u][i] = r]
          BY <2>3 DEF RunRemoveDataJob
        <4> QED BY <4>1, <4>2
      <3>2. data' \in [Instances -> SUBSET Versions]
        BY <2>3 DEF RunRemoveDataJob, Types
      <3> QED BY <2>3, <3>1, <3>2 DEF RunRemoveDataJob, Types, Enqueue
    <2> QED BY <1>3, <2>1, <2>2, <2>3
  <1>4. ASSUME NEW i \in Instances, StartPod(i) \/ StopPod(i) \/ Lead(i) \/ Clone(i) PROVE Types'
    <2>1. spec.version \in Versions
      BY DEF Types, Spec_
    <2> QED BY <1>4, <2>1 DEF StartPod, StopPod, Lead, Clone, Types
  <1> QED BY <1>1, <1>2, <1>3, <1>4 DEF Environment

LEMMA TypesUser == Types /\ User => Types'
  <1> SUFFICES ASSUME Types, User PROVE Types'
    OBVIOUS
  <1> USE DEF clusterVars, jobVars, countVars, patroniVars, findUpgradesForPostgresCluster, Existing
  <1>1. CASE CreateCluster
    BY <1>1 DEF CreateCluster, Types, Spec_
  <1>2. CASE Shutdown
    <2>1. spec \in Spec_ /\ spec' = [spec EXCEPT !.shutdown = TRUE, !.gen = spec.gen + 1]
      BY <1>2 DEF Shutdown, Types
    <2>0. spec.gen + 1 \in Nat
      <3>1. spec.gen \in Nat
        BY <2>1 DEF Spec_
      <3> QED BY <3>1
    <2>2. spec' \in Spec_
      BY <2>0, <2>1 DEF Spec_
    <2> QED BY <1>2, <2>2 DEF Shutdown, Types
  <1>3. CASE Restart
    <2>1. spec' \in Spec_
      <3>1. PICK v \in Versions : spec' = [spec EXCEPT !.shutdown = FALSE, !.gen = spec.gen + 1, !.version = v]
        <4>1. spec.version \in Versions /\ spec.allow \in Upgrades \cup {None}
          BY DEF Types, Spec_
        <4> QED BY <1>3, <4>1, Constants_ DEF Restart
      <3>2. spec \in Spec_ /\ spec.gen \in Nat
        BY DEF Types, Spec_
      <3>3. spec.gen + 1 \in Nat
        BY <3>2
      <3> QED BY <3>1, <3>2, <3>3 DEF Spec_
    <2>2. starts' \in 0..MaxStarts
      <3>1. starts \in 0..MaxStarts /\ MaxStarts \in Nat /\ starts < MaxStarts /\ starts' = starts + 1
        BY <1>3, UpgradeAssumption DEF Restart, Types
      <3> QED BY <3>1
    <2> QED BY <1>3, <2>1, <2>2 DEF Restart, Types
  <1>4. ASSUME NEW u \in Upgrades, CreateUpgrade(u) \/ Allow(u) \/ DeleteUpgrade(u) PROVE Types'
    <2>1. CASE CreateUpgrade(u) \/ DeleteUpgrade(u)
      <3>1. ups' \in [Upgrades -> PGUpgrade]
        <4>1. ups \in [Upgrades -> PGUpgrade] /\ ups[u] \in PGUpgrade
          BY DEF Types
        <4>2. PICK e \in BOOLEAN : ups' = [ups EXCEPT ![u] = [ups[u] EXCEPT !.exists = e]]
          BY <2>1 DEF CreateUpgrade, DeleteUpgrade
        <4>3. [ups[u] EXCEPT !.exists = e] \in PGUpgrade
          BY <4>1, <4>2 DEF PGUpgrade
        <4> QED BY <4>1, <4>2, <4>3
      <3> QED BY <2>1, <3>1 DEF CreateUpgrade, DeleteUpgrade, Types
    <2>2. CASE Allow(u)
      BY <2>2 DEF Allow, Types, Spec_
    <2> QED BY <1>4, <2>1, <2>2
  <1> QED BY <1>1, <1>2, <1>3, <1>4 DEF User

LEMMA TypesAlways == Spec => []Types
  <1>1. Types /\ [Next]_vars => Types'
    <2> SUFFICES ASSUME Types, [Next]_vars PROVE Types'
      OBVIOUS
    <2>1. CASE UNCHANGED vars
      BY <2>1 DEF Types, vars, clusterVars, jobVars, countVars, patroniVars
    <2>2. CASE Crash
      BY <2>2, Constants_, UpgradeAssumption DEF Crash, Types, jobVars, patroniVars, Existing
    <2>3. ASSUME NEW u \in Upgrades, ReconcileFails(u) PROVE Types'
      <3>1. ups' \in [Upgrades -> PGUpgrade]
        <4>1. /\ ups \in [Upgrades -> PGUpgrade]
              /\ ups' = [ups EXCEPT ![u] = [ups[u] EXCEPT !.progressing = "ErrorWhenObservingWorld"]]
          BY <2>3 DEF ReconcileFails, Types
        <4>2. ups[u] \in PGUpgrade /\ "ErrorWhenObservingWorld" \in Reasons
          BY <4>1 DEF Reasons
        <4>3. [ups[u] EXCEPT !.progressing = "ErrorWhenObservingWorld"] \in PGUpgrade
          BY <4>2 DEF PGUpgrade
        <4> QED BY <4>1, <4>3
      <3>2. errors' \in 0..MaxFaults
        BY <2>3, UpgradeAssumption DEF ReconcileFails, Types
      <3> QED BY <2>3, <3>1, <3>2 DEF ReconcileFails, Types, clusterVars, jobVars, patroniVars
    <2>4. CASE WriteFails
      <3>1. w' \in Work /\ w'.upgrade \in Upgrades /\ w'.writes \in WriteLists /\ errors' \in 0..MaxFaults
        BY <2>4, FailType
      <3>2. kept' \in BOOLEAN /\ queue' \in SUBSET Upgrades
        <4>1. w.upgrade \in Upgrades
          BY <2>4, FailType
        <4> QED BY <2>4, <4>1 DEF WriteFails, Types
      <3> QED BY <2>4, <3>1, <3>2 DEF WriteFails, Types, clusterVars, jobVars
    <2> QED BY <2>1, <2>2, <2>3, <2>4, TypesController, TypesEnvironment, TypesUser DEF Next
  <1> QED BY <1>1, TypesInit, PTL DEF Spec

-----------------------------------------------------------------------------
(* A cluster that is shut down under a careful user.  Every instance runs  *)
(* until a primary L has been seen and remembered; then L runs alone; and  *)
(* once L was seen alone all are stopped and none starts again.            *)

LeaderRuns == leader # None => pods[leader] # 0

AllUp ==
    /\ status.startup = None /\ ~ status.stopped
    /\ \A i \in Instances : want[i] = 1 /\ pods[i] # 0
    /\ c.at = "apply" => c.pods = Instances /\ (c.startup # None => leader = c.startup)

LeaderUp(L) ==
    /\ status.startup = L /\ ~ status.stopped
    /\ leader = L /\ want[L] = 1 /\ pods[L] # 0
    /\ \A j \in Instances \ {L} : want[j] = 0
    /\ c.at = "apply" =>
         /\ c.startup = L /\ L \in c.pods
         /\ c.pods \subseteq {L} => \A j \in Instances \ {L} : pods[j] = 0

GoingDown(L) ==
    /\ status.startup = L
    /\ leader \in {L, None}
    /\ \A j \in Instances : want[j] = 0 /\ (j # L => pods[j] = 0)
    /\ status.stopped => pods[L] = 0
    /\ c.at = "apply" =>
         /\ c.startup = L /\ c.pods \subseteq {L}
         /\ c.pods = {} => pods[L] = 0
         /\ status.stopped => c.pods = {}

ShutdownInv ==
    spec.shutdown =>
        /\ c.at # "idle" => c.spec.shutdown
        /\ AllUp \/ \E L \in Instances : LeaderUp(L) \/ GoingDown(L)

-----------------------------------------------------------------------------
(* The Jobs.  All belong to the upgrade that is allowed, and until it has  *)
(* ended nothing may be started or allowed.                                *)

FailedJob(u) == upJob[u].state = "failed" \/ \E i \in Instances : rmJob[u][i] = "failed"
JobWrite == w # Idle /\ Head(w.writes) \in JobWrites

JobsAllowed  == \A u \in Upgrades : JobsOf(u) => u = spec.allow /\ From[u] < To[u]
RemovesAfter == \A u \in Upgrades : \A i \in Instances :
                    rmJob[u][i] # "absent" => upJob[u].state = "complete"
NewestData   == \A u \in Upgrades : upJob[u].state = "complete" => truth = To[u]
FailedHasJob == \A u \in Upgrades :
                    ups[u].succeeded = "Failed" /\ ups[u].exists => FailedJob(u)
WorkKnown ==
    w.upgrade # None =>
        /\ ups[w.upgrade].exists \/ ups[w.upgrade].succeeded # ""
        /\ w.succeeded = "Failed" /\ ups[w.upgrade].exists => FailedJob(w.upgrade)
WriteAllowed ==
    JobWrite =>
        /\ w.upgrade = spec.allow /\ From[w.upgrade] < To[w.upgrade]
        /\ ups[w.upgrade].exists /\ ups[w.upgrade].succeeded = ""
        /\ spec.shutdown /\ status.stopped
        /\ Head(w.writes) = "removeDataJobs" => upJob[w.upgrade].state = "complete"
WorkStopped == \A u \in Upgrades : Working(u) => spec.shutdown /\ status.stopped

JobInv ==
    /\ JobsAllowed /\ RemovesAfter /\ NewestData /\ FailedHasJob
    /\ WorkKnown /\ WriteAllowed /\ WorkStopped

UpgradeIInv == LeaderRuns /\ ShutdownInv /\ JobInv

-----------------------------------------------------------------------------
\* What the state of the shutdown depends on.
shutdownFrame == <<spec.shutdown, status.startup, status.stopped, want, pods, leader, c>>

LEMMA ShutdownFrame ==
    LeaderRuns /\ ShutdownInv /\ UNCHANGED shutdownFrame => LeaderRuns' /\ ShutdownInv'
  BY DEF shutdownFrame, LeaderRuns, ShutdownInv, AllUp, LeaderUp, GoingDown

\* Which steps leave that alone.
LEMMA OtherSteps ==
    ASSUME Types, Next,
           ~ Shutdown, ~ Restart, ~ ClusterObserves, ~ ClusterFails, ~ ClusterApplies, ~ Crash,
           \A i \in Instances : ~ StartPod(i) /\ ~ StopPod(i) /\ ~ Lead(i)
    PROVE  UNCHANGED shutdownFrame
  <1> USE DEF shutdownFrame, clusterVars
  <1>1. CASE Controller
    <2>1. CASE PatchClusterStatus
      <3>1. status \in Status /\ status' = [status EXCEPT !.version = To[w.upgrade], !.repos = FALSE]
        BY <2>1 DEF PatchClusterStatus, Types
      <3>2. status'.startup = status.startup /\ status'.stopped = status.stopped
        BY <3>1 DEF Status
      <3> QED BY <2>1, <3>2 DEF PatchClusterStatus
    <2> QED BY <1>1, <2>1 DEF Controller, Reconcile, ApplyUpgradeJob, ApplyRemoveDataJob,
              DeleteEndpoints, DeleteBackupJobs, PatchStatus
  <1>2. CASE Environment
    BY <1>2 DEF Environment, CollectJobs, RunUpgradeJob, RunRemoveDataJob, Clone
  <1>3. CASE User
    <2>0. spec \in Spec_
      BY DEF Types
    <2>1. CASE CreateCluster
      <3>1. spec'.shutdown = spec.shutdown
        BY <2>0, <2>1 DEF CreateCluster, Spec_
      <3> QED BY <2>1, <3>1 DEF CreateCluster
    <2>2. ASSUME NEW u \in Upgrades, Allow(u) PROVE UNCHANGED shutdownFrame
      <3>1. spec'.shutdown = spec.shutdown
        BY <2>0, <2>2 DEF Allow, Spec_
      <3> QED BY <2>2, <3>1 DEF Allow
    <2> QED BY <1>3, <2>1, <2>2 DEF User, CreateUpgrade, DeleteUpgrade
  <1>4. CASE WriteFails \/ \E u \in Upgrades : ReconcileFails(u)
    BY <1>4 DEF WriteFails, ReconcileFails
  <1> QED BY <1>1, <1>2, <1>3, <1>4 DEF Next

\* The user and the start of a reconcile.
LEMMA ShutdownObserved ==
    ASSUME Types, LeaderRuns, ShutdownInv, ClusterObserves \/ ClusterFails
    PROVE  ShutdownInv'
  <1> SUFFICES ASSUME spec.shutdown PROVE ShutdownInv'
    BY DEF ShutdownInv, ClusterObserves, ClusterFails
  <1>1. /\ c' = Observation \/ c' = [Observation EXCEPT !.at = "failed"]
        /\ UNCHANGED <<spec, status, want, pods, leader>> /\ c.at = "idle"
    BY DEF ClusterObserves, ClusterFails
  <1>2. /\ c'.spec = spec
        /\ c'.at = "apply" => /\ c'.pods = {i \in Instances : pods[i] # 0}
                              /\ c'.startup = IF leader = None THEN status.startup ELSE leader
    <2>1. /\ Observation.spec = spec /\ Observation.at = "apply"
          /\ Observation.pods = {i \in Instances : pods[i] # 0}
          /\ Observation.startup = IF leader = None THEN status.startup ELSE leader
      BY DEF Observation
    <2>2. CASE c' = Observation
      BY <2>1, <2>2
    <2>3. CASE c' = [Observation EXCEPT !.at = "failed"]
      BY <2>1, <2>3 DEF Observation
    <2> QED BY <1>1, <2>2, <2>3
  <1>3. leader \in Instances \cup {None} /\ None \notin Instances
    BY Constants_ DEF Types
  <1>4. CASE AllUp
    <2>1. AllUp'
      BY <1>1, <1>2, <1>4 DEF AllUp
    <2> QED BY <1>1, <1>2, <2>1 DEF ShutdownInv
  <1>5. ASSUME NEW L \in Instances, LeaderUp(L) PROVE LeaderUp(L)'
    BY <1>1, <1>2, <1>3, <1>5 DEF LeaderUp
  <1>6. ASSUME NEW L \in Instances, GoingDown(L) PROVE GoingDown(L)'
    BY <1>1, <1>2, <1>3, <1>6 DEF GoingDown
  <1> QED BY <1>1, <1>2, <1>4, <1>5, <1>6 DEF ShutdownInv

\* The end of a reconcile: the primary that was seen becomes the startup instance,
\* and is stopped in turn once it was seen alone.
LEMMA ShutdownApplied ==
    ASSUME Types, ShutdownInv, ClusterApplies
    PROVE  ShutdownInv' /\ (spec.shutdown /\ status.stopped => status'.stopped)
  <1> SUFFICES ASSUME spec.shutdown
               PROVE  ShutdownInv' /\ (status.stopped => status'.stopped)
    BY DEF ShutdownInv, ClusterApplies
  <1>0. /\ status \in Status /\ c \in Observations /\ None \notin Instances /\ First \in Instances
        /\ c.pods \subseteq Instances /\ c.startup \in Instances \cup {None}
    BY Constants_ DEF Types, Observations
  <1>1. /\ UNCHANGED <<spec, pods, leader>> /\ c.at \in {"apply", "failed"}
        /\ c'.at = "idle" /\ c.spec.shutdown
    BY DEF ClusterApplies, ShutdownInv, NoReconcile
  <1>2. CASE c.at = "failed"
    <2>1. UNCHANGED want /\ status'.startup = status.startup /\ status'.stopped = status.stopped
      BY <1>0, <1>2 DEF ClusterApplies, Status
    <2>2. AllUp => AllUp'
      BY <1>1, <2>1 DEF AllUp
    <2>3. \A L \in Instances : LeaderUp(L) => LeaderUp(L)'
      BY <1>1, <2>1 DEF LeaderUp
    <2>4. \A L \in Instances : GoingDown(L) => GoingDown(L)'
      BY <1>1, <2>1 DEF GoingDown
    <2> QED BY <1>1, <2>1, <2>2, <2>3, <2>4 DEF ShutdownInv
  <1>3. CASE c.at = "apply"
    <2>1. /\ want' = [i \in Instances |-> Replicas(c, i)]
          /\ status'.startup = c.startup /\ status'.stopped = (c.pods = {})
      BY <1>0, <1>3 DEF ClusterApplies, ObservedStatus, Status
    <2>2. \A i \in Instances :
             want'[i] = IF \/ c.startup = None
                           \/ c.startup = i /\ ~ (c.pods \subseteq {i}) THEN 1 ELSE 0
      BY <1>1, <2>1 DEF Replicas
    <2>3. CASE AllUp
      <3>1. c.pods = Instances /\ (c.startup # None => leader = c.startup) /\ ~ status.stopped
            /\ \A i \in Instances : pods[i] # 0
        BY <1>3, <2>3 DEF AllUp
      <3>2. CASE c.startup = None
        <4>1. AllUp'
          BY <1>0, <1>1, <2>1, <2>2, <3>1, <3>2 DEF AllUp
        <4> QED BY <1>1, <3>1, <4>1 DEF ShutdownInv
      <3>3. ASSUME NEW L \in Instances, c.startup = L PROVE ShutdownInv'
        <4>1. /\ leader = L /\ \A j \in Instances \ {L} : want'[j] = 0
              /\ want'[L] = IF Instances \subseteq {L} THEN 0 ELSE 1
              /\ ~ status'.stopped /\ status'.startup = L
          BY <1>0, <2>1, <2>2, <3>1, <3>3
        <4>2. CASE Instances \subseteq {L}
          <5>1. GoingDown(L)'
            BY <1>1, <4>1, <4>2 DEF GoingDown
          <5> QED BY <1>1, <5>1 DEF ShutdownInv
        <4>3. CASE ~ (Instances \subseteq {L})
          <5>1. LeaderUp(L)'
            BY <1>1, <3>1, <4>1, <4>3 DEF LeaderUp
          <5> QED BY <1>1, <5>1 DEF ShutdownInv
        <4> QED BY <4>2, <4>3
      <3> QED BY <1>0, <3>1, <3>2, <3>3
    <2>4. ASSUME NEW L \in Instances, LeaderUp(L) PROVE ShutdownInv' /\ ~ status.stopped
      <3>1. /\ ~ status.stopped /\ leader = L /\ pods[L] # 0 /\ c.startup = L /\ L \in c.pods
            /\ c.pods \subseteq {L} => \A j \in Instances \ {L} : pods[j] = 0
        BY <1>3, <2>4 DEF LeaderUp
      <3>2. /\ \A j \in Instances \ {L} : want'[j] = 0
            /\ want'[L] = IF c.pods \subseteq {L} THEN 0 ELSE 1
            /\ ~ status'.stopped /\ status'.startup = L
        BY <1>0, <2>1, <2>2, <3>1
      <3>3. CASE c.pods \subseteq {L}
        <4>1. GoingDown(L)'
          BY <1>1, <3>1, <3>2, <3>3 DEF GoingDown
        <4> QED BY <1>1, <3>1, <4>1 DEF ShutdownInv
      <3>4. CASE ~ (c.pods \subseteq {L})
        <4>1. LeaderUp(L)'
          BY <1>1, <3>1, <3>2, <3>4 DEF LeaderUp
        <4> QED BY <1>1, <3>1, <4>1 DEF ShutdownInv
      <3> QED BY <3>3, <3>4
    <2>5. ASSUME NEW L \in Instances, GoingDown(L)
          PROVE  ShutdownInv' /\ (status.stopped => status'.stopped)
      <3>1. /\ leader \in {L, None} /\ c.startup = L /\ c.pods \subseteq {L}
            /\ c.pods = {} => pods[L] = 0
            /\ status.stopped => c.pods = {}
            /\ \A j \in Instances : j # L => pods[j] = 0
        BY <1>3, <2>5 DEF GoingDown
      <3>2. /\ \A j \in Instances : want'[j] = 0
            /\ status'.startup = L
            /\ status'.stopped => pods[L] = 0
        BY <1>0, <2>1, <2>2, <3>1
      <3>3. GoingDown(L)'
        BY <1>1, <3>1, <3>2 DEF GoingDown
      <3> QED BY <1>1, <2>1, <3>1, <3>3 DEF ShutdownInv
    <2>6. AllUp => ~ status.stopped
      BY DEF AllUp
    <2> QED BY <2>3, <2>4, <2>5, <2>6 DEF ShutdownInv
  <1> QED BY <1>1, <1>2, <1>3

\* Pods start and stop, and Patroni elects a leader.
LEMMA ShutdownPods ==
    ASSUME Types, LeaderRuns, ShutdownInv, NEW i \in Instances, StartPod(i) \/ StopPod(i) \/ Lead(i)
    PROVE  LeaderRuns' /\ ShutdownInv'
  <1>0. /\ pods \in [Instances -> Versions \cup {0}] /\ leader \in Instances \cup {None}
        /\ None \notin Instances
    BY Constants_ DEF Types
  <1>1. UNCHANGED <<spec, status, want, c>>
    BY DEF StartPod, StopPod, Lead
  <1>2. LeaderRuns'
    BY <1>0 DEF LeaderRuns, StartPod, StopPod, Lead
  <1> SUFFICES ASSUME spec.shutdown PROVE ShutdownInv'
    BY <1>1, <1>2 DEF ShutdownInv
  <1>3. ASSUME AllUp PROVE AllUp'
    BY <1>0, <1>1, <1>3 DEF AllUp, StartPod, StopPod, Lead
  <1>4. ASSUME NEW L \in Instances, LeaderUp(L) PROVE LeaderUp(L)'
    BY <1>0, <1>1, <1>4 DEF LeaderUp, StartPod, StopPod, Lead
  <1>5. ASSUME NEW L \in Instances, GoingDown(L) PROVE GoingDown(L)'
    BY <1>0, <1>1, <1>5 DEF GoingDown, StartPod, StopPod, Lead
  <1> QED BY <1>1, <1>3, <1>4, <1>5 DEF ShutdownInv

LEMMA ShutdownStep ==
    ASSUME Careful, Types, LeaderRuns, ShutdownInv, Next
    PROVE  /\ LeaderRuns' /\ ShutdownInv'
           /\ spec.shutdown /\ spec'.shutdown /\ status.stopped => status'.stopped
  <1>0. spec \in Spec_
    BY DEF Types
  <1>1. CASE Shutdown
    <2>1. /\ Running /\ UNCHANGED <<status, want, pods, leader, c>> /\ ~ spec.shutdown
      BY <1>1 DEF Shutdown, clusterVars
    <2>2. AllUp' /\ c'.at = "idle"
      BY <2>1 DEF Running, AllUp, NoReconcile
    <2> QED BY <2>1, <2>2 DEF LeaderRuns, ShutdownInv
  <1>2. CASE Restart
    <2>1. spec'.shutdown = FALSE /\ UNCHANGED <<status, pods, leader>>
      BY <1>0, <1>2 DEF Restart, Spec_, clusterVars
    <2> QED BY <2>1 DEF LeaderRuns, ShutdownInv
  <1>3. CASE ClusterObserves \/ ClusterFails
    BY <1>3, ShutdownObserved DEF ClusterObserves, ClusterFails, LeaderRuns
  <1>4. CASE ClusterApplies
    BY <1>4, ShutdownApplied DEF ClusterApplies, LeaderRuns
  <1>5. CASE Crash
    <2>1. UNCHANGED <<spec, status, want, pods, leader>> /\ c'.at = "idle"
      BY <1>5 DEF Crash, NoReconcile
    <2>2. AllUp => AllUp'
      BY <2>1 DEF AllUp
    <2>3. \A L \in Instances : (LeaderUp(L) => LeaderUp(L)') /\ (GoingDown(L) => GoingDown(L)')
      BY <2>1 DEF LeaderUp, GoingDown
    <2> QED BY <2>1, <2>2, <2>3 DEF LeaderRuns, ShutdownInv
  <1>6. ASSUME NEW i \in Instances, StartPod(i) \/ StopPod(i) \/ Lead(i)
        PROVE  LeaderRuns' /\ ShutdownInv' /\ status' = status
    BY <1>6, ShutdownPods DEF StartPod, StopPod, Lead
  <1>7. CASE UNCHANGED shutdownFrame
    BY <1>7, ShutdownFrame DEF shutdownFrame
  <1> QED BY <1>1, <1>2, <1>3, <1>4, <1>5, <1>6, <1>7, OtherSteps
-----------------------------------------------------------------------------
\* The types that matter to the Jobs.
JobTypes ==
    /\ DOMAIN ups = Upgrades /\ ups \in [Upgrades -> PGUpgrade]
    /\ upJob \in [Upgrades -> [state : JobStates, on : Instances \cup {None}]]
    /\ rmJob \in [Upgrades -> [Instances -> JobStates]]
    /\ w = Idle \/ (w.upgrade \in Upgrades /\ w.writes \in WriteLists)
    /\ None \notin Upgrades /\ Idle.upgrade = None
    /\ spec.allow \in Upgrades \cup {None}

LEMMA JobTypesFact == ASSUME Types PROVE JobTypes
  BY Constants_ DEF Types, JobTypes, Idle, Spec_

\* Steps of others: a cluster that has stopped stays so until the user starts it.
LEMMA JobFrame ==
    ASSUME JobInv, UNCHANGED <<spec.allow, upJob, rmJob, truth, ups, w>>,
           spec.shutdown /\ status.stopped => spec'.shutdown /\ status'.stopped
    PROVE  JobInv'
  BY DEF JobInv, JobsAllowed, RemovesAfter, NewestData, FailedHasJob, WorkKnown, WriteAllowed,
         WorkStopped, JobsOf, FailedJob, Working, JobWrite

\* The same when nothing but the reconcile changes.
LEMMA WorkFrame ==
    ASSUME JobInv, UNCHANGED <<spec, upJob, rmJob, truth, ups>>,
           status'.stopped = status.stopped, WorkKnown', WriteAllowed'
    PROVE  JobInv'
  BY DEF JobInv, JobsAllowed, RemovesAfter, NewestData, FailedHasJob, WorkStopped, JobsOf, FailedJob,
         Working

LEMMA JobReconcile ==
    ASSUME Types, JobInv, NEW u \in Upgrades, Reconcile(u)
    PROVE  JobInv'
  <1>0. JobTypes
    BY JobTypesFact
  <1>1. UNCHANGED <<spec, status, upJob, rmJob, truth, ups>>
    BY DEF Reconcile, jobVars
  <1>2. CASE w' = w
    BY <1>1, <1>2, JobFrame
  <1>3. CASE w' # w
    <2>1. /\ w'.upgrade = u /\ ups[u].exists /\ ups[u].succeeded # "Succeeded"
          /\ w'.succeeded = Succeeded(u)
          /\ Head(w'.writes) \in JobWrites => Blocked(u) = "" /\ ~ JobsFailed(u)
          /\ Head(w'.writes) = "removeDataJobs" => jobCompleted(upJob[u].state)
      BY <1>3, ReconcileType
    <2>2. Blocked(u) = "" => From[u] < To[u] /\ spec.shutdown /\ status.stopped /\ spec.allow = u
      <3>1. From[u] \in Nat /\ To[u] \in Nat
        BY Constants_
      <3> QED BY <3>1 DEF Blocked, ClusterShutdown, Allowed
    <2>3. FailedJob(u) => JobsFailed(u)
      <3>1. ASSUME NEW i \in Instances, rmJob[u][i] = "failed" PROVE removeDataJobsFailed
        <4>1. <<u, i>> \in RemoveDataJobs /\ <<u, i>>[1] = u /\ <<u, i>>[2] = i
          BY DEF RemoveDataJobs
        <4> QED BY <3>1, <4>1 DEF removeDataJobsFailed, jobFailed
      <3> QED BY <3>1 DEF FailedJob, JobsFailed, jobFailed
    <2>4. ASSUME Blocked(u) = "", JobsFailed(u) PROVE FailedJob(u)
      <3>1. CASE upJob[u].state = "failed"
        BY <3>1 DEF FailedJob
      <3>2. CASE removeDataJobsFailed
        <4>1. PICK v \in Upgrades, i \in Instances : rmJob[v][i] = "failed"
          BY <3>2 DEF removeDataJobsFailed, RemoveDataJobs, jobFailed
        <4>2. v = spec.allow
          BY <4>1 DEF JobInv, JobsAllowed, JobsOf
        <4> QED BY <2>2, <2>4, <4>1, <4>2 DEF FailedJob
      <3> QED BY <2>4, <3>1, <3>2 DEF JobsFailed, jobFailed
    <2>5. Succeeded(u) = "Failed" => FailedJob(u)
      BY <2>1, <2>4 DEF Succeeded, JobInv, FailedHasJob
    <2>6. WorkKnown'
      BY <1>1, <2>1, <2>5 DEF WorkKnown, FailedJob
    <2>7. Blocked(u) = "" /\ ~ JobsFailed(u) => ups[u].succeeded = ""
      <3>1. ups[u].succeeded \in {"", "Succeeded", "Failed"}
        BY <1>0 DEF JobTypes, PGUpgrade
      <3> QED BY <2>1, <2>3, <3>1 DEF JobInv, FailedHasJob
    <2>8. WriteAllowed'
      <3> SUFFICES ASSUME Head(w'.writes) \in JobWrites
                   PROVE  /\ u = spec.allow /\ From[u] < To[u]
                          /\ ups[u].exists /\ ups[u].succeeded = ""
                          /\ spec.shutdown /\ status.stopped
                          /\ Head(w'.writes) = "removeDataJobs" => upJob[u].state = "complete"
        BY <1>1, <2>1 DEF WriteAllowed, JobWrite
      <3> QED BY <2>1, <2>2, <2>7 DEF jobCompleted
    <2> QED BY <1>1, <2>6, <2>8, WorkFrame
  <1> QED BY <1>2, <1>3

\* Writes that concern no Job.
LEMMA JobOtherWrites ==
    ASSUME Types, JobInv, DeleteEndpoints \/ DeleteBackupJobs \/ PatchClusterStatus
    PROVE  JobInv'
  <1>0. status \in Status
    BY DEF Types
  <1>1. /\ UNCHANGED <<spec, upJob, rmJob, truth, ups>>
        /\ \E step \in {"endpoints", "backupJobs", "clusterStatus"} : Writing(step) /\ NextWrite
    BY DEF DeleteEndpoints, DeleteBackupJobs, PatchClusterStatus, jobVars
  <1>2. status'.stopped = status.stopped
    BY <1>0 DEF DeleteEndpoints, DeleteBackupJobs, PatchClusterStatus, Status
  <1>3. /\ w'.upgrade = w.upgrade /\ w'.succeeded = w.succeeded
        /\ Head(w'.writes) \notin JobWrites
    BY <1>1, WriteType
  <1>4. WorkKnown' /\ WriteAllowed'
    BY <1>1, <1>3 DEF WorkKnown, WriteAllowed, JobWrite, FailedJob, JobInv
  <1> QED BY <1>1, <1>2, <1>4, WorkFrame

\* A write that fails.
LEMMA JobWriteFails ==
    ASSUME Types, JobInv, WriteFails
    PROVE  JobInv'
  <1>1. UNCHANGED <<spec, status, upJob, rmJob, truth, ups>>
    BY DEF WriteFails, jobVars
  <1>2. w'.upgrade = w.upgrade /\ w'.succeeded = w.succeeded /\ Head(w'.writes) \notin JobWrites
    BY FailType
  <1>3. WorkKnown' /\ WriteAllowed'
    BY <1>1, <1>2 DEF WorkKnown, WriteAllowed, JobWrite, FailedJob, JobInv
  <1> QED BY <1>1, <1>3, WorkFrame

LEMMA JobApplyUpgrade ==
    ASSUME Types, JobInv, ApplyUpgradeJob
    PROVE  JobInv'
  <1>0. JobTypes
    BY JobTypesFact
  <1> DEFINE u == w.upgrade
  <1>1. /\ UNCHANGED <<spec, status, rmJob, truth, ups>> /\ Writing("upgradeJob") /\ NextWrite
        /\ upJob' = [upJob EXCEPT ![u] = IF upJob[u] = NoJob THEN [state |-> "active", on |-> w.primary]
                                         ELSE upJob[u]]
    BY DEF ApplyUpgradeJob
  <1>2. /\ u \in Upgrades /\ w'.upgrade = u /\ w'.succeeded = w.succeeded
        /\ Head(w'.writes) \notin JobWrites
    BY <1>1, WriteType
  <1>3. u = spec.allow /\ From[u] < To[u] /\ spec.shutdown /\ status.stopped
    BY <1>1 DEF JobInv, WriteAllowed, JobWrite, JobWrites, Writing
  <1> HIDE DEF u
  <1>4. /\ \A v \in Upgrades : v # u => upJob'[v] = upJob[v]
        /\ upJob'[u] = upJob[u] \/ (upJob[u] = NoJob /\ upJob'[u].state = "active")
    BY <1>0, <1>1, <1>2 DEF JobTypes
  <1>5. \A v \in Upgrades : FailedJob(v) => FailedJob(v)'
    BY <1>1, <1>4 DEF FailedJob, NoJob
  <1>6. JobsAllowed'
    BY <1>1, <1>3, <1>4 DEF JobInv, JobsAllowed, JobsOf
  <1>7. RemovesAfter' /\ NewestData'
    BY <1>1, <1>4 DEF JobInv, RemovesAfter, NewestData, NoJob
  <1>8. FailedHasJob' /\ WorkKnown'
    BY <1>0, <1>1, <1>2, <1>5 DEF JobInv, FailedHasJob, WorkKnown, u, JobTypes
  <1>9. WriteAllowed' /\ WorkStopped'
    BY <1>1, <1>2, <1>3, <1>4 DEF JobInv, WriteAllowed, JobWrite, WorkStopped, Working
  <1> QED BY <1>6, <1>7, <1>8, <1>9 DEF JobInv

LEMMA JobApplyRemoves ==
    ASSUME Types, JobInv, NEW j \in Instances, ApplyRemoveDataJob(j)
    PROVE  JobInv'
  <1>0. JobTypes
    BY JobTypesFact
  <1> DEFINE u == w.upgrade
  <1>1. UNCHANGED <<spec, status, upJob, truth, ups>>
    BY DEF ApplyRemoveDataJob
  <1>2. /\ w # Idle /\ u \in Upgrades /\ w'.upgrade = u /\ w'.succeeded = w.succeeded
        /\ Head(w.writes) = "removeDataJobs"
        /\ w'.writes = w.writes \/ Head(w'.writes) \notin JobWrites
    BY RemoveType
  <1>3. /\ u = spec.allow /\ From[u] < To[u] /\ spec.shutdown /\ status.stopped
        /\ ups[u].exists /\ ups[u].succeeded = "" /\ upJob[u].state = "complete"
    BY <1>2 DEF JobInv, WriteAllowed, JobWrite, JobWrites
  <1> HIDE DEF u
  <1>4. /\ \A v \in Upgrades : v # u => rmJob'[v] = rmJob[v]
        /\ \A i \in Instances :
             rmJob'[u][i] = rmJob[u][i] \/ (rmJob[u][i] = "absent" /\ rmJob'[u][i] = "active")
    <2>1. rmJob' = [rmJob EXCEPT ![u][j] = IF rmJob[u][j] = "absent" THEN "active" ELSE rmJob[u][j]]
      BY DEF ApplyRemoveDataJob, u
    <2> QED BY <1>0, <1>2, <2>1 DEF JobTypes
  <1>5. \A v \in Upgrades : FailedJob(v) => FailedJob(v)'
    <2> SUFFICES ASSUME NEW v \in Upgrades, FailedJob(v) PROVE FailedJob(v)'
      OBVIOUS
    <2>1. \A i \in Instances : rmJob[v][i] = "failed" => rmJob'[v][i] = "failed"
      BY <1>4
    <2> QED BY <1>1, <2>1 DEF FailedJob
  <1>6. JobsAllowed'
    <2>1. \A v \in Upgrades : JobsOf(v)' => JobsOf(v) \/ v = u
      BY <1>1, <1>4 DEF JobsOf
    <2> QED BY <1>1, <1>3, <2>1 DEF JobInv, JobsAllowed
  <1>7. RemovesAfter' /\ NewestData'
    <2>1. \A v \in Upgrades : \A i \in Instances :
             rmJob'[v][i] # "absent" => rmJob[v][i] # "absent" \/ v = u
      BY <1>4
    <2> QED BY <1>1, <1>3, <2>1 DEF JobInv, RemovesAfter, NewestData
  <1>8. FailedHasJob' /\ WorkKnown'
    BY <1>0, <1>1, <1>2, <1>5 DEF JobInv, FailedHasJob, WorkKnown, u, JobTypes
  <1>9. WriteAllowed'
    BY <1>1, <1>2, <1>3 DEF WriteAllowed, JobWrite
  <1>10. WorkStopped'
    BY <1>1, <1>3, <1>4 DEF JobInv, WorkStopped, Working
  <1> QED BY <1>6, <1>7, <1>8, <1>9, <1>10 DEF JobInv

LEMMA JobPatchStatus ==
    ASSUME Types, JobInv, PatchStatus
    PROVE  JobInv'
  <1>0. JobTypes /\ Idle.upgrade = None
    BY JobTypesFact DEF JobTypes
  <1> DEFINE u == w.upgrade
             now == [ups[u] EXCEPT !.progressing = w.progressing, !.succeeded = w.succeeded]
  <1>1. /\ UNCHANGED <<spec, status, upJob, rmJob, truth>> /\ u \in Upgrades /\ w' = Idle
        /\ ups' = ups \/ (ups[u].exists /\ ups' = [ups EXCEPT ![u] = now])
    BY <1>0 DEF PatchStatus, jobVars, Writing, JobTypes
  <1>2. WorkKnown' /\ WriteAllowed'
    BY <1>0, <1>1 DEF WorkKnown, WriteAllowed, JobWrite, Idle
  <1>3. CASE ups' = ups
    BY <1>1, <1>2, <1>3, WorkFrame
  <1>4. CASE ups[u].exists /\ ups' = [ups EXCEPT ![u] = now]
    <2>1. /\ \A v \in Upgrades : v # u => ups'[v] = ups[v]
          /\ ups'[u].succeeded = w.succeeded
      <3>1. ups[u] \in PGUpgrade
        BY <1>0, <1>1 DEF JobTypes
      <3>2. now.succeeded = w.succeeded
        BY <3>1 DEF PGUpgrade
      <3> QED BY <1>0, <1>1, <1>4, <3>2 DEF JobTypes
    <2>2. w.succeeded = "Failed" => FailedJob(u)
      BY <1>0, <1>1, <1>4 DEF JobInv, WorkKnown, JobTypes
    <2>3. FailedHasJob'
      BY <1>1, <2>1, <2>2 DEF JobInv, FailedHasJob, FailedJob
    <2> QED BY <1>1, <1>2, <2>3 DEF JobInv, JobsAllowed, RemovesAfter, NewestData, WorkStopped,
              JobsOf, Working
  <1> QED BY <1>1, <1>3, <1>4

LEMMA JobEnds ==
    ASSUME Types, JobInv, NEW u \in Upgrades,
           CollectJobs(u) \/ RunUpgradeJob(u) \/ \E i \in Instances : RunRemoveDataJob(u, i)
    PROVE  JobInv'
  <1>0. JobTypes
    BY JobTypesFact
  <1>1. UNCHANGED <<spec, status, ups, w>>
    BY DEF CollectJobs, RunUpgradeJob, RunRemoveDataJob
  <1>2. CASE CollectJobs(u)
    <2>1. /\ ~ ups[u].exists /\ truth' = truth
          /\ upJob'[u] = NoJob /\ \A i \in Instances : rmJob'[u][i] = "absent"
          /\ \A v \in Upgrades : v # u => upJob'[v] = upJob[v] /\ rmJob'[v] = rmJob[v]
      BY <1>0, <1>2 DEF CollectJobs, JobTypes
    <2>2. JobsAllowed' /\ RemovesAfter' /\ NewestData' /\ WorkStopped'
      BY <1>1, <2>1 DEF JobInv, JobsAllowed, RemovesAfter, NewestData, WorkStopped, JobsOf, Working, NoJob
    <2>3. \A v \in Upgrades : v # u => FailedJob(v)' = FailedJob(v)
      BY <2>1 DEF FailedJob
    <2>4. FailedHasJob' /\ WorkKnown' /\ WriteAllowed'
      BY <1>0, <1>1, <2>1, <2>3 DEF JobInv, FailedHasJob, WorkKnown, WriteAllowed, JobWrite, JobTypes
    <2> QED BY <2>2, <2>4 DEF JobInv
  <1>3. CASE RunUpgradeJob(u)
    <2>1. /\ upJob[u].state = "active" /\ rmJob' = rmJob
          /\ \/ upJob'[u].state = "complete" /\ truth' = To[u]
             \/ upJob'[u].state = "failed" /\ truth' = truth
          /\ \A v \in Upgrades : v # u => upJob'[v] = upJob[v]
      BY <1>0, <1>3 DEF RunUpgradeJob, JobTypes
    <2>2. \A v \in Upgrades : JobsOf(v) => v = u
      BY <2>1 DEF JobInv, JobsAllowed, JobsOf, NoJob
    <2>3. u = spec.allow /\ From[u] < To[u] /\ spec.shutdown /\ status.stopped
      BY <2>1 DEF JobInv, JobsAllowed, JobsOf, NoJob, WorkStopped, Working
    <2>4. JobsAllowed'
      BY <1>1, <2>1, <2>3 DEF JobInv, JobsAllowed, JobsOf
    <2>5. RemovesAfter'
      BY <2>1 DEF JobInv, RemovesAfter
    <2>6. NewestData'
      <3>1. \A v \in Upgrades : v # u => upJob'[v].state # "complete"
        BY <2>1, <2>2 DEF JobsOf, NoJob
      <3> QED BY <2>1, <3>1 DEF NewestData
    <2>7. \A v \in Upgrades : FailedJob(v) => FailedJob(v)'
      BY <2>1, <2>2 DEF FailedJob
    <2>8. FailedHasJob' /\ WorkKnown'
      BY <1>0, <1>1, <2>7 DEF JobInv, FailedHasJob, WorkKnown, JobTypes
    <2>9. WorkStopped' /\ WriteAllowed'
      BY <1>1, <2>1, <2>3 DEF JobInv, WorkStopped, Working, WriteAllowed, JobWrite
    <2> QED BY <2>4, <2>5, <2>6, <2>8, <2>9 DEF JobInv
  <1>4. ASSUME NEW i \in Instances, RunRemoveDataJob(u, i) PROVE JobInv'
    <2>1. /\ rmJob[u][i] = "active" /\ upJob' = upJob /\ truth' = truth
          /\ rmJob'[u][i] \in {"complete", "failed"}
          /\ \A j \in Instances : j # i => rmJob'[u][j] = rmJob[u][j]
          /\ \A v \in Upgrades : v # u => rmJob'[v] = rmJob[v]
      BY <1>0, <1>4 DEF RunRemoveDataJob, JobTypes
    <2>2. u = spec.allow /\ From[u] < To[u] /\ spec.shutdown /\ status.stopped
      BY <2>1 DEF JobInv, JobsAllowed, JobsOf, WorkStopped, Working
    <2>3. JobsAllowed'
      BY <1>1, <2>1, <2>2 DEF JobInv, JobsAllowed, JobsOf
    <2>4. RemovesAfter' /\ NewestData'
      BY <2>1 DEF JobInv, RemovesAfter, NewestData
    <2>5. \A v \in Upgrades : FailedJob(v) => FailedJob(v)'
      BY <2>1 DEF FailedJob
    <2>6. FailedHasJob' /\ WorkKnown'
      BY <1>0, <1>1, <2>5 DEF JobInv, FailedHasJob, WorkKnown, JobTypes
    <2>7. WorkStopped' /\ WriteAllowed'
      BY <1>1, <2>1, <2>2 DEF JobInv, WorkStopped, Working, WriteAllowed, JobWrite
    <2> QED BY <2>3, <2>4, <2>6, <2>7 DEF JobInv
  <1> QED BY <1>2, <1>3, <1>4

\* What the user does: a restart waits for the Jobs, a permit for the end of the
\* upgrade that had it.
LEMMA JobUser ==
    ASSUME Careful, Types, JobInv, User
    PROVE  JobInv'
  <1>0. JobTypes /\ spec \in Spec_
    BY JobTypesFact DEF Types
  <1>1. CASE CreateCluster \/ Shutdown
    <2>1. spec'.allow = spec.allow /\ (spec.shutdown => spec'.shutdown)
      BY <1>0, <1>1 DEF CreateCluster, Shutdown, Spec_
    <2> QED BY <1>1, <2>1, JobFrame DEF CreateCluster, Shutdown, jobVars
  <1>2. CASE Restart
    <2>1. /\ spec'.allow = spec.allow /\ UNCHANGED <<status, upJob, rmJob, truth, ups, w>>
          /\ \A u \in Upgrades : ~ Working(u)
          /\ spec.allow # None => ups[spec.allow].succeeded # ""
      BY <1>0, <1>2 DEF Restart, Spec_, jobVars
    <2>2. ~ JobWrite
      BY <1>0, <2>1 DEF JobInv, WriteAllowed, JobWrite, JobTypes
    <2> QED BY <2>1, <2>2 DEF JobInv, JobsAllowed, RemovesAfter, NewestData, FailedHasJob, WorkKnown,
              WriteAllowed, WorkStopped, JobsOf, FailedJob, Working, JobWrite
  <1>3. ASSUME NEW u \in Upgrades, Allow(u) PROVE JobInv'
    <2>1. /\ spec'.shutdown = spec.shutdown /\ UNCHANGED <<status, upJob, rmJob, truth, ups, w>>
          /\ spec.allow # None => ups[spec.allow].succeeded # ""
          /\ \A v \in Upgrades : ups[v].succeeded # "" => ~ JobsOf(v)
      BY <1>0, <1>3 DEF Allow, Spec_, jobVars
    <2>2. \A v \in Upgrades : ~ JobsOf(v)
      BY <1>0, <2>1 DEF JobInv, JobsAllowed, JobTypes
    <2>3. ~ JobWrite
      BY <1>0, <2>1 DEF JobInv, WriteAllowed, JobWrite, JobTypes
    <2>4. JobsAllowed' /\ WriteAllowed'
      BY <2>1, <2>2, <2>3 DEF JobsAllowed, JobsOf, WriteAllowed, JobWrite
    <2> QED BY <2>1, <2>4 DEF JobInv, RemovesAfter, NewestData, FailedHasJob, WorkKnown,
              WorkStopped, FailedJob, Working
  <1>4. ASSUME NEW u \in Upgrades, CreateUpgrade(u) \/ DeleteUpgrade(u) PROVE JobInv'
    <2>1. /\ UNCHANGED <<spec, status, upJob, rmJob, truth, w>>
          /\ \A v \in Upgrades : ups'[v].succeeded = ups[v].succeeded
          /\ \A v \in Upgrades : v # u => ups'[v] = ups[v]
          /\ \/ ups[u].succeeded # "" /\ ~ ups'[u].exists
             \/ ups[u].succeeded = "" /\ ups'[u].exists /\ ~ ups[u].exists
      <3>1. ups[u] \in PGUpgrade /\ DOMAIN ups = Upgrades
        BY <1>0 DEF JobTypes
      <3>2. CASE CreateUpgrade(u)
        <4>1. /\ \A v \in Upgrades : v # u => ups'[v] = ups[v]
              /\ ups'[u] = [ups[u] EXCEPT !.exists = TRUE]
              /\ ups[u].succeeded = "" /\ ~ ups[u].exists
          BY <1>0, <3>2 DEF JobTypes, CreateUpgrade
        <4>2. ups'[u].exists /\ ups'[u].succeeded = ups[u].succeeded
          BY <3>1, <4>1 DEF PGUpgrade
        <4> QED BY <3>2, <4>1, <4>2 DEF CreateUpgrade, jobVars
      <3>3. CASE DeleteUpgrade(u)
        <4>1. /\ \A v \in Upgrades : v # u => ups'[v] = ups[v]
              /\ ups'[u] = [ups[u] EXCEPT !.exists = FALSE]
              /\ ups[u].succeeded # ""
          BY <1>0, <3>3 DEF JobTypes, DeleteUpgrade
        <4>2. ~ ups'[u].exists /\ ups'[u].succeeded = ups[u].succeeded
          BY <3>1, <4>1 DEF PGUpgrade
        <4> QED BY <3>3, <4>1, <4>2 DEF DeleteUpgrade, jobVars
      <3> QED BY <1>4, <3>2, <3>3
    <2>2. FailedHasJob'
      BY <2>1 DEF JobInv, FailedHasJob, FailedJob
    <2>3. WorkKnown' /\ WriteAllowed'
      BY <1>0, <2>1 DEF JobInv, WorkKnown, WriteAllowed, JobWrite, FailedJob, JobTypes
    <2> QED BY <2>1, <2>2, <2>3 DEF JobInv, JobsAllowed, RemovesAfter, NewestData, WorkStopped,
              JobsOf, Working
  <1> QED BY <1>1, <1>2, <1>3, <1>4 DEF User
LEMMA JobStep ==
    ASSUME Careful, Types, LeaderRuns, ShutdownInv, JobInv, Next
    PROVE  JobInv'
  <1>0. JobTypes
    BY JobTypesFact
  <1>1. CASE Controller
    BY <1>1, JobReconcile, JobOtherWrites, JobApplyUpgrade, JobApplyRemoves, JobPatchStatus
       DEF Controller
  <1>2. CASE ClusterObserves \/ ClusterApplies \/ ClusterFails
    <2>1. spec.shutdown /\ status.stopped => status'.stopped
      BY <1>2, ShutdownApplied DEF ClusterObserves, ClusterFails
    <2> QED BY <1>2, <2>1, JobFrame DEF ClusterObserves, ClusterApplies, ClusterFails, jobVars
  <1>3. ASSUME NEW i \in Instances, StartPod(i) \/ StopPod(i) \/ Lead(i) \/ Clone(i) PROVE JobInv'
    BY <1>3, JobFrame DEF StartPod, StopPod, Lead, Clone, jobVars
  <1>4. ASSUME NEW u \in Upgrades, ReconcileFails(u) PROVE JobInv'
    <2>1. /\ UNCHANGED <<spec, status, upJob, rmJob, truth, w>> /\ w = Idle
          /\ \A v \in Upgrades : ups'[v].succeeded = ups[v].succeeded /\ ups'[v].exists = ups[v].exists
      <3>1. ups[u] \in PGUpgrade /\ DOMAIN ups = Upgrades
        BY <1>0 DEF JobTypes
      <3>2. \A v \in Upgrades : ups'[v] = IF v = u THEN [ups[u] EXCEPT !.progressing = "ErrorWhenObservingWorld"]
                                          ELSE ups[v]
        BY <1>0, <1>4 DEF ReconcileFails, JobTypes
      <3>3. ups'[u].succeeded = ups[u].succeeded /\ ups'[u].exists = ups[u].exists
        BY <3>1, <3>2 DEF PGUpgrade
      <3> QED BY <1>4, <3>2, <3>3 DEF ReconcileFails, jobVars
    <2>2. FailedHasJob'
      BY <2>1 DEF JobInv, FailedHasJob, FailedJob
    <2>3. w' = Idle /\ Idle.upgrade = None
      BY <1>0, <2>1 DEF JobTypes
    <2>4. WorkKnown' /\ WriteAllowed'
      BY <2>3 DEF WorkKnown, WriteAllowed, JobWrite
    <2> QED BY <2>1, <2>2, <2>4 DEF JobInv, JobsAllowed, RemovesAfter, NewestData, WorkStopped,
              JobsOf, Working
  <1>5. CASE Crash
    <2>1. UNCHANGED <<spec, status, upJob, rmJob, truth, ups>> /\ w' = Idle
      BY <1>5 DEF Crash, jobVars
    <2>2. WorkKnown' /\ WriteAllowed'
      BY <1>0, <2>1 DEF WorkKnown, WriteAllowed, JobWrite, JobTypes, Idle
    <2> QED BY <2>1, <2>2, WorkFrame
  <1> QED BY <1>1, <1>2, <1>3, <1>4, <1>5, JobEnds, JobUser, JobWriteFails DEF Next, Environment

LEMMA UpgradeInit == Init => UpgradeIInv
  <1> SUFFICES ASSUME Init PROVE UpgradeIInv
    OBVIOUS
  <1>1. LeaderRuns
    BY UpgradeAssumption DEF Init, LeaderRuns
  <1>2. ShutdownInv
    <2>1. spec.shutdown = FALSE
      BY DEF Init, NoSpec
    <2> QED BY <2>1 DEF ShutdownInv
  <1>3. /\ w = Idle /\ \A u \in Upgrades : upJob[u] = NoJob /\ ups[u] = NoUpgrade
        /\ \A u \in Upgrades : \A i \in Instances : rmJob[u][i] = "absent"
    BY DEF Init
  <1>4. JobInv
    <2>0. w.upgrade = None
      BY <1>3 DEF Idle
    <2>1. WorkKnown /\ WriteAllowed
      BY <1>3, <2>0 DEF WorkKnown, WriteAllowed, JobWrite
    <2>2. JobsAllowed
      BY <1>3 DEF JobsAllowed, JobsOf
    <2>3. \A u \in Upgrades : upJob[u].state = "absent" /\ ups[u].succeeded = ""
      <3>1. NoJob.state = "absent" /\ NoUpgrade.succeeded = ""
        BY DEF NoJob, NoUpgrade
      <3> QED BY <1>3, <3>1
    <2>4. RemovesAfter /\ NewestData /\ FailedHasJob /\ WorkStopped
      BY <1>3, <2>3 DEF RemovesAfter, NewestData, FailedHasJob, WorkStopped, Working
    <2> QED BY <2>1, <2>2, <2>4 DEF JobInv
  <1> QED BY <1>1, <1>2, <1>4 DEF UpgradeIInv

\* The inductive invariant holds as long as the user is careful.
LEMMA UpgradeInvariant ==
    ASSUME Careful
    PROVE  Spec => []UpgradeIInv
  <1>1. Types /\ UpgradeIInv /\ [Next]_vars => UpgradeIInv'
    <2> SUFFICES ASSUME Types, UpgradeIInv, [Next]_vars PROVE UpgradeIInv'
      OBVIOUS
    <2>1. CASE Next
      BY <2>1, ShutdownStep, JobStep DEF UpgradeIInv
    <2>2. CASE UNCHANGED vars
      <3>1. UNCHANGED <<spec, status, want, pods, leader, c, upJob, rmJob, truth, ups, w>>
        BY <2>2 DEF vars, clusterVars, jobVars
      <3> QED BY <3>1, ShutdownFrame, JobFrame DEF UpgradeIInv, shutdownFrame
    <2> QED BY <2>1, <2>2
  <1> QED BY <1>1, UpgradeInit, TypesAlways, PTL DEF Spec

\* Jobs of a careful user's upgrades work alone: the cluster is shut down and stays so
\* (pgupgrade_controller.go:315), all Jobs belong to the one upgrade that is allowed (:352),
\* and replicas lose their data only after the Job that upgrades the primary is complete.
THEOREM UpgradeJobsWorkAlone ==
    ASSUME Careful
    PROVE  Spec => []JobsAlone
  <1>1. Types /\ UpgradeIInv => JobsAlone
    <2> SUFFICES ASSUME Types, UpgradeIInv, NEW i \in Instances
                 PROVE  LET working == {u \in Upgrades : upJob[u] = [state |-> "active", on |-> i]}
                            removing == {u \in Upgrades : rmJob[u][i] = "active"}
                        IN  /\ Cardinality(working) + Cardinality(removing) <= 1
                            /\ working \cup removing # {} => pods[i] = 0
      BY DEF JobsAlone
    <2> DEFINE working == {u \in Upgrades : upJob[u] = [state |-> "active", on |-> i]}
               removing == {u \in Upgrades : rmJob[u][i] = "active"}
               a == spec.allow
    <2>1. \A u \in working : upJob[u].state = "active"
      OBVIOUS
    <2>2. \A u \in working : u = a /\ Working(u)
      BY <2>1 DEF UpgradeIInv, JobInv, JobsAllowed, JobsOf, Working, NoJob
    <2>3. \A u \in removing : u = a /\ Working(u) /\ upJob[u].state = "complete"
      BY DEF UpgradeIInv, JobInv, JobsAllowed, JobsOf, Working, RemovesAfter
    <2>4. working = {} \/ removing = {}
      BY <2>1, <2>2, <2>3
    <2>5. working \cup removing # {} => pods[i] = 0
      <3> SUFFICES ASSUME working \cup removing # {} PROVE pods[i] = 0
        OBVIOUS
      <3>1. spec.shutdown /\ status.stopped
        BY <2>2, <2>3 DEF UpgradeIInv, JobInv, WorkStopped
      <3>2. PICK L \in Instances : GoingDown(L)
        BY <3>1 DEF UpgradeIInv, ShutdownInv, AllUp, LeaderUp
      <3> QED BY <3>1, <3>2 DEF GoingDown
    <2>6. working \subseteq {a} /\ removing \subseteq {a}
      BY <2>2, <2>3
    <2> HIDE DEF working, removing, a
    <2>7. /\ Cardinality(working) \in Nat /\ Cardinality(working) <= 1
          /\ Cardinality(removing) \in Nat /\ Cardinality(removing) <= 1
      <3>1. IsFiniteSet({a}) /\ Cardinality({a}) = 1
        BY FS_Singleton
      <3>2. \A T : T \subseteq {a} => IsFiniteSet(T) /\ Cardinality(T) <= 1
        BY <3>1, FS_Subset
      <3>3. IsFiniteSet(working) /\ IsFiniteSet(removing)
        BY <2>6, <3>2
      <3> QED BY <2>6, <3>2, <3>3, FS_CardinalityType
    <2>8. Cardinality({}) = 0
      BY FS_EmptySet
    <2>9. Cardinality(working) + Cardinality(removing) <= 1
      BY <2>4, <2>7, <2>8
    <2> QED BY <2>5, <2>9 DEF working, removing
  <1> QED BY <1>1, TypesAlways, UpgradeInvariant, PTL

\* A data directory is removed only for an upgrade whose Job is complete, whose data are the
\* newest, and never from the instance that was the last to run as primary: an upgrade that
\* fails leaves every copy of the old data (removeDataCommand, pgupgrade_controller.go:394).
THEOREM OldDataOutlivesUpgrade ==
    ASSUME Careful
    PROVE  Spec => RemovedOnlyWhenUpgraded
  <1> DEFINE Kept == \A i \in Instances : \A v \in data[i] \ data'[i] : truth > v /\ i # last
  <1>1. Types /\ UpgradeIInv /\ [Next]_vars => [Kept]_vars
    <2> SUFFICES ASSUME Types, UpgradeIInv, Next PROVE Kept
      OBVIOUS
    <2>0. data \in [Instances -> SUBSET Versions]
      BY DEF Types
    <2>1. ASSUME data' = data PROVE Kept
      BY <2>1
    <2>2. ASSUME NEW u \in Upgrades, RunUpgradeJob(u) PROVE Kept
      BY <2>0, <2>2 DEF RunUpgradeJob
    <2>3. ASSUME NEW i \in Instances, Clone(i) PROVE Kept
      BY <2>0, <2>3 DEF Clone
    <2>4. ASSUME NEW u \in Upgrades, NEW i \in Instances, RunRemoveDataJob(u, i) PROVE Kept
      <3>1. rmJob[u][i] = "active"
        BY <2>4 DEF RunRemoveDataJob
      <3>2. truth = To[u] /\ From[u] < To[u] /\ From[u] \in Nat /\ To[u] \in Nat
        BY <3>1, Constants_ DEF UpgradeIInv, JobInv, RemovesAfter, NewestData, JobsAllowed, JobsOf
      <3>3. truth > From[u]
        BY <3>2
      <3>4. \/ data' = data
            \/ i # last /\ data' = [data EXCEPT ![i] = data[i] \ {From[u]}]
        BY <2>4 DEF RunRemoveDataJob
      <3> QED BY <2>0, <3>3, <3>4
    <2>5. CASE Controller
      BY <2>1, <2>5 DEF Controller, Reconcile, ApplyUpgradeJob, ApplyRemoveDataJob,
              DeleteEndpoints, DeleteBackupJobs, PatchClusterStatus, PatchStatus, jobVars
    <2>6. CASE User
      BY <2>1, <2>6 DEF User, CreateCluster, Shutdown, Restart, CreateUpgrade, Allow, DeleteUpgrade, jobVars
    <2>7. CASE Environment
      BY <2>1, <2>2, <2>3, <2>4, <2>7
         DEF Environment, ClusterObserves, ClusterApplies, CollectJobs, StartPod, StopPod, Lead, jobVars
    <2>8. CASE ClusterFails \/ WriteFails \/ Crash \/ \E u \in Upgrades : ReconcileFails(u)
      BY <2>1, <2>8 DEF ClusterFails, WriteFails, Crash, ReconcileFails, jobVars
    <2> QED BY <2>5, <2>6, <2>7, <2>8 DEF Next
  <1> QED BY <1>1, TypesAlways, UpgradeInvariant, PTL DEF Spec, RemovedOnlyWhenUpgraded

-----------------------------------------------------------------------------
(* What the user starts after an upgrade.  From its first Job until its    *)
(* end is reported an upgrade holds the cluster: stopped, at the old       *)
(* version, the primary of the shutdown remembered, the replicas whose     *)
(* Jobs are complete without the old data, and Patroni's Endpoints cleared *)
(* or about to be.                                                         *)

Done(u) == /\ upJob[u].state = "complete"
           /\ \A i \in Instances \ {upJob[u].on} : rmJob[u][i] = "complete"
Open(u) == upJob[u] # NoJob /\ ups[u].succeeded = ""
\* No crash kept the controller from clearing the Endpoints, and no lost error.
Clean == crashes = 0 /\ ~ kept
Has(l, step) == \E k \in 1..Len(l) : l[k] = step

JobsOn ==
    \A u \in Upgrades : upJob[u] # NoJob =>
        upJob[u].on \in Instances /\ rmJob[u][upJob[u].on] = "absent"
Held ==
    \A u \in Upgrades : Open(u) =>
        /\ ups[u].exists /\ spec.shutdown /\ status.stopped /\ spec.version = From[u]
        /\ status.startup = upJob[u].on
        /\ \A i \in Instances : rmJob[u][i] = "complete" => From[u] \notin data[i]
Cleared ==
    \A u \in Upgrades : Open(u) /\ Clean =>
        identifier = 0 \/ (w.upgrade = u /\ Head(w.writes) = "endpoints")

\* What the reconcile in progress was decided on still holds.
OutcomeKnown ==
    /\ ups[w.upgrade].succeeded # "Succeeded" /\ (w.succeeded = "" => ups[w.upgrade].succeeded = "")
    /\ Has(w.writes, "clusterStatus") \/ w.succeeded = "Succeeded" =>
         Done(w.upgrade) /\ ups[w.upgrade].succeeded = ""
JobsReady ==
    /\ w.primary = status.startup /\ w.primary \in Instances
    /\ w.replicas \subseteq Instances \ {w.primary} /\ spec.version = From[w.upgrade]
    /\ Head(w.writes) = "upgradeJob" /\ Clean =>
         identifier = 0 \/ Head(Tail(w.writes)) = "endpoints"
WorkReady == w # Idle => OutcomeKnown /\ (JobWrite => JobsReady)

\* The new version is reported before the user has specified it only when the
\* allowed upgrade is done.
Ahead ==
    status.version > spec.version =>
        /\ spec.allow \in Upgrades
        /\ status.version = To[spec.allow] /\ spec.version = From[spec.allow]
        /\ spec.shutdown /\ status.stopped
        /\ \A i \in Instances \ {status.startup} : From[spec.allow] \notin data[i]
        /\ ups[spec.allow].succeeded # "Failed"
        /\ ups[spec.allow].succeeded = "" => Done(spec.allow)

\* After a success no Pod runs the old version again.
Moved(u) == spec.version >= To[u] /\ \A i \in Instances : pods[i] # 0 => pods[i] >= To[u]
Waiting(u) == spec.shutdown /\ status.stopped /\ spec.allow = u /\ spec.version = From[u]
Success ==
    \A u \in Upgrades : ups[u].succeeded = "Succeeded" =>
        /\ From[u] < To[u] /\ (Moved(u) \/ Waiting(u))
        /\ Clean => identifier = 0 \/ identifier >= To[u]

ReadyInv == JobsOn /\ Held /\ Cleared /\ WorkReady /\ Ahead /\ Success

-----------------------------------------------------------------------------
\* The versions are numbers.
LEMMA VersionTypes ==
    ASSUME Types
    PROVE  /\ spec.version \in Nat /\ status.version \in Nat /\ identifier \in Nat
           /\ spec.allow \in Upgrades \cup {None} /\ None \notin Upgrades
           /\ status.startup \in Instances \cup {None} /\ None \notin Instances
           /\ crashes \in Nat /\ \A i \in Instances : pods[i] \in Nat
           /\ \A u \in Upgrades : From[u] \in Nat /\ To[u] \in Nat /\ From[u] > 0 /\ To[u] > 0
  <1>1. None \notin Upgrades /\ None \notin Instances /\ \A v \in Versions \cup {0} : v \in Nat
    BY Constants_
  <1>2. spec.version \in Nat /\ status.version \in Nat /\ spec.allow \in Upgrades \cup {None}
        /\ status.startup \in Instances \cup {None}
    <2>1. spec \in Spec_ /\ status \in Status
      BY DEF Types
    <2>2. spec.version \in Versions /\ status.version \in Versions \cup {0}
          /\ spec.allow \in Upgrades \cup {None} /\ status.startup \in Instances \cup {None}
      BY <2>1 DEF Spec_, Status
    <2> QED BY <1>1, <2>2
  <1>3. identifier \in Nat /\ crashes \in Nat /\ \A i \in Instances : pods[i] \in Nat
    <2>1. identifier \in Versions \cup {0} /\ crashes \in 0..MaxFaults
          /\ \A i \in Instances : pods[i] \in Versions \cup {0}
      BY DEF Types
    <2> QED BY <1>1, <2>1, UpgradeAssumption
  <1>4. \A u \in Upgrades : From[u] \in Nat /\ To[u] \in Nat /\ From[u] > 0 /\ To[u] > 0
    BY UpgradeAssumption
  <1> QED BY <1>1, <1>2, <1>3, <1>4

\* A cluster that is shut down has a startup instance, and nothing runs or will.
LEMMA StoppedFacts ==
    ASSUME Types, LeaderRuns, ShutdownInv, spec.shutdown, status.stopped
    PROVE  /\ status.startup \in Instances /\ leader = None
           /\ \A i \in Instances : pods[i] = 0 /\ want[i] = 0
           /\ c.at = "apply" => c.startup = status.startup
  <1>1. PICK L \in Instances : GoingDown(L)
    BY DEF ShutdownInv, AllUp, LeaderUp
  <1>2. leader \in Instances \cup {None}
    BY DEF Types
  <1> QED BY <1>1, <1>2 DEF GoingDown, LeaderRuns

\* Writes of which one is made: no others come to be.
LEMMA Fewer ==
    ASSUME NEW l \in WriteLists, Head(l) # "status", NEW step, Has(Tail(l), step)
    PROVE  Has(l, step)
  <1>1. l \in Seq(Writes) /\ Len(l) >= 1
    BY DEF WriteLists
  <1>2. PICK k \in 1..Len(Tail(l)) : Tail(l)[k] = step
    BY DEF Has
  <1>3. Len(Tail(l)) = Len(l) - 1 /\ Len(l) \in Nat
    BY <1>1
  <1>4. Tail(l)[k] = l[k + 1] /\ k + 1 \in 1..Len(l)
    BY <1>1, <1>2, <1>3
  <1> QED BY <1>2, <1>4 DEF Has

\* The version is reported last, and Endpoints that exist are cleared with the first Job.
LEMMA PlanShape ==
    ASSUME NEW u \in Upgrades
    PROVE  LET l == Plan(u) \o <<"status">>
           IN  /\ Has(l, "clusterStatus") =>
                    ~ JobsFailed(u) /\ jobCompleted(upJob[u].state) /\ removeDataJobsComplete
               /\ Head(l) = "upgradeJob" => identifier = 0 \/ Head(Tail(l)) = "endpoints"
               /\ ~ Has(<<>> \o <<"status">>, "clusterStatus")
  <1> DEFINE clear == IF identifier # 0 THEN <<"endpoints">> ELSE <<>>
  <1>1. ASSUME NEW p \in Seq(Writes)
        PROVE  LET s == p \o <<"status">>
               IN  /\ Has(s, "clusterStatus") => Has(p, "clusterStatus")
                   /\ Len(p) >= 2 => Head(Tail(s)) = p[2]
                   /\ Len(p) >= 1 => Head(s) = p[1]
                   /\ Len(p) = 0 => Head(s) = "status"
    <2> DEFINE s == p \o <<"status">>
    <2>1. <<"status">> \in Seq(Writes) /\ Len(<<"status">>) = 1 /\ <<"status">>[1] = "status"
      BY DEF Writes
    <2>2. s \in Seq(Writes) /\ Len(s) = Len(p) + 1 /\ Len(p) \in Nat
      BY <1>1, <2>1
    <2>3. \A k \in 1..Len(s) : s[k] = IF k <= Len(p) THEN p[k] ELSE "status"
      BY <1>1, <2>1, <2>2
    <2> HIDE DEF s
    <2>4. Has(s, "clusterStatus") => Has(p, "clusterStatus")
      BY <2>2, <2>3 DEF Has
    <2>5. Len(p) >= 2 => Head(Tail(s)) = s[2]
      BY <2>2
    <2>6. Head(s) = s[1]
      BY <2>2
    <2> QED BY <2>2, <2>3, <2>4, <2>5, <2>6 DEF s
  <1>2. <<>> \in Seq(Writes) /\ Len(<<>>) = 0 /\ ~ Has(<<>>, "clusterStatus")
    BY DEF Has
  <1>3. ASSUME NEW a \in JobWrites
        PROVE  /\ <<a>> \o clear \in Seq(Writes) /\ ~ Has(<<a>> \o clear, "clusterStatus")
               /\ Len(<<a>> \o clear) >= 1 /\ (<<a>> \o clear)[1] = a
               /\ identifier # 0 => Len(<<a>> \o clear) >= 2 /\ (<<a>> \o clear)[2] = "endpoints"
    <2>1. <<a>> \in Seq(Writes) /\ Len(<<a>>) = 1 /\ <<a>>[1] = a /\ a # "clusterStatus"
      BY <1>3 DEF JobWrites, Writes
    <2>2. clear \in Seq(Writes) /\ Len(clear) \in 0..1 /\ (Len(clear) = 1 => clear[1] = "endpoints")
          /\ (identifier # 0 => Len(clear) = 1)
      <3>1. CASE identifier = 0
        BY <3>1
      <3>2. CASE identifier # 0
        <4>1. <<"endpoints">> \in Seq(Writes) /\ Len(<<"endpoints">>) = 1
              /\ <<"endpoints">>[1] = "endpoints" /\ clear = <<"endpoints">>
          BY <3>2 DEF Writes
        <4> HIDE DEF clear
        <4> QED BY <3>2, <4>1
      <3> QED BY <3>1, <3>2
    <2> HIDE DEF clear
    <2> DEFINE s == <<a>> \o clear
    <2>3. s \in Seq(Writes) /\ Len(s) = 1 + Len(clear)
      BY <2>1, <2>2
    <2>4. \A k \in 1..Len(s) : s[k] = IF k <= 1 THEN <<a>>[k] ELSE clear[k - 1]
      BY <2>1, <2>2, <2>3
    <2>5. \A k \in 1..Len(s) : s[k] # "clusterStatus"
      BY <2>1, <2>2, <2>3, <2>4
    <2> HIDE DEF s
    <2>6. ~ Has(s, "clusterStatus")
      BY <2>5 DEF Has
    <2> QED BY <2>1, <2>2, <2>3, <2>4, <2>6 DEF s
  <1>4. \/ Plan(u) = <<>>
        \/ /\ Plan(u) = <<"backupJobs", "clusterStatus">>
           /\ ~ JobsFailed(u) /\ jobCompleted(upJob[u].state) /\ removeDataJobsComplete
        \/ \E a \in JobWrites : Plan(u) = <<a>> \o clear
    BY DEF Plan, JobWrites
  <1> HIDE DEF clear
  <1>0. ~ Has(<<>> \o <<"status">>, "clusterStatus")
    BY <1>1, <1>2
  <1>5. CASE Plan(u) = <<>>
    BY <1>0, <1>1, <1>2, <1>5
  <1>6. CASE /\ Plan(u) = <<"backupJobs", "clusterStatus">>
             /\ ~ JobsFailed(u) /\ jobCompleted(upJob[u].state) /\ removeDataJobsComplete
    <2>1. Plan(u) \in Seq(Writes) /\ Len(Plan(u)) = 2 /\ Plan(u)[1] = "backupJobs"
      BY <1>6 DEF Writes
    <2> QED BY <1>0, <1>1, <1>6, <2>1
  <1>7. ASSUME NEW a \in JobWrites, Plan(u) = <<a>> \o clear
        PROVE  /\ ~ Has(Plan(u) \o <<"status">>, "clusterStatus")
               /\ identifier = 0 \/ Head(Tail(Plan(u) \o <<"status">>)) = "endpoints"
    BY <1>1, <1>3, <1>7
  <1> QED BY <1>0, <1>4, <1>5, <1>6, <1>7

\* The Jobs counted are all of the allowed upgrade and none is on its primary, so when there
\* are as many as the cluster has replicas every replica has one.
LEMMA AllRemoved ==
    ASSUME Types, JobInv, JobsOn, NEW u \in Upgrades,
           upJob[u].state = "complete", removeDataJobsComplete
    PROVE  Done(u)
  <1> DEFINE on == upJob[u].on
             R == Instances \ {on}
             J == {j \in RemoveDataJobs : jobCompleted(rmJob[j[1]][j[2]])}
             T == {<<u, i>> : i \in R}
             f == [i \in R |-> <<u, i>>]
  <1>1. upJob[u] # NoJob /\ JobsOf(u)
    BY DEF NoJob, JobsOf
  <1>2. on \in Instances /\ rmJob[u][on] = "absent" /\ u = spec.allow
    BY <1>1 DEF JobsOn, JobInv, JobsAllowed
  <1>3. ASSUME NEW j \in J PROVE j \in T
    <2>1. PICK v \in Upgrades, i \in Instances : j = <<v, i>> /\ rmJob[v][i] = "complete"
      BY <1>3 DEF RemoveDataJobs, jobCompleted
    <2>2. v = u
      BY <1>2, <2>1 DEF JobInv, JobsAllowed, JobsOf
    <2> QED BY <1>2, <2>1, <2>2
  <1>4. IsFiniteSet(R) /\ Cardinality(R) = Cardinality(Instances) - 1
    BY <1>2, UpgradeAssumption, FS_RemoveElement
  <1>5. f \in Surjection(R, T)
    BY DEF Surjection
  <1> HIDE DEF f
  <1>6. IsFiniteSet(T) /\ Cardinality(T) <= Cardinality(R)
    BY <1>4, <1>5, FS_Surjection
  <1>7. J \subseteq T /\ Cardinality(J) = Cardinality(Instances) - 1
    BY <1>3 DEF removeDataJobsComplete, ReplicasExpected
  <1> HIDE DEF J, T
  <1>8. IsFiniteSet(J) /\ Cardinality(J) <= Cardinality(T) /\ (Cardinality(T) = Cardinality(J) => T = J)
    BY <1>6, <1>7, FS_Subset
  <1>9. J = T
    <2>1. Cardinality(T) \in Nat /\ Cardinality(R) \in Nat /\ Cardinality(J) \in Nat
      BY <1>4, <1>6, <1>8, FS_CardinalityType
    <2> QED BY <1>4, <1>6, <1>7, <1>8, <2>1
  <1>10. ASSUME NEW i \in R PROVE rmJob[u][i] = "complete"
    <2>1. <<u, i>> \in J
      BY <1>9 DEF T
    <2> QED BY <2>1 DEF J, jobCompleted
  <1> QED BY <1>10 DEF Done

\* An upgrade whose Jobs are all complete has no failed one.
LEMMA DoneNotFailed ==
    ASSUME JobsOn, NEW u \in Upgrades, Done(u)
    PROVE  ~ FailedJob(u)
  <1>1. upJob[u] # NoJob /\ upJob[u].state = "complete"
    BY DEF Done, NoJob
  <1> QED BY <1>1 DEF Done, JobsOn, FailedJob

\* Steps that leave the upgrades alone, and a stopped cluster too.
LEMMA ReadyFrame ==
    ASSUME JobInv, ReadyInv,
           UNCHANGED <<spec.version, spec.allow, status.version, upJob, rmJob, ups, w, crashes, kept>>,
           spec.shutdown /\ status.stopped =>
               /\ spec'.shutdown /\ status'.stopped /\ status'.startup = status.startup
               /\ data' = data /\ identifier' = identifier
    PROVE  JobsOn' /\ Held' /\ Cleared' /\ WorkReady' /\ Ahead'
  <1> USE DEF ReadyInv
  <1>1. JobsOn'
    BY DEF JobsOn
  <1>2. Held'
    BY DEF Held, Open
  <1>3. Cleared'
    BY DEF Held, Cleared, Clean, Open
  <1>4. WorkReady'
    <2>1. w # Idle => OutcomeKnown'
      BY DEF WorkReady, OutcomeKnown, Done
    <2>2. w # Idle /\ JobWrite => JobsReady'
      BY DEF WorkReady, JobsReady, Clean, JobInv, WriteAllowed, JobWrite
    <2> QED BY <2>1, <2>2 DEF WorkReady, JobWrite
  <1>5. Ahead'
    BY DEF Ahead, Done
  <1> QED BY <1>1, <1>2, <1>3, <1>4, <1>5

\* The same for the upgrades that have succeeded.
LEMMA SuccessFrame ==
    ASSUME Types, Types', Success, UNCHANGED <<spec.version, spec.allow, ups, crashes, kept>>,
           spec.shutdown /\ status.stopped =>
               spec'.shutdown /\ status'.stopped /\ identifier' = identifier,
           \A i \in Instances : pods'[i] \in {0, pods[i], spec.version},
           identifier' = identifier \/ \E i \in Instances : pods[i] # 0 /\ identifier' = pods[i]
    PROVE  Success'
  <1> SUFFICES ASSUME NEW u \in Upgrades, ups[u].succeeded = "Succeeded"
               PROVE  /\ From[u] < To[u] /\ (Moved(u)' \/ Waiting(u)')
                      /\ Clean => identifier' = 0 \/ identifier' >= To[u]
    BY DEF Success, Clean
  <1>1. From[u] < To[u] /\ (Moved(u) \/ Waiting(u)) /\ (Clean => identifier = 0 \/ identifier >= To[u])
    BY DEF Success, Clean
  <1>2. CASE Waiting(u)
    BY <1>1, <1>2 DEF Waiting
  <1>3. CASE Moved(u)
    <2>1. Moved(u)'
      BY <1>3, VersionTypes DEF Moved
    <2> QED BY <1>1, <1>3, <2>1 DEF Moved
  <1> QED BY <1>1, <1>2, <1>3

\* The cluster's own controller, Kubernetes and Patroni.
LEMMA ReadyCluster ==
    ASSUME Types, Types', UpgradeIInv, ReadyInv,
           \/ ClusterObserves \/ ClusterFails \/ ClusterApplies \/ CreateCluster
           \/ \E i \in Instances : StartPod(i) \/ StopPod(i) \/ Lead(i) \/ Clone(i)
    PROVE  ReadyInv'
  <1>0. status \in Status /\ spec \in Spec_ /\ pods \in [Instances -> Versions \cup {0}]
    BY DEF Types
  <1>1. UNCHANGED <<spec.version, spec.allow, spec.shutdown, upJob, rmJob, ups, w, crashes, kept>>
    <2>1. CreateCluster => spec'.version = spec.version /\ spec'.allow = spec.allow
                           /\ spec'.shutdown = spec.shutdown
      BY <1>0 DEF CreateCluster, Spec_
    <2> QED BY <2>1 DEF ClusterObserves, ClusterFails, ClusterApplies, CreateCluster, StartPod, StopPod,
               Lead, Clone, jobVars, countVars, patroniVars
  <1>2. /\ status'.version = status.version
        /\ spec.shutdown /\ status.stopped => status'.stopped /\ status'.startup = status.startup
    <2>1. CASE ClusterApplies
      <3>1. spec.shutdown /\ status.stopped => status'.stopped
        BY <2>1, ShutdownApplied DEF UpgradeIInv
      <3>2. /\ status'.version = status.version
            /\ status'.startup = status.startup \/ (c.at = "apply" /\ status'.startup = c.startup)
        BY <1>0, <2>1 DEF ClusterApplies, ObservedStatus, Status
      <3>3. spec.shutdown /\ status.stopped /\ c.at = "apply" => c.startup = status.startup
        BY StoppedFacts DEF UpgradeIInv
      <3> QED BY <3>1, <3>2, <3>3
    <2> QED BY <2>1 DEF ClusterObserves, ClusterFails, CreateCluster, StartPod, StopPod, Lead, Clone
  <1>3. spec.shutdown /\ status.stopped => data' = data /\ identifier' = identifier
    <2> SUFFICES ASSUME spec.shutdown, status.stopped PROVE data' = data /\ identifier' = identifier
      OBVIOUS
    <2>1. leader = None /\ \A i \in Instances : pods[i] = 0
      BY StoppedFacts DEF UpgradeIInv
    <2> QED BY <2>1 DEF ClusterObserves, ClusterFails, ClusterApplies, CreateCluster, StartPod,
               StopPod, Lead, Clone, jobVars, patroniVars
  <1>4. \A i \in Instances : pods'[i] \in {0, pods[i], spec.version}
    BY <1>0 DEF ClusterObserves, ClusterFails, ClusterApplies, CreateCluster, StartPod, StopPod,
               Lead, Clone, clusterVars
  <1>5. identifier' = identifier \/ \E i \in Instances : pods[i] # 0 /\ identifier' = pods[i]
    BY DEF ClusterObserves, ClusterFails, ClusterApplies, CreateCluster, StartPod, StopPod,
               Lead, Clone, patroniVars
  <1>6. Success'
    BY <1>1, <1>2, <1>3, <1>4, <1>5, SuccessFrame DEF ReadyInv
  <1> QED BY <1>1, <1>2, <1>3, <1>6, ReadyFrame DEF ReadyInv, UpgradeIInv

\* An upgrade Job in any state but "absent" is one.
LEMMA HasJob ==
    ASSUME NEW u, upJob[u].state # "absent"
    PROVE  upJob[u] # NoJob /\ JobsOf(u)
  BY DEF NoJob, JobsOf

\* A reconcile is decided on what holds; none was in progress.
LEMMA ReadyReconcile ==
    ASSUME Types, UpgradeIInv, ReadyInv, NEW u \in Upgrades, Reconcile(u)
    PROVE  ReadyInv'
  <1>0. JobTypes
    BY JobTypesFact
  <1>1. /\ UNCHANGED <<spec, status, pods, identifier, kept, ups, data, upJob, rmJob, crashes>> /\ w = Idle
    BY DEF Reconcile, clusterVars, jobVars, countVars, patroniVars
  <1>2. JobsOn' /\ Held' /\ Ahead' /\ Success'
    BY <1>1 DEF ReadyInv, JobsOn, Held, Open, Ahead, Done, Success, Clean, Moved, Waiting
  <1>3. Cleared'
    BY <1>0, <1>1 DEF ReadyInv, Cleared, Clean, Open, JobTypes
  <1>4. CASE w' = w
    BY <1>1, <1>2, <1>3, <1>4 DEF ReadyInv, WorkReady
  <1>5. CASE w' # w
    <2> DEFINE l == (IF Blocked(u) = "" THEN Plan(u) ELSE <<>>) \o <<"status">>
    <2>1. /\ w'.upgrade = u /\ ups[u].exists /\ ups[u].succeeded # "Succeeded"
          /\ w'.succeeded = Succeeded(u) /\ w'.writes = l
          /\ w'.replicas = ClusterReplicas /\ w'.primary = status.startup
          /\ Head(w'.writes) \in JobWrites => Blocked(u) = ""
      <3>1. w'.writes = l
        <4>1. w' = [upgrade |-> u, writes |-> l, primary |-> status.startup, replicas |-> ClusterReplicas,
                    progressing |-> Progressing(u), succeeded |-> Succeeded(u)]
          BY <1>5 DEF Reconcile
        <4> HIDE DEF l
        <4> QED BY <4>1
      <3> HIDE DEF l
      <3> QED BY <1>5, <3>1, ReconcileType
    <2>2. /\ Has(l, "clusterStatus") => jobCompleted(upJob[u].state) /\ removeDataJobsComplete
          /\ Blocked(u) = "" /\ Head(l) = "upgradeJob" => identifier = 0 \/ Head(Tail(l)) = "endpoints"
      BY PlanShape
    <2> HIDE DEF l
    <2>3. ups[u].succeeded \in {"", "Succeeded", "Failed"}
      BY <1>0 DEF JobTypes, PGUpgrade
    <2>4. ASSUME jobCompleted(upJob[u].state), removeDataJobsComplete
          PROVE  Done(u) /\ ups[u].succeeded = ""
      <3>1. Done(u)
        BY <2>4, AllRemoved DEF jobCompleted, UpgradeIInv, ReadyInv
      <3>2. ~ FailedJob(u)
        BY <3>1, DoneNotFailed DEF ReadyInv
      <3> QED BY <2>1, <2>3, <3>1, <3>2 DEF UpgradeIInv, JobInv, FailedHasJob
    <2>5. /\ Succeeded(u) = "" => ups[u].succeeded = ""
          /\ Succeeded(u) = "Succeeded" => jobCompleted(upJob[u].state) /\ removeDataJobsComplete
      BY <2>1 DEF Succeeded
    <2>6. OutcomeKnown'
      BY <1>1, <2>1, <2>2, <2>4, <2>5 DEF OutcomeKnown, Done
    <2>7. ASSUME Head(w'.writes) \in JobWrites PROVE JobsReady'
      <3>1. status.startup # None /\ spec.version = From[u]
        BY <2>1, <2>7 DEF Blocked, InvalidForCluster
      <3>2. status.startup \in Instances
        BY <3>1, VersionTypes
      <3>3. ClusterReplicas = Instances \ {status.startup}
        BY <3>1 DEF ClusterReplicas
      <3> QED BY <1>1, <2>1, <2>2, <2>7, <3>1, <3>2, <3>3 DEF JobsReady, Clean
    <2>8. WorkReady'
      BY <2>6, <2>7 DEF WorkReady, JobWrite
    <2> QED BY <1>2, <1>3, <2>8 DEF ReadyInv
  <1> QED BY <1>4, <1>5

\* A write is made and is left out of those to come.
LEMMA ReadyWrite ==
    ASSUME Types, NEW step, step # "status", Writing(step), NextWrite, WorkReady
    PROVE  /\ w # Idle /\ OutcomeKnown /\ (step \in JobWrites => JobWrite /\ JobsReady)
           /\ w.upgrade \in Upgrades /\ w'.upgrade = w.upgrade /\ w'.succeeded = w.succeeded
           /\ Head(w.writes) = step /\ Head(w'.writes) = Head(Tail(w.writes)) /\ ~ JobWrite'
           /\ Has(w'.writes, "clusterStatus") => Has(w.writes, "clusterStatus")
           /\ step = "clusterStatus" => Has(w.writes, "clusterStatus")
  <1>1. w # Idle /\ Head(w.writes) = step /\ w \in Work /\ w.writes \in WriteLists
    BY DEF Writing, Types
  <1>2. w'.upgrade = w.upgrade /\ w.upgrade \in Upgrades /\ w'.succeeded = w.succeeded
        /\ Head(w'.writes) \notin JobWrites
    BY WriteType
  <1>3. w'.writes = Tail(w.writes)
    BY <1>1 DEF NextWrite, Work
  <1>4. Has(w'.writes, "clusterStatus") => Has(w.writes, "clusterStatus")
    BY <1>1, <1>3, Fewer
  <1>5. step = "clusterStatus" => Has(w.writes, "clusterStatus")
    <2>1. w.writes \in Seq(Writes) /\ Len(w.writes) >= 1
      BY <1>1 DEF WriteLists
    <2>2. Head(w.writes) = w.writes[1] /\ 1 \in 1..Len(w.writes)
      BY <2>1
    <2> QED BY <1>1, <2>2 DEF Has
  <1> QED BY <1>1, <1>2, <1>3, <1>4, <1>5 DEF WorkReady, JobWrite

LEMMA ReadyApplyUpgrade ==
    ASSUME Types, UpgradeIInv, ReadyInv, ApplyUpgradeJob
    PROVE  ReadyInv'
  <1>0. JobTypes
    BY JobTypesFact
  <1> DEFINE u == w.upgrade
  <1>1. /\ UNCHANGED <<spec, status, pods, identifier, kept, ups, data, rmJob, crashes>>
        /\ Writing("upgradeJob") /\ NextWrite
        /\ upJob' = [upJob EXCEPT ![u] = IF upJob[u] = NoJob THEN [state |-> "active", on |-> w.primary]
                                         ELSE upJob[u]]
    BY DEF ApplyUpgradeJob, clusterVars, countVars, patroniVars
  <1>2. /\ w # Idle /\ OutcomeKnown /\ JobWrite /\ JobsReady /\ u \in Upgrades
        /\ w'.upgrade = u /\ w'.succeeded = w.succeeded
        /\ Head(w.writes) = "upgradeJob" /\ Head(w'.writes) = Head(Tail(w.writes)) /\ ~ JobWrite'
        /\ Has(w'.writes, "clusterStatus") => Has(w.writes, "clusterStatus")
    BY <1>1, ReadyWrite DEF ReadyInv, JobWrites
  <1>3. u = spec.allow /\ spec.shutdown /\ status.stopped /\ ups[u].exists /\ ups[u].succeeded = ""
    BY <1>2 DEF UpgradeIInv, JobInv, WriteAllowed
  <1> HIDE DEF u
  <1>4. /\ \A v \in Upgrades : v # u => upJob'[v] = upJob[v] /\ upJob[v] = NoJob
        /\ \/ upJob'[u] = upJob[u] /\ upJob[u] # NoJob
           \/ upJob[u] = NoJob /\ upJob'[u] = [state |-> "active", on |-> w.primary]
    BY <1>0, <1>1, <1>2, <1>3 DEF JobTypes, UpgradeIInv, JobInv, JobsAllowed, JobsOf
  <1>5. upJob[u] = NoJob => \A i \in Instances : rmJob[u][i] = "absent"
    BY <1>2 DEF UpgradeIInv, JobInv, RemovesAfter, NoJob
  <1>6. JobsOn'
    BY <1>1, <1>2, <1>4, <1>5 DEF ReadyInv, JobsOn, JobsReady, Clean
  <1>7. Held'
    <2> SUFFICES ASSUME NEW v \in Upgrades, Open(v)'
                 PROVE  /\ ups[v].exists /\ spec.shutdown /\ status.stopped /\ spec.version = From[v]
                        /\ status.startup = upJob'[v].on
                        /\ \A i \in Instances : rmJob[v][i] = "complete" => From[v] \notin data[i]
      BY <1>1 DEF Held
    <2>1. v = u
      BY <1>4 DEF Open
    <2>2. CASE upJob[u] # NoJob
      <3>1. Open(u) /\ upJob'[u] = upJob[u]
        BY <1>3, <1>4, <2>2 DEF Open
      <3> QED BY <1>2, <2>1, <3>1 DEF ReadyInv, Held
    <2>3. CASE upJob[u] = NoJob
      <3>1. w.primary = status.startup /\ spec.version = From[u]
        BY <1>2 DEF JobsReady, Clean, u
      <3>2. upJob'[u].on = w.primary
        BY <1>4, <2>3
      <3> QED BY <1>3, <1>5, <2>1, <2>3, <3>1, <3>2
    <2> QED BY <2>2, <2>3
  <1>8. Cleared'
    BY <1>1, <1>2, <1>3, <1>4 DEF ReadyInv, Cleared, Clean, Open, JobsReady, u
  <1>9. \A v \in Upgrades : Done(v) => Done(v)'
    BY <1>1, <1>4 DEF Done, NoJob
  <1>10. WorkReady'
    BY <1>1, <1>2, <1>9 DEF WorkReady, OutcomeKnown, u
  <1>11. Ahead' /\ Success'
    BY <1>1, <1>9 DEF ReadyInv, Ahead, Success, Clean, Moved, Waiting
  <1> QED BY <1>6, <1>7, <1>8, <1>10, <1>11 DEF ReadyInv

LEMMA ReadyApplyRemoves ==
    ASSUME Types, UpgradeIInv, ReadyInv, NEW j \in Instances, ApplyRemoveDataJob(j)
    PROVE  ReadyInv'
  <1>0. JobTypes
    BY JobTypesFact
  <1> DEFINE u == w.upgrade
  <1>1. /\ UNCHANGED <<spec, status, pods, identifier, kept, ups, data, upJob, crashes>>
        /\ rmJob' = [rmJob EXCEPT ![u][j] = IF rmJob[u][j] = "absent" THEN "active" ELSE rmJob[u][j]]
    BY DEF ApplyRemoveDataJob, clusterVars, countVars, patroniVars
  <1>2. /\ w # Idle /\ w' # Idle /\ u \in Upgrades
        /\ w'.upgrade = u /\ w'.succeeded = w.succeeded /\ w'.primary = w.primary
        /\ j \in w.replicas /\ w'.replicas \subseteq w.replicas
        /\ Head(w.writes) = "removeDataJobs"
        /\ w'.writes = w.writes \/ (w'.writes = Tail(w.writes) /\ Head(w'.writes) \notin JobWrites)
    BY RemoveType
  <1>3. OutcomeKnown /\ JobWrite /\ JobsReady
    BY <1>2 DEF ReadyInv, WorkReady, JobWrite, JobWrites
  <1>4. Has(w'.writes, "clusterStatus") => Has(w.writes, "clusterStatus")
    <2>1. w.writes \in WriteLists
      BY <1>0, <1>2 DEF JobTypes
    <2> QED BY <1>2, <2>1, Fewer
  <1>5. u = spec.allow /\ ups[u].succeeded = "" /\ upJob[u].state = "complete" /\ Open(u)
    <2>1. u = spec.allow /\ ups[u].succeeded = "" /\ upJob[u].state = "complete"
      BY <1>2, <1>3 DEF UpgradeIInv, JobInv, WriteAllowed
    <2> QED BY <2>1, HasJob DEF Open
  <1>6. status.startup = upJob[u].on /\ j # upJob[u].on
    BY <1>2, <1>3, <1>5 DEF ReadyInv, Held, JobsReady
  <1> HIDE DEF u
  <1>7. /\ \A v \in Upgrades : v # u => rmJob'[v] = rmJob[v]
        /\ \A i \in Instances :
             /\ rmJob'[u][i] = rmJob[u][i] \/ (rmJob[u][i] = "absent" /\ rmJob'[u][i] = "active")
             /\ i = upJob[u].on => rmJob'[u][i] = rmJob[u][i]
    BY <1>0, <1>1, <1>2, <1>6 DEF JobTypes
  <1>8. JobsOn'
    BY <1>1, <1>2, <1>7 DEF ReadyInv, JobsOn
  <1>9. Held'
    <2>1. \A v \in Upgrades : \A i \in Instances : rmJob'[v][i] = "complete" => rmJob[v][i] = "complete"
      BY <1>7
    <2> QED BY <1>1, <2>1 DEF ReadyInv, Held, Open
  <1>10. Cleared'
    BY <1>1, <1>2 DEF ReadyInv, Cleared, Clean, Open
  <1>11. \A v \in Upgrades : Done(v) => Done(v)'
    BY <1>1, <1>7 DEF Done
  <1>12. WorkReady'
    <2>1. OutcomeKnown'
      BY <1>1, <1>2, <1>3, <1>4, <1>11 DEF OutcomeKnown, u
    <2>2. JobWrite' => JobsReady'
      BY <1>1, <1>2, <1>3 DEF JobWrite, JobsReady, Clean, u
    <2> QED BY <2>1, <2>2 DEF WorkReady
  <1>13. Ahead' /\ Success'
    BY <1>1, <1>11 DEF ReadyInv, Ahead, Success, Clean, Moved, Waiting
  <1> QED BY <1>8, <1>9, <1>10, <1>12, <1>13 DEF ReadyInv

\* A write fails.  A Job that was not created holds nothing; Endpoints that were not deleted
\* are kept, and the promise about them ends there.
LEMMA ReadyWriteFails ==
    ASSUME Types, UpgradeIInv, ReadyInv, WriteFails
    PROVE  ReadyInv'
  <1> DEFINE u == w.upgrade
  <1>1. UNCHANGED <<spec, status, pods, identifier, ups, data, upJob, rmJob, crashes>>
    BY DEF WriteFails, clusterVars, jobVars
  <1>2. /\ w # Idle /\ w' # Idle /\ u \in Upgrades
        /\ w'.upgrade = u /\ w'.succeeded = w.succeeded /\ Head(w'.writes) \notin JobWrites
        /\ w'.writes = Tail(w.writes) \/ w'.writes = <<"status">>
        /\ w.writes \in WriteLists /\ Head(w.writes) # "status"
        /\ (Head(w.writes) = "endpoints" => kept') /\ (kept => kept')
    BY FailType
  <1>3. Has(w'.writes, "clusterStatus") => Has(w.writes, "clusterStatus")
    <2>1. ~ Has(<<"status">>, "clusterStatus")
      BY DEF Has
    <2> QED BY <1>2, <2>1, Fewer
  <1>4. OutcomeKnown
    BY <1>2 DEF ReadyInv, WorkReady
  <1> HIDE DEF u
  <1>5. JobsOn' /\ Held' /\ Ahead'
    BY <1>1 DEF ReadyInv, JobsOn, Held, Open, Ahead, Done
  <1>6. Success'
    BY <1>1, <1>2 DEF ReadyInv, Success, Clean, Moved, Waiting
  <1>7. Cleared'
    BY <1>1, <1>2 DEF ReadyInv, Cleared, Clean, Open, u
  <1>8. WorkReady'
    BY <1>1, <1>2, <1>3, <1>4 DEF WorkReady, OutcomeKnown, JobWrite, Done, u
  <1> QED BY <1>5, <1>6, <1>7, <1>8 DEF ReadyInv

\* Endpoints and backup Jobs are deleted, and the new version is reported.
LEMMA ReadyOtherWrites ==
    ASSUME Types, UpgradeIInv, ReadyInv, DeleteEndpoints \/ DeleteBackupJobs \/ PatchClusterStatus
    PROVE  ReadyInv'
  <1> DEFINE u == w.upgrade
  <1>0. status \in Status
    BY DEF Types
  <1>1. /\ UNCHANGED <<spec, pods, ups, data, upJob, rmJob, crashes>> /\ NextWrite
        /\ identifier' = 0 \/ (identifier' = identifier /\ kept' = kept)
        /\ status'.stopped = status.stopped /\ status'.startup = status.startup
    BY <1>0 DEF DeleteEndpoints, DeleteBackupJobs, PatchClusterStatus, clusterVars, jobVars, countVars, patroniVars,
                Status
  <1>2. PICK step \in {"endpoints", "backupJobs", "clusterStatus"} :
             /\ Writing(step)
             /\ step = "endpoints" => identifier' = 0
             /\ step # "endpoints" => identifier' = identifier /\ kept' = kept
             /\ step = "clusterStatus" => status'.version = To[u]
             /\ step # "clusterStatus" => status'.version = status.version
    BY <1>0 DEF DeleteEndpoints, DeleteBackupJobs, PatchClusterStatus, Status, patroniVars
  <1>3. /\ w # Idle /\ OutcomeKnown /\ u \in Upgrades
        /\ w'.upgrade = u /\ w'.succeeded = w.succeeded /\ Head(w.writes) = step /\ ~ JobWrite'
        /\ Has(w'.writes, "clusterStatus") => Has(w.writes, "clusterStatus")
        /\ step = "clusterStatus" => Has(w.writes, "clusterStatus")
    BY <1>1, <1>2, ReadyWrite DEF ReadyInv
  <1> HIDE DEF u
  <1>4. JobsOn' /\ Held'
    BY <1>1 DEF ReadyInv, JobsOn, Held, Open
  <1>5. Cleared'
    <2>1. CASE step = "endpoints"
      BY <1>2, <2>1 DEF Cleared
    <2>2. CASE step # "endpoints"
      <3>1. Clean' = Clean
        BY <1>1, <1>2, <2>2 DEF Clean
      <3> QED BY <1>1, <1>2, <1>3, <2>2, <3>1 DEF ReadyInv, Cleared, Open, u
    <2> QED BY <2>1, <2>2
  <1>6. WorkReady'
    BY <1>1, <1>3 DEF WorkReady, OutcomeKnown, Done, u
  <1>7. Success'
    BY <1>1 DEF ReadyInv, Success, Clean, Moved, Waiting
  <1>8. CASE step # "clusterStatus"
    <2>1. Ahead'
      BY <1>1, <1>2, <1>8 DEF ReadyInv, Ahead, Done
    <2> QED BY <1>4, <1>5, <1>6, <1>7, <2>1 DEF ReadyInv
  <1>9. CASE step = "clusterStatus"
    <2>1. Done(u) /\ ups[u].succeeded = ""
      BY <1>3, <1>9 DEF OutcomeKnown, u
    <2>2. Open(u) /\ JobsOf(u)
      BY <2>1, HasJob DEF Open, Done
    <2>3. u = spec.allow
      BY <1>3, <2>2 DEF UpgradeIInv, JobInv, JobsAllowed
    <2>4. \A i \in Instances \ {status.startup} : From[u] \notin data[i]
      BY <1>3, <2>1, <2>2 DEF ReadyInv, Held, Done
    <2>5. spec.shutdown /\ status.stopped /\ spec.version = From[u]
      BY <1>3, <2>2 DEF ReadyInv, Held
    <2>6. Ahead'
      BY <1>1, <1>2, <1>3, <1>9, <2>1, <2>3, <2>4, <2>5 DEF Ahead, Done
    <2> QED BY <1>4, <1>5, <1>6, <1>7, <2>6 DEF ReadyInv
  <1> QED BY <1>8, <1>9

\* What the user and a failed observation change of the upgrades.
LEMMA ObjectsChange ==
    ASSUME Types, NEW u \in Upgrades, CreateUpgrade(u) \/ DeleteUpgrade(u) \/ ReconcileFails(u)
    PROVE  \A v \in Upgrades : /\ ups'[v].succeeded = ups[v].succeeded
                               /\ ups[v].exists /\ ups[v].succeeded = "" => ups'[v].exists
  <1>1. ups \in [Upgrades -> PGUpgrade] /\ ups[u] \in PGUpgrade
    BY DEF Types
  <1>2. CASE CreateUpgrade(u)
    BY <1>1, <1>2 DEF CreateUpgrade, PGUpgrade
  <1>3. CASE DeleteUpgrade(u)
    BY <1>1, <1>3 DEF DeleteUpgrade, PGUpgrade
  <1>4. CASE ReconcileFails(u)
    BY <1>1, <1>4 DEF ReconcileFails, PGUpgrade
  <1> QED BY <1>2, <1>3, <1>4

LEMMA ReadyObjects ==
    ASSUME Types, ReadyInv, NEW u \in Upgrades, CreateUpgrade(u) \/ DeleteUpgrade(u) \/ ReconcileFails(u)
    PROVE  ReadyInv'
  <1>0. JobTypes
    BY JobTypesFact
  <1>1. UNCHANGED <<spec, status, pods, identifier, kept, data, upJob, rmJob, w, crashes>>
    BY DEF CreateUpgrade, DeleteUpgrade, ReconcileFails, clusterVars, jobVars, countVars, patroniVars
  <1>2. \A v \in Upgrades : /\ ups'[v].succeeded = ups[v].succeeded
                            /\ ups[v].exists /\ ups[v].succeeded = "" => ups'[v].exists
    BY ObjectsChange
  <1>3. JobsOn' /\ Held' /\ Cleared'
    BY <1>1, <1>2 DEF ReadyInv, JobsOn, Held, Cleared, Clean, Open
  <1>4. WorkReady'
    <2>1. w # Idle => OutcomeKnown'
      BY <1>0, <1>1, <1>2 DEF ReadyInv, WorkReady, OutcomeKnown, Done, JobTypes
    <2>2. JobWrite => JobsReady'
      BY <1>1 DEF ReadyInv, WorkReady, JobsReady, Clean, JobWrite
    <2> QED BY <1>1, <2>1, <2>2 DEF WorkReady, JobWrite
  <1>5. Ahead'
    BY <1>1, <1>2 DEF ReadyInv, Ahead, Done
  <1>6. Success'
    BY <1>1, <1>2 DEF ReadyInv, Success, Clean, Moved, Waiting
  <1> QED BY <1>3, <1>4, <1>5, <1>6 DEF ReadyInv

\* The end of a reconcile: success is reported only of an upgrade that is done.
LEMMA ReadyPatchStatus ==
    ASSUME Types, UpgradeIInv, ReadyInv, PatchStatus
    PROVE  ReadyInv'
  <1>0. JobTypes
    BY JobTypesFact
  <1> DEFINE u == w.upgrade
             now == [ups[u] EXCEPT !.progressing = w.progressing, !.succeeded = w.succeeded]
  <1>1. /\ UNCHANGED <<spec, status, pods, identifier, kept, data, upJob, rmJob, crashes>>
        /\ u \in Upgrades /\ w' = Idle /\ w # Idle /\ Head(w.writes) = "status"
        /\ ups' = ups \/ (ups[u].exists /\ ups' = [ups EXCEPT ![u] = now])
    BY <1>0 DEF PatchStatus, clusterVars, jobVars, countVars, patroniVars, Writing, JobTypes
  <1>2. /\ \A v \in Upgrades : ups'[v].exists = ups[v].exists
        /\ \A v \in Upgrades : v # u => ups'[v].succeeded = ups[v].succeeded
        /\ ups'[u].succeeded = ups[u].succeeded \/ (ups[u].exists /\ ups'[u].succeeded = w.succeeded)
    <2>1. ups \in [Upgrades -> PGUpgrade] /\ ups[u] \in PGUpgrade
      BY <1>0, <1>1 DEF JobTypes
    <2>2. now.succeeded = w.succeeded /\ now.exists = ups[u].exists
      BY <2>1 DEF PGUpgrade
    <2> HIDE DEF now
    <2> QED BY <1>1, <2>1, <2>2
  <1>3. OutcomeKnown
    BY <1>1 DEF ReadyInv, WorkReady
  <1>4. /\ ups[u].succeeded # "Succeeded" /\ (w.succeeded = "" => ups[u].succeeded = "")
        /\ w.succeeded = "Succeeded" => Done(u) /\ ups[u].succeeded = ""
    BY <1>3 DEF OutcomeKnown
  <1>5. w.succeeded = "Failed" /\ ups[u].exists => FailedJob(u)
    BY <1>0, <1>1 DEF UpgradeIInv, JobInv, WorkKnown, JobTypes
  <1> HIDE DEF u, now
  <1>6. \A v \in Upgrades : Open(v)' => Open(v)
    BY <1>1, <1>2, <1>4 DEF Open
  <1>7. JobsOn' /\ Held' /\ WorkReady'
    <2>1. JobsOn' /\ WorkReady'
      BY <1>1 DEF ReadyInv, JobsOn, WorkReady
    <2>2. Held'
      BY <1>1, <1>2, <1>6 DEF ReadyInv, Held
    <2> QED BY <2>1, <2>2
  <1>8. Cleared'
    BY <1>1, <1>6 DEF ReadyInv, Cleared, Clean
  <1>9. Ahead'
    <2> SUFFICES ASSUME status.version > spec.version
                 PROVE  /\ ups'[spec.allow].succeeded # "Failed"
                        /\ ups'[spec.allow].succeeded = "" => Done(spec.allow)
      BY <1>1 DEF ReadyInv, Ahead, Done
    <2> DEFINE a == spec.allow
    <2>1. a \in Upgrades /\ ups[a].succeeded # "Failed" /\ (ups[a].succeeded = "" => Done(a))
      BY DEF ReadyInv, Ahead
    <2>2. ups[a].succeeded \in {"", "Succeeded", "Failed"}
      BY <1>0, <2>1 DEF JobTypes, PGUpgrade
    <2>3. Done(a) => ~ FailedJob(a)
      BY <2>1, DoneNotFailed DEF ReadyInv
    <2> QED BY <1>2, <1>4, <1>5, <2>1, <2>2, <2>3
  <1>10. Success'
    <2>1. ASSUME w.succeeded = "Succeeded"
          PROVE  /\ From[u] < To[u] /\ Waiting(u)
                 /\ Clean => identifier = 0
      <3>1. Done(u) /\ ups[u].succeeded = "" /\ upJob[u].state # "absent"
        BY <1>4, <2>1 DEF Done
      <3>2. JobsOf(u) /\ Open(u)
        BY <3>1, HasJob DEF Open
      <3>3. u = spec.allow /\ From[u] < To[u]
        BY <1>1, <3>2 DEF UpgradeIInv, JobInv, JobsAllowed
      <3>4. spec.shutdown /\ status.stopped /\ spec.version = From[u]
        BY <1>1, <3>2 DEF ReadyInv, Held
      <3>5. Clean => identifier = 0
        BY <1>1, <3>2 DEF ReadyInv, Cleared, Clean
      <3> QED BY <3>3, <3>4, <3>5 DEF Waiting
    <2>2. \A v \in Upgrades : ups'[v].succeeded = "Succeeded" =>
             ups[v].succeeded = "Succeeded" \/ (v = u /\ w.succeeded = "Succeeded")
      BY <1>2
    <2>3. \A v \in Upgrades : (Moved(v) => Moved(v)') /\ (Waiting(v) => Waiting(v)')
      BY <1>1 DEF Moved, Waiting
    <2> QED BY <1>1, <2>1, <2>2, <2>3 DEF ReadyInv, Success, Clean
  <1> QED BY <1>7, <1>8, <1>9, <1>10 DEF ReadyInv

\* The Jobs run, or are collected with an upgrade that has ended.
LEMMA ReadyJobs ==
    ASSUME Types, UpgradeIInv, ReadyInv, NEW u \in Upgrades,
           CollectJobs(u) \/ RunUpgradeJob(u) \/ \E i \in Instances : RunRemoveDataJob(u, i)
    PROVE  ReadyInv'
  <1>0. JobTypes /\ data \in [Instances -> SUBSET Versions]
    BY JobTypesFact DEF Types
  <1>1. UNCHANGED <<spec, status, pods, identifier, kept, ups, w, crashes>>
    BY DEF CollectJobs, RunUpgradeJob, RunRemoveDataJob, clusterVars, countVars, patroniVars
  <1>2. Success'
    BY <1>1 DEF ReadyInv, Success, Clean, Moved, Waiting
  <1>3. \A v \in Upgrades : Done(v) => upJob[v] # NoJob /\ JobsOf(v)
    BY HasJob DEF Done
  <1>4. CASE CollectJobs(u)
    <2>1. /\ ~ ups[u].exists /\ data' = data
          /\ upJob'[u] = NoJob /\ \A i \in Instances : rmJob'[u][i] = "absent"
          /\ \A v \in Upgrades : v # u => upJob'[v] = upJob[v] /\ rmJob'[v] = rmJob[v]
      BY <1>0, <1>4 DEF CollectJobs, JobTypes
    <2>2. \A v \in Upgrades : Open(v)' => v # u /\ Open(v)
      BY <1>1, <2>1 DEF Open
    <2>3. JobsOn' /\ Held' /\ Cleared'
      <3>1. JobsOn'
        BY <2>1 DEF ReadyInv, JobsOn
      <3>2. Held'
        BY <1>1, <2>1, <2>2 DEF ReadyInv, Held
      <3>3. Cleared'
        BY <1>1, <2>2 DEF ReadyInv, Cleared, Clean
      <3> QED BY <3>1, <3>2, <3>3
    <2>4. \A v \in Upgrades : Done(v) /\ ups[v].succeeded = "" => Done(v)'
      <3> SUFFICES ASSUME NEW v \in Upgrades, Done(v), ups[v].succeeded = "" PROVE Done(v)'
        OBVIOUS
      <3>1. ups[v].exists
        BY <1>3 DEF ReadyInv, Held, Open
      <3> QED BY <2>1, <3>1 DEF Done
    <2>5. WorkReady'
      <3>1. w # Idle => OutcomeKnown'
        BY <1>0, <1>1, <2>4 DEF ReadyInv, WorkReady, OutcomeKnown, JobTypes
      <3>2. JobWrite => JobsReady'
        BY <1>1 DEF ReadyInv, WorkReady, JobsReady, Clean, JobWrite
      <3> QED BY <1>1, <3>1, <3>2 DEF WorkReady, JobWrite
    <2>6. Ahead'
      BY <1>1, <2>1, <2>4 DEF ReadyInv, Ahead
    <2> QED BY <1>2, <2>3, <2>5, <2>6 DEF ReadyInv
  <1>5. CASE RunUpgradeJob(u) \/ \E i \in Instances : RunRemoveDataJob(u, i)
    <2>1. PICK i \in Instances :
             /\ \A v \in Upgrades : v # u => upJob'[v] = upJob[v] /\ rmJob'[v] = rmJob[v]
             /\ upJob'[u].on = upJob[u].on /\ upJob'[u] # NoJob /\ upJob[u].state # "absent"
             /\ \A j \in Instances : \A n \in data'[j] : n \in data[j] \/ n = To[u]
             /\ \/ upJob[u].state = "active" /\ rmJob' = rmJob
                \/ /\ upJob[u].state = "complete" /\ upJob' = upJob /\ rmJob[u][i] = "active"
                   /\ \A j \in Instances : j # i => rmJob'[u][j] = rmJob[u][j]
                   /\ rmJob'[u][i] = "complete" => From[u] \notin data'[i]
      <3>1. CASE RunUpgradeJob(u)
        <4>1. /\ upJob[u].state = "active" /\ rmJob' = rmJob
              /\ \A v \in Upgrades : v # u => upJob'[v] = upJob[v]
              /\ upJob'[u].state \in {"complete", "failed"} /\ upJob'[u].on = upJob[u].on
          BY <1>0, <3>1 DEF RunUpgradeJob, JobTypes
        <4>2. upJob'[u] # NoJob
          BY <4>1 DEF NoJob
        <4>3. \A j \in Instances : \A n \in data'[j] : n \in data[j] \/ n = To[u]
          BY <1>0, <3>1 DEF RunUpgradeJob
        <4> QED BY <4>1, <4>2, <4>3, Constants_
      <3>2. ASSUME NEW i \in Instances, RunRemoveDataJob(u, i)
            PROVE  /\ \A v \in Upgrades : v # u => upJob'[v] = upJob[v] /\ rmJob'[v] = rmJob[v]
                   /\ upJob' = upJob /\ upJob[u].state = "complete" /\ rmJob[u][i] = "active"
                   /\ \A j \in Instances : \A n \in data'[j] : n \in data[j]
                   /\ \A j \in Instances : j # i => rmJob'[u][j] = rmJob[u][j]
                   /\ rmJob'[u][i] = "complete" => From[u] \notin data'[i]
        <4>1. /\ \A v \in Upgrades : v # u => upJob'[v] = upJob[v] /\ rmJob'[v] = rmJob[v]
              /\ upJob' = upJob /\ rmJob[u][i] = "active"
              /\ \A j \in Instances : j # i => rmJob'[u][j] = rmJob[u][j]
          BY <1>0, <3>2 DEF RunRemoveDataJob, JobTypes
        <4>2. upJob[u].state = "complete"
          BY <4>1 DEF UpgradeIInv, JobInv, RemovesAfter
        <4>3. /\ \A j \in Instances : \A n \in data'[j] : n \in data[j]
              /\ rmJob'[u][i] = "complete" => From[u] \notin data'[i]
          BY <1>0, <3>2 DEF RunRemoveDataJob, JobTypes
        <4> QED BY <4>1, <4>2, <4>3
      <3>3. upJob[u].state = "complete" => upJob[u] # NoJob
        BY HasJob
      <3> QED BY <1>5, <3>1, <3>2, <3>3
    <2>2. upJob[u] # NoJob /\ JobsOf(u)
      BY <2>1, HasJob
    <2>3. u = spec.allow /\ From[u] < To[u] /\ From[u] # To[u]
      <3>1. From[u] \in Nat /\ To[u] \in Nat
        BY Constants_
      <3> QED BY <2>2, <3>1 DEF UpgradeIInv, JobInv, JobsAllowed
    <2>4. \A v \in Upgrades : upJob[v] # NoJob => v = u
      BY <2>3 DEF UpgradeIInv, JobInv, JobsAllowed, JobsOf
    <2>5. upJob[u].on \in Instances /\ rmJob[u][upJob[u].on] = "absent"
      BY <2>2 DEF ReadyInv, JobsOn
    <2>6. \A v \in Upgrades : ~ Done(v)
      <3>1. ~ Done(u)
        BY <2>1, <2>5 DEF Done
      <3> QED BY <1>3, <2>4, <3>1
    <2>7. JobsOn'
      BY <2>1, <2>4, <2>5 DEF JobsOn
    <2>8. \A v \in Upgrades : Open(v)' => v = u /\ Open(u)
      BY <1>1, <2>1, <2>2, <2>4 DEF Open
    <2>9. Held'
      <3> SUFFICES ASSUME Open(u), NEW j \in Instances, rmJob'[u][j] = "complete"
                   PROVE  From[u] \notin data'[j]
        BY <1>1, <2>1, <2>8 DEF ReadyInv, Held
      <3>1. CASE rmJob[u][j] = "complete"
        <4>1. From[u] \notin data[j]
          BY <3>1 DEF ReadyInv, Held
        <4> QED BY <2>1, <2>3, <4>1
      <3>2. CASE rmJob[u][j] # "complete"
        BY <2>1, <3>2
      <3> QED BY <3>1, <3>2
    <2>10. Cleared'
      BY <1>1, <2>8 DEF ReadyInv, Cleared, Clean
    <2>11. WorkReady'
      <3>1. w # Idle => OutcomeKnown'
        BY <1>0, <1>1, <2>6 DEF ReadyInv, WorkReady, OutcomeKnown, JobTypes
      <3>2. JobWrite => JobsReady'
        BY <1>1 DEF ReadyInv, WorkReady, JobsReady, Clean, JobWrite
      <3> QED BY <1>1, <3>1, <3>2 DEF WorkReady, JobWrite
    <2>12. Ahead'
      <3> SUFFICES ASSUME status.version > spec.version PROVE Ahead'
        BY <1>1 DEF Ahead
      <3>1. \A j \in Instances \ {status.startup} : From[u] \notin data'[j]
        BY <2>1, <2>3 DEF ReadyInv, Ahead
      <3> QED BY <1>1, <2>3, <2>6, <3>1 DEF ReadyInv, Ahead
    <2> QED BY <1>2, <2>7, <2>9, <2>10, <2>11, <2>12 DEF ReadyInv
  <1> QED BY <1>4, <1>5

\* The user: nothing is started or allowed while an upgrade holds the cluster, and after
\* a success the new version is specified first.
LEMMA ReadyUser ==
    ASSUME Careful, Types, Types', UpgradeIInv, ReadyInv,
           Shutdown \/ Restart \/ \E u \in Upgrades : Allow(u)
    PROVE  ReadyInv'
  <1>0. JobTypes /\ spec \in Spec_
    BY JobTypesFact DEF Types
  <1>1. UNCHANGED <<status, pods, identifier, kept, ups, data, upJob, rmJob, w, crashes>>
    BY DEF Shutdown, Restart, Allow, clusterVars, jobVars, countVars, patroniVars
  <1>2. CASE Shutdown
    <2>1. ~ spec.shutdown /\ spec'.version = spec.version /\ spec'.allow = spec.allow
      BY <1>0, <1>2 DEF Shutdown, Spec_
    <2>2. Success'
      BY <1>1, <2>1, SuccessFrame DEF ReadyInv
    <2> QED BY <1>1, <2>1, <2>2, ReadyFrame DEF ReadyInv, UpgradeIInv
  <1>3. CASE Restart \/ \E u \in Upgrades : Allow(u)
    <2>1. spec.allow # None => ups[spec.allow].succeeded # ""
      BY <1>3 DEF Restart, Allow
    <2>2. \A v \in Upgrades : ~ Open(v)
      BY <1>0, <2>1 DEF Open, UpgradeIInv, JobInv, JobsAllowed, JobsOf, JobTypes
    <2>3. ~ JobWrite
      BY <1>0, <2>1 DEF UpgradeIInv, JobInv, WriteAllowed, JobWrite, JobTypes
    <2>4. JobsOn' /\ Held' /\ Cleared'
      <3>1. \A v \in Upgrades : ~ Open(v)'
        BY <1>1, <2>2 DEF Open
      <3> QED BY <1>1, <3>1 DEF ReadyInv, JobsOn, Held, Cleared, Clean
    <2>5. WorkReady'
      BY <1>1, <2>3 DEF ReadyInv, WorkReady, OutcomeKnown, Done, JobWrite
    <2>6. ASSUME status.version > spec.version
          PROVE  /\ spec.allow \in Upgrades /\ ups[spec.allow].succeeded = "Succeeded"
                 /\ status.version = To[spec.allow] /\ spec.version < To[spec.allow]
      <3>1. /\ spec.allow \in Upgrades /\ ups[spec.allow].succeeded # "Failed"
            /\ status.version = To[spec.allow]
        BY <2>6 DEF ReadyInv, Ahead
      <3>2. ups[spec.allow].succeeded \in {"", "Succeeded", "Failed"}
        BY <1>0, <3>1 DEF JobTypes, PGUpgrade
      <3> QED BY <1>0, <2>1, <2>6, <3>1, <3>2, VersionTypes DEF JobTypes
    <2>7. CASE Restart
      <3>1. spec'.version = IF spec.allow # None /\ ups[spec.allow].succeeded = "Succeeded"
                               /\ spec.version < To[spec.allow]
                            THEN To[spec.allow] ELSE spec.version
        BY <1>0, <2>7 DEF Restart, Spec_
      <3>2. spec'.version >= spec.version /\ spec'.version \in Nat /\ spec.version \in Nat
        BY <3>1, VersionTypes
      <3>3. Ahead'
        <4>1. ~ (status.version > spec'.version)
          BY <2>6, <3>1, <3>2, VersionTypes
        <4> QED BY <1>1, <4>1 DEF Ahead
      <3>4. ASSUME NEW u \in Upgrades, ups[u].succeeded = "Succeeded" PROVE Moved(u)'
        <4>1. From[u] < To[u] /\ (Moved(u) \/ Waiting(u)) /\ From[u] \in Nat /\ To[u] \in Nat
          BY <3>4, VersionTypes DEF ReadyInv, Success, Clean
        <4>2. CASE Moved(u)
          BY <1>1, <3>2, <4>1, <4>2, VersionTypes DEF Moved
        <4>3. CASE Waiting(u)
          <5>1. spec.allow = u /\ spec.version = From[u] /\ \A i \in Instances : pods[i] = 0
            BY <4>3, StoppedFacts DEF Waiting, UpgradeIInv
          <5>2. spec'.version = To[u]
            BY <1>0, <3>1, <3>4, <4>1, <5>1 DEF JobTypes
          <5> QED BY <1>1, <4>1, <5>1, <5>2 DEF Moved
        <4> QED BY <4>1, <4>2, <4>3
      <3>5. Success'
        BY <1>1, <3>4 DEF ReadyInv, Success, Clean
      <3> QED BY <2>4, <2>5, <3>3, <3>5 DEF ReadyInv
    <2>8. ASSUME NEW u \in Upgrades, Allow(u) PROVE ReadyInv'
      <3>1. spec'.version = spec.version
        BY <1>0, <2>8 DEF Allow, Spec_
      <3>2. \A v \in Upgrades : ups[v].succeeded = "Succeeded" => spec.version >= To[v]
        BY <2>8 DEF Allow
      <3>3. Ahead'
        <4>1. ~ (status.version > spec.version)
          BY <2>6, <3>2, VersionTypes
        <4> QED BY <1>1, <3>1, <4>1 DEF Ahead
      <3>4. ASSUME NEW v \in Upgrades, ups[v].succeeded = "Succeeded" PROVE Moved(v)'
        <4>1. From[v] < To[v] /\ (Moved(v) \/ Waiting(v)) /\ spec.version >= To[v]
          BY <3>2, <3>4 DEF ReadyInv, Success, Clean
        <4>2. ~ Waiting(v)
          BY <4>1, VersionTypes DEF Waiting
        <4> QED BY <1>1, <3>1, <4>1, <4>2 DEF Moved
      <3>5. Success'
        BY <1>1, <3>4 DEF ReadyInv, Success, Clean
      <3> QED BY <2>4, <2>5, <3>3, <3>5 DEF ReadyInv
    <2> QED BY <1>3, <2>7, <2>8
  <1> QED BY <1>2, <1>3

\* After a crash the Endpoints may be left, which is why the promise about them ends there.
LEMMA ReadyCrash ==
    ASSUME Types, ReadyInv, Crash
    PROVE  ReadyInv'
  <1>1. /\ UNCHANGED <<spec, status, pods, identifier, kept, ups, data, upJob, rmJob>>
        /\ w' = Idle /\ crashes' = crashes + 1 /\ crashes \in Nat
    BY VersionTypes DEF Crash, jobVars, patroniVars
  <1>2. crashes' # 0
    BY <1>1
  <1> QED BY <1>1, <1>2 DEF ReadyInv, JobsOn, Held, Cleared, Clean, WorkReady, Ahead, Success, Open, Done,
             Moved, Waiting

LEMMA ReadyStep ==
    ASSUME Careful, Types, Types', UpgradeIInv, ReadyInv, [Next]_vars
    PROVE  ReadyInv'
  <1>1. CASE Controller
    BY <1>1, ReadyReconcile, ReadyApplyUpgrade, ReadyApplyRemoves, ReadyOtherWrites, ReadyPatchStatus
       DEF Controller
  <1>2. CASE Environment
    BY <1>2, ReadyCluster, ReadyJobs DEF Environment
  <1>3. CASE User
    BY <1>3, ReadyCluster, ReadyUser, ReadyObjects DEF User
  <1>4. CASE ClusterFails \/ WriteFails \/ Crash \/ \E u \in Upgrades : ReconcileFails(u)
    BY <1>4, ReadyCluster, ReadyWriteFails, ReadyCrash, ReadyObjects
  <1>5. CASE UNCHANGED vars
    <2>1. UNCHANGED <<spec, status, pods, identifier, kept, ups, data, upJob, rmJob, w, crashes>>
      BY <1>5 DEF vars, clusterVars, jobVars, countVars, patroniVars
    <2>2. Success'
      BY <2>1 DEF ReadyInv, Success, Clean, Moved, Waiting
    <2> QED BY <2>1, <2>2, ReadyFrame DEF ReadyInv, UpgradeIInv
  <1> QED BY <1>1, <1>2, <1>3, <1>4, <1>5 DEF Next

LEMMA ReadyInit == Init => ReadyInv
  <1> SUFFICES ASSUME Init PROVE ReadyInv
    OBVIOUS
  <1>1. /\ w = Idle /\ \A u \in Upgrades : upJob[u] = NoJob /\ ups[u].succeeded = ""
        /\ status.version = 0
    <2>1. w = Idle /\ \A u \in Upgrades : upJob[u] = NoJob /\ ups[u] = NoUpgrade
      BY DEF Init
    <2>2. NoUpgrade.succeeded = ""
      BY DEF NoUpgrade
    <2>3. status.version = 0
      BY DEF Init
    <2> QED BY <2>1, <2>2, <2>3
  <1>2. spec.version = Oldest
    BY DEF Init, NoSpec
  <1>3. Ahead
    <2>1. Oldest \in Nat /\ Oldest > 0
      BY UpgradeAssumption
    <2>2. ~ (0 > Oldest)
      BY <2>1
    <2> QED BY <1>1, <1>2, <2>2 DEF Ahead
  <1> QED BY <1>1, <1>3 DEF ReadyInv, JobsOn, Held, Cleared, Clean, Open, WorkReady, Success

\* What a careful user is told to start can start: once the cluster's status reports the new
\* version every replica has lost the old data (the Jobs counted at pgupgrade_controller.go:264
\* are all of this upgrade), and after a success Patroni's Endpoints hold no old identifier
\* unless the operator has crashed on the way (:393) or the last delete of them failed, whose
\* error the deletes that follow overwrite (:457-466).
THEOREM UpgradedClusterCanStart ==
    ASSUME Careful
    PROVE  Spec => []ReadyToStart
  <1>1. Types /\ ReadyInv => ReadyToStart
    <2> SUFFICES ASSUME Types, ReadyInv, NEW u \in Upgrades
                 PROVE  /\ (status.version = To[u] /\ spec.shutdown /\ spec.version = From[u]
                               /\ From[u] < To[u] /\ status.startup # None)
                             => \A i \in Instances \ {status.startup} : From[u] \notin data[i]
                        /\ ups[u].succeeded = "Succeeded" /\ crashes = 0 /\ ~ kept => identifier # From[u]
      BY DEF ReadyToStart
    <2>1. From[u] \in Nat /\ To[u] \in Nat /\ From[u] > 0 /\ identifier \in Nat
      BY VersionTypes
    <2>2. ASSUME status.version = To[u], spec.version = From[u], From[u] < To[u]
          PROVE  \A i \in Instances \ {status.startup} : From[u] \notin data[i]
      <3>1. status.version > spec.version
        BY <2>1, <2>2
      <3> QED BY <2>2, <3>1 DEF ReadyInv, Ahead
    <2>3. ASSUME ups[u].succeeded = "Succeeded", crashes = 0, ~ kept PROVE identifier # From[u]
      BY <2>1, <2>3 DEF ReadyInv, Success, Clean
    <2> QED BY <2>2, <2>3
  <1>2. Types /\ Types' /\ UpgradeIInv /\ ReadyInv /\ [Next]_vars => ReadyInv'
    BY ReadyStep
  <1> QED BY <1>1, <1>2, ReadyInit, TypesAlways, UpgradeInvariant, PTL DEF Spec
=============================================================================
