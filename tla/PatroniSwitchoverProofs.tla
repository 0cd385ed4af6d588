----------------------- MODULE PatroniSwitchoverProofs -----------------------
(***************************************************************************)
(* Proofs about PatroniSwitchover for any number of members, requests,     *)
(* changes of primary, failing Pods and crashes, with a cache that lags by *)
(* any number of versions and candidates that Patroni passes over.         *)
(***************************************************************************)
EXTENDS PatroniSwitchover, FiniteSetTheorems, TLAPS

Orders == [trigger : Triggers, target : Members \cup {None}]
Elections == Members \X (1..MaxTimeline) \X (Members \cup {None})

LEMMA Constants_ ==
    /\ 0 \in Triggers /\ Triggers \subseteq Nat /\ None \notin Members
    /\ NoStatus \in Status /\ NoOrder \in Orders
    /\ NoStatus.switchover = 0 /\ NoStatus.timeline = 0
    /\ 1 \in 1..MaxTimeline
  BY SwitchoverAssumption, SwitchoverBounds DEF Triggers, NoStatus, Status, NoOrder, Orders

\* The parts of a cluster and of a status.
LEMMA Parts ==
    /\ \A c \in Cluster : /\ c.request \in Request /\ c.status \in Status
                          /\ c = [request |-> c.request, status |-> c.status]
    /\ \A s \in Status : s.switchover \in Triggers /\ s.timeline \in 0..MaxTimeline
    /\ \A r \in Request : /\ r.trigger \in Triggers /\ r.enabled \in BOOLEAN
                          /\ r.target \in Members \cup {None}
  BY DEF Cluster, Status, Request

LEMMA TypeInit == Init => TypeOK
  <1> SUFFICES ASSUME Init PROVE TypeOK
    OBVIOUS
  <1>1. cluster \in Cluster /\ read \in Cluster
    BY Constants_ DEF Init, Cluster, Request
  <1>2. /\ leader \in Members \cup {None} /\ timeline \in 1..MaxTimeline /\ up \in SUBSET Members
        /\ order \in Orders /\ pc = "idle" /\ intent \in Status /\ overtaken \in BOOLEAN
        /\ past \in Seq(Cluster) /\ Len(past) <= MaxLag
    BY Constants_, SwitchoverBounds DEF Init
  <1>3. /\ edits \in 0..MaxEdits /\ failovers \in 0..MaxFailovers
        /\ stops \in 0..MaxStops /\ crashes \in 0..MaxCrashes
    BY SwitchoverBounds DEF Init
  <1>4. done \in [Triggers -> SUBSET Elections]
    BY DEF Init
  <1> QED BY <1>1, <1>2, <1>3, <1>4 DEF TypeOK, Orders, Elections

-----------------------------------------------------------------------------
(* What each step changes.                                                 *)

\* Steps of the operator before it writes: what is read and what will be written.
LEMMA BeginEffect ==
    ASSUME TypeOK, Begin
    PROVE  /\ pc = "idle" /\ read' \in Cluster
           /\ UNCHANGED <<cluster, leader, timeline, up, order, edits, faultVars, done>>
           /\ \/ /\ ~ read'.request.enabled
                 /\ intent' = NoStatus /\ pc' = "patch"
              \/ /\ read'.request.enabled
                 /\ read'.request.trigger \in {0, read'.status.switchover}
                 /\ intent' = [read'.status EXCEPT !.timeline = 0] /\ pc' = "patch"
              \/ /\ read'.request.enabled
                 /\ read'.request.trigger \notin {0, read'.status.switchover}
                 /\ intent' = read'.status /\ pc' \in {"timeline", "patch"}
  <1>1. ASSUME NEW c, BeginWith(c)
        PROVE  /\ pc = "idle" /\ read' = c
               /\ UNCHANGED <<cluster, leader, timeline, up, order, edits, faultVars, done>>
               /\ \/ /\ ~ c.request.enabled
                     /\ intent' = NoStatus /\ pc' = "patch"
                  \/ /\ c.request.enabled
                     /\ c.request.trigger \in {0, c.status.switchover}
                     /\ intent' = [c.status EXCEPT !.timeline = 0] /\ pc' = "patch"
                  \/ /\ c.request.enabled
                     /\ c.request.trigger \notin {0, c.status.switchover}
                     /\ intent' = c.status /\ pc' \in {"timeline", "patch"}
    BY <1>1 DEF BeginWith
  <1>2. read' \in Cluster
    BY <1>1 DEF Begin, BeginFresh, BeginLagging, TypeOK
  <1> QED BY <1>1, <1>2 DEF Begin, BeginFresh, BeginLagging

\* What the cache may still show: the last d versions have gone.
LEMMA BeginPast ==
    ASSUME TypeOK, Begin
    PROVE  /\ past' \in Seq(Cluster) /\ Len(past') <= MaxLag
           /\ overtaken => overtaken'
           /\ overtaken' \in BOOLEAN
           /\ \/ read' = cluster /\ past' = <<>>
              \/ \E d \in Nat :
                    /\ d + 1 \in DOMAIN past /\ read' = past[d + 1]
                    /\ Len(past') + d = Len(past)
                    /\ \A k \in DOMAIN past' : k + d \in DOMAIN past /\ past'[k] = past[k + d]
                    /\ ~ overtaken' => read' = read \/ StatusSeen(d + 1)
  <1>1. CASE BeginFresh
    BY <1>1, SwitchoverBounds DEF BeginFresh, BeginWith, TypeOK
  <1>2. CASE BeginLagging
    <2>1. PICK i \in DOMAIN past :
             /\ BeginWith(past[i]) /\ past' = SubSeq(past, i, Len(past))
             /\ overtaken' = (overtaken \/ (past[i] # read /\ ~ StatusSeen(i)))
      BY <1>2 DEF BeginLagging
    <2>2. past \in Seq(Cluster) /\ Len(past) \in Nat /\ Len(past) <= MaxLag /\ DOMAIN past = 1..Len(past)
          /\ overtaken \in BOOLEAN
      BY DEF TypeOK
    <2>3. i \in 1..Len(past)
      BY <2>2
    <2>4. /\ past' \in Seq(Cluster) /\ Len(past') = Len(past) - i + 1
          /\ \A k \in 1..(Len(past) - i + 1) : past'[k] = past[i + k - 1]
      BY <2>1, <2>2, <2>3
    <2>5. read' = past[i]
      BY <2>1 DEF BeginWith
    <2>6. overtaken' \in BOOLEAN /\ (overtaken => overtaken')
      BY <2>1, <2>2
    <2>7. ~ overtaken' => read' = read \/ StatusSeen(i)
      BY <2>1, <2>5
    <2> DEFINE d == i - 1
    <2>8. d \in Nat /\ d + 1 = i /\ Len(past') + d = Len(past) /\ MaxLag \in Nat
      BY <2>2, <2>3, <2>4, SwitchoverBounds
    <2>9. \A k \in DOMAIN past' : k + d \in DOMAIN past /\ past'[k] = past[k + d]
      <3> SUFFICES ASSUME NEW k \in DOMAIN past' PROVE k + d \in DOMAIN past /\ past'[k] = past[k + d]
        OBVIOUS
      <3>1. k \in 1..(Len(past) - i + 1)
        BY <2>2, <2>4
      <3>2. i + k - 1 = k + d /\ k + d \in 1..Len(past)
        BY <2>2, <2>3, <3>1
      <3> QED BY <2>2, <2>4, <3>1, <3>2
    <2>10. Len(past') <= MaxLag
      BY <2>2, <2>3, <2>4, <2>8
    <2> HIDE DEF d
    <2>11. d + 1 \in DOMAIN past /\ read' = past[d + 1] /\ (~ overtaken' => read' = read \/ StatusSeen(d + 1))
      BY <2>5, <2>7, <2>8
    <2> QED BY <2>4, <2>6, <2>8, <2>9, <2>10, <2>11
  <1> QED BY <1>1, <1>2 DEF Begin

LEMMA ShiftFacts ==
    ASSUME NEW S, NEW u \in Seq(S), NEW x \in S, Len(u) # 0
    PROVE  /\ Append(Tail(u), x) \in Seq(S) /\ Len(Append(Tail(u), x)) = Len(u)
           /\ Append(Tail(u), x)[Len(u)] = x
           /\ \A k \in 1..(Len(u) - 1) : Append(Tail(u), x)[k] = u[k + 1]
  <1>1. u # <<>>
    OBVIOUS
  <1>2. /\ Tail(u) \in Seq(S) /\ Len(Tail(u)) = Len(u) - 1
        /\ \A k \in 1..(Len(u) - 1) : Tail(u)[k] = u[k + 1]
    BY <1>1
  <1> DEFINE v == Tail(u)
  <1> HIDE DEF v
  <1>3. v \in Seq(S) /\ Len(v) = Len(u) - 1 /\ Len(v) \in Nat /\ Len(u) \in Nat
    BY <1>2 DEF v
  <1>4. /\ Append(v, x) \in Seq(S) /\ Len(Append(v, x)) = Len(v) + 1
        /\ Append(v, x)[Len(v) + 1] = x
        /\ \A k \in 1..Len(v) : Append(v, x)[k] = v[k]
    BY <1>3
  <1> QED BY <1>2, <1>3, <1>4 DEF v

\* A write that changes the cluster leaves its old version to the cache.
LEMMA WriteEffect ==
    ASSUME TypeOK, NEW c \in Cluster, Write(c)
    PROVE  /\ cluster' = c
           /\ past' \in Seq(Cluster) /\ Len(past') <= MaxLag
           /\ c = cluster => past' = past
           /\ c # cluster => \E d \in Nat :
                 /\ Len(past') + d = Len(past) + 1
                 /\ \A k \in DOMAIN past' : /\ k + d = Len(past) + 1 => past'[k] = cluster
                                            /\ k + d # Len(past) + 1 =>
                                                 k + d \in DOMAIN past /\ past'[k] = past[k + d]
  <1>0. past \in Seq(Cluster) /\ cluster \in Cluster
    BY DEF TypeOK
  <1>a. Len(past) \in Nat /\ Len(past) <= MaxLag /\ MaxLag \in Nat
    BY <1>0, SwitchoverBounds DEF TypeOK
  <1>1. /\ past \in Seq(Cluster) /\ Len(past) \in Nat /\ Len(past) <= MaxLag /\ DOMAIN past = 1..Len(past)
        /\ cluster \in Cluster /\ MaxLag \in Nat
    BY SwitchoverBounds DEF TypeOK
  <1>2. CASE c = cluster
    BY <1>1, <1>2 DEF Write
  <1>3. CASE c # cluster /\ Len(past) < MaxLag
    <2>1. past' = Append(past, cluster)
      BY <1>3 DEF Write
    <2>2. /\ past' \in Seq(Cluster) /\ Len(past') = Len(past) + 1 /\ past'[Len(past) + 1] = cluster
          /\ \A k \in 1..Len(past) : past'[k] = past[k]
      BY <1>1, <2>1
    <2>3. \A k \in DOMAIN past' : /\ k + 0 = Len(past) + 1 => past'[k] = cluster
                                  /\ k + 0 # Len(past) + 1 => k + 0 \in DOMAIN past /\ past'[k] = past[k + 0]
      BY <1>1, <2>2
    <2>4. Len(past') + 0 = Len(past) + 1 /\ Len(past') <= MaxLag
      BY <1>1, <1>3, <2>2
    <2> QED BY <1>3, <2>2, <2>3, <2>4 DEF Write
  <1>4. CASE c # cluster /\ ~ (Len(past) < MaxLag) /\ MaxLag = 0
    <2>1. past' = <<>> /\ Len(past) = 0
      BY <1>1, <1>4 DEF Write
    <2>2. /\ past' \in Seq(Cluster) /\ Len(past') + 1 = Len(past) + 1 /\ DOMAIN past' = {}
          /\ Len(past') <= MaxLag
      BY <1>1, <2>1
    <2> QED BY <1>4, <2>2 DEF Write
  <1>5. CASE c # cluster /\ ~ (Len(past) < MaxLag) /\ MaxLag # 0
    <2>1. past' = Append(Tail(past), cluster)
      BY <1>5 DEF Write
    <2>2. Len(past) = MaxLag /\ Len(past) # 0
      BY <1>a, <1>5
    <2>3. /\ past' \in Seq(Cluster) /\ Len(past') = Len(past) /\ past'[Len(past)] = cluster
          /\ \A k \in 1..(Len(past) - 1) : past'[k] = past[k + 1]
      <3> DEFINE w == Append(Tail(past), cluster)
      <3>1. /\ w \in Seq(Cluster) /\ Len(w) = Len(past) /\ w[Len(past)] = cluster
            /\ \A k \in 1..(Len(past) - 1) : w[k] = past[k + 1]
        BY <1>0, <2>2, ShiftFacts
      <3>2. past' = w
        BY <2>1
      <3> HIDE DEF w
      <3> QED BY <3>1, <3>2
    <2>4. \A k \in DOMAIN past' : /\ k + 1 = Len(past) + 1 => past'[k] = cluster
                                  /\ k + 1 # Len(past) + 1 => k + 1 \in DOMAIN past /\ past'[k] = past[k + 1]
      BY <1>1, <2>3
    <2>5. Len(past') + 1 = Len(past) + 1 /\ Len(past') <= MaxLag
      BY <1>1, <2>3
    <2> QED BY <1>5, <2>3, <2>4, <2>5 DEF Write
  <1> QED BY <1>1, <1>2, <1>3, <1>4, <1>5

\* Between the first read and the status there is nothing but the decision.
Decides(status) ==
    /\ pc \in {"timeline", "command"} /\ intent' = status /\ pc' = "patch"
    /\ UNCHANGED <<cluster, past, leader, timeline, up, order, read, edits, faultVars, overtaken, done>>

LEMMA DecideEffect ==
    ASSUME TypeOK
    PROVE  /\ GetTimelineFails => Decides(intent)
           /\ CommandRefused => Decides(intent)
           /\ RecordTimeline => /\ Decides([read.status EXCEPT !.timeline = timeline])
                                /\ read.status.timeline = 0 /\ pc = "timeline"
           /\ AssumeCompleted => /\ Decides(Succeeded) /\ read.status.timeline \notin {0, timeline}
                                 /\ pc = "timeline"
  BY DEF Decides, GetTimelineFails, CommandRefused, RecordTimeline, AssumeCompleted, Ended

\* The merge of patchClusterStatus.
LEMMA PatchEffect ==
    ASSUME TypeOK, PatchStatus
    PROVE  /\ cluster' \in Cluster /\ cluster'.request = cluster.request
           /\ cluster'.status.switchover = IF intent.switchover # read.status.switchover
                                           THEN intent.switchover ELSE cluster.status.switchover
           /\ cluster'.status.timeline = IF intent.timeline # read.status.timeline
                                         THEN intent.timeline ELSE cluster.status.timeline
           /\ Write(cluster')
           /\ pc = "patch" /\ pc' = "idle" /\ intent' = NoStatus
           /\ UNCHANGED <<leader, timeline, up, order, read, edits, faultVars, overtaken, done>>
  <1>1. cluster \in Cluster /\ intent \in Status /\ read.status \in Status /\ cluster.status \in Status
    BY Parts DEF TypeOK
  <1> DEFINE s == [switchover |-> Patched("switchover"), timeline |-> Patched("timeline")]
  <1>2. /\ s.switchover = IF intent.switchover # read.status.switchover
                          THEN intent.switchover ELSE cluster.status.switchover
        /\ s.timeline = IF intent.timeline # read.status.timeline
                        THEN intent.timeline ELSE cluster.status.timeline
    BY DEF Patched
  <1>3. s \in Status
    <2>1. Patched("switchover") \in Triggers
      BY <1>1, Parts DEF Patched
    <2>2. Patched("timeline") \in 0..MaxTimeline
      BY <1>1, Parts DEF Patched
    <2> QED BY <2>1, <2>2 DEF Status
  <1>4. cluster' = [cluster EXCEPT !.status = s] /\ Write(cluster')
    BY DEF PatchStatus, Write
  <1> HIDE DEF s
  <1>5. cluster' \in Cluster /\ cluster'.request = cluster.request /\ cluster'.status = s
    BY <1>1, <1>3, <1>4 DEF Cluster
  <1>6. cluster'.status.switchover = s.switchover /\ cluster'.status.timeline = s.timeline
    BY <1>5
  <1> QED BY <1>2, <1>4, <1>5, <1>6 DEF PatchStatus

LEMMA EditEffect ==
    ASSUME TypeOK,
           \/ \E type \in Types, target \in Targets : Trigger(type, target)
           \/ Disable
    PROVE  /\ cluster' \in Cluster /\ cluster'.status = cluster.status
           /\ Write(cluster') /\ edits < MaxEdits /\ edits' = edits + 1
           /\ \/ cluster'.request.trigger = edits + 1
              \/ /\ cluster'.request.trigger = cluster.request.trigger
                 /\ cluster'.request.target = cluster.request.target
                 /\ ~ cluster'.request.enabled
           /\ UNCHANGED <<leader, timeline, up, order, pc, read, intent, faultVars, overtaken, done>>
  <1>0. cluster \in Cluster /\ cluster.request \in Request /\ edits \in 0..MaxEdits
    BY Parts DEF TypeOK
  <1>1. ASSUME NEW r \in Request, Edit(r)
        PROVE  /\ cluster' \in Cluster /\ cluster'.status = cluster.status /\ cluster'.request = r
               /\ Write(cluster') /\ edits < MaxEdits /\ edits' = edits + 1
               /\ UNCHANGED <<leader, timeline, up, order, pc, read, intent, faultVars, overtaken, done>>
    <2>1. cluster' = [cluster EXCEPT !.request = r] /\ Write(cluster')
      BY <1>1 DEF Edit, Write
    <2>2. cluster' \in Cluster /\ cluster'.status = cluster.status /\ cluster'.request = r
      BY <1>0, <2>1 DEF Cluster
    <2> QED BY <1>1, <2>1, <2>2 DEF Edit
  <1>2. ASSUME NEW type \in Types, NEW target \in Targets, Trigger(type, target)
        PROVE  \E r \in Request : Edit(r) /\ r.trigger = edits + 1
    <2>1. edits + 1 \in Triggers
      BY <1>0, <1>2, SwitchoverBounds DEF Trigger, Edit, Triggers
    <2>2. [trigger |-> edits + 1, enabled |-> TRUE, type |-> type, target |-> target] \in Request
      BY <2>1, SwitchoverAssumption DEF Request
    <2> QED BY <1>2, <2>2 DEF Trigger
  <1>3. ASSUME Disable
        PROVE  \E r \in Request : /\ Edit(r) /\ r.trigger = cluster.request.trigger
                                  /\ r.target = cluster.request.target /\ ~ r.enabled
    <2> DEFINE r == [cluster.request EXCEPT !.enabled = FALSE]
    <2>1. /\ r \in Request /\ r.trigger = cluster.request.trigger
          /\ r.target = cluster.request.target /\ ~ r.enabled
      BY <1>0 DEF Request
    <2>2. Edit(r)
      BY <1>3 DEF Disable
    <2> QED BY <2>1, <2>2
  <1> QED BY <1>1, <1>2, <1>3

\* An election for an order, or the order dropped; the operator is told.
LEMMA ElectEffect ==
    ASSUME TypeOK, NEW m \in Members, Elect(m)
    PROVE  /\ order # NoOrder /\ order' = NoOrder /\ leader' = m
           /\ timeline' = timeline + 1 /\ timeline' \in 1..MaxTimeline
           /\ order.trigger \in Triggers /\ order.target \in Members \cup {None}
           /\ done' = [done EXCEPT ![order.trigger] =
                          done[order.trigger] \cup {<<m, timeline + 1, order.target>>}]
           /\ <<m, timeline + 1, order.target>> \in Elections
           /\ pc = "wait" => /\ pc' = "patch"
                             /\ intent' = IF order.target \in {None, m} THEN Succeeded ELSE intent
           /\ pc # "wait" => UNCHANGED <<pc, intent>>
           /\ UNCHANGED <<cluster, past, up, read, edits, faultVars, overtaken>>
  <1>1. timeline \in 1..MaxTimeline /\ timeline < MaxTimeline /\ MaxTimeline \in Nat
    BY SwitchoverBounds DEF TypeOK, Elect
  <1>2. timeline + 1 \in 1..MaxTimeline
    BY <1>1
  <1>3. order.trigger \in Triggers /\ order.target \in Members \cup {None}
    BY DEF TypeOK
  <1>4. <<m, timeline + 1, order.target>> \in Elections
    BY <1>2, <1>3 DEF Elections
  <1> QED BY <1>2, <1>3, <1>4 DEF Elect, Reply

\* The remaining steps of Patroni and Kubernetes.
Elsewhere ==
    \/ LoseLeader
    \/ \E m \in Members : ElectOnItsOwn(m) \/ StopMember(m) \/ StartMember(m)

LEMMA ElsewhereEffect ==
    ASSUME TypeOK, Elsewhere
    PROVE  /\ leader' \in Members \cup {None} /\ timeline' \in 1..MaxTimeline /\ timeline' >= timeline
           /\ up' \in SUBSET Members
           /\ failovers' \in 0..MaxFailovers /\ failovers' >= failovers
           /\ stops' \in 0..MaxStops
           /\ leader' = leader \/ failovers' > 0 \/ leader = None
           /\ timeline' = timeline \/ leader = None
           /\ UNCHANGED <<cluster, past, order, pc, read, intent, edits, crashes, overtaken, done>>
  <1>1. /\ leader \in Members \cup {None} /\ timeline \in 1..MaxTimeline /\ up \in SUBSET Members
        /\ failovers \in 0..MaxFailovers /\ stops \in 0..MaxStops
        /\ MaxTimeline \in Nat /\ MaxFailovers \in Nat /\ MaxStops \in Nat
    BY SwitchoverBounds DEF TypeOK
  <1>2. CASE LoseLeader
    BY <1>1, <1>2 DEF LoseLeader
  <1>3. ASSUME NEW m \in Members, ElectOnItsOwn(m) \/ StopMember(m) \/ StartMember(m)
        PROVE  /\ leader' \in Members \cup {None} /\ timeline' \in 1..MaxTimeline /\ timeline' >= timeline
               /\ up' \in SUBSET Members /\ failovers' = failovers /\ stops' \in 0..MaxStops
               /\ leader' = leader \/ leader = None
               /\ timeline' = timeline \/ leader = None
               /\ UNCHANGED <<cluster, past, order, pc, read, intent, edits, crashes, overtaken, done>>
    BY <1>1, <1>3 DEF ElectOnItsOwn, StopMember, StartMember, faultVars
  <1> QED BY <1>1, <1>2, <1>3 DEF Elsewhere

\* The steps, by the effects above.
LEMMA Steps ==
    ASSUME Next
    PROVE  \/ Begin \/ GetTimelineFails \/ RecordTimeline \/ AssumeCompleted \/ Proceed
           \/ RunCommand \/ CommandRefused \/ PatchStatus
           \/ (\E m \in Members : Elect(m)) \/ Abandon \/ Crash \/ Elsewhere
           \/ (\E type \in Types, target \in Targets : Trigger(type, target)) \/ Disable
  BY DEF Next, ReconcileStep, PatroniStep, Elsewhere

LEMMA TypeStep == TypeOK /\ [Next]_vars => TypeOK'
  <1> SUFFICES ASSUME TypeOK, [Next]_vars PROVE TypeOK'
    OBVIOUS
  <1> USE DEF faultVars
  <1>0. read \in Cluster /\ read.status \in Status /\ read.request.trigger \in Triggers
        /\ read.request.target \in Members \cup {None} /\ timeline \in 0..MaxTimeline
    BY Parts DEF TypeOK
  <1>1. CASE Begin
    <2>1. read' \in Cluster
      BY <1>1, BeginEffect DEF TypeOK
    <2>2. [read'.status EXCEPT !.timeline = 0] \in Status /\ read'.status \in Status
      <3>1. read'.status \in Status
        BY <2>1, Parts
      <3> QED BY <3>1, SwitchoverBounds DEF Status
    <2>3. intent' \in Status /\ pc' \in {"patch", "timeline"}
      BY <1>1, <2>2, BeginEffect, Constants_
    <2> QED BY <1>1, <2>1, <2>3, BeginEffect, BeginPast DEF TypeOK
  <1>2. ASSUME NEW st \in Status, Decides(st) PROVE TypeOK'
    BY <1>2 DEF Decides, TypeOK
  <1>3. CASE GetTimelineFails \/ CommandRefused \/ RecordTimeline \/ AssumeCompleted
    <2>1. intent \in Status /\ [read.status EXCEPT !.timeline = timeline] \in Status
      BY <1>0 DEF TypeOK, Status
    <2>2. Succeeded \in Status
      BY <1>0, SwitchoverBounds DEF Succeeded, Status
    <2> QED BY <1>2, <1>3, <2>1, <2>2, DecideEffect
  <1>4. CASE Proceed
    BY <1>4 DEF Proceed, TypeOK
  <1>5. CASE RunCommand
    <2>1. order' \in Orders
      BY <1>0, <1>5 DEF RunCommand, Orders
    <2> QED BY <1>5, <2>1 DEF RunCommand, TypeOK, Orders
  <1>6. CASE PatchStatus
    BY <1>6, PatchEffect, WriteEffect, Constants_ DEF TypeOK
  <1>7. ASSUME NEW m \in Members, Elect(m) PROVE TypeOK'
    <2>1. done' \in [Triggers -> SUBSET Elections]
      <3>1. done \in [Triggers -> SUBSET Elections]
        BY DEF TypeOK, Elections
      <3>2. PICK e \in Elections, t \in Triggers : done' = [done EXCEPT ![t] = done[t] \cup {e}]
        BY <1>7, ElectEffect
      <3> QED BY <3>1, <3>2
    <2>2. order' \in Orders
      BY <1>7, ElectEffect, Constants_
    <2>3. intent' \in Status /\ pc' \in {"idle", "timeline", "command", "wait", "patch"}
      <3>1. Succeeded \in Status
        BY <1>0, SwitchoverBounds DEF Succeeded, Status
      <3>2. CASE pc = "wait"
        BY <1>7, <3>1, <3>2, ElectEffect DEF TypeOK
      <3>3. CASE pc # "wait"
        BY <1>7, <3>3, ElectEffect DEF TypeOK
      <3> QED BY <3>2, <3>3
    <2> QED BY <1>7, <2>1, <2>2, <2>3, ElectEffect DEF TypeOK, Orders, Elections
  <1>8. CASE Abandon
    <2>1. order' \in Orders
      BY <1>8, Constants_ DEF Abandon
    <2> QED BY <1>8, <2>1 DEF Abandon, Reply, TypeOK, Orders
  <1>9. CASE Crash
    <2>1. crashes' \in 0..MaxCrashes
      <3>1. crashes \in 0..MaxCrashes /\ crashes < MaxCrashes /\ crashes' = crashes + 1 /\ MaxCrashes \in Nat
        BY <1>9, SwitchoverBounds DEF Crash, TypeOK
      <3> QED BY <3>1
    <2> QED BY <1>9, <2>1, Constants_ DEF Crash, TypeOK
  <1>10. CASE Elsewhere
    BY <1>10, ElsewhereEffect DEF TypeOK
  <1>11. CASE (\E type \in Types, target \in Targets : Trigger(type, target)) \/ Disable
    <2>1. edits' \in 0..MaxEdits
      <3>1. edits \in 0..MaxEdits /\ edits < MaxEdits /\ edits' = edits + 1 /\ MaxEdits \in Nat
        BY <1>11, EditEffect, SwitchoverBounds DEF TypeOK
      <3> QED BY <3>1
    <2> QED BY <1>11, <2>1, EditEffect, WriteEffect DEF TypeOK
  <1>12. CASE UNCHANGED vars
    BY <1>12 DEF TypeOK, vars
  <1> QED BY <1>1, <1>3, <1>4, <1>5, <1>6, <1>7, <1>8, <1>9, <1>10, <1>11, <1>12, Steps

LEMMA TypeCorrect == Spec => []TypeOK
  BY TypeInit, TypeStep, PTL DEF Spec

-----------------------------------------------------------------------------
\* The versions of the cluster that may still be read are in the order of the requests.
Leq(a, b) ==
    /\ a.request.trigger <= b.request.trigger
    /\ a.request.trigger = b.request.trigger =>
         /\ b.request.enabled => a.request.enabled
         /\ a.request.target = b.request.target

InOrder ==
    /\ cluster.request.trigger <= edits
    /\ Leq(read, cluster)
    /\ \A i \in DOMAIN past : Leq(read, past[i]) /\ Leq(past[i], cluster)
    /\ \A i, j \in DOMAIN past : i <= j => Leq(past[i], past[j])

\* The types that matter here.
Numbers ==
    /\ read.request.trigger \in Nat /\ cluster.request.trigger \in Nat /\ edits \in Nat
    /\ read.request.trigger \in Triggers /\ cluster.request.trigger \in Triggers
    /\ timeline \in Nat /\ timeline >= 1 /\ \A t \in Triggers : t \in Nat
    /\ read.status.timeline \in Nat /\ cluster.status.timeline \in Nat
    /\ 0 \in Triggers
    /\ Len(past) \in Nat /\ DOMAIN past = 1..Len(past)
    /\ \A i \in DOMAIN past : past[i] \in Cluster /\ past[i].request.trigger \in Nat

LEMMA NumbersFact == TypeOK => Numbers
  <1> SUFFICES ASSUME TypeOK PROVE Numbers
    OBVIOUS
  <1>1. /\ read.request.trigger \in Triggers /\ cluster.request.trigger \in Triggers
        /\ read.status.timeline \in 0..MaxTimeline /\ cluster.status.timeline \in 0..MaxTimeline
    BY Parts DEF TypeOK
  <1>2. timeline \in 1..MaxTimeline /\ edits \in 0..MaxEdits
    BY DEF TypeOK
  <1>3. \A t \in Triggers : t \in Nat
    BY Constants_
  <1>4. timeline \in Nat /\ timeline >= 1 /\ edits \in Nat
        /\ read.status.timeline \in Nat /\ cluster.status.timeline \in Nat
    BY <1>1, <1>2, SwitchoverBounds
  <1>5. Len(past) \in Nat /\ DOMAIN past = 1..Len(past) /\ \A i \in DOMAIN past : past[i] \in Cluster
    BY DEF TypeOK
  <1>6. \A c \in Cluster : c.request.trigger \in Nat
    BY <1>3, Parts
  <1> QED BY <1>1, <1>3, <1>4, <1>5, <1>6, Constants_ DEF Numbers

LEMMA LeqOrder ==
    ASSUME NEW a, NEW b, NEW c, a.request.trigger \in Nat, b.request.trigger \in Nat,
           c.request.trigger \in Nat
    PROVE  Leq(a, a) /\ (Leq(a, b) /\ Leq(b, c) => Leq(a, c))
  BY DEF Leq

LEMMA OrderWrite ==
    ASSUME TypeOK, InOrder, UNCHANGED read, edits' \in Nat, edits' >= edits,
           cluster' \in Cluster, Write(cluster'), Leq(cluster, cluster'),
           cluster'.request.trigger <= edits'
    PROVE  InOrder'
  <1>0. Numbers /\ cluster'.request.trigger \in Nat
    BY NumbersFact, Parts, Constants_ DEF Numbers
  <1>1. Leq(read, cluster')
    BY <1>0, LeqOrder DEF InOrder, Numbers
  <1>2. CASE cluster' = cluster
    <2>1. past' = past
      BY <1>2, WriteEffect
    <2> QED BY <1>0, <1>2, <2>1 DEF InOrder, Numbers
  <1>3. CASE cluster' # cluster
    <2>1. PICK d \in Nat :
             /\ Len(past') + d = Len(past) + 1
             /\ \A k \in DOMAIN past' : /\ k + d = Len(past) + 1 => past'[k] = cluster
                                        /\ k + d # Len(past) + 1 =>
                                             k + d \in DOMAIN past /\ past'[k] = past[k + d]
      BY <1>3, WriteEffect
    <2>2. past' \in Seq(Cluster)
      BY WriteEffect
    <2>3. DOMAIN past' \subseteq Nat /\ \A k \in DOMAIN past' : k + d <= Len(past) + 1
      BY <1>0, <2>1, <2>2 DEF Numbers
    <2>4. ASSUME NEW k \in DOMAIN past'
          PROVE  Leq(read, past'[k]) /\ Leq(past'[k], cluster')
      <3>1. CASE k + d = Len(past) + 1
        BY <2>1, <3>1 DEF InOrder
      <3>2. CASE k + d # Len(past) + 1
        <4>1. k + d \in DOMAIN past /\ past'[k] = past[k + d]
          BY <2>1, <3>2
        <4>2. Leq(read, past[k + d]) /\ Leq(past[k + d], cluster) /\ past[k + d].request.trigger \in Nat
          BY <1>0, <4>1 DEF InOrder, Numbers
        <4> QED BY <1>0, <4>1, <4>2, LeqOrder DEF Numbers
      <3> QED BY <3>1, <3>2
    <2>5. ASSUME NEW i \in DOMAIN past', NEW j \in DOMAIN past', i <= j
          PROVE  Leq(past'[i], past'[j])
      <3>1. CASE j + d = Len(past) + 1 /\ i + d = Len(past) + 1
        BY <1>0, <2>1, <3>1, LeqOrder DEF Numbers
      <3>2. CASE j + d = Len(past) + 1 /\ i + d # Len(past) + 1
        <4>1. i + d \in DOMAIN past /\ past'[i] = past[i + d] /\ past'[j] = cluster
          BY <2>1, <3>2
        <4> QED BY <4>1 DEF InOrder
      <3>3. CASE j + d # Len(past) + 1
        <4>1. i + d <= j + d /\ i + d # Len(past) + 1
          BY <1>0, <2>3, <2>5, <3>3 DEF Numbers
        <4>2. /\ i + d \in DOMAIN past /\ past'[i] = past[i + d]
              /\ j + d \in DOMAIN past /\ past'[j] = past[j + d]
          BY <2>1, <3>3, <4>1
        <4> QED BY <4>1, <4>2 DEF InOrder
      <3> QED BY <3>1, <3>2, <3>3
    <2> QED BY <1>1, <2>4, <2>5 DEF InOrder
  <1> QED BY <1>2, <1>3

LEMMA OrderBegin ==
    ASSUME TypeOK, InOrder, Begin
    PROVE  InOrder'
  <1>0. Numbers /\ UNCHANGED <<cluster, edits>>
    BY NumbersFact, BeginEffect
  <1>1. CASE read' = cluster /\ past' = <<>>
    <2>1. DOMAIN past' = {}
      BY <1>1
    <2> QED BY <1>0, <1>1, <2>1, LeqOrder DEF InOrder, Numbers
  <1>2. ASSUME NEW d \in Nat,
               d + 1 \in DOMAIN past, read' = past[d + 1], Len(past') + d = Len(past),
               \A k \in DOMAIN past' : k + d \in DOMAIN past /\ past'[k] = past[k + d]
        PROVE  InOrder'
    <2>1. past' \in Seq(Cluster)
      BY BeginPast
    <2>2. \A k \in DOMAIN past' : k \in Nat /\ d + 1 <= k + d
      BY <2>1
    <2>3. \A k \in DOMAIN past' : Leq(read', past'[k]) /\ Leq(past'[k], cluster)
      BY <1>2, <2>2 DEF InOrder
    <2>4. ASSUME NEW i \in DOMAIN past', NEW j \in DOMAIN past', i <= j
          PROVE  Leq(past'[i], past'[j])
      <3>1. i + d <= j + d
        BY <2>2, <2>4
      <3> QED BY <1>2, <3>1 DEF InOrder
    <2> QED BY <1>0, <1>2, <2>3, <2>4 DEF InOrder
  <1> QED BY <1>1, <1>2, BeginPast

LEMMA EditOrder ==
    ASSUME TypeOK, InOrder,
           \/ \E type \in Types, target \in Targets : Trigger(type, target)
           \/ Disable
    PROVE  InOrder'
  <1>0. Numbers
    BY NumbersFact
  <1>1. /\ cluster' \in Cluster /\ Write(cluster') /\ edits' = edits + 1 /\ read' = read
        /\ \/ cluster'.request.trigger = edits + 1
           \/ /\ cluster'.request.trigger = cluster.request.trigger
              /\ cluster'.request.target = cluster.request.target
              /\ ~ cluster'.request.enabled
    BY EditEffect
  <1>2. Leq(cluster, cluster') /\ cluster'.request.trigger <= edits' /\ edits' \in Nat /\ edits' >= edits
    BY <1>0, <1>1 DEF Leq, InOrder, Numbers
  <1> QED BY <1>1, <1>2, OrderWrite

LEMMA PatchOrder ==
    ASSUME TypeOK, InOrder, PatchStatus
    PROVE  InOrder'
  <1>0. Numbers
    BY NumbersFact
  <1>1. /\ cluster' \in Cluster /\ Write(cluster') /\ edits' = edits /\ read' = read
        /\ cluster'.request = cluster.request
    BY PatchEffect
  <1>2. Leq(cluster, cluster') /\ cluster'.request.trigger <= edits'
    BY <1>0, <1>1 DEF Leq, InOrder, Numbers
  <1> QED BY <1>0, <1>1, <1>2, OrderWrite DEF Numbers

LEMMA OrderAlways == Spec => []InOrder
  <1>1. Init => InOrder
    BY Constants_ DEF Init, InOrder, Leq
  <1>2. TypeOK /\ InOrder /\ [Next]_vars => InOrder'
    <2> SUFFICES ASSUME TypeOK, InOrder, [Next]_vars PROVE InOrder'
      OBVIOUS
    <2>1. ASSUME UNCHANGED <<cluster, past, read, edits>> PROVE InOrder'
      BY <2>1 DEF InOrder
    <2>2. CASE GetTimelineFails \/ RecordTimeline \/ AssumeCompleted \/ Proceed \/ RunCommand \/ CommandRefused
               \/ Abandon \/ Crash \/ Elsewhere \/ UNCHANGED vars
      BY <2>1, <2>2, ElsewhereEffect DEF GetTimelineFails, RecordTimeline, AssumeCompleted, Proceed,
         RunCommand, CommandRefused, Abandon, Crash, vars
    <2>3. CASE \E m \in Members : Elect(m)
      BY <2>1, <2>3, ElectEffect
    <2> QED BY <2>2, <2>3, Steps, OrderBegin, EditOrder, PatchOrder
  <1> QED BY <1>1, <1>2, TypeCorrect, PTL DEF Spec

-----------------------------------------------------------------------------
(* Versions that have the last status the operator wrote.                  *)
Later == {cluster} \cup {past[i] : i \in {k \in DOMAIN past : StatusSeen(k)}}

LEMMA LaterFacts ==
    ASSUME TypeOK, InOrder, NEW v \in Later
    PROVE  /\ v.status = cluster.status /\ Leq(read, v) /\ Leq(v, cluster)
           /\ v.request.trigger \in Nat
  <1>0. Numbers
    BY NumbersFact
  <1>1. CASE v = cluster
    BY <1>0, <1>1, LeqOrder DEF InOrder, Numbers
  <1>2. ASSUME NEW i \in DOMAIN past, StatusSeen(i), v = past[i]
        PROVE  /\ v.status = cluster.status /\ Leq(read, v) /\ Leq(v, cluster)
               /\ v.request.trigger \in Nat
    <2>1. i \in i..Len(past)
      BY <1>0 DEF Numbers
    <2> QED BY <1>0, <1>2, <2>1 DEF InOrder, Numbers, StatusSeen
  <1> QED BY <1>1, <1>2 DEF Later

LEMMA LaterBegin ==
    ASSUME TypeOK, Begin, ~ overtaken'
    PROVE  /\ read' = read \/ read' \in Later
           /\ Later' \subseteq Later
  <1>0. Numbers /\ UNCHANGED cluster
    BY NumbersFact, BeginEffect
  <1>1. CASE read' = cluster /\ past' = <<>>
    <2>1. DOMAIN past' = {}
      BY <1>1
    <2> QED BY <1>0, <1>1, <2>1 DEF Later
  <1>2. ASSUME NEW d \in Nat,
               d + 1 \in DOMAIN past, read' = past[d + 1], Len(past') + d = Len(past),
               \A k \in DOMAIN past' : k + d \in DOMAIN past /\ past'[k] = past[k + d],
               read' = read \/ StatusSeen(d + 1)
        PROVE  (read' = read \/ read' \in Later) /\ Later' \subseteq Later
    <2>1. past' \in Seq(Cluster)
      BY BeginPast
    <2>2. Len(past') \in Nat /\ DOMAIN past' = 1..Len(past')
      BY <2>1
    <2>3. ASSUME NEW k \in DOMAIN past', StatusSeen(k)' PROVE past'[k] \in Later
      <3>1. k + d \in DOMAIN past /\ past'[k] = past[k + d] /\ k \in Nat
        BY <1>2, <2>2
      <3>2. StatusSeen(k + d)
        <4> SUFFICES ASSUME NEW j \in (k + d)..Len(past) PROVE past[j].status = cluster.status
          BY DEF StatusSeen
        <4>1. j - d \in k..Len(past') /\ j - d \in DOMAIN past' /\ (j - d) + d = j
          BY <1>0, <1>2, <2>2, <3>1 DEF Numbers
        <4>2. past'[j - d] = past[j]
          BY <1>2, <4>1
        <4>3. past'[j - d].status = cluster'.status
          BY <2>3, <4>1 DEF StatusSeen
        <4> QED BY <1>0, <4>2, <4>3
      <3> QED BY <3>1, <3>2 DEF Later
    <2> QED BY <1>0, <1>2, <2>3 DEF Later
  <1> QED BY <1>1, <1>2, BeginPast

\* A write of the status leaves no other version with the last status; an edit adds one.
LEMMA LaterWrite ==
    ASSUME TypeOK, cluster' \in Cluster, Write(cluster')
    PROVE  /\ cluster'.status # cluster.status => Later' = {cluster'}
           /\ cluster'.status = cluster.status => Later' \subseteq {cluster'} \cup Later
  <1>0. Numbers
    BY NumbersFact
  <1>1. CASE cluster' = cluster
    <2>1. past' = past
      BY <1>1, WriteEffect
    <2> QED BY <1>1, <2>1 DEF Later, StatusSeen
  <1>2. CASE cluster' # cluster
    <2>1. PICK d \in Nat :
             /\ Len(past') + d = Len(past) + 1
             /\ \A k \in DOMAIN past' : /\ k + d = Len(past) + 1 => past'[k] = cluster
                                        /\ k + d # Len(past) + 1 =>
                                             k + d \in DOMAIN past /\ past'[k] = past[k + d]
      BY <1>2, WriteEffect
    <2>2. past' \in Seq(Cluster)
      BY WriteEffect
    <2>3. Len(past') \in Nat /\ DOMAIN past' = 1..Len(past')
      BY <2>2
    <2>4. ASSUME NEW k \in DOMAIN past', StatusSeen(k)'
          PROVE  cluster'.status = cluster.status /\ past'[k] \in Later
      <3>1. k \in Nat /\ k <= Len(past') /\ Len(past') \in k..Len(past')
        BY <2>3
      <3>2. past'[Len(past')] = cluster
        BY <2>1, <2>3, <3>1
      <3>3. cluster'.status = cluster.status
        BY <2>4, <3>1, <3>2 DEF StatusSeen
      <3>4. CASE k + d = Len(past) + 1
        BY <2>1, <3>3, <3>4 DEF Later
      <3>5. CASE k + d # Len(past) + 1
        <4>1. k + d \in DOMAIN past /\ past'[k] = past[k + d]
          BY <2>1, <3>5
        <4>2. StatusSeen(k + d)
          <5> SUFFICES ASSUME NEW j \in (k + d)..Len(past) PROVE past[j].status = cluster.status
            BY DEF StatusSeen
          <5>1. /\ j - d \in k..Len(past') /\ j - d \in DOMAIN past' /\ (j - d) + d = j
                /\ j # Len(past) + 1
            BY <1>0, <2>1, <2>3, <3>1 DEF Numbers
          <5>2. past'[j - d] = past[j]
            BY <2>1, <5>1
          <5>3. past'[j - d].status = cluster'.status
            BY <2>4, <5>1 DEF StatusSeen
          <5> QED BY <3>3, <5>2, <5>3
        <4> QED BY <3>3, <4>1, <4>2 DEF Later
      <3> QED BY <3>4, <3>5
    <2> QED BY <2>4 DEF Later
  <1> QED BY <1>1, <1>2

LEMMA LaterSame == UNCHANGED <<cluster, past>> => Later' = Later
  BY DEF Later, StatusSeen
-----------------------------------------------------------------------------
\* What Patroni has been told is what the reconcile in flight waits for.
Awaited ==
    order # NoOrder =>
        /\ pc = "wait"
        /\ order.trigger = read.request.trigger /\ order.target = read.request.target

\* A request is served when it has been read.
ServedInOrder ==
    \A t \in Triggers : done[t] # {} => t <= read.request.trigger

\* Where the reconcile is tells what it read and what it will write.
Deciding ==
    pc \in {"timeline", "command", "wait"} =>
        /\ read.request.enabled /\ intent = read.status
        /\ read.request.trigger \notin {0, read.status.switchover}
Commanding ==
    pc \in {"command", "wait"} =>
        /\ read.status.timeline \in 1..timeline
        /\ done[read.request.trigger] = {}
Patching ==
    pc = "patch" /\ read.request.enabled /\ read.request.trigger # 0 =>
        /\ intent.switchover \in {read.status.switchover, read.request.trigger}
        /\ \/ done[read.request.trigger] = {} /\ read.status.timeline = 0
           \/ intent = read.status
           \/ intent.switchover = read.request.trigger

\* A status that keeps the operator from serving the request again.
Past(status, t) ==
    status.switchover = t \/ (status.timeline # 0 /\ status.timeline < timeline)

Fenced ==
    \A t \in Triggers \ {0} : done[t] # {} =>
        /\ read.request.trigger = t /\ read.request.enabled => Past(read.status, t)
        /\ \A v \in Later : v.request.trigger = t /\ v.request.enabled => Past(cluster.status, t)

\* The status written since the request was read does not go back.
StatusKept ==
    \A v \in Later :
        v.request.trigger = read.request.trigger /\ v.request.enabled /\ v.request.trigger # 0 =>
            /\ read.status.switchover = read.request.trigger
                 => cluster.status.switchover = read.request.trigger
            /\ read.status.timeline # 0 =>
                 \/ cluster.status.switchover = read.request.trigger
                 \/ cluster.status.timeline = read.status.timeline

Once == \A t \in Triggers : Cardinality(done[t]) <= 1

OnceParts ==
    /\ Awaited /\ ServedInOrder /\ Deciding /\ Commanding /\ Patching /\ Fenced /\ StatusKept
    /\ done[0] = {} /\ Once

OnceInv == overtaken \/ OnceParts

LEMMA OnceInit == Init => OnceInv
  <1> SUFFICES ASSUME Init PROVE OnceParts
    BY DEF OnceInv
  <1>1. \A t \in Triggers : done[t] = {}
    BY DEF Init
  <1>2. order = NoOrder /\ pc = "idle" /\ edits = 0 /\ read = cluster /\ cluster.request.trigger = 0
    BY DEF Init
  <1>3. Awaited /\ Deciding /\ Commanding /\ Patching
    BY <1>2 DEF Awaited, Deciding, Commanding, Patching
  <1>4. ServedInOrder /\ Fenced /\ done[0] = {}
    BY <1>1, Constants_ DEF ServedInOrder, Fenced
  <1>5. StatusKept
    <2>1. Later = {cluster}
      BY DEF Init, Later
    <2> QED BY <1>2, <2>1 DEF StatusKept
  <1>6. Once
    BY <1>1, FS_EmptySet DEF Once
  <1> QED BY <1>3, <1>4, <1>5, <1>6 DEF OnceParts

\* A reconcile begins with what was fenced off when it was written.
LEMMA OnceBegin ==
    ASSUME TypeOK, InOrder, OnceParts, Begin, ~ overtaken'
    PROVE  OnceParts'
  <1> USE DEF OnceParts
  <1>0. Numbers
    BY NumbersFact
  <1>1. /\ pc = "idle" /\ read' \in {read} \cup Later /\ Later' \subseteq Later
        /\ UNCHANGED <<cluster, timeline, order, edits, done>>
        /\ pc' \in {"timeline", "patch"} /\ read' \in Cluster
    BY BeginEffect, LaterBegin
  <1>a. \A v \in Later : /\ v.status = cluster.status /\ read.request.trigger <= v.request.trigger
                         /\ v.request.trigger \in Nat
    BY LaterFacts DEF Leq
  <1>2. Awaited' /\ Commanding' /\ Once' /\ done'[0] = {}
    BY <1>1 DEF Awaited, Commanding, Once
  <1>3. ServedInOrder'
    <2>1. CASE read' = read
      BY <1>1, <2>1 DEF ServedInOrder
    <2>2. CASE read' \in Later
      BY <1>0, <1>1, <1>a, <2>2 DEF ServedInOrder, Numbers
    <2> QED BY <1>1, <2>1, <2>2
  <1>4. Deciding'
    BY BeginEffect DEF Deciding
  <1>5. StatusKept'
    <2>1. CASE read' = read
      BY <1>1, <2>1 DEF StatusKept
    <2>2. CASE read' \in Later
      BY <1>1, <1>a, <2>2 DEF StatusKept
    <2> QED BY <1>1, <2>1, <2>2
  <1>6. Fenced'
    <2>1. CASE read' = read
      BY <1>1, <2>1 DEF Fenced, Past
    <2>2. CASE read' \in Later
      BY <1>1, <1>a, <2>2 DEF Fenced, Past
    <2> QED BY <1>1, <2>1, <2>2
  <1>7. Patching'
    <2> SUFFICES ASSUME pc' = "patch", read'.request.enabled, read'.request.trigger # 0
                 PROVE  /\ intent'.switchover \in {read'.status.switchover, read'.request.trigger}
                        /\ \/ done[read'.request.trigger] = {} /\ read'.status.timeline = 0
                           \/ intent' = read'.status
                           \/ intent'.switchover = read'.request.trigger
      BY <1>1 DEF Patching
    <2>1. CASE intent' = read'.status
      BY <2>1
    <2>2. CASE /\ read'.request.trigger \in {0, read'.status.switchover}
               /\ intent' = [read'.status EXCEPT !.timeline = 0]
      <3>1. read'.status \in Status
        BY <1>1, Parts DEF TypeOK
      <3>2. intent'.switchover = read'.status.switchover /\ intent'.timeline = 0
        BY <2>2, <3>1 DEF Status
      <3> QED BY <2>2, <3>2
    <2> QED BY <2>1, <2>2, BeginEffect
  <1> QED BY <1>2, <1>3, <1>4, <1>5, <1>6, <1>7

\* What the operator decides from its timeline and from the answer of patronictl.
LEMMA OnceDecides ==
    ASSUME TypeOK, InOrder, OnceParts, NEW st, Decides(st),
           \/ st = read.status
           \/ st = Succeeded
           \/ /\ st = [read.status EXCEPT !.timeline = timeline]
              /\ read.status.timeline = 0 /\ pc = "timeline"
    PROVE  OnceParts'
  <1> USE DEF OnceParts
  <1>0. Numbers
    BY NumbersFact
  <1>1. /\ UNCHANGED <<cluster, past, timeline, order, read, edits, done>>
        /\ intent' = st /\ pc' = "patch" /\ pc \in {"timeline", "command"}
    BY DEF Decides
  <1>2. /\ Awaited' /\ Deciding' /\ Commanding' /\ ServedInOrder' /\ StatusKept' /\ Once'
        /\ done'[0] = {}
    BY <1>1, LaterSame DEF Awaited, Deciding, Commanding, ServedInOrder, StatusKept, Once
  <1>3. Fenced'
    BY <1>1, LaterSame DEF Fenced, Past
  <1>4. Patching'
    <2>1. CASE st = read.status
      BY <1>1, <2>1 DEF Patching
    <2>2. CASE st = Succeeded
      BY <1>1, <2>2 DEF Patching, Succeeded
    <2>3. CASE st = [read.status EXCEPT !.timeline = timeline] /\ read.status.timeline = 0 /\ pc = "timeline"
      <3>1. read.status \in Status
        BY Parts DEF TypeOK
      <3>2. st.switchover = read.status.switchover
        BY <2>3, <3>1 DEF Status
      <3>3. done[read.request.trigger] = {}
        BY <1>0, <2>3, LaterSame DEF Fenced, Past, Deciding, Numbers
      <3> QED BY <1>1, <2>3, <3>2, <3>3 DEF Patching
    <2> QED BY <2>1, <2>2, <2>3
  <1> QED BY <1>2, <1>3, <1>4

\* Nothing is told to Patroni unless the recorded timeline is the present one.
LEMMA OnceProceed ==
    ASSUME TypeOK, InOrder, OnceParts, Proceed
    PROVE  OnceParts'
  <1> USE DEF OnceParts
  <1>0. Numbers
    BY NumbersFact
  <1>1. /\ UNCHANGED <<cluster, past, timeline, order, read, intent, edits, done>>
        /\ pc = "timeline" /\ pc' = "command" /\ read.status.timeline = timeline
    BY DEF Proceed
  <1>2. /\ Awaited' /\ Deciding' /\ Patching' /\ ServedInOrder' /\ StatusKept' /\ Once'
        /\ done'[0] = {}
    BY <1>1, LaterSame DEF Awaited, Deciding, Patching, ServedInOrder, StatusKept, Once
  <1>3. Fenced'
    BY <1>1, LaterSame DEF Fenced, Past
  <1>4. done[read.request.trigger] = {}
    BY <1>0, <1>1, LaterSame DEF Fenced, Past, Deciding, Numbers
  <1>5. Commanding'
    BY <1>0, <1>1, <1>4 DEF Commanding, Numbers
  <1> QED BY <1>2, <1>3, <1>5

LEMMA OnceRun ==
    ASSUME TypeOK, InOrder, OnceParts, RunCommand
    PROVE  OnceParts'
  <1> USE DEF OnceParts
  <1>1. /\ UNCHANGED <<cluster, past, timeline, read, intent, edits, done>>
        /\ pc = "command" /\ pc' = "wait"
        /\ order' = [trigger |-> read.request.trigger, target |-> read.request.target]
    BY DEF RunCommand
  <1>2. /\ Awaited' /\ Deciding' /\ Patching' /\ ServedInOrder' /\ StatusKept' /\ Once'
        /\ done'[0] = {} /\ Commanding'
    BY <1>1, LaterSame DEF Awaited, Deciding, Patching, ServedInOrder, StatusKept, Once, Commanding
  <1>3. Fenced'
    BY <1>1, LaterSame DEF Fenced, Past
  <1> QED BY <1>2, <1>3

\* The merge keeps the request fenced off.
LEMMA OncePatch ==
    ASSUME TypeOK, InOrder, OnceParts, PatchStatus
    PROVE  OnceParts'
  <1> USE DEF OnceParts
  <1>0. Numbers /\ read.request.trigger \in Triggers
    BY NumbersFact DEF Numbers
  <1>1. /\ UNCHANGED <<timeline, order, read, edits, done>> /\ pc = "patch" /\ pc' = "idle"
        /\ cluster'.request = cluster.request
        /\ cluster'.status.switchover = IF intent.switchover # read.status.switchover
                                        THEN intent.switchover ELSE cluster.status.switchover
        /\ cluster'.status.timeline = IF intent.timeline # read.status.timeline
                                      THEN intent.timeline ELSE cluster.status.timeline
    BY PatchEffect
  <1>2. /\ Awaited' /\ Deciding' /\ Patching' /\ ServedInOrder' /\ Once'
        /\ done'[0] = {} /\ Commanding'
    BY <1>1 DEF Awaited, Deciding, Patching, ServedInOrder, Once, Commanding
  <1> DEFINE r == read.request.trigger
  <1>3. ASSUME cluster.request.trigger = r, cluster.request.enabled, r # 0
        PROVE  \/ cluster'.status.switchover = r
               \/ /\ intent = read.status
                  /\ cluster'.status.switchover = cluster.status.switchover
                  /\ cluster'.status.timeline = cluster.status.timeline
               \/ done[r] = {} /\ read.status.timeline = 0 /\ read.status.switchover # r
    <2>0. cluster \in Later
      BY DEF Later
    <2>1. read.request.enabled
      BY <1>3 DEF InOrder, Leq
    <2>2. CASE read.status.switchover = r
      <3>1. cluster.status.switchover = r
        BY <1>3, <2>0, <2>2 DEF StatusKept
      <3>2. intent.switchover = r
        BY <1>1, <1>3, <2>1, <2>2 DEF Patching
      <3> QED BY <1>1, <2>2, <3>1, <3>2
    <2>3. CASE read.status.switchover # r
      BY <1>1, <1>3, <2>1, <2>3 DEF Patching
    <2> QED BY <2>2, <2>3
  <1>4. CASE cluster'.status = cluster.status
    <2>1. cluster' = cluster
      BY <1>1, <1>4, Parts, PatchEffect DEF TypeOK
    <2>2. Later' \subseteq Later
      BY <1>4, <2>1, LaterWrite, PatchEffect DEF Later
    <2>3. StatusKept' /\ Fenced'
      BY <1>1, <2>1, <2>2 DEF StatusKept, Fenced, Past
    <2> QED BY <1>2, <2>3
  <1>5. CASE cluster'.status # cluster.status
    <2>1. Later' = {cluster'} /\ cluster \in Later
      BY <1>5, LaterWrite, PatchEffect DEF Later
    <2>2. StatusKept'
      <3> SUFFICES ASSUME cluster.request.trigger = r, cluster.request.enabled, r # 0
                   PROVE  /\ read.status.switchover = r => cluster'.status.switchover = r
                          /\ read.status.timeline # 0 =>
                               \/ cluster'.status.switchover = r
                               \/ cluster'.status.timeline = read.status.timeline
        BY <1>1, <2>1 DEF StatusKept
      <3> QED BY <1>3, <2>1 DEF StatusKept
    <2>3. Fenced'
      <3> SUFFICES ASSUME NEW t \in Triggers \ {0}, done[t] # {},
                          cluster.request.trigger = t, cluster.request.enabled
                   PROVE  Past(cluster.status, t)'
        BY <1>1, <2>1 DEF Fenced, Past
      <3>1. r = t
        BY <1>0 DEF ServedInOrder, InOrder, Leq, Numbers
      <3>2. Past(cluster.status, t)
        BY <2>1 DEF Fenced
      <3> QED BY <1>1, <1>3, <3>1, <3>2 DEF Past
    <2> QED BY <1>2, <2>2, <2>3
  <1> QED BY <1>4, <1>5

\* The election a request asked for: it was the first, and fences the request off.
LEMMA OnceElect ==
    ASSUME TypeOK, InOrder, OnceParts, NEW m \in Members, Elect(m)
    PROVE  OnceParts'
  <1> USE DEF OnceParts
  <1>0. Numbers /\ read.request.trigger \in Triggers
    BY NumbersFact DEF Numbers
  <1> DEFINE r == read.request.trigger
             e == <<m, timeline + 1, order.target>>
  <1>1. /\ order # NoOrder /\ order' = NoOrder /\ timeline' = timeline + 1
        /\ pc = "wait" /\ order.trigger = r
        /\ UNCHANGED <<cluster, past, read, edits>>
        /\ pc' = "patch" /\ intent' \in {Succeeded, intent}
    BY ElectEffect DEF Awaited
  <1>2. done[r] = {} /\ r # 0 /\ read.request.enabled /\ intent = read.status
        /\ read.status.timeline \in 1..timeline
    BY <1>1 DEF Commanding, Deciding
  <1>3. done'[r] = {e} /\ \A t \in Triggers : t # r => done'[t] = done[t]
    <2>1. done \in [Triggers -> SUBSET Elections]
      BY DEF TypeOK, Elections
    <2>2. done' = [done EXCEPT ![r] = done[r] \cup {e}]
      BY <1>1, ElectEffect
    <2> HIDE DEF e
    <2> QED BY <1>0, <1>2, <2>1, <2>2
  <1> HIDE DEF e
  <1>4. Awaited' /\ Deciding' /\ Commanding' /\ StatusKept'
    BY <1>1, LaterSame DEF Awaited, Deciding, Commanding, StatusKept
  <1>5. ServedInOrder' /\ done'[0] = {}
    BY <1>0, <1>1, <1>2, <1>3 DEF ServedInOrder, Numbers
  <1>6. Once'
    <2>1. Cardinality({e}) = 1
      BY FS_Singleton
    <2> QED BY <1>3, <2>1 DEF Once
  <1>7. Patching'
    BY <1>1, <1>2 DEF Patching, Succeeded
  <1>8. Fenced'
    <2>0. Later' = Later /\ read' = read /\ cluster' = cluster /\ timeline' = timeline + 1
      BY <1>1, LaterSame
    <2>1. \A t \in Triggers \ {0}, st \in {read.status, cluster.status} :
             Past(st, t) => st.switchover = t \/ (st.timeline # 0 /\ st.timeline < timeline + 1)
      BY <1>0 DEF Past, Numbers
    <2>2. ASSUME NEW t \in Triggers \ {0}, t # r, done[t] # {}
          PROVE  /\ read.request.trigger # t
                 /\ \A v \in Later : v.request.trigger = t /\ v.request.enabled => Past(cluster.status, t)
      BY <2>2 DEF Fenced
    <2>3. read.status.timeline # 0 /\ read.status.timeline < timeline + 1
      BY <1>0, <1>2 DEF Numbers
    <2>4. \A v \in Later : v.request.trigger = r /\ v.request.enabled =>
             \/ cluster.status.switchover = r
             \/ cluster.status.timeline = read.status.timeline
      BY <1>2, <2>3 DEF StatusKept
    <2>5. Past(read.status, r)'
      BY <2>0, <2>3 DEF Past
    <2>6. \A v \in Later : v.request.trigger = r /\ v.request.enabled => Past(cluster.status, r)'
      BY <2>0, <2>3, <2>4 DEF Past
    <2>7. ASSUME NEW t \in Triggers \ {0}, t # r, done'[t] # {}
          PROVE  /\ read.request.trigger # t
                 /\ \A v \in Later : v.request.trigger = t /\ v.request.enabled => Past(cluster.status, t)'
      <3>1. done[t] # {}
        BY <1>3, <2>7
      <3> QED BY <2>0, <2>1, <2>2, <2>7, <3>1 DEF Past
    <2> QED BY <2>0, <2>5, <2>6, <2>7 DEF Fenced
  <1> QED BY <1>4, <1>5, <1>6, <1>7, <1>8

LEMMA OnceOthers ==
    ASSUME ~ CommandsOutlive, TypeOK, InOrder, OnceParts,
           \/ Abandon \/ Crash \/ Elsewhere
           \/ (\E type \in Types, target \in Targets : Trigger(type, target)) \/ Disable
    PROVE  OnceParts'
  <1> USE DEF OnceParts
  <1>0. Numbers
    BY NumbersFact
  <1>1. CASE Abandon
    <2>1. /\ UNCHANGED <<cluster, past, timeline, read, edits, done>> /\ order' = NoOrder
          /\ pc = "wait" /\ pc' = "patch" /\ intent' = intent
      BY <1>1 DEF Abandon, Reply, Awaited
    <2>2. /\ Awaited' /\ Deciding' /\ Commanding' /\ ServedInOrder' /\ StatusKept' /\ Once'
          /\ done'[0] = {}
      BY <2>1, LaterSame DEF Awaited, Deciding, Commanding, ServedInOrder, StatusKept, Once
    <2>3. Fenced'
      BY <2>1, LaterSame DEF Fenced, Past
    <2>4. Patching'
      BY <2>1 DEF Patching, Deciding
    <2> QED BY <2>2, <2>3, <2>4
  <1>2. CASE Crash
    <2>1. /\ UNCHANGED <<cluster, past, timeline, order, read, edits, done>>
          /\ pc # "wait" /\ pc' = "idle"
      BY <1>2 DEF Crash
    <2>2. /\ Awaited' /\ Deciding' /\ Commanding' /\ ServedInOrder' /\ StatusKept' /\ Once'
          /\ done'[0] = {} /\ Patching'
      BY <2>1, LaterSame DEF Awaited, Deciding, Commanding, ServedInOrder, StatusKept, Once, Patching
    <2>3. Fenced'
      BY <2>1, LaterSame DEF Fenced, Past
    <2> QED BY <2>2, <2>3
  <1>3. CASE Elsewhere
    <2>1. /\ UNCHANGED <<cluster, past, order, pc, read, intent, edits, done>>
          /\ timeline' \in Nat /\ timeline' >= timeline
      BY <1>3, ElsewhereEffect, SwitchoverBounds
    <2>2. /\ Awaited' /\ Deciding' /\ ServedInOrder' /\ StatusKept' /\ Once'
          /\ done'[0] = {} /\ Patching'
      BY <2>1, LaterSame DEF Awaited, Deciding, ServedInOrder, StatusKept, Once, Patching
    <2>3. Commanding'
      BY <1>0, <2>1 DEF Commanding, Numbers
    <2>4. Fenced'
      BY <1>0, <2>1, LaterSame DEF Fenced, Past, Numbers
    <2> QED BY <2>2, <2>3, <2>4
  <1>4. CASE (\E type \in Types, target \in Targets : Trigger(type, target)) \/ Disable
    <2>1. /\ UNCHANGED <<timeline, order, pc, read, intent, done>> /\ edits' = edits + 1
          /\ cluster'.status = cluster.status
          /\ \/ cluster'.request.trigger = edits + 1
             \/ /\ cluster'.request.trigger = cluster.request.trigger
                /\ cluster'.request.target = cluster.request.target
                /\ ~ cluster'.request.enabled
      BY <1>4, EditEffect
    <2>2. Awaited' /\ Deciding' /\ Once' /\ done'[0] = {} /\ Patching' /\ Commanding'
      BY <2>1 DEF Awaited, Deciding, Once, Patching, Commanding
    <2>3. ServedInOrder'
      BY <2>1 DEF ServedInOrder
    <2>4. Later' \subseteq {cluster'} \cup Later
      BY <1>4, <2>1, EditEffect, LaterWrite
    <2>5. cluster'.request.enabled => /\ cluster'.request.trigger = edits + 1
                                     /\ cluster'.request.trigger # read.request.trigger
      BY <1>0, <2>1 DEF InOrder, Leq, Numbers
    <2>6. StatusKept'
      BY <2>1, <2>4, <2>5 DEF StatusKept
    <2>7. \A t \in Triggers : done[t] # {} /\ cluster'.request.enabled => cluster'.request.trigger # t
      BY <1>0, <2>5 DEF ServedInOrder, InOrder, Leq, Numbers
    <2>8. Fenced'
      BY <2>1, <2>4, <2>7 DEF Fenced, Past
    <2> QED BY <2>2, <2>3, <2>6, <2>8
  <1> QED BY <1>1, <1>2, <1>3, <1>4

\* Nobody takes back that an edit was read before the status written earlier.
LEMMA OvertakenKept ==
    ASSUME TypeOK, [Next]_vars
    PROVE  overtaken => overtaken'
  <1>1. CASE \E m \in Members : Elect(m)
    BY <1>1, ElectEffect
  <1>2. CASE (\E type \in Types, target \in Targets : Trigger(type, target)) \/ Disable
    BY <1>2, EditEffect
  <1> QED BY <1>1, <1>2, Steps, BeginPast, PatchEffect, ElsewhereEffect DEF GetTimelineFails,
         RecordTimeline, AssumeCompleted, Proceed, RunCommand, CommandRefused, Abandon, Crash, vars

\* A request changes the primary at most once: the timeline "present when the switchover was
\* first requested" (patroni.go:543) fences the request off, whatever crashes, stale reads,
\* failovers and edits come between, as long as no patronictl outlives its caller and no edit
\* is read without the status that was written before it was read.
THEOREM SwitchoverAtMostOnce ==
    ASSUME ~ CommandsOutlive
    PROVE  Spec => []AtMostOnce
  <1>1. TypeOK /\ InOrder /\ OnceInv /\ [Next]_vars => OnceInv'
    <2> SUFFICES ASSUME TypeOK, InOrder, OnceInv, [Next]_vars, ~ overtaken' PROVE OnceParts'
      BY DEF OnceInv
    <2>0. OnceParts
      BY OvertakenKept DEF OnceInv
    <2>1. CASE UNCHANGED vars
      <3>1. UNCHANGED <<cluster, past, timeline, order, pc, read, intent, edits, done>>
        BY <2>1 DEF vars
      <3>2. Fenced'
        BY <2>0, <3>1, LaterSame DEF OnceParts, Fenced, Past
      <3> QED BY <2>0, <3>1, <3>2, LaterSame DEF OnceParts, Awaited, Deciding, Commanding, Patching,
                ServedInOrder, StatusKept, Once
    <2>2. CASE GetTimelineFails \/ CommandRefused \/ RecordTimeline \/ AssumeCompleted
      <3>1. pc \in {"timeline", "command"} => intent = read.status
        BY <2>0 DEF OnceParts, Deciding
      <3>2. GetTimelineFails \/ CommandRefused => Decides(read.status)
        BY <3>1, DecideEffect DEF Decides
      <3> QED BY <2>0, <2>2, <3>2, DecideEffect, OnceDecides
    <2> QED BY <2>0, <2>1, <2>2, Steps, OnceBegin, OnceProceed, OnceRun, OncePatch, OnceElect, OnceOthers
  <1>2. OnceInv => AtMostOnce
    BY DEF OnceInv, OnceParts, Once, AtMostOnce
  <1> QED BY <1>1, <1>2, OnceInit, OrderAlways, TypeCorrect, PTL DEF Spec
-----------------------------------------------------------------------------
(* What the status tells of a request.                                     *)

\* Nothing has moved the timeline but requests that were carried out as asked, and no
\* edit was read without the status written before.
Quiet == failovers = 0 /\ crashes = 0 /\ ~ Diverted /\ ~ overtaken

Outdated(status) == status.timeline \notin {0, timeline}

OnTime == pc \in {"command", "wait"} => read.status.timeline = timeline

\* An outdated timeline was recorded for a request that has been served, and is on its
\* way out of the status.
ReadServed     == Outdated(read.status) => Served(read.request)
ClusterCurrent == Outdated(cluster.status) =>
                      pc = "patch" /\ intent.timeline = 0 /\ read.status.timeline # 0
IntentCurrent  == pc = "patch" /\ Outdated(intent) => intent.timeline = read.status.timeline

\* A success is told only of a request that has been served.
AnswerServed ==
    pc = "patch" /\ intent.switchover \notin {0, read.status.switchover} =>
        intent.switchover = read.request.trigger /\ Served(read.request)

TruthParts ==
    /\ leader # None /\ Awaited /\ Deciding /\ OnTime
    /\ ReadServed /\ ClusterCurrent /\ IntentCurrent /\ AnswerServed

TruthInv == Quiet => TruthParts

LEMMA TruthInit == Init => TruthInv
  <1> SUFFICES ASSUME Init PROVE TruthParts
    BY DEF TruthInv
  <1>1. /\ leader # None /\ order = NoOrder /\ pc = "idle" /\ edits = 0 /\ read = cluster
        /\ cluster.request.trigger = 0 /\ cluster.status.timeline = 0
    BY Constants_ DEF Init
  <1> QED BY <1>1 DEF TruthParts, Awaited, Deciding, OnTime, ReadServed, ClusterCurrent,
            IntentCurrent, AnswerServed, Outdated

\* The steps that touch neither the timeline nor what the requests have done.
LEMMA QuietFrame ==
    ASSUME TruthInv, Quiet', UNCHANGED <<failovers, crashes, overtaken, done>>
    PROVE  Quiet /\ TruthParts
  BY DEF Quiet, Diverted, TruthInv

LEMMA TruthBegin ==
    ASSUME TypeOK, InOrder, TruthInv, Quiet', Begin
    PROVE  TruthParts'
  <1>0. Quiet /\ TruthParts
    BY BeginEffect, BeginPast DEF faultVars, Quiet, Diverted, TruthInv
  <1>1. /\ pc = "idle" /\ read' \in Cluster /\ pc' \in {"timeline", "patch"}
        /\ read' \in {read} \cup Later
        /\ UNCHANGED <<cluster, leader, timeline, order, edits, done>>
    BY BeginEffect, LaterBegin DEF Quiet
  <1>2. read' \in Later => read'.status = cluster.status
    BY LaterFacts
  <1>3. ~ Outdated(cluster.status)
    BY <1>0, <1>1 DEF TruthParts, ClusterCurrent
  <1>4. leader' # None /\ Awaited' /\ OnTime' /\ ClusterCurrent'
    BY <1>0, <1>1, <1>3 DEF TruthParts, Awaited, OnTime, ClusterCurrent, Outdated
  <1>6. Deciding'
    BY BeginEffect DEF Deciding
  <1>7. ReadServed'
    BY <1>0, <1>1, <1>2, <1>3 DEF TruthParts, ReadServed, Outdated, Served
  <1>8. read'.status \in Status
    BY <1>1, Parts
  <1>9. /\ intent'.switchover \in {0, read'.status.switchover}
        /\ intent'.timeline \in {0, read'.status.timeline}
    <2>1. CASE intent' = [read'.status EXCEPT !.timeline = 0]
      BY <1>8, <2>1 DEF Status
    <2> QED BY <2>1, BeginEffect, Constants_
  <1>10. IntentCurrent' /\ AnswerServed'
    BY <1>9 DEF IntentCurrent, AnswerServed, Outdated
  <1> QED BY <1>4, <1>6, <1>7, <1>10 DEF TruthParts

\* A request is told to have succeeded when the timeline has moved since it was recorded.
LEMMA TruthDecides ==
    ASSUME TypeOK, TruthInv, Quiet', NEW st, Decides(st),
           \/ st = intent
           \/ st = Succeeded /\ read.status.timeline \notin {0, timeline}
           \/ st = [read.status EXCEPT !.timeline = timeline]
    PROVE  TruthParts'
  <1>0. Quiet /\ TruthParts
    BY QuietFrame DEF Decides, faultVars
  <1>1. /\ UNCHANGED <<cluster, leader, timeline, order, read, edits, done>>
        /\ intent' = st /\ pc' = "patch" /\ pc \in {"timeline", "command"} /\ intent = read.status
    BY <1>0 DEF Decides, TruthParts, Deciding
  <1>2. leader' # None /\ Awaited' /\ OnTime' /\ Deciding'
    BY <1>0, <1>1 DEF TruthParts, Awaited, OnTime, Deciding
  <1>3. ClusterCurrent' /\ ReadServed'
    BY <1>0, <1>1 DEF TruthParts, ClusterCurrent, ReadServed, Outdated, Served
  <1>4. read.status \in Status
    BY Parts DEF TypeOK
  <1>5. \/ st.switchover = read.status.switchover /\ st.timeline \in {timeline, read.status.timeline}
        \/ st.switchover = read.request.trigger /\ st.timeline = 0 /\ Outdated(read.status)
    BY <1>1, <1>4 DEF Status, Succeeded, Outdated
  <1>6. IntentCurrent'
    BY <1>1, <1>5 DEF IntentCurrent, Outdated
  <1>7. AnswerServed'
    BY <1>0, <1>1, <1>5 DEF AnswerServed, TruthParts, ReadServed, Served
  <1> QED BY <1>2, <1>3, <1>6, <1>7 DEF TruthParts

LEMMA TruthPatch ==
    ASSUME TypeOK, TruthInv, Quiet', PatchStatus
    PROVE  TruthParts'
  <1>0. Quiet /\ TruthParts
    BY PatchEffect, QuietFrame DEF faultVars
  <1>1. /\ UNCHANGED <<leader, timeline, order, read, edits, done>> /\ pc = "patch" /\ pc' = "idle"
        /\ cluster'.request = cluster.request
        /\ cluster'.status.timeline = IF intent.timeline # read.status.timeline
                                      THEN intent.timeline ELSE cluster.status.timeline
    BY PatchEffect
  <1>2. leader' # None /\ Awaited' /\ OnTime' /\ Deciding' /\ IntentCurrent' /\ AnswerServed'
    BY <1>0, <1>1 DEF TruthParts, Awaited, OnTime, Deciding, IntentCurrent, AnswerServed
  <1>3. ReadServed'
    BY <1>0, <1>1 DEF TruthParts, ReadServed, Outdated, Served
  <1>4. ~ Outdated(cluster.status)'
    <2>1. CASE intent.timeline # read.status.timeline
      BY <1>0, <1>1, <2>1 DEF TruthParts, IntentCurrent, Outdated
    <2>2. CASE intent.timeline = read.status.timeline
      BY <1>0, <1>1, <2>2 DEF TruthParts, ClusterCurrent, Outdated
    <2> QED BY <2>1, <2>2
  <1>5. ClusterCurrent'
    BY <1>4 DEF ClusterCurrent
  <1> QED BY <1>2, <1>3, <1>5 DEF TruthParts

LEMMA TruthElect ==
    ASSUME TypeOK, TruthInv, Quiet', NEW m \in Members, Elect(m)
    PROVE  TruthParts'
  <1> DEFINE r == read.request.trigger
             e == <<m, timeline + 1, order.target>>
  <1>0. r \in Triggers /\ timeline \in Nat /\ timeline >= 1
    BY NumbersFact DEF Numbers
  <1>1. /\ done \in [Triggers -> SUBSET Elections] /\ order.trigger \in Triggers
        /\ done' = [done EXCEPT ![order.trigger] = done[order.trigger] \cup {e}]
        /\ UNCHANGED <<failovers, crashes, overtaken>>
    BY ElectEffect DEF TypeOK, Elections, faultVars
  <1>2. e[1] = m /\ e[3] = order.target
    OBVIOUS
  <1> HIDE DEF e
  <1>3. e \in done'[order.trigger] /\ \A t \in Triggers : done[t] \subseteq done'[t]
    BY <1>1
  <1>4. Quiet
    BY <1>1, <1>3 DEF Quiet, Diverted
  <1>5. TruthParts
    BY <1>4 DEF TruthInv
  <1>6. order.target \in {None, m}
    BY <1>1, <1>2, <1>3 DEF Quiet, Diverted
  <1>7. /\ order # NoOrder /\ order' = NoOrder /\ timeline' = timeline + 1 /\ leader' = m
        /\ pc = "wait" /\ order.trigger = r /\ order.target = read.request.target
        /\ UNCHANGED <<cluster, read, edits>>
        /\ pc' = "patch" /\ intent' = Succeeded
    BY <1>5, <1>6, ElectEffect DEF TruthParts, Awaited
  <1>8. Served(read.request)'
    BY <1>2, <1>3, <1>6, <1>7 DEF Served
  <1>9. leader' # None /\ Awaited' /\ OnTime' /\ Deciding'
    BY <1>5, <1>7, Constants_ DEF TruthParts, Awaited, OnTime, Deciding
  <1>10. ReadServed' /\ AnswerServed'
    BY <1>7, <1>8 DEF ReadServed, AnswerServed, Succeeded
  <1>11. intent'.timeline = 0 /\ read.status.timeline # 0
    BY <1>0, <1>5, <1>7 DEF TruthParts, OnTime, Succeeded
  <1>12. ClusterCurrent' /\ IntentCurrent'
    BY <1>7, <1>11 DEF ClusterCurrent, IntentCurrent, Outdated
  <1> QED BY <1>9, <1>10, <1>12 DEF TruthParts

LEMMA TruthOthers ==
    ASSUME TypeOK, TruthInv, Quiet',
           \/ Proceed \/ RunCommand \/ Abandon \/ Crash \/ Elsewhere
           \/ (\E type \in Types, target \in Targets : Trigger(type, target)) \/ Disable
    PROVE  TruthParts'
  <1>1. CASE Proceed \/ RunCommand \/ Abandon
    <2>0. Quiet /\ TruthParts
      BY <1>1, QuietFrame DEF Proceed, RunCommand, Abandon, faultVars
    <2>1. /\ UNCHANGED <<cluster, leader, timeline, read, intent, edits, done>>
          /\ \/ Proceed /\ pc = "timeline" /\ pc' = "command" /\ order' = order
                /\ read.status.timeline = timeline
             \/ RunCommand /\ pc = "command" /\ pc' = "wait"
                /\ order' = [trigger |-> read.request.trigger, target |-> read.request.target]
             \/ Abandon /\ pc = "wait" /\ pc' = "patch" /\ order' = NoOrder
      BY <1>1, <2>0 DEF Proceed, RunCommand, Abandon, Reply, TruthParts, Awaited
    <2>2. leader' # None /\ Awaited' /\ OnTime' /\ Deciding'
      BY <2>0, <2>1 DEF TruthParts, Awaited, OnTime, Deciding
    <2>3. ReadServed' /\ ClusterCurrent'
      BY <2>0, <2>1 DEF TruthParts, ReadServed, ClusterCurrent, Outdated, Served
    <2>4. pc' = "patch" => intent' = read'.status
      BY <2>0, <2>1 DEF TruthParts, Deciding
    <2>5. IntentCurrent' /\ AnswerServed'
      BY <2>4 DEF IntentCurrent, AnswerServed
    <2> QED BY <2>2, <2>3, <2>5 DEF TruthParts
  <1>2. CASE Crash
    <2>1. crashes \in 0..MaxCrashes /\ crashes' = crashes + 1 /\ crashes' = 0
      BY <1>2 DEF Crash, TypeOK, Quiet
    <2> QED BY <2>1, SwitchoverBounds
  <1>3. CASE Elsewhere
    <2>1. /\ UNCHANGED <<cluster, order, pc, read, intent, edits, crashes, overtaken, done>>
          /\ failovers \in 0..MaxFailovers /\ failovers' = 0 /\ failovers' >= failovers
          /\ leader' = leader \/ leader = None
          /\ timeline' = timeline \/ leader = None
      BY <1>3, ElsewhereEffect DEF TypeOK, Quiet
    <2>2. failovers = failovers'
      BY <2>1, SwitchoverBounds
    <2>3. Quiet /\ TruthParts
      BY <2>1, <2>2, QuietFrame
    <2>4. UNCHANGED <<leader, timeline>>
      BY <2>1, <2>3 DEF TruthParts
    <2> QED BY <2>1, <2>3, <2>4 DEF TruthParts, Awaited, OnTime, Deciding, ReadServed,
              ClusterCurrent, IntentCurrent, AnswerServed, Outdated, Served
  <1>4. CASE (\E type \in Types, target \in Targets : Trigger(type, target)) \/ Disable
    <2>1. /\ UNCHANGED <<leader, timeline, order, pc, read, intent, failovers, crashes, overtaken, done>>
          /\ edits' = edits + 1 /\ cluster'.status = cluster.status
          /\ \/ cluster'.request.trigger = edits + 1
             \/ /\ cluster'.request.trigger = cluster.request.trigger
                /\ cluster'.request.target = cluster.request.target
      BY <1>4, EditEffect DEF faultVars
    <2>2. Quiet /\ TruthParts
      BY <2>1, QuietFrame
    <2> QED BY <2>1, <2>2 DEF TruthParts, Awaited, OnTime, Deciding, ReadServed,
              ClusterCurrent, IntentCurrent, AnswerServed, Outdated, Served
  <1> QED BY <1>1, <1>2, <1>3, <1>4

LEMMA TruthAlways == Spec => []TruthInv
  <1>1. TypeOK /\ InOrder /\ TruthInv /\ [Next]_vars => TruthInv'
    <2> SUFFICES ASSUME TypeOK, InOrder, TruthInv, [Next]_vars, Quiet' PROVE TruthParts'
      BY DEF TruthInv
    <2>1. CASE UNCHANGED vars
      <3>1. UNCHANGED <<cluster, leader, timeline, order, pc, read, intent, edits, failovers,
                       crashes, overtaken, done>>
        BY <2>1 DEF vars, faultVars
      <3>2. Quiet /\ TruthParts
        BY <3>1, QuietFrame
      <3> QED BY <3>1, <3>2 DEF TruthParts, Awaited, OnTime, Deciding, ReadServed,
                ClusterCurrent, IntentCurrent, AnswerServed, Outdated, Served
    <2>2. CASE GetTimelineFails \/ CommandRefused \/ RecordTimeline \/ AssumeCompleted
      BY <2>2, DecideEffect, TruthDecides
    <2> QED BY <2>1, <2>2, Steps, TruthBegin, TruthPatch, TruthElect, TruthOthers
  <1> QED BY <1>1, TruthInit, OrderAlways, TypeCorrect, PTL DEF Spec

\* A success that enters the status (patroni.go:575,610) is that of the request it names: the
\* primary was changed for it, to its target if it had one.  A leader lost by accident, a
\* candidate passed over, a crash and a cache that shows the edit before the operator's own
\* last status (patroni.go:570-578) are the only ways to refute this.
THEOREM SwitchoverStatusIsTruthful == Spec => StatusTruthful
  <1> DEFINE Truth ==
        \A c \in {cluster'} :
          (/\ c.status.switchover # cluster.status.switchover
           /\ c.status.switchover = c.request.trigger
           /\ c.request.trigger # 0
           /\ failovers = 0 /\ crashes = 0 /\ ~ Diverted /\ ~ overtaken)
          => Served(c.request)
  <1>1. TypeOK /\ InOrder /\ TruthInv /\ [Next]_vars => [Truth]_vars
    <2> SUFFICES ASSUME TypeOK, InOrder, TruthInv, Next,
                        cluster'.status.switchover # cluster.status.switchover,
                        cluster'.status.switchover = cluster'.request.trigger,
                        cluster'.request.trigger # 0,
                        Quiet
                 PROVE  Served(cluster'.request)
      BY DEF Quiet
    <2>0. TruthParts
      BY DEF TruthInv
    <2>1. PatchStatus
      <3>1. \/ cluster' = cluster \/ PatchStatus
            \/ (\E type \in Types, target \in Targets : Trigger(type, target)) \/ Disable
        BY Steps, BeginEffect, ElectEffect, ElsewhereEffect DEF GetTimelineFails, RecordTimeline,
           AssumeCompleted, Proceed, RunCommand, CommandRefused, Abandon, Crash
      <3> QED BY <3>1, EditEffect
    <2>2. /\ cluster'.request = cluster.request /\ pc = "patch"
          /\ intent.switchover # read.status.switchover
          /\ intent.switchover = cluster.request.trigger
      BY <2>1, PatchEffect
    <2>3. read.request.trigger = cluster.request.trigger /\ Served(read.request)
      BY <2>0, <2>2 DEF TruthParts, AnswerServed
    <2>4. read.request.target = cluster.request.target
      BY <2>3 DEF InOrder, Leq
    <2> QED BY <2>2, <2>3, <2>4 DEF Served
  <1> QED BY <1>1, TruthAlways, OrderAlways, TypeCorrect, PTL DEF Spec, StatusTruthful
=============================================================================
