---------------------------- MODULE BackupsProofs ----------------------------
(***************************************************************************)
(* Proofs about Backups for any repositories, edits, requests and faults.  *)
(***************************************************************************)
EXTENDS Backups, TLAPS

\* As much of the types as the proofs need: which fields there are, and the ids.
SpecKeys   == {"repos", "first", "manual", "id", "shutdown"}
StatusKeys == {"repos", "hostReady", "repoReady", "replicaCreate", "id", "finished", "successful"}
WorkKeys   == {"at", "spec", "status", "writable", "replicaJob", "manualJob"}
JobKeys    == {"state", "id", "repo"}
Ids        == 0..MaxRequests

JobShape(j) == DOMAIN j = JobKeys /\ j.state \in States /\ j.id \in Ids

Shape ==
    /\ DOMAIN spec = SpecKeys /\ spec.id \in Ids
    /\ DOMAIN status = StatusKeys /\ status.id \in Ids
    /\ JobShape(manualJob)
    /\ taken \in [Ids -> Nat]
    /\ DOMAIN w = WorkKeys /\ w.at \in Steps /\ JobShape(w.manualJob)
    /\ w.spec.id \in Ids
    /\ DOMAIN w.status = StatusKeys /\ w.status.id \in Ids

-----------------------------------------------------------------------------
(* The inductive invariant of manual backups.                              *)

\* The steps of a reconcile up to the one that looks after manual backups.
Working == {"repos", "stanza", "schedules", "replica", "manual"}

\* Ids only grow: nobody is ahead of the user.
IdsOrdered ==
    /\ manualJob.id <= spec.id /\ status.id <= spec.id
    /\ w.at # "idle" => w.spec.id <= spec.id
    /\ w.at \in Working => w.manualJob.id <= w.spec.id /\ w.status.id <= w.spec.id

\* Nothing has been backed up for a request, as far as one can know.
NotYet(n) == taken[n] = 0 \/ n \in overlooked

\* What a Job shows of itself is what happened.
Tells(j) ==
    /\ IF j.state = "absent" THEN j = NoManual ELSE j.id \in 1..MaxRequests
    /\ j.state = "complete" => taken[j.id] > 0
    /\ j.state = "failed" => NotYet(j.id)
JobsTell == Tells(manualJob) /\ (w.at \in Working => Tells(w.manualJob))

\* The Job that the reconcile has seen is there yet, has ended or has expired.
SeenJob == w.at \in Working =>
    \/ manualJob = w.manualJob \/ manualJob = NoManual
    \/ /\ w.manualJob.state = "active" /\ manualJob.id = w.manualJob.id
       /\ manualJob.state \in {"complete", "failed"}

\* What the status says of manual backups is copied and left alone until then.
SameManual(a, b) == a.id = b.id /\ a.finished = b.finished /\ a.successful = b.successful
Copied == w.at \in Working => SameManual(w.status, status)
PatchAhead == w.at = "patch" =>
    /\ w.status.id <= w.spec.id /\ w.status.id >= status.id
    /\ w.status.id = status.id /\ status.finished => w.status.finished

\* No Job runs for a request that has ended.
Ended(st, n) == st.finished /\ st.id = n
ActiveNew == manualJob.state = "active" =>
    /\ NotYet(manualJob.id)
    /\ ~ Ended(status, manualJob.id)
    /\ w.at # "idle" => ~ Ended(w.status, manualJob.id)

\* A backup that has been taken is remembered by its Job or by the status, or nobody
\* will ask for it again.
Past(n) == n < spec.id /\ (w.at \in Working => n < w.spec.id)
Remembered(n) ==
    \/ manualJob.id = n /\ manualJob.state = "complete"
    \/ Ended(status, n) /\ (w.at = "patch" => Ended(w.status, n) \/ n < w.status.id)
    \/ Past(n)
Once == \A n \in 1..MaxRequests : n \notin overlooked =>
    taken[n] <= 1 /\ (taken[n] = 1 => Remembered(n))

\* The outcome in a status is that of the backup.
Outcome(st) ==
    /\ st.successful = "True" => taken[st.id] > 0
    /\ st.finished /\ taken[st.id] > 0 => st.successful = "True" \/ st.id \in overlooked
Outcomes == Outcome(status) /\ (w.at # "idle" => Outcome(w.status))

ManualIInv ==
    IdsOrdered /\ JobsTell /\ SeenJob /\ Copied /\ PatchAhead /\ ActiveNew /\ Once /\ Outcomes

-----------------------------------------------------------------------------
LEMMA Bounds == MaxRequests \in Nat /\ 0 \in Ids /\ JobShape(NoManual) /\ 0 \notin Repos
  <1>1. MaxRequests \in Nat /\ 0 \notin Repos
    BY BackupsAssumption
  <1> QED BY <1>1 DEF Ids, NoManual, JobShape, JobKeys, States

LEMMA NoStatusFacts ==
    /\ DOMAIN NoStatus = StatusKeys /\ NoStatus.id = 0 /\ NoStatus.finished = FALSE
    /\ NoStatus.successful = "absent"
  BY DEF NoStatus, StatusKeys

LEMMA IdleFacts ==
    /\ DOMAIN Idle = WorkKeys /\ Idle.at = "idle" /\ Idle.manualJob = NoManual
    /\ Idle.spec.id = 0 /\ Idle.status = NoStatus
  BY DEF Idle, WorkKeys, NoSpec

\* Continue replaces the status and the place of a reconcile only.
LEMMA ContinueEffect ==
    ASSUME Shape, NEW step \in Steps, NEW st, Continue(step, st)
    PROVE  /\ DOMAIN w' = WorkKeys /\ w'.at = step /\ w'.status = st
           /\ w'.spec = w.spec /\ w'.manualJob = w.manualJob
  BY DEF Continue, Shape, WorkKeys

\* The operators that complete a status leave alone what it says of manual backups.
LEMMA SameStatus ==
    ASSUME NEW st, DOMAIN st = StatusKeys
    PROVE  /\ \A x : LET t == [st EXCEPT !.repos = x] IN DOMAIN t = StatusKeys /\ SameManual(t, st)
           /\ \A x, y : LET t == [st EXCEPT !.hostReady = x, !.repos = y]
                        IN  DOMAIN t = StatusKeys /\ SameManual(t, st)
           /\ DOMAIN WithRepoReady(st) = StatusKeys /\ SameManual(WithRepoReady(st), st)
           /\ DOMAIN WithReplicaCreate(st) = StatusKeys /\ SameManual(WithReplicaCreate(st), st)
  <1>1. \A x : LET t == [st EXCEPT !.repos = x] IN DOMAIN t = StatusKeys /\ SameManual(t, st)
    BY DEF StatusKeys, SameManual
  <1>2. \A x, y : LET t == [st EXCEPT !.hostReady = x, !.repos = y]
                  IN  DOMAIN t = StatusKeys /\ SameManual(t, st)
    BY DEF StatusKeys, SameManual
  <1>3. \A x : LET t == [st EXCEPT !.repoReady = x] IN DOMAIN t = StatusKeys /\ SameManual(t, st)
    BY DEF StatusKeys, SameManual
  <1>4. \A x : LET t == [st EXCEPT !.replicaCreate = x] IN DOMAIN t = StatusKeys /\ SameManual(t, st)
    BY DEF StatusKeys, SameManual
  <1> QED BY <1>1, <1>2, <1>3, <1>4 DEF WithRepoReady, WithReplicaCreate

-----------------------------------------------------------------------------
(* The actions, grouped by what they do to manual backups.                 *)

\* Nothing.
Elsewhere == UNCHANGED <<status, manualJob, taken, overlooked, w>> /\ spec'.id = spec.id
                /\ DOMAIN spec' = DOMAIN spec

LEMMA ElsewhereActions ==
    ASSUME Shape,
           \/ EditRepos \/ EditShutdown \/ Elect \/ LoseLeader \/ HostStarts \/ Propagate
           \/ RunReplicaJob \/ (\E r \in Repos : Bind(r)) \/ (\E r \in Repos : ReplaceVolume(r))
           \/ UNCHANGED vars
    PROVE  Elsewhere
  <1>1. UNCHANGED <<status, manualJob, taken, overlooked, w>>
    BY DEF EditRepos, EditShutdown, Elect, LoseLeader, HostStarts, Propagate, RunReplicaJob, Bind,
           ReplaceVolume, vars, realVars, historyVars
  <1>2. \/ UNCHANGED spec \/ (\E x, y : spec' = [spec EXCEPT !.repos = x, !.first = y])
        \/ (\E x : spec' = [spec EXCEPT !.shutdown = x])
    BY DEF EditRepos, EditShutdown, Elect, LoseLeader, HostStarts, Propagate, RunReplicaJob, Bind,
           ReplaceVolume, vars
  <1>3. spec'.id = spec.id /\ DOMAIN spec' = DOMAIN spec
    BY <1>2 DEF Shape, SpecKeys
  <1> QED BY <1>1, <1>3 DEF Elsewhere

\* A step of a reconcile that is about something else.
MovesOn ==
    /\ UNCHANGED <<spec, status, manualJob, taken, overlooked>>
    /\ w.at \in Working /\ w'.at \in Working \cup {"patch"} /\ DOMAIN w' = WorkKeys
    /\ w'.spec = w.spec /\ w'.manualJob = w.manualJob
    /\ DOMAIN w'.status = StatusKeys /\ SameManual(w'.status, w.status)

LEMMA MovesOnActions ==
    ASSUME Shape,
           \/ ReposReconciled \/ ClaimsRefused \/ ConfigFails \/ ReposFail \/ StanzaCreate \/ ScheduledBackups
           \/ ReplicaCreateBackup \/ (CallFails /\ w.at # "manual")
    PROVE  MovesOn
  <1>1. UNCHANGED <<spec, status, manualJob, taken, overlooked>>
    BY DEF ReposReconciled, ClaimsRefused, ConfigFails, ReposFail, ReconcileRepos, StanzaCreate, ScheduledBackups,
           ReplicaCreateBackup, CallFails, realVars, historyVars
  <1>2. w.at \in Working
    BY DEF ReposReconciled, ClaimsRefused, ConfigFails, ReposFail, ReconcileRepos, StanzaCreate, ScheduledBackups,
           ReplicaCreateBackup, CallFails, Working
  <1>3. DOMAIN w.status = StatusKeys
    BY DEF Shape
  <1>4. Working \subseteq Steps /\ "patch" \in Steps
    BY DEF Working, Steps
  <1>5. \E step \in Working \cup {"patch"} : \E st :
           Continue(step, st) /\ DOMAIN st = StatusKeys /\ SameManual(st, w.status)
    <2>1. CASE ReposReconciled \/ ClaimsRefused \/ ConfigFails \/ ReposFail
      <3>1. \E step \in {"stanza", "patch"} : \E ready, repos :
                Continue(step, [w.status EXCEPT !.hostReady = ready, !.repos = repos])
        BY <2>1 DEF ReposReconciled, ClaimsRefused, ConfigFails, ReposFail, ReconcileRepos
      <3> QED BY <1>3, <3>1, SameStatus DEF Working
    <2>2. CASE StanzaCreate
      <3> DEFINE R == [r \in Repos |-> [w.status.repos[r] EXCEPT !.stanza = w.status.repos[r].known]]
      <3>1. \/ Continue("schedules", WithRepoReady(w.status))
            \/ Continue("schedules", WithRepoReady([w.status EXCEPT !.repos = R]))
        BY <2>2, Zenon DEF StanzaCreate
      <3> HIDE DEF R
      <3> DEFINE S == [w.status EXCEPT !.repos = R]
      <3>2. DOMAIN S = StatusKeys /\ SameManual(S, w.status)
        BY <1>3, SameStatus
      <3> HIDE DEF S
      <3>3. DOMAIN WithRepoReady(S) = StatusKeys /\ SameManual(WithRepoReady(S), S)
        BY <3>2, SameStatus
      <3>4. DOMAIN WithRepoReady(S) = StatusKeys /\ SameManual(WithRepoReady(S), w.status)
        BY <3>2, <3>3 DEF SameManual
      <3> QED BY <1>3, <3>1, <3>4, SameStatus DEF Working, S
    <2>3. CASE ScheduledBackups
      BY <1>3, <2>3 DEF ScheduledBackups, Working, SameManual
    <2>4. CASE ReplicaCreateBackup
      <3> DEFINE R == [w.status.repos EXCEPT ![w.spec.first] =
                         [w.status.repos[w.spec.first] EXCEPT !.complete = TRUE]]
      <3>1. \/ Continue("manual", WithReplicaCreate(w.status))
            \/ Continue("manual", WithReplicaCreate([w.status EXCEPT !.repos = R]))
        BY <2>4, Zenon DEF ReplicaCreateBackup
      <3> HIDE DEF R
      <3> DEFINE S == [w.status EXCEPT !.repos = R]
      <3>2. DOMAIN S = StatusKeys /\ SameManual(S, w.status)
        BY <1>3, SameStatus
      <3> HIDE DEF S
      <3>3. DOMAIN WithReplicaCreate(S) = StatusKeys /\ SameManual(WithReplicaCreate(S), S)
        BY <3>2, SameStatus
      <3>4. DOMAIN WithReplicaCreate(S) = StatusKeys /\ SameManual(WithReplicaCreate(S), w.status)
        BY <3>2, <3>3 DEF SameManual
      <3> QED BY <1>3, <3>1, <3>4, SameStatus DEF Working, S
    <2>5. CASE CallFails /\ w.at # "manual"
      <3>1. \/ Continue("patch", w.status) \/ Continue("schedules", WithRepoReady(w.status))
            \/ Continue("replica", w.status) \/ Continue("manual", WithReplicaCreate(w.status))
        BY <2>5 DEF CallFails
      <3>2. SameManual(w.status, w.status)
        BY DEF SameManual
      <3> QED BY <1>3, <3>1, <3>2, SameStatus DEF Working
    <2> QED BY <2>1, <2>2, <2>3, <2>4, <2>5
  <1>8. PICK step \in Working \cup {"patch"} : \E st :
           Continue(step, st) /\ DOMAIN st = StatusKeys /\ SameManual(st, w.status)
    BY <1>5
  <1>6. PICK st : Continue(step, st) /\ DOMAIN st = StatusKeys /\ SameManual(st, w.status)
    BY <1>8
  <1>7. DOMAIN w' = WorkKeys /\ w'.at = step /\ w'.status = st /\ w'.spec = w.spec
        /\ w'.manualJob = w.manualJob
    BY <1>4, <1>6, ContinueEffect
  <1> QED BY <1>1, <1>2, <1>6, <1>7 DEF MovesOn

-----------------------------------------------------------------------------
LEMMA ManualInit == Init => Shape /\ ManualIInv
  <1> SUFFICES ASSUME Init PROVE Shape /\ ManualIInv
    OBVIOUS
  <1>1. /\ status = NoStatus /\ manualJob = NoManual /\ w = Idle /\ overlooked = {}
        /\ taken = [n \in 0..MaxRequests |-> 0]
        /\ DOMAIN spec = SpecKeys /\ spec.id = 0
    BY DEF Init, SpecKeys
  <1>2. Shape
    BY <1>1, Bounds, NoStatusFacts, IdleFacts DEF Shape, Ids, Steps
  <1>3. /\ manualJob.id = 0 /\ manualJob.state = "absent" /\ w.at = "idle"
        /\ status.id = 0 /\ ~ status.finished /\ status.successful = "absent" /\ taken[0] = 0
    <2>1. manualJob.id = 0 /\ manualJob.state = "absent"
      BY <1>1 DEF NoManual
    <2>2. taken[0] = 0
      BY <1>1, Bounds DEF Ids
    <2> QED BY <1>1, <2>1, <2>2, NoStatusFacts, IdleFacts
  <1>4. IdsOrdered /\ SeenJob /\ Copied /\ PatchAhead /\ ActiveNew
    <2>1. /\ spec.id = 0 /\ manualJob.id = 0 /\ status.id = 0
          /\ w.at \notin Working /\ w.at = "idle" 
      BY <1>1, <1>3 DEF Working
    <2>2. IdsOrdered
      BY <2>1 DEF IdsOrdered
    <2> QED BY <1>3, <2>1, <2>2 DEF SeenJob, Copied, PatchAhead, ActiveNew
  <1>5. JobsTell
    BY <1>1, <1>3 DEF JobsTell, Tells, Working
  <1>6. Once /\ Outcomes
    <2>1. \A n \in 1..MaxRequests : taken[n] = 0
      BY <1>1, Bounds
    <2>2. Once
      BY <2>1 DEF Once
    <2> QED BY <1>3, <2>2 DEF Outcomes, Outcome
  <1> QED BY <1>2, <1>4, <1>5, <1>6 DEF ManualIInv

LEMMA ElsewhereStep ==
    ASSUME Shape, ManualIInv, Elsewhere
    PROVE  Shape' /\ ManualIInv'
  BY DEF Elsewhere, Shape, ManualIInv, IdsOrdered, JobsTell, Tells, NotYet, SeenJob, Copied, PatchAhead,
         ActiveNew, Once, Remembered, Past, Ended, Outcomes, Outcome

LEMMA RequestStep ==
    ASSUME Shape, ManualIInv, RequestBackup
    PROVE  Shape' /\ ManualIInv'
  <1>1. UNCHANGED <<status, manualJob, taken, overlooked, w>> /\ spec.id < MaxRequests
    BY DEF RequestBackup, realVars, historyVars
  <1>2. DOMAIN spec' = SpecKeys /\ spec'.id = spec.id + 1
    BY DEF RequestBackup, Shape, SpecKeys
  <1>3. spec.id \in Ids /\ spec'.id \in Ids /\ manualJob.id \in Ids /\ status.id \in Ids /\ w.spec.id \in Ids
    <2>1. spec.id \in Ids /\ manualJob.id \in Ids /\ status.id \in Ids /\ w.spec.id \in Ids
      BY DEF Shape, Ids, JobShape, JobKeys
    <2>2. spec'.id \in Ids
      BY <1>1, <1>2, <2>1, Bounds DEF Ids
    <2> QED BY <2>1, <2>2
  <1>4. Shape'
    BY <1>1, <1>2, <1>3 DEF Shape
  <1>5. IdsOrdered'
    BY <1>1, <1>2, <1>3 DEF ManualIInv, IdsOrdered, Ids
  <1>6. Once'
    <2>1. \A n \in 1..MaxRequests : Past(n) => Past(n)'
      BY <1>1, <1>2, <1>3 DEF Past, Ids
    <2> QED BY <1>1, <2>1 DEF ManualIInv, Once, Remembered, Ended
  <1> QED BY <1>1, <1>4, <1>5, <1>6 DEF ManualIInv, JobsTell, Tells, NotYet, SeenJob, Copied, PatchAhead,
            ActiveNew, Ended, Outcomes, Outcome

LEMMA MovesOnStep ==
    ASSUME Shape, ManualIInv, MovesOn
    PROVE  Shape' /\ ManualIInv'
  <1>1. /\ UNCHANGED <<spec, status, manualJob, taken, overlooked>>
        /\ w.at \in Working /\ w'.at \in Working \cup {"patch"} /\ DOMAIN w' = WorkKeys
        /\ w'.spec = w.spec /\ w'.manualJob = w.manualJob
        /\ DOMAIN w'.status = StatusKeys /\ SameManual(w'.status, w.status)
    BY DEF MovesOn
  <1>2. w'.status.id = w.status.id /\ w.at # "idle" /\ w.at # "patch" /\ w'.at \in Steps /\ w'.at # "idle"
    BY <1>1 DEF SameManual, Working, Steps
  <1>3. Shape'
    BY <1>1, <1>2 DEF Shape
  <1>4. IdsOrdered' /\ PatchAhead'
    <2>1. /\ w.status.id = status.id /\ status.id \in Ids /\ w.status.id <= w.spec.id
          /\ w'.status.finished = status.finished
      BY <1>1 DEF ManualIInv, Copied, SameManual, IdsOrdered, Shape
    <2>2. IdsOrdered'
      BY <1>1, <1>2, <2>1 DEF ManualIInv, IdsOrdered
    <2>3. PatchAhead'
      BY <1>1, <1>2, <2>1 DEF PatchAhead, Ids
    <2> QED BY <2>2, <2>3
  <1>5. JobsTell' /\ SeenJob'
    BY <1>1 DEF ManualIInv, JobsTell, Tells, NotYet, SeenJob
  <1>6. Copied' /\ ActiveNew' /\ Outcomes'
    <2>1. SameManual(w'.status, status)
      BY <1>1 DEF ManualIInv, Copied, SameManual
    <2> QED BY <1>1, <1>2, <2>1 DEF ManualIInv, Copied, SameManual, ActiveNew, NotYet, Ended, Outcomes, Outcome
  <1>7. Once'
    <2>1. SameManual(w'.status, status)
      BY <1>1 DEF ManualIInv, Copied, SameManual
    <2>2. \A n \in 1..MaxRequests : Remembered(n) => Remembered(n)'
      BY <1>1, <1>2, <2>1 DEF Remembered, Ended, Past, SameManual
    <2> QED BY <1>1, <2>2 DEF ManualIInv, Once
  <1> QED BY <1>3, <1>4, <1>5, <1>6, <1>7 DEF ManualIInv

LEMMA RunStep ==
    ASSUME Shape, ManualIInv, RunManualJob
    PROVE  Shape' /\ ManualIInv'
  <1>1. UNCHANGED <<spec, status, w, overlooked>> /\ manualJob.state = "active"
    BY DEF RunManualJob, historyVars
  <1>2. \/ /\ taken' = [taken EXCEPT ![manualJob.id] = @ + 1]
           /\ manualJob' = [manualJob EXCEPT !.state = "complete"]
        \/ manualJob' = [manualJob EXCEPT !.state = "failed"] /\ UNCHANGED taken
    BY DEF RunManualJob
  <1>3. manualJob.id \in 1..MaxRequests /\ JobShape(manualJob) /\ NotYet(manualJob.id)
    BY <1>1 DEF ManualIInv, JobsTell, Tells, ActiveNew, Shape
  <1> DEFINE j == manualJob.id
  <1>4. taken \in [Ids -> Nat] /\ j \in Ids /\ 1..MaxRequests \subseteq Ids
    BY <1>3, Bounds DEF Shape, Ids
  <1>5. /\ JobShape(manualJob') /\ manualJob'.id = j /\ manualJob'.state \in {"complete", "failed"}
        /\ manualJob'.state = "complete" => taken'[j] = taken[j] + 1
        /\ manualJob'.state = "failed" => taken'[j] = taken[j]
        /\ taken' \in [Ids -> Nat]
        /\ \A n \in Ids : n # j => taken'[n] = taken[n]
    BY <1>2, <1>3, <1>4 DEF JobShape, JobKeys, States
  <1> HIDE DEF j
  <1>6. \A n \in Ids : taken'[n] >= taken[n]
    BY <1>4, <1>5
  <1>7. Shape'
    BY <1>1, <1>5 DEF Shape
  <1>8. IdsOrdered'
    BY <1>1, <1>5 DEF ManualIInv, IdsOrdered, j
  <1>9. JobsTell'
    <2>1. Tells(manualJob)'
      <3>1. manualJob'.state = "complete" => taken'[j] > 0
        BY <1>4, <1>5
      <3>2. manualJob'.state = "failed" => NotYet(j)'
        BY <1>1, <1>3, <1>5 DEF NotYet, j
      <3> QED BY <1>3, <1>5, <3>1, <3>2 DEF Tells, j
    <2>2. ASSUME w.at \in Working
          PROVE  Tells(w.manualJob)'
      <3>1. Tells(w.manualJob) /\ JobShape(w.manualJob)
        BY <2>2 DEF ManualIInv, JobsTell, Shape
      <3>2. w.manualJob.id \in Ids
        BY <3>1 DEF JobShape, JobKeys, Ids
      <3>3. w.manualJob.state = "complete" => taken'[w.manualJob.id] > 0
        BY <1>4, <1>5, <1>6, <3>1, <3>2 DEF Tells
      <3>4. w.manualJob.state # "failed"
        BY <1>1, <2>2 DEF ManualIInv, SeenJob, NoManual
      <3> QED BY <1>1, <3>1, <3>3, <3>4 DEF Tells
    <2> QED BY <1>1, <2>1, <2>2 DEF JobsTell
  <1>10. SeenJob'
    BY <1>1, <1>5 DEF ManualIInv, SeenJob, NoManual, j
  <1>11. Copied' /\ PatchAhead' /\ ActiveNew'
    BY <1>1, <1>5 DEF ManualIInv, Copied, PatchAhead, ActiveNew
  <1>12. Once'
    <2> SUFFICES ASSUME NEW n \in 1..MaxRequests, n \notin overlooked
                 PROVE  taken'[n] <= 1 /\ (taken'[n] = 1 => Remembered(n)')
      BY <1>1 DEF Once
    <2>1. CASE n = j
      <3>1. taken[j] = 0
        BY <1>3, <2>1 DEF NotYet, j
      <3> QED BY <1>5, <2>1, <3>1 DEF Remembered
    <2>2. CASE n # j
      <3>1. taken'[n] = taken[n]
        BY <1>4, <1>5, <2>2
      <3>2. taken[n] <= 1 /\ (taken[n] = 1 => Remembered(n))
        BY DEF ManualIInv, Once
      <3>3. Remembered(n) => Remembered(n)'
        BY <1>1, <2>2 DEF Remembered, Ended, Past, j
      <3> QED BY <3>1, <3>2, <3>3
    <2> QED BY <2>1, <2>2
  <1>13. Outcomes'
    <2>1. ASSUME NEW st, st.id \in Ids, Outcome(st), ~ Ended(st, j)
          PROVE  /\ st.successful = "True" => taken'[st.id] > 0
                 /\ st.finished /\ taken'[st.id] > 0 => st.successful = "True" \/ st.id \in overlooked
      <3>1. st.successful = "True" => taken'[st.id] > 0
        BY <1>4, <1>5, <1>6, <2>1 DEF Outcome
      <3>2. st.finished => taken'[st.id] = taken[st.id]
        BY <1>5, <2>1 DEF Ended
      <3> QED BY <2>1, <3>1, <3>2 DEF Outcome
    <2>2. ~ Ended(status, j) /\ (w.at # "idle" => ~ Ended(w.status, j))
      BY <1>1 DEF ManualIInv, ActiveNew, j
    <2>3. status.id \in Ids /\ w.status.id \in Ids /\ Outcome(status) /\ (w.at # "idle" => Outcome(w.status))
      BY DEF ManualIInv, Outcomes, Shape
    <2> QED BY <1>1, <2>1, <2>2, <2>3 DEF Outcomes, Outcome
  <1> QED BY <1>7, <1>8, <1>9, <1>10, <1>11, <1>12, <1>13 DEF ManualIInv

LEMMA ExpireStep ==
    ASSUME Shape, ManualIInv, ExpireManualJob
    PROVE  Shape' /\ ManualIInv'
  <1>1. /\ UNCHANGED <<spec, status, w, taken, overlooked>> /\ manualJob' = NoManual
        /\ status.id = manualJob.id /\ status.finished /\ manualJob.state \in {"complete", "failed"}
    BY DEF ExpireManualJob, realVars, historyVars
  <1>2. NoManual.id = 0 /\ NoManual.state = "absent"
    BY DEF NoManual
  <1>3. Shape'
    BY <1>1, Bounds DEF Shape
  <1>4. IdsOrdered'
    <2>1. 0 <= spec.id
      BY DEF Shape, Ids
    <2> QED BY <1>1, <1>2, <2>1 DEF ManualIInv, IdsOrdered
  <1>5. JobsTell' /\ SeenJob' /\ Copied' /\ PatchAhead' /\ ActiveNew'
    BY <1>1, <1>2 DEF ManualIInv, JobsTell, Tells, NotYet, SeenJob, Copied, PatchAhead, ActiveNew
  <1>6. Outcomes'
    BY <1>1 DEF ManualIInv, Outcomes, Outcome
  <1>7. Once'
    <2> SUFFICES ASSUME NEW n \in 1..MaxRequests, n \notin overlooked, taken[n] = 1
                 PROVE  Remembered(n)'
      BY <1>1 DEF ManualIInv, Once
    <2>1. Remembered(n)
      BY DEF ManualIInv, Once
    <2>2. CASE manualJob.id = n
      <3>1. Ended(status, n)
        BY <1>1, <2>2 DEF Ended
      <3>2. ASSUME w.at = "patch"
            PROVE  Ended(w.status, n) \/ n < w.status.id
        <4>1. w.status.id >= status.id /\ w.status.id \in Ids /\ status.id \in Ids
          BY <3>2 DEF ManualIInv, PatchAhead, Shape
        <4>2. CASE w.status.id > status.id
          BY <1>1, <2>2, <4>2
        <4>3. CASE w.status.id = status.id
          BY <1>1, <2>2, <3>2, <4>3 DEF ManualIInv, PatchAhead, Ended
        <4> QED BY <4>1, <4>2, <4>3 DEF Ids
      <3> QED BY <1>1, <3>1, <3>2 DEF Remembered, Ended
    <2>3. CASE manualJob.id # n
      BY <1>1, <2>1, <2>3 DEF Remembered, Ended, Past
    <2> QED BY <2>2, <2>3
  <1> QED BY <1>3, <1>4, <1>5, <1>6, <1>7 DEF ManualIInv

\* The process starts over from the status it has.
LEMMA CrashStep ==
    ASSUME Shape, ManualIInv, Crash
    PROVE  Shape' /\ ManualIInv'
  <1>1. UNCHANGED <<spec, status, manualJob, taken, overlooked>> /\ w' = Idle
    BY DEF Crash, realVars, historyVars
  <1>2. w'.at = "idle" /\ w'.at \notin Working
    BY <1>1, IdleFacts DEF Working
  <1>3. Shape'
    BY <1>1, <1>2, IdleFacts, NoStatusFacts, Bounds DEF Shape, Steps
  <1>4. \A n \in 1..MaxRequests : Remembered(n) => Remembered(n)'
    BY <1>1, <1>2 DEF Remembered, Ended, Past
  <1>5. Once'
    BY <1>1, <1>4 DEF ManualIInv, Once
  <1> QED BY <1>1, <1>2, <1>3, <1>5 DEF ManualIInv, IdsOrdered, JobsTell, Tells, NotYet, SeenJob, Copied,
            PatchAhead, ActiveNew, Ended, Outcomes, Outcome

LEMMA PatchStep ==
    ASSUME Shape, ManualIInv, PatchStatus
    PROVE  Shape' /\ ManualIInv'
  <1>1. /\ UNCHANGED <<spec, manualJob, taken, overlooked>> /\ w' = Idle /\ status' = w.status
        /\ w.at = "patch"
    BY DEF PatchStatus, realVars, historyVars
  <1>2. w'.at = "idle" /\ w'.at \notin Working /\ w.at \notin Working /\ w.at # "idle"
    BY <1>1, IdleFacts DEF Working
  <1>3. Shape'
    BY <1>1, <1>2, IdleFacts, NoStatusFacts, Bounds DEF Shape, Steps
  <1>4. w.status.id <= spec.id
    <2>1. w.status.id <= w.spec.id /\ w.spec.id <= spec.id
      BY <1>1, <1>2 DEF ManualIInv, PatchAhead, IdsOrdered
    <2>2. w.status.id \in Int /\ w.spec.id \in Int /\ spec.id \in Int
      BY Bounds DEF Shape, Ids
    <2> QED BY <2>1, <2>2
  <1>5. IdsOrdered' /\ SeenJob' /\ Copied' /\ PatchAhead'
    BY <1>1, <1>2, <1>4 DEF ManualIInv, IdsOrdered, SeenJob, Copied, PatchAhead
  <1>6. JobsTell' /\ ActiveNew' /\ Outcomes'
    BY <1>1, <1>2 DEF ManualIInv, JobsTell, Tells, NotYet, ActiveNew, Ended, Outcomes, Outcome
  <1>7. Once'
    <2>1. ASSUME NEW n \in 1..MaxRequests, Remembered(n)
          PROVE  Remembered(n)'
      <3>1. CASE manualJob.id = n /\ manualJob.state = "complete"
        BY <1>1, <3>1 DEF Remembered
      <3>2. CASE Ended(status, n) /\ Ended(w.status, n)
        BY <1>1, <1>2, <3>2 DEF Remembered, Ended
      <3>3. CASE n < w.status.id
        <4>1. n < spec.id
          BY <1>4, <3>3, Bounds DEF Shape, Ids
        <4> QED BY <1>1, <1>2, <4>1 DEF Remembered, Past
      <3>4. CASE Past(n)
        BY <1>1, <1>2, <3>4 DEF Remembered, Past
      <3> QED BY <1>1, <2>1, <3>1, <3>2, <3>3, <3>4 DEF Remembered
    <2> QED BY <1>1, <2>1 DEF ManualIInv, Once
  <1> QED BY <1>3, <1>5, <1>6, <1>7 DEF ManualIInv

\* A reconcile begins; the Job of a repository that is gone goes with it.
LEMMA GetStep ==
    ASSUME Shape, ManualIInv, GetResources
    PROVE  Shape' /\ ManualIInv'
  <1>1. /\ UNCHANGED <<spec, status, taken>> /\ w.at = "idle"
        /\ manualJob' = manualJob \/ manualJob' = NoManual
        /\ overlooked' = overlooked \cup {n \in {manualJob.id} : manualJob # manualJob' /\ Overlooked}
    BY DEF GetResources, Cleanup, KeptJob, realVars, historyVars
  <1>2. /\ DOMAIN w' = WorkKeys /\ w'.at = "repos" /\ w'.spec = spec /\ w'.status = status
        /\ w'.manualJob = manualJob'
    <2>1. w' = [at |-> "repos", spec |-> spec, status |-> status, writable |-> writable,
                replicaJob |-> RepoResources.replicaJob, manualJob |-> RepoResources.manualJob]
      BY DEF GetResources
    <2>2. RepoResources.manualJob = manualJob'
      BY DEF RepoResources
    <2> QED BY <2>1, <2>2 DEF WorkKeys
  <1>3. NoManual.id = 0 /\ NoManual.state = "absent"
    BY DEF NoManual
  <1>4. w'.at \in Working /\ w'.at \in Steps /\ w'.at # "patch" /\ w'.at # "idle"
    BY <1>2 DEF Working, Steps
  <1>5. JobShape(manualJob')
    BY <1>1, Bounds DEF Shape
  <1>6. Shape'
    BY <1>1, <1>2, <1>4, <1>5 DEF Shape
  <1>7. IdsOrdered'
    <2>1. manualJob'.id <= spec.id
      BY <1>1, <1>3 DEF ManualIInv, IdsOrdered, Shape, Ids
    <2>2. status.id <= spec.id /\ spec.id <= spec.id
      BY DEF ManualIInv, IdsOrdered, Shape, Ids
    <2> QED BY <1>1, <1>2, <2>1, <2>2 DEF IdsOrdered
  <1>8. JobsTell'
    <2>1. overlooked \subseteq overlooked'
      BY <1>1
    <2>2. Tells(manualJob)
      BY DEF ManualIInv, JobsTell
    <2>3. Tells(manualJob)'
      BY <1>1, <1>3, <2>1, <2>2 DEF Tells, NotYet
    <2> QED BY <1>2, <2>3 DEF JobsTell, Tells, NotYet
  <1>9. SeenJob' /\ Copied' /\ PatchAhead'
    BY <1>1, <1>2, <1>4 DEF SeenJob, Copied, SameManual, PatchAhead
  <1>10. ActiveNew'
    BY <1>1, <1>2, <1>3 DEF ManualIInv, ActiveNew, NotYet, Ended
  <1>11. Outcomes'
    BY <1>1, <1>2 DEF ManualIInv, Outcomes, Outcome
  <1>12. Once'
    <2> SUFFICES ASSUME NEW n \in 1..MaxRequests, n \notin overlooked', taken[n] = 1
                 PROVE  Remembered(n)'
      BY <1>1 DEF ManualIInv, Once
    <2>1. Remembered(n)
      BY <1>1 DEF ManualIInv, Once
    <2>2. CASE Past(n)
      BY <1>1, <1>2, <2>2 DEF Remembered, Past
    <2>3. CASE Ended(status, n)
      BY <1>1, <1>4, <2>3 DEF Remembered, Ended
    <2>4. CASE manualJob.id = n /\ manualJob.state = "complete" /\ ~ Ended(status, n)
      <3>1. Overlooked
        BY <2>4 DEF Overlooked, jobCompleted, Ended
      <3>2. manualJob' = manualJob
        BY <1>1, <2>4, <3>1
      <3> QED BY <2>4, <3>2 DEF Remembered
    <2> QED BY <2>1, <2>2, <2>3, <2>4 DEF Remembered
  <1> QED BY <1>6, <1>7, <1>8, <1>9, <1>10, <1>11, <1>12 DEF ManualIInv

\* A request with another id than the one before starts over.
LEMMA ResetFacts ==
    ASSUME NEW st, DOMAIN st = StatusKeys, Outcome(st), w.spec.id \in Ids, st.id \in Ids, st.id <= w.spec.id
    PROVE  LET t == ManualStatus(st) IN
           /\ DOMAIN t = StatusKeys /\ t.id = w.spec.id /\ Outcome(t) /\ t.id >= st.id
           /\ t.finished => t = st
           /\ t.id = st.id => t = st
  <1>1. w.spec.id \in Int /\ st.id \in Int
    BY Bounds DEF Ids
  <1>2. CASE st.id = w.spec.id
    BY <1>1, <1>2 DEF ManualStatus
  <1>3. CASE st.id # w.spec.id
    <2> DEFINE t == [st EXCEPT !.id = w.spec.id, !.finished = FALSE, !.successful = "absent"]
    <2>1. ManualStatus(st) = t
      BY <1>3 DEF ManualStatus
    <2>2. DOMAIN t = StatusKeys /\ t.id = w.spec.id /\ t.finished = FALSE /\ t.successful = "absent"
      BY DEF StatusKeys
    <2> HIDE DEF t
    <2>3. Outcome(t)
      BY <2>2 DEF Outcome
    <2> QED BY <1>1, <1>3, <2>1, <2>2, <2>3
  <1> QED BY <1>2, <1>3

\* The status of a request as this reconcile has it in the end.
LEMMA ResultFacts ==
    ASSUME Shape, ManualIInv, w.at = "manual"
    PROVE  /\ DOMAIN ManualResult = StatusKeys /\ ManualResult.id \in Ids
           /\ ManualResult.id <= w.spec.id /\ ManualResult.id >= status.id
           /\ Outcome(ManualResult)
           /\ ManualResult.id = status.id /\ status.finished => ManualResult.finished
           /\ \A n \in Ids : Ended(ManualResult, n) => Ended(status, n) \/ (jobFinished(w.manualJob) /\ w.manualJob.id = n)
           /\ ~ NoBackupNow => ManualResult.id = w.spec.id
  <1>1. /\ DOMAIN w.status = StatusKeys /\ SameManual(w.status, status) /\ w.status.id \in Ids
        /\ w.spec.id \in Ids /\ w.status.id <= w.spec.id /\ Outcome(w.status) /\ Tells(w.manualJob)
        /\ status.id = w.status.id /\ Ids \subseteq Int
    BY Bounds DEF Shape, ManualIInv, Copied, IdsOrdered, Outcomes, JobsTell, Working, SameManual, Ids
  <1> DEFINE obs == ManualJobObserved(w.status)
  <1> DEFINE ObsFacts ==
        /\ DOMAIN obs = StatusKeys /\ obs.id = w.status.id /\ Outcome(obs)
        /\ status.finished => obs.finished
        /\ obs.finished => status.finished \/ (jobFinished(w.manualJob) /\ w.manualJob.id = obs.id)
  <1> DEFINE seen == w.manualJob # NoManual /\ jobFinished(w.manualJob) /\ w.status.id = w.manualJob.id
  <1>2. ASSUME seen PROVE ObsFacts
    <2>1. obs = [w.status EXCEPT !.finished = TRUE,
                    !.successful = IF jobCompleted(w.manualJob) THEN "True" ELSE "False"]
      BY <1>2 DEF ManualJobObserved
    <2>2. /\ DOMAIN obs = StatusKeys /\ obs.id = w.status.id /\ obs.finished = TRUE
          /\ obs.successful = IF jobCompleted(w.manualJob) THEN "True" ELSE "False"
      BY <1>1, <2>1 DEF StatusKeys
    <2>3. Outcome(obs)
      BY <1>1, <1>2, <2>2 DEF Outcome, Tells, jobFinished, jobCompleted, jobFailed, NotYet
    <2> QED BY <1>1, <1>2, <2>2, <2>3
  <1>3. ASSUME ~ seen PROVE ObsFacts
    <2>1. obs = w.status
      BY <1>3 DEF ManualJobObserved
    <2> QED BY <1>1, <2>1 DEF SameManual
  <1>4. ObsFacts
    BY <1>2, <1>3
  <1>7. /\ status.id \in Int /\ status.id \in Ids /\ w.spec.id \in Int /\ w.spec.id \in Ids
        /\ w.status.id = status.id /\ status.id <= w.spec.id
    BY <1>1, Bounds DEF Ids
  <1> HIDE DEF obs, seen
  <1>5. CASE NoBackupNow
    <2>1. ManualResult = obs
      BY <1>5 DEF ManualResult, obs
    <2> HIDE DEF ManualResult
    <2>2. ManualResult.id \in Ids /\ ManualResult.id <= w.spec.id /\ ManualResult.id >= status.id
      BY <1>4, <1>7, <2>1
    <2>3. \A n \in Ids : Ended(ManualResult, n) =>
              Ended(status, n) \/ (jobFinished(w.manualJob) /\ w.manualJob.id = n)
      BY <1>4, <1>7, <2>1 DEF Ended
    <2> QED BY <1>4, <1>5, <2>1, <2>2, <2>3
  <1>6. CASE ~ NoBackupNow
    <2>1. ManualResult = ManualStatus(obs)
      BY <1>6 DEF ManualResult, obs
    <2>2. /\ DOMAIN ManualResult = StatusKeys /\ ManualResult.id = w.spec.id /\ Outcome(ManualResult)
          /\ ManualResult.id >= obs.id
          /\ ManualResult.finished => ManualResult = obs
          /\ ManualResult.id = obs.id => ManualResult = obs
      BY <1>1, <1>4, <2>1, ResetFacts
    <2> HIDE DEF ManualResult
    <2>3. ManualResult.id \in Ids /\ ManualResult.id <= w.spec.id /\ ManualResult.id >= status.id
      BY <1>4, <1>7, <2>2
    <2> QED BY <1>1, <1>4, <1>6, <2>2, <2>3 DEF Ended
  <1> QED BY <1>5, <1>6

LEMMA ManualStep ==
    ASSUME Shape, ManualIInv, ManualBackup \/ (CallFails /\ w.at = "manual")
    PROVE  Shape' /\ ManualIInv'
  <1>1. /\ UNCHANGED <<spec, status, taken, overlooked>> /\ w.at = "manual" /\ Continue("patch", ManualResult)
        /\ \/ manualJob' = manualJob
           \/ manualJob' = NoManual /\ ManualOutdated
           \/ /\ manualJob' = ManualJobIntent /\ ~ NoBackupNow /\ ManualReady(ManualResult)
              /\ w.manualJob = NoManual
    BY DEF ManualBackup, CallFails, realVars, historyVars
  <1>2. /\ DOMAIN w' = WorkKeys /\ w'.at = "patch" /\ w'.status = ManualResult
        /\ w'.spec = w.spec /\ w'.manualJob = w.manualJob
    <2>1. "patch" \in Steps
      BY DEF Steps
    <2> QED BY <1>1, <2>1, ContinueEffect
  <1>3. /\ DOMAIN ManualResult = StatusKeys /\ ManualResult.id \in Ids
        /\ ManualResult.id <= w.spec.id /\ ManualResult.id >= status.id
        /\ Outcome(ManualResult)
        /\ ManualResult.id = status.id /\ status.finished => ManualResult.finished
        /\ \A n \in Ids : Ended(ManualResult, n) => Ended(status, n) \/ (jobFinished(w.manualJob) /\ w.manualJob.id = n)
        /\ ~ NoBackupNow => ManualResult.id = w.spec.id
    BY <1>1, ResultFacts
  <1> HIDE DEF ManualResult
  <1>4. /\ w.at \in Working /\ w'.at \notin Working /\ w'.at \in Steps /\ w'.at # "idle" /\ w.at # "idle"
        /\ w.at # "patch"
    BY <1>1, <1>2 DEF Working, Steps
  <1>5. /\ w.spec.id \in Ids /\ spec.id \in Ids /\ status.id \in Ids /\ manualJob.id \in Ids /\ w.manualJob.id \in Ids
        /\ w.spec.id \in Int /\ spec.id \in Int /\ status.id \in Int /\ w.manualJob.id \in Int
        /\ ManualResult.id \in Int
        /\ w.spec.id <= spec.id /\ w.manualJob.id <= w.spec.id /\ 0 <= spec.id
    <2>1. /\ w.spec.id \in Ids /\ spec.id \in Ids /\ status.id \in Ids /\ manualJob.id \in Ids
          /\ w.manualJob.id \in Ids
      BY DEF Shape, JobShape
    <2>2. \A n \in Ids : n \in Int /\ 0 <= n
      BY Bounds DEF Ids
    <2>3. w.spec.id <= spec.id /\ w.manualJob.id <= w.spec.id
      BY <1>4 DEF ManualIInv, IdsOrdered
    <2> QED BY <1>3, <2>1, <2>2, <2>3
  <1>6. /\ \/ manualJob = w.manualJob \/ manualJob = NoManual
           \/ /\ w.manualJob.state = "active" /\ manualJob.id = w.manualJob.id
              /\ manualJob.state \in {"complete", "failed"}
        /\ NoManual.id = 0 /\ NoManual.state = "absent"
    BY <1>4 DEF ManualIInv, SeenJob, NoManual
  <1>7. /\ ManualJobIntent.state = "active" /\ ManualJobIntent.id = w.spec.id /\ JobShape(ManualJobIntent)
    BY <1>5 DEF ManualJobIntent, JobShape, JobKeys, States
  <1>8. Shape'
    <2>1. JobShape(manualJob')
      BY <1>1, <1>7, Bounds DEF Shape
    <2> QED BY <1>1, <1>2, <1>3, <1>4, <2>1 DEF Shape
  <1>9. IdsOrdered'
    <2>1. manualJob'.id <= spec.id
      BY <1>1, <1>5, <1>6, <1>7 DEF ManualIInv, IdsOrdered
    <2> QED BY <1>1, <1>2, <1>4, <1>5, <2>1 DEF ManualIInv, IdsOrdered
  <1>10. JobsTell'
    <2>1. ~ NoBackupNow => w.spec.id \in 1..MaxRequests
      BY <1>5, Bounds DEF NoBackupNow, Ids
    <2>2. Tells(manualJob)'
      BY <1>1, <1>6, <1>7, <2>1 DEF ManualIInv, JobsTell, Tells, NotYet
    <2> QED BY <1>4, <2>2 DEF JobsTell
  <1>11. SeenJob' /\ Copied' /\ PatchAhead'
    BY <1>1, <1>2, <1>3, <1>4 DEF SeenJob, Copied, PatchAhead
  <1>12. ActiveNew'
    <2>1. CASE manualJob' = manualJob
      <3>1. ASSUME manualJob.state = "active", Ended(ManualResult, manualJob.id)
            PROVE  FALSE
        <4>1. ~ Ended(status, manualJob.id)
          BY <3>1 DEF ManualIInv, ActiveNew
        <4>2. jobFinished(w.manualJob) /\ w.manualJob.id = manualJob.id
          BY <1>3, <1>5, <3>1, <4>1
        <4> QED BY <1>6, <3>1, <4>2 DEF jobFinished, jobCompleted, jobFailed
      <3> QED BY <1>1, <1>2, <2>1, <3>1 DEF ManualIInv, ActiveNew, NotYet, Ended
    <2>2. CASE manualJob' = NoManual
      BY <1>6, <2>2 DEF ActiveNew
    <2>3. CASE /\ manualJob' = ManualJobIntent /\ ~ NoBackupNow /\ ManualReady(ManualResult)
               /\ w.manualJob = NoManual
      <3> DEFINE n == w.spec.id
      <3>1. ~ ManualResult.finished /\ ManualResult.id = n
        BY <1>3, <2>3 DEF ManualReady
      <3>2. ~ Ended(status, n) /\ ~ Ended(ManualResult, n)
        BY <1>3, <3>1 DEF Ended
      <3>3. manualJob = NoManual
        BY <1>6, <2>3
      <3>4. n \in 1..MaxRequests
        BY <1>5, <2>3, Bounds DEF NoBackupNow, Ids
      <3>5. ~ Remembered(n)
        <4>1. ~ (n < w.spec.id)
          BY <1>5
        <4> QED BY <1>4, <1>6, <3>2, <3>3, <4>1 DEF Remembered, Past
      <3>6. NotYet(n)
        <4>1. n \notin overlooked => taken[n] <= 1 /\ taken[n] # 1 /\ taken[n] \in Nat
          BY <1>5, <3>4, <3>5 DEF ManualIInv, Once, Shape
        <4> QED BY <4>1 DEF NotYet
      <3> QED BY <1>1, <1>2, <1>7, <2>3, <3>2, <3>6 DEF ActiveNew, NotYet, Ended
    <2> QED BY <1>1, <2>1, <2>2, <2>3
  <1>13. Once'
    <2> SUFFICES ASSUME NEW n \in 1..MaxRequests, n \notin overlooked, taken[n] = 1
                 PROVE  Remembered(n)'
      BY <1>1 DEF ManualIInv, Once
    <2>1. Remembered(n) /\ n \in Int
      BY DEF ManualIInv, Once
    <2>2. CASE Past(n)
      BY <1>1, <1>4, <2>2 DEF Past, Remembered
    <2>3. CASE Ended(status, n)
      <3>1. Ended(ManualResult, n) \/ n < ManualResult.id
        BY <1>3, <1>5, <2>3 DEF Ended
      <3> QED BY <1>1, <1>2, <2>3, <3>1 DEF Remembered, Ended
    <2>4. CASE manualJob.id = n /\ manualJob.state = "complete"
      <3>1. CASE manualJob' = manualJob
        BY <2>4, <3>1 DEF Remembered
      <3>2. CASE ManualOutdated
        <4>1. jobFinished(w.manualJob) /\ w.spec.id # w.manualJob.id
          BY <3>2 DEF ManualOutdated
        <4>2. manualJob = w.manualJob
          BY <1>6, <2>4, <4>1 DEF jobFinished, jobCompleted, jobFailed
        <4>3. n < spec.id
          BY <1>5, <2>1, <2>4, <4>1, <4>2
        <4> QED BY <1>1, <1>4, <4>3 DEF Remembered, Past
      <3>3. CASE w.manualJob = NoManual
        BY <1>6, <2>4, <3>3
      <3> QED BY <1>1, <3>1, <3>2, <3>3
    <2> QED BY <2>1, <2>2, <2>3, <2>4 DEF Remembered
  <1>14. Outcomes'
    BY <1>1, <1>2, <1>3 DEF ManualIInv, Outcomes, Outcome
  <1> QED BY <1>8, <1>9, <1>10, <1>11, <1>12, <1>13, <1>14 DEF ManualIInv

LEMMA ManualInvStep == Shape /\ ManualIInv /\ [Next]_vars => (Shape /\ ManualIInv)'
  <1> SUFFICES ASSUME Shape, ManualIInv, [Next]_vars PROVE Shape' /\ ManualIInv'
    OBVIOUS
  <1>1. \/ EditRepos \/ EditShutdown \/ Elect \/ LoseLeader \/ HostStarts \/ Propagate
        \/ RunReplicaJob \/ (\E r \in Repos : Bind(r)) \/ (\E r \in Repos : ReplaceVolume(r))
        \/ UNCHANGED vars
        \/ ReposReconciled \/ ClaimsRefused \/ ConfigFails \/ ReposFail \/ StanzaCreate \/ ScheduledBackups
        \/ ReplicaCreateBackup \/ (CallFails /\ w.at # "manual")
        \/ ManualBackup \/ (CallFails /\ w.at = "manual")
        \/ GetResources \/ PatchStatus \/ Crash \/ RequestBackup \/ RunManualJob \/ ExpireManualJob
    BY DEF Next, Operator, User, Environment
  <1> QED BY <1>1, ElsewhereActions, ElsewhereStep, MovesOnActions, MovesOnStep, ManualStep, GetStep,
        PatchStep, CrashStep, RequestStep, RunStep, ExpireStep

\* One request leads to at most one backup and the status tells how it ended, however
\* often the operator crashes or fails in between and whatever ids follow.
THEOREM ManualBackupIsTruthful == Spec => []ManualTruthful
  <1>1. Shape /\ ManualIInv => ManualTruthful
    <2> SUFFICES ASSUME Shape, ManualIInv PROVE ManualTruthful
      OBVIOUS
    <2>1. \A n \in 1..MaxRequests : taken[n] <= 1 \/ n \in overlooked
      BY DEF ManualIInv, Once
    <2> QED BY <2>1 DEF ManualIInv, Outcomes, Outcome, ManualTruthful
  <1> QED BY <1>1, ManualInit, ManualInvStep, PTL DEF Spec

-----------------------------------------------------------------------------
(* Manual backups wait for the backup for replicas.                        *)

RepoKeys    == {"known", "volume", "hash", "stanza", "complete"}
ReplicaKeys == {"state", "repo", "container", "hash"}
ReposShape(repos) == DOMAIN repos = Repos /\ \A r \in Repos : DOMAIN repos[r] = RepoKeys

ReplicaShape ==
    /\ spec.first \in Repos /\ w.spec.first \in Repos
    /\ ReposShape(status.repos) /\ ReposShape(w.status.repos)
    /\ DOMAIN replicaJob = ReplicaKeys

\* The repositories whose backup for replicas is done, as a status has it.
Done(repos) == {r \in Repos : repos[r].complete}
Running == replicaJob.state = "active"

\* The Job of a repository with a complete backup does not run: not for the working
\* copy, and not for the persisted status unless this reconcile has made the Job.
WorkKnows   == w.at # "idle" /\ Running => replicaJob.repo \notin Done(w.status.repos)
StatusKnows == (w.at = "idle" \/ replicaJob = w.replicaJob) /\ Running =>
                   replicaJob.repo \notin Done(status.repos)

\* The Job that the reconcile has seen may have ended since.
Early == {"repos", "stanza", "schedules", "replica"}
SeenReplica == w.at \in Early /\ Running => w.replicaJob = replicaJob

\* The condition that manual backups wait for is that of the working copy.
ConditionHolds ==
    w.at = "manual" /\ w.status.replicaCreate = "True" => w.status.repos[w.spec.first].complete

WaitInv == ReplicaShape /\ WorkKnows /\ StatusKnows /\ SeenReplica /\ ConditionHolds

\* No reconcile is lost after it has made a Job for replicas and while that Job runs.
NotForgotten == Crash => ~ Running \/ replicaJob = w.replicaJob

LEMMA WaitIdle ==
    /\ Idle.at = "idle" /\ Idle.spec.first \in Repos /\ ReposShape(Idle.status.repos)
    /\ DOMAIN NoReplica = ReplicaKeys /\ NoReplica.state = "absent" /\ NoReplica.repo = 0
    /\ Done(NoStatus.repos) = {} /\ ReposShape(NoStatus.repos)
  <1>1. Repos # {}
    BY BackupsAssumption
  <1>2. (CHOOSE r \in Repos : TRUE) \in Repos
    BY <1>1
  <1>3. Idle.spec.first = CHOOSE r \in Repos : TRUE
    BY DEF Idle, NoSpec
  <1>4. NoStatus.repos = [r \in Repos |-> NoRepo]
    BY DEF NoStatus
  <1>5. DOMAIN NoRepo = RepoKeys /\ NoRepo.complete = FALSE
    BY DEF NoRepo, RepoKeys
  <1>6. Done(NoStatus.repos) = {} /\ ReposShape(NoStatus.repos)
    BY <1>4, <1>5 DEF Done, ReposShape
  <1>7. DOMAIN NoReplica = ReplicaKeys /\ NoReplica.state = "absent" /\ NoReplica.repo = 0
    BY DEF NoReplica, ReplicaKeys
  <1> QED BY <1>2, <1>3, <1>6, <1>7, IdleFacts

LEMMA WaitInit == Init => WaitInv
  <1> SUFFICES ASSUME Init PROVE WaitInv
    OBVIOUS
  <1>1. status = NoStatus /\ replicaJob = NoReplica /\ w = Idle
    BY DEF Init
  <1>2. spec.first \in Repos
    <2>1. PICK ch \in InitialRepos : spec = [repos |-> ch.repos, first |-> ch.first, manual |-> 0,
                                             id |-> 0, shutdown |-> FALSE]
      BY DEF Init
    <2>2. ch \in RepoList
      BY BackupsAssumption
    <2> QED BY <2>1, <2>2 DEF RepoList
  <1>3. ~ Running /\ w.at = "idle" /\ w.at \notin Early
    BY <1>1, WaitIdle DEF Running, Early
  <1>4. ReplicaShape
    BY <1>1, <1>2, WaitIdle DEF ReplicaShape
  <1> QED BY <1>3, <1>4 DEF WaitInv, WorkKnows, StatusKnows, SeenReplica, ConditionHolds

\* Steps that leave alone the Jobs for replicas, the reconcile and the status.
LEMMA WaitElsewhere ==
    ASSUME Shape, WaitInv,
           \/ EditRepos \/ EditShutdown \/ Elect \/ LoseLeader \/ HostStarts \/ Propagate
           \/ RunManualJob \/ ExpireManualJob \/ RequestBackup
           \/ (\E r \in Repos : Bind(r)) \/ (\E r \in Repos : ReplaceVolume(r))
           \/ UNCHANGED vars
    PROVE  WaitInv'
  <1>1. UNCHANGED <<status, replicaJob, w>>
    BY DEF EditRepos, EditShutdown, Elect, LoseLeader, HostStarts, Propagate, RunManualJob, Bind,
           ExpireManualJob, RequestBackup, ReplaceVolume, vars, realVars, historyVars
  <1>2. spec'.first \in Repos
    <2>1. CASE EditRepos
      <3>1. PICK ch \in RepoChoices : spec' = [spec EXCEPT !.repos = ch.repos, !.first = ch.first]
        BY <2>1 DEF EditRepos
      <3>2. ch.first \in Repos
        BY BackupsAssumption DEF RepoList
      <3> QED BY <3>1, <3>2 DEF Shape, SpecKeys
    <2>2. CASE EditShutdown \/ RequestBackup
      <3>1. \/ \E x : spec' = [spec EXCEPT !.shutdown = x]
            \/ \E x, y : spec' = [spec EXCEPT !.id = x, !.manual = y]
        BY <2>2 DEF EditShutdown, RequestBackup
      <3> QED BY <3>1 DEF Shape, SpecKeys, WaitInv, ReplicaShape
    <2>3. CASE UNCHANGED spec
      BY <2>3 DEF WaitInv, ReplicaShape
    <2>4. EditRepos \/ EditShutdown \/ RequestBackup \/ UNCHANGED spec
      BY DEF Elect, LoseLeader, HostStarts, Propagate, RunManualJob, Bind, ExpireManualJob,
             ReplaceVolume, vars
    <2> QED BY <2>1, <2>2, <2>3, <2>4
  <1> QED BY <1>1, <1>2 DEF WaitInv, ReplicaShape, WorkKnows, StatusKnows, SeenReplica, ConditionHolds,
            Running

\* A Job that is not running breaks nothing.
LEMMA WaitEnded ==
    ASSUME ReplicaShape', ~ Running', ConditionHolds'
    PROVE  WaitInv'
  BY DEF WaitInv, WorkKnows, StatusKnows, SeenReplica

LEMMA WaitRun ==
    ASSUME Shape, WaitInv, RunReplicaJob
    PROVE  WaitInv'
  <1>1. /\ UNCHANGED <<spec, status, w>>
        /\ \/ replicaJob' = [replicaJob EXCEPT !.state = "complete"]
           \/ replicaJob' = [replicaJob EXCEPT !.state = "failed"]
    BY DEF RunReplicaJob
  <1>2. DOMAIN replicaJob' = ReplicaKeys /\ ~ Running'
    BY <1>1 DEF WaitInv, ReplicaShape, ReplicaKeys, Running
  <1>3. ReplicaShape' /\ ConditionHolds'
    BY <1>1, <1>2 DEF WaitInv, ReplicaShape, ConditionHolds
  <1> QED BY <1>2, <1>3, WaitEnded

LEMMA WaitGet ==
    ASSUME Shape, WaitInv, GetResources
    PROVE  WaitInv'
  <1>1. UNCHANGED <<spec, status>> /\ w.at = "idle" /\ replicaJob' \in {replicaJob, NoReplica}
    BY DEF GetResources, Cleanup, KeptJob
  <1>2. w'.at = "repos" /\ w'.spec = spec /\ w'.status = status /\ w'.replicaJob = replicaJob'
    <2>1. w' = [at |-> "repos", spec |-> spec, status |-> status, writable |-> writable,
                replicaJob |-> RepoResources.replicaJob, manualJob |-> RepoResources.manualJob]
      BY DEF GetResources
    <2>2. RepoResources.replicaJob = replicaJob'
      BY DEF RepoResources
    <2> QED BY <2>1, <2>2
  <1>3. ReplicaShape'
    BY <1>1, <1>2, WaitIdle DEF WaitInv, ReplicaShape
  <1>4. Running' => replicaJob' = replicaJob /\ Running
    BY <1>1, WaitIdle DEF Running
  <1>5. WorkKnows' /\ StatusKnows'
    BY <1>1, <1>2, <1>4 DEF WaitInv, WorkKnows, StatusKnows
  <1> QED BY <1>2, <1>3, <1>5 DEF WaitInv, SeenReplica, ConditionHolds

\* A step that writes nothing but the working copy and takes no backup for complete.
WaitMovesOn ==
    /\ UNCHANGED <<spec, status, replicaJob>>
    /\ w.at # "idle" /\ w'.at \in Steps \ {"idle", "manual"} /\ (w'.at \in Early => w.at \in Early)
    /\ w'.spec = w.spec /\ w'.replicaJob = w.replicaJob
    /\ ReposShape(w'.status.repos) /\ Done(w'.status.repos) \subseteq Done(w.status.repos)

LEMMA WaitMovesOnStep ==
    ASSUME WaitInv, WaitMovesOn
    PROVE  WaitInv'
  <1>1. ReplicaShape'
    BY DEF WaitMovesOn, WaitInv, ReplicaShape
  <1>2. WorkKnows' /\ StatusKnows' /\ SeenReplica' /\ ConditionHolds'
    BY DEF WaitMovesOn, WaitInv, WorkKnows, StatusKnows, SeenReplica, ConditionHolds, Running, Steps
  <1> QED BY <1>1, <1>2 DEF WaitInv

LEMMA WaitContinue ==
    ASSUME Shape, NEW step, NEW st, Continue(step, st)
    PROVE  w'.at = step /\ w'.status = st /\ w'.spec = w.spec /\ w'.replicaJob = w.replicaJob
  BY DEF Continue, Shape, WorkKeys

\* What the operators that complete a status do to it.
LEMMA WithFacts ==
    ASSUME NEW st, DOMAIN st = StatusKeys
    PROVE  /\ WithRepoReady(st).repos = st.repos
           /\ WithReplicaCreate(st).repos = st.repos
           /\ WithReplicaCreate(st).replicaCreate = "True" => st.repos[w.spec.first].complete
  <1>1. \A x : [st EXCEPT !.repoReady = x].repos = st.repos
    BY DEF StatusKeys
  <1>2. \A x : LET t == [st EXCEPT !.replicaCreate = x] IN t.repos = st.repos /\ t.replicaCreate = x
    BY DEF StatusKeys
  <1>3. RepoCondition(st, st.repos[w.spec.first].complete) = "True" => st.repos[w.spec.first].complete
    BY DEF RepoCondition
  <1> QED BY <1>1, <1>2, <1>3 DEF WithRepoReady, WithReplicaCreate

\* getRepoVolumeStatus takes no backup for complete.
LEMMA RepoStatusFacts ==
    ASSUME NEW old, NEW r, NEW vol
    PROVE  LET t == RepoStatus(old, r, vol)
           IN  DOMAIN t = RepoKeys /\ (t.complete => old.complete)
  <1> DEFINE a == [NoRepo EXCEPT !.known = TRUE, !.volume = vol, !.hash = w.spec.repos[r].bucket]
  <1>1. DOMAIN NoRepo = RepoKeys /\ ~ NoRepo.complete
    BY DEF NoRepo, RepoKeys
  <1>2. DOMAIN a = RepoKeys /\ ~ a.complete
    BY DEF NoRepo, RepoKeys
  <1> DEFINE b(x, y) == [known |-> TRUE, volume |-> vol, hash |-> w.spec.repos[r].bucket,
                         stanza |-> x, complete |-> old.complete /\ y /\ r = w.spec.first]
  <1>3. \A x, y : DOMAIN b(x, y) = RepoKeys /\ (b(x, y).complete => old.complete)
    BY DEF RepoKeys
  <1>4. RepoStatus(old, r, vol) \in {NoRepo, a} \/ \E x, y : RepoStatus(old, r, vol) = b(x, y)
    BY Zenon DEF RepoStatus
  <1> HIDE DEF a, b
  <1> QED BY <1>1, <1>2, <1>3, <1>4

LEMMA WaitMovesOnActions ==
    ASSUME Shape, WaitInv,
           \/ ReposReconciled \/ ClaimsRefused \/ ConfigFails \/ ReposFail \/ StanzaCreate \/ ScheduledBackups
           \/ (CallFails /\ w.at \in {"repos", "stanza", "schedules"})
    PROVE  WaitMovesOn
  <1>1. UNCHANGED <<spec, status, replicaJob>>
    BY DEF ReposReconciled, ClaimsRefused, ConfigFails, ReposFail, ReconcileRepos, StanzaCreate, ScheduledBackups,
           CallFails, realVars, historyVars
  <1>2. w.at \in Early
    BY DEF ReposReconciled, ClaimsRefused, ConfigFails, ReposFail, ReconcileRepos, StanzaCreate, ScheduledBackups,
           CallFails, Early
  <1>3. DOMAIN w.status = StatusKeys /\ ReposShape(w.status.repos)
    BY DEF Shape, WaitInv, ReplicaShape
  <1>4. \E step \in Steps \ {"idle", "manual"} : \E st :
           /\ Continue(step, st)
           /\ ReposShape(st.repos) /\ Done(st.repos) \subseteq Done(w.status.repos)
    <2>1. CASE ReposReconciled \/ ClaimsRefused \/ ConfigFails \/ ReposFail
      <3>1. PICK step \in {"stanza", "patch"}, refused \in SUBSET Repos, ready \in Conditions :
                Continue(step, [w.status EXCEPT !.hostReady = ready, !.repos = VolumeStatus(refused)])
        <4>1. \E step \in {"stanza", "patch"} : \E refused \in SUBSET Repos : ReconcileRepos(refused, step)
          BY <2>1 DEF ReposReconciled, ClaimsRefused, ConfigFails, ReposFail, VolumeRepos
        <4> QED BY <4>1 DEF ReconcileRepos
      <3> DEFINE V == VolumeStatus(refused)
      <3>2. DOMAIN V = Repos
        BY DEF VolumeStatus
      <3>3. ASSUME NEW r \in Repos
            PROVE  DOMAIN V[r] = RepoKeys /\ (V[r].complete => w.status.repos[r].complete)
        <4>1. V[r] = NoRepo \/ V[r] = RepoStatus(w.status.repos[r], r, volume[r])
          BY DEF VolumeStatus
        <4>2. DOMAIN NoRepo = RepoKeys /\ ~ NoRepo.complete
          BY DEF NoRepo, RepoKeys
        <4> QED BY <4>1, <4>2, RepoStatusFacts
      <3> HIDE DEF V
      <3>4. ReposShape(V) /\ Done(V) \subseteq Done(w.status.repos)
        BY <3>2, <3>3 DEF ReposShape, Done
      <3> DEFINE S == [w.status EXCEPT !.hostReady = ready, !.repos = V]
      <3>5. S.repos = V
        BY <1>3 DEF StatusKeys
      <3>6. Continue(step, S)
        BY <3>1 DEF V
      <3> HIDE DEF S
      <3> QED BY <3>4, <3>5, <3>6 DEF Steps
    <2>2. CASE StanzaCreate
      <3> DEFINE R == [r \in Repos |-> [w.status.repos[r] EXCEPT !.stanza = w.status.repos[r].known]]
      <3> DEFINE S == [w.status EXCEPT !.repos = R]
      <3>1. Continue("schedules", WithRepoReady(w.status)) \/ Continue("schedules", WithRepoReady(S))
        BY <2>2, Zenon DEF StanzaCreate
      <3>2. ReposShape(R) /\ Done(R) \subseteq Done(w.status.repos)
        <4>1. DOMAIN R = Repos
          OBVIOUS
        <4>2. \A r \in Repos : DOMAIN R[r] = RepoKeys /\ R[r].complete = w.status.repos[r].complete
          BY <1>3 DEF ReposShape, RepoKeys
        <4> HIDE DEF R
        <4> QED BY <4>1, <4>2 DEF ReposShape, Done
      <3> HIDE DEF R
      <3>3. DOMAIN S = StatusKeys /\ S.repos = R
        BY <1>3 DEF StatusKeys
      <3> HIDE DEF S
      <3>4. WithRepoReady(S).repos = R /\ WithRepoReady(w.status).repos = w.status.repos
        BY <1>3, <3>3, WithFacts
      <3> QED BY <1>3, <3>1, <3>2, <3>4 DEF Steps
    <2>3. CASE ScheduledBackups
      BY <1>3, <2>3 DEF ScheduledBackups, Steps
    <2>4. CASE CallFails /\ w.at \in {"repos", "stanza", "schedules"}
      <3>1. WithRepoReady(w.status).repos = w.status.repos
        BY <1>3, WithFacts
      <3>2. \E step \in {"patch", "schedules", "replica"} :
               Continue(step, w.status) \/ Continue(step, WithRepoReady(w.status))
        BY <2>4 DEF CallFails
      <3> QED BY <1>3, <3>1, <3>2 DEF Steps
    <2> QED BY <2>1, <2>2, <2>3, <2>4
  <1>5. PICK step \in Steps \ {"idle", "manual"} : \E st :
           /\ Continue(step, st)
           /\ ReposShape(st.repos) /\ Done(st.repos) \subseteq Done(w.status.repos)
    BY <1>4
  <1>6. PICK st :
           /\ Continue(step, st)
           /\ ReposShape(st.repos) /\ Done(st.repos) \subseteq Done(w.status.repos)
    BY <1>5
  <1>7. w'.at = step /\ w'.status = st /\ w'.spec = w.spec /\ w'.replicaJob = w.replicaJob
    BY <1>6, WaitContinue
  <1> QED BY <1>1, <1>2, <1>6, <1>7 DEF WaitMovesOn, Early

LEMMA WaitReplica ==
    ASSUME Shape, WaitInv, ReplicaCreateBackup \/ (CallFails /\ w.at = "replica")
    PROVE  WaitInv'
  <1> DEFINE f == w.spec.first
  <1> DEFINE R == [w.status.repos EXCEPT ![f] = [w.status.repos[f] EXCEPT !.complete = TRUE]]
  <1> DEFINE S == [w.status EXCEPT !.repos = R]
  <1>1. UNCHANGED <<spec, status>> /\ w.at = "replica"
    BY DEF ReplicaCreateBackup, CallFails
  <1>2. /\ f \in Repos /\ DOMAIN w.status = StatusKeys /\ ReposShape(w.status.repos)
        /\ DOMAIN replicaJob = ReplicaKeys
    BY DEF Shape, WaitInv, ReplicaShape
  <1>3. \/ Continue("manual", WithReplicaCreate(w.status)) /\ UNCHANGED replicaJob
        \/ Continue("manual", WithReplicaCreate(w.status)) /\ replicaJob' = NoReplica
        \/ /\ Continue("manual", WithReplicaCreate(S)) /\ UNCHANGED replicaJob
           /\ jobCompleted(w.replicaJob)
        \/ /\ Continue("manual", WithReplicaCreate(w.status)) /\ replicaJob' = ReplicaJobIntent
           /\ ~ w.status.repos[f].complete /\ w.replicaJob = NoReplica
    BY <1>1, Zenon DEF ReplicaCreateBackup, CallFails
  <1>4. R[f].complete /\ ReposShape(R)
    <2>1. DOMAIN R = Repos /\ \A r \in Repos : DOMAIN R[r] = RepoKeys
      BY <1>2 DEF ReposShape, RepoKeys
    <2>2. R[f].complete
      BY <1>2 DEF ReposShape, RepoKeys
    <2> QED BY <2>1, <2>2 DEF ReposShape
  <1> HIDE DEF R
  <1>5. DOMAIN S = StatusKeys /\ S.repos = R
    BY <1>2 DEF StatusKeys
  <1> HIDE DEF S, f
  <1>6. w'.spec = w.spec /\ w'.replicaJob = w.replicaJob /\ w'.at = "manual"
    BY <1>3, WaitContinue
  <1>7. \/ w'.status = WithReplicaCreate(w.status) /\ w'.status.repos = w.status.repos
        \/ w'.status = WithReplicaCreate(S) /\ w'.status.repos = R
    BY <1>2, <1>3, <1>5, WaitContinue, WithFacts
  <1>8. ConditionHolds'
    <2>1. w'.status.replicaCreate = "True" => w'.status.repos[w.spec.first].complete
      BY <1>2, <1>5, <1>7, WithFacts
    <2> QED BY <1>6, <2>1 DEF ConditionHolds
  <1>9. DOMAIN ReplicaJobIntent = ReplicaKeys /\ ReplicaJobIntent.repo = f /\ ReplicaJobIntent.state = "active"
    BY DEF ReplicaJobIntent, ReplicaKeys, f
  <1>10. ReplicaShape'
    <2>1. DOMAIN replicaJob' = ReplicaKeys
      BY <1>2, <1>3, <1>9, WaitIdle
    <2> QED BY <1>1, <1>2, <1>4, <1>6, <1>7, <2>1 DEF WaitInv, ReplicaShape
  <1>11. ~ (w'.at \in Early)
    BY <1>6 DEF Early
  <1>12. CASE Continue("manual", WithReplicaCreate(w.status)) /\ UNCHANGED replicaJob
    <2>1. w'.status.repos = w.status.repos
      BY <1>2, <1>12, WaitContinue, WithFacts
    <2>2. WorkKnows' /\ StatusKnows'
      BY <1>1, <1>6, <1>12, <2>1 DEF WaitInv, WorkKnows, StatusKnows, Running
    <2> QED BY <1>8, <1>10, <1>11, <2>2 DEF WaitInv, SeenReplica
  <1>13. CASE replicaJob' = NoReplica
    <2>1. ~ Running'
      BY <1>13, WaitIdle DEF Running
    <2> QED BY <1>8, <1>10, <2>1, WaitEnded
  <1>14. CASE UNCHANGED replicaJob /\ jobCompleted(w.replicaJob)
    <2>1. ~ Running'
      BY <1>1, <1>14 DEF WaitInv, SeenReplica, Running, Early, jobCompleted
    <2> QED BY <1>8, <1>10, <2>1, WaitEnded
  <1>15. CASE /\ Continue("manual", WithReplicaCreate(w.status)) /\ replicaJob' = ReplicaJobIntent
              /\ ~ w.status.repos[f].complete /\ w.replicaJob = NoReplica
    <2>1. w'.status.repos = w.status.repos
      BY <1>2, <1>15, WaitContinue, WithFacts
    <2>2. replicaJob'.repo = f /\ f \notin Done(w.status.repos)
      BY <1>9, <1>15 DEF Done
    <2>3. replicaJob' # w'.replicaJob
      BY <1>6, <1>9, <1>15, WaitIdle
    <2>4. WorkKnows' /\ StatusKnows'
      BY <1>6, <2>1, <2>2, <2>3 DEF WorkKnows, StatusKnows
    <2> QED BY <1>8, <1>10, <1>11, <2>4 DEF WaitInv, SeenReplica
  <1> QED BY <1>3, <1>12, <1>13, <1>14, <1>15

\* What a request does to the status has nothing to do with repositories.
LEMMA ManualKeepsRepos ==
    ASSUME Shape
    PROVE  ManualResult.repos = w.status.repos /\ ManualResult.replicaCreate = w.status.replicaCreate
  <1>1. ASSUME NEW st, DOMAIN st = StatusKeys
        PROVE  \A x, y, z : /\ LET t == [st EXCEPT !.finished = x, !.successful = y]
                               IN  DOMAIN t = StatusKeys /\ t.repos = st.repos
                                   /\ t.replicaCreate = st.replicaCreate
                            /\ LET t == [st EXCEPT !.id = z, !.finished = x, !.successful = y]
                               IN  t.repos = st.repos /\ t.replicaCreate = st.replicaCreate
    BY <1>1 DEF StatusKeys
  <1> DEFINE o == ManualJobObserved(w.status)
  <1>2. DOMAIN o = StatusKeys /\ o.repos = w.status.repos /\ o.replicaCreate = w.status.replicaCreate
    BY <1>1 DEF Shape, ManualJobObserved
  <1> HIDE DEF o
  <1>3. ManualStatus(o).repos = o.repos /\ ManualStatus(o).replicaCreate = o.replicaCreate
    BY <1>1, <1>2 DEF ManualStatus
  <1> QED BY <1>2, <1>3 DEF ManualResult, o

LEMMA WaitManual ==
    ASSUME Shape, WaitInv, ManualBackup \/ (CallFails /\ w.at = "manual")
    PROVE  WaitInv'
  <1>1. UNCHANGED <<spec, status, replicaJob>> /\ w.at = "manual" /\ Continue("patch", ManualResult)
    BY DEF ManualBackup, CallFails
  <1>2. /\ w'.at = "patch" /\ w'.status = ManualResult /\ w'.spec = w.spec
        /\ w'.replicaJob = w.replicaJob
    BY <1>1, WaitContinue
  <1>3. WaitMovesOn
    BY <1>1, <1>2, ManualKeepsRepos DEF WaitMovesOn, WaitInv, ReplicaShape, Early, Steps
  <1> QED BY <1>3, WaitMovesOnStep

LEMMA WaitPatch ==
    ASSUME Shape, WaitInv, PatchStatus
    PROVE  WaitInv'
  <1>1. UNCHANGED <<spec, replicaJob>> /\ w.at = "patch" /\ status' = w.status /\ w' = Idle
    BY DEF PatchStatus
  <1>2. w'.at = "idle" /\ w'.at \notin Early
    BY <1>1, WaitIdle DEF Early
  <1>3. ReplicaShape'
    BY <1>1, WaitIdle DEF WaitInv, ReplicaShape
  <1>4. StatusKnows'
    BY <1>1 DEF WaitInv, WorkKnows, StatusKnows, Running
  <1> QED BY <1>2, <1>3, <1>4 DEF WaitInv, WorkKnows, SeenReplica, ConditionHolds

LEMMA WaitCrash ==
    ASSUME Shape, WaitInv, Crash, NotForgotten
    PROVE  WaitInv'
  <1>1. UNCHANGED <<spec, status, replicaJob>> /\ w' = Idle
    BY DEF Crash
  <1>2. w'.at = "idle" /\ w'.at \notin Early
    BY <1>1, WaitIdle DEF Early
  <1>3. ReplicaShape'
    BY <1>1, WaitIdle DEF WaitInv, ReplicaShape
  <1>4. StatusKnows'
    BY <1>1 DEF WaitInv, StatusKnows, Running, NotForgotten
  <1> QED BY <1>2, <1>3, <1>4 DEF WaitInv, WorkKnows, SeenReplica, ConditionHolds

LEMMA WaitStep ==
    Shape /\ WaitInv /\ [Next]_vars /\ [NotForgotten]_vars => WaitInv'
  <1> SUFFICES ASSUME Shape, WaitInv, [Next]_vars, [NotForgotten]_vars PROVE WaitInv'
    OBVIOUS
  <1>1. \/ EditRepos \/ EditShutdown \/ Elect \/ LoseLeader \/ HostStarts \/ Propagate
        \/ RunManualJob \/ ExpireManualJob \/ RequestBackup
        \/ (\E r \in Repos : Bind(r)) \/ (\E r \in Repos : ReplaceVolume(r))
        \/ UNCHANGED vars
        \/ ReposReconciled \/ ClaimsRefused \/ ConfigFails \/ ReposFail \/ StanzaCreate \/ ScheduledBackups
        \/ (CallFails /\ w.at \in {"repos", "stanza", "schedules"})
        \/ ReplicaCreateBackup \/ (CallFails /\ w.at = "replica")
        \/ ManualBackup \/ (CallFails /\ w.at = "manual")
        \/ RunReplicaJob \/ GetResources \/ PatchStatus \/ (Crash /\ (NotForgotten \/ UNCHANGED vars))
    BY DEF Next, Operator, User, Environment, CallFails
  <1> QED BY <1>1, WaitElsewhere, WaitMovesOnActions, WaitMovesOnStep, WaitReplica, WaitManual,
        WaitRun, WaitGet, WaitPatch, WaitCrash

\* A Job for a manual backup is made only by the step that has waited.
LEMMA ManualBegins ==
    ASSUME Shape, WaitInv, [Next]_vars, manualJob = NoManual, manualJob' # NoManual
    PROVE  ~ Running \/ replicaJob.repo # w.spec.first
  <1>1. manualJob.state = "absent"
    BY DEF NoManual
  <1>2. ManualBackup
    <2>1. ManualBackup \/ manualJob' = manualJob
      BY <1>1 DEF Next, Operator, User, Environment, EditRepos, EditShutdown, Elect, LoseLeader,
             HostStarts, Propagate, RunReplicaJob, RunManualJob, ExpireManualJob, RequestBackup, Bind,
             ReplaceVolume, vars, ReposReconciled, ClaimsRefused, ConfigFails, ReposFail, ReconcileRepos,
             StanzaCreate, ScheduledBackups, ReplicaCreateBackup, CallFails, GetResources, Cleanup,
             KeptJob, PatchStatus, Crash
    <2> QED BY <2>1
  <1>3. w.at = "manual" /\ ManualReady(ManualResult)
    BY <1>2 DEF ManualBackup
  <1>4. w.status.replicaCreate = "True"
    BY <1>3, ManualKeepsRepos DEF ManualReady
  <1>5. w.spec.first \in Done(w.status.repos)
    BY <1>3, <1>4 DEF WaitInv, ConditionHolds, ReplicaShape, Done
  <1> QED BY <1>3, <1>5 DEF WaitInv, WorkKnows

\* A manual backup does not begin while the backup for replicas of the same cluster runs
\* (reconcileManualBackup), for any edits, requests and failures, provided no reconcile
\* is lost between making a Job for replicas and patching the status.  Without that a
\* bucket edited and edited back leaves a Job running that the status knows nothing of.
THEOREM ManualBackupWaits == Spec /\ [][NotForgotten]_vars => ManualWaits
  <1>1. Shape /\ WaitInv /\ [Next]_vars
        => [manualJob = NoManual /\ manualJob' # NoManual =>
               replicaJob.state # "active" \/ replicaJob.repo # w.spec.first]_vars
    BY ManualBegins DEF Running
  <1> QED BY <1>1, ManualInit, ManualInvStep, WaitInit, WaitStep, PTL DEF Spec, ManualWaits

-----------------------------------------------------------------------------
(* The status of repositories that are edited at will.                     *)

\* Lists with the same hash have the same buckets under the same names, although the
\* hash is made of the options of the external repositories without the names.
HashTells == \A a, b \in RepoChoices : ConfigHash(a.repos) = ConfigHash(b.repos) =>
    \A r \in Repos : a.repos[r].bucket = b.repos[r].bucket

\* Everyone who has a list has one that the user chose, be it an old one.
Listed(repos) == \E ch \in RepoChoices : repos = ch.repos
FilesListed ==
    /\ spec.first \in Repos /\ Listed(spec.repos) /\ Listed(config) /\ Listed(mounted)
    /\ w.at # "idle" => w.spec.first \in Repos /\ Listed(w.spec.repos)

\* Claims and their volumes, which are numbered in the order they are bound.
Numbered ==
    /\ volumes \in Nat /\ DOMAIN volume = Repos
    /\ \A r \in Repos : volume[r] \in 0..volumes /\ (volume[r] # 0 => r \in claims)
    /\ w.at = "repos" => \A r \in claims : w.spec.repos[r].kind = "volume"

\* What is true of the status x of repository r, when vol is the volume it has now and
\* n volumes have been bound; sz and bk are the locations with stanzas and backups, rp
\* and mk the repositories of the histories replaced and mistaken.
Place(r, b, v) == [repo |-> r, bucket |-> b, volume |-> v]
InForm(x, n) ==
    /\ DOMAIN x = RepoKeys /\ x.volume \in 0..n
    /\ x.known /\ x.hash # None => x.volume = 0
    /\ ~ x.known => ~ x.stanza /\ ~ x.complete /\ x.volume = 0
\* A status without the name of a volume is about the volume that is bound by now.
Nameless(x) == x.hash = None /\ x.volume = 0
Used(x, vol) == IF Nameless(x) THEN vol ELSE x.volume
InUse(x, r, vol, ls) == Place(r, x.hash, Used(x, vol)) \in ls /\ (x.hash = None => Used(x, vol) # 0)
Truth(x, r, vol, n, sz, bk, rp, mk) ==
    /\ InForm(x, n)
    /\ x.stanza => r \in mk \/ InUse(x, r, vol, sz)
    /\ x.complete => r \in mk \/ (x.hash = None /\ r \in rp) \/ InUse(x, r, vol, bk)

StatusTrue ==
    /\ DOMAIN status.repos = Repos
    /\ \A r \in Repos :
          Truth(status.repos[r], r, volume[r], volumes, stanzas, backups, replaced, mistaken)
WorkTrue == w.at # "idle" =>
    /\ DOMAIN w.status.repos = Repos
    /\ \A r \in Repos :
          Truth(w.status.repos[r], r, volume[r], volumes, stanzas, backups, replaced, mistaken)

\* When the working copy has no name for a volume, the persisted status has not either.
NeitherNamed == w.at # "idle" => \A r \in Repos :
    w.status.repos[r].known /\ Nameless(w.status.repos[r])
    => volume[r] = 0 \/ volume[r] # status.repos[r].volume

\* Once the repositories are reconciled the working copy is about those of its spec, and
\* a claim replaced since is not bound again before the next reconcile.
Later == {"stanza", "schedules", "replica"}
WorkFits == w.at \in Later => \A r \in Repos : w.status.repos[r].known =>
    /\ w.spec.repos[r].kind # "none" /\ w.status.repos[r].hash = w.spec.repos[r].bucket
    /\ w.status.repos[r].volume # 0 =>
         volume[r] = w.status.repos[r].volume \/ (volume[r] = 0 /\ r \notin claims)

\* A completed Job for replicas has made its backup, with files of its hash.
BackedUp(b, r, vol, bk, rp) ==
    IF b = None THEN r \in rp \/ (vol # 0 /\ Place(r, None, vol) \in bk) ELSE Place(r, b, 0) \in bk
Made(r, h, vol, bk, rp, mk) ==
    r \in mk \/ \E ch \in RepoChoices :
                   ConfigHash(ch.repos) = h /\ BackedUp(ch.repos[r].bucket, r, vol, bk, rp)
JobTrue(j) == j.state = "complete" =>
    j.repo \in Repos /\ Made(j.repo, j.hash, volume[j.repo], backups, replaced, mistaken)
JobsTrue == /\ DOMAIN replicaJob = ReplicaKeys
            /\ JobTrue(replicaJob) /\ (w.at # "idle" => JobTrue(w.replicaJob))

TruthInv == FilesListed /\ Numbered /\ StatusTrue /\ WorkTrue /\ NeitherNamed /\ WorkFits /\ JobsTrue

-----------------------------------------------------------------------------
LEMMA ListedKinds ==
    ASSUME NEW repos, Listed(repos), NEW r \in Repos
    PROVE  /\ repos[r].kind \in {"none", "volume", "cloud"}
           /\ repos[r].bucket # None <=> repos[r].kind = "cloud"
  <1>1. PICK ch \in RepoChoices : repos = ch.repos
    BY DEF Listed
  <1>2. (ch.repos[r].bucket # None) <=> (ch.repos[r].kind = "cloud")
    BY BackupsAssumption
  <1>3. ch \in RepoList
    BY BackupsAssumption
  <1>4. ch.repos[r] \in RepoSpec
    BY <1>3 DEF RepoList
  <1> QED BY <1>1, <1>2, <1>4 DEF RepoSpec

LEMMA NoRepoTrue ==
    /\ DOMAIN NoRepo = RepoKeys /\ NoRepo.known = FALSE /\ NoRepo.volume = 0 /\ NoRepo.stanza = FALSE
    /\ NoRepo.complete = FALSE
    /\ \A r, vol, n, sz, bk, rp, mk : n \in Nat => Truth(NoRepo, r, vol, n, sz, bk, rp, mk)
  <1>1. /\ DOMAIN NoRepo = RepoKeys /\ NoRepo.known = FALSE /\ NoRepo.volume = 0
        /\ NoRepo.stanza = FALSE /\ NoRepo.complete = FALSE
    BY DEF NoRepo, RepoKeys
  <1> QED BY <1>1 DEF Truth, InForm

\* What is true of a status stays true, except that a volume without a name must not
\* be exchanged for another.
LEMMA TruthStays ==
    ASSUME NEW x, NEW r, NEW vol, NEW vol2, NEW n \in Nat, NEW n2 \in Nat, NEW sz, NEW sz2,
           NEW bk, NEW bk2, NEW rp, NEW rp2, NEW mk, NEW mk2,
           Truth(x, r, vol, n, sz, bk, rp, mk),
           n <= n2, sz \subseteq sz2, bk \subseteq bk2, rp \subseteq rp2, mk \subseteq mk2,
           x.known /\ Nameless(x) => vol2 = vol \/ vol = 0 \/ r \in mk2
    PROVE  Truth(x, r, vol2, n2, sz2, bk2, rp2, mk2)
  <1>1. InForm(x, n2)
    BY DEF Truth, InForm
  <1>2. x.stanza \/ x.complete => x.known
    BY DEF Truth, InForm
  <1>3. x.known => r \in mk2 \/ Used(x, vol2) = Used(x, vol) \/ (x.hash = None /\ Used(x, vol) = 0)
    BY DEF Used, Nameless
  <1>4. x.stanza => r \in mk2 \/ InUse(x, r, vol2, sz2)
    BY <1>2, <1>3 DEF Truth, InUse
  <1>5. x.complete => r \in mk2 \/ (x.hash = None /\ r \in rp2) \/ InUse(x, r, vol2, bk2)
    BY <1>2, <1>3 DEF Truth, InUse
  <1> QED BY <1>1, <1>4, <1>5 DEF Truth

\* A backup made stays made.
LEMMA MadeStays ==
    ASSUME NEW r, NEW hh, NEW vol, NEW vol2, NEW bk, NEW bk2, NEW rp, NEW rp2, NEW mk, NEW mk2,
           Made(r, hh, vol, bk, rp, mk), bk \subseteq bk2, rp \subseteq rp2, mk \subseteq mk2,
           vol2 = vol \/ vol = 0 \/ r \in rp2
    PROVE  Made(r, hh, vol2, bk2, rp2, mk2)
  BY DEF Made, BackedUp

LEMMA TruthInit == Init => TruthInv
  <1> SUFFICES ASSUME Init PROVE TruthInv
    OBVIOUS
  <1>1. PICK ch \in InitialRepos : spec = [repos |-> ch.repos, first |-> ch.first, manual |-> 0,
                                           id |-> 0, shutdown |-> FALSE]
    BY DEF Init
  <1>2. ch \in RepoChoices /\ ch.first \in Repos
    BY BackupsAssumption DEF RepoList
  <1>3. spec.first \in Repos /\ Listed(spec.repos)
    BY <1>1, <1>2 DEF Listed
  <1>4. /\ status = NoStatus /\ replicaJob = NoReplica /\ w = Idle /\ volumes = 0
        /\ claims = {} /\ volume = [r \in Repos |-> 0] /\ config = spec.repos /\ mounted = spec.repos
    BY DEF Init
  <1>5. w.at = "idle" /\ DOMAIN replicaJob = ReplicaKeys /\ replicaJob.state = "absent"
    BY <1>4, WaitIdle
  <1>6. status.repos = [r \in Repos |-> NoRepo]
    BY <1>4 DEF NoStatus
  <1>7. Numbered
    BY <1>4, <1>5 DEF Numbered
  <1>8. StatusTrue
    BY <1>4, <1>6, NoRepoTrue DEF StatusTrue
  <1> QED BY <1>3, <1>4, <1>5, <1>7, <1>8
          DEF TruthInv, FilesListed, WorkTrue, NeitherNamed, WorkFits, Later, JobsTrue, JobTrue

-----------------------------------------------------------------------------
\* A step outside the reconcile: the status and the reconcile stay as they are, the
\* files are ones that are there already, and claims are not made.
Outside ==
    /\ UNCHANGED <<status, w, config>> /\ mounted' \in {mounted, config}
    /\ claims' \subseteq claims /\ DOMAIN volume' = Repos
    /\ volumes' \in Nat /\ volumes <= volumes' /\ stanzas \subseteq stanzas' /\ backups \subseteq backups'
    /\ replaced \subseteq replaced' /\ mistaken \subseteq mistaken'
    /\ spec'.first \in Repos /\ Listed(spec'.repos)
    /\ DOMAIN replicaJob' = ReplicaKeys
    /\ replicaJob' = replicaJob \/ JobTrue(replicaJob)'
    /\ \A r \in Repos :
          \/ volume'[r] = volume[r] /\ (r \in claims' \/ volume[r] = 0)
          \/ volume[r] = 0 /\ r \in claims' /\ volume'[r] = volumes' /\ volumes' = volumes + 1
          \/ volume'[r] = 0 /\ r \notin claims' /\ r \in replaced' /\ (volume[r] # status.repos[r].volume => r \in mistaken')

LEMMA TruthOutside ==
    ASSUME TruthInv, Outside
    PROVE  TruthInv'
  <1>1. volumes \in Nat /\ volumes' \in Nat /\ volumes <= volumes'
    BY DEF TruthInv, Numbered, Outside
  <1>2. \A r \in Repos : volume[r] \in 0..volumes /\ (volume[r] # 0 => r \in claims)
    BY DEF TruthInv, Numbered
  <1>3. FilesListed'
    BY DEF TruthInv, FilesListed, Outside
  <1>4. Numbered'
    <2>1. \A r \in Repos : volume'[r] \in 0..volumes' /\ (volume'[r] # 0 => r \in claims')
      BY <1>1, <1>2 DEF Outside
    <2> QED BY <1>1, <2>1 DEF TruthInv, Numbered, Outside
  <1>5. ASSUME NEW x, NEW r \in Repos,
               Truth(x, r, volume[r], volumes, stanzas, backups, replaced, mistaken),
               x.known /\ Nameless(x) => volume'[r] = volume[r] \/ volume[r] = 0 \/ r \in mistaken'
        PROVE  Truth(x, r, volume'[r], volumes', stanzas', backups', replaced', mistaken')
    BY <1>1, <1>5, TruthStays DEF Outside
  <1>6. StatusTrue'
    <2>1. ASSUME NEW r \in Repos, Nameless(status.repos[r])
          PROVE  volume'[r] = volume[r] \/ volume[r] = 0 \/ r \in mistaken'
      BY <2>1 DEF Outside, Nameless
    <2> QED BY <1>5, <2>1 DEF TruthInv, StatusTrue, Outside
  <1>7. WorkTrue'
    <2>1. ASSUME NEW r \in Repos, w.at # "idle", w.status.repos[r].known, Nameless(w.status.repos[r])
          PROVE  volume'[r] = volume[r] \/ volume[r] = 0 \/ r \in mistaken'
      BY <2>1 DEF TruthInv, NeitherNamed, Outside
    <2> QED BY <1>5, <2>1 DEF TruthInv, WorkTrue, Outside
  <1>8. NeitherNamed'
    <2>1. \A r \in Repos : status.repos[r].volume \in 0..volumes
      BY DEF TruthInv, StatusTrue, Truth, InForm
    <2>2. \A r \in Repos : status.repos[r].volume # volumes + 1
      BY <1>1, <2>1
    <2>3. \A r \in Repos : volume'[r] = volume[r] \/ volume'[r] = 0 \/ volume'[r] = volumes + 1
      BY DEF Outside
    <2> QED BY <2>2, <2>3 DEF TruthInv, NeitherNamed, Outside
  <1>9. WorkFits'
    BY <1>2 DEF TruthInv, WorkFits, Outside
  <1>10. JobsTrue'
    <2>1. ASSUME NEW r \in Repos, NEW hh, Made(r, hh, volume[r], backups, replaced, mistaken)
          PROVE  Made(r, hh, volume'[r], backups', replaced', mistaken')
      <3>1. volume'[r] = volume[r] \/ volume[r] = 0 \/ r \in replaced'
        BY DEF Outside
      <3> QED BY <2>1, <3>1, MadeStays DEF Outside
    <2> QED BY <2>1 DEF TruthInv, JobsTrue, JobTrue, Outside
  <1> QED BY <1>3, <1>4, <1>6, <1>7, <1>8, <1>9, <1>10 DEF TruthInv

\* Steps outside the reconcile that leave the volumes alone.
LEMMA TruthElsewhere ==
    ASSUME Shape, TruthInv,
           \/ EditRepos \/ EditShutdown \/ Elect \/ LoseLeader \/ HostStarts \/ Propagate
           \/ RunManualJob \/ ExpireManualJob \/ RequestBackup \/ UNCHANGED vars
    PROVE  Outside
  <1>1. /\ UNCHANGED <<status, w, volume, volumes, claims, replaced, mistaken, stanzas, replicaJob, config>>
        /\ backups \subseteq backups' /\ mounted' \in {mounted, config}
    BY DEF EditRepos, EditShutdown, Elect, LoseLeader, HostStarts, Propagate, RunManualJob,
           ExpireManualJob, RequestBackup, vars, envVars, realVars, countVars, historyVars
  <1>2. spec'.first \in Repos /\ Listed(spec'.repos)
    <2>1. CASE EditRepos
      <3>1. PICK ch \in RepoChoices : spec' = [spec EXCEPT !.repos = ch.repos, !.first = ch.first]
        BY <2>1 DEF EditRepos
      <3>2. spec'.repos = ch.repos /\ spec'.first = ch.first
        BY <3>1 DEF Shape, SpecKeys
      <3>3. ch.first \in Repos
        BY BackupsAssumption DEF RepoList
      <3> QED BY <3>2, <3>3 DEF Listed
    <2>2. CASE EditShutdown \/ RequestBackup
      <3>1. \/ \E x : spec' = [spec EXCEPT !.shutdown = x]
            \/ \E x, y : spec' = [spec EXCEPT !.id = x, !.manual = y]
        BY <2>2 DEF EditShutdown, RequestBackup
      <3>2. spec'.repos = spec.repos /\ spec'.first = spec.first
        BY <3>1 DEF Shape, SpecKeys
      <3> QED BY <3>2 DEF TruthInv, FilesListed
    <2>3. CASE UNCHANGED spec
      BY <2>3 DEF TruthInv, FilesListed
    <2>4. EditRepos \/ EditShutdown \/ RequestBackup \/ UNCHANGED spec
      BY DEF Elect, LoseLeader, HostStarts, Propagate, RunManualJob, ExpireManualJob, vars
    <2> QED BY <2>1, <2>2, <2>3, <2>4
  <1>3. /\ volumes \in Nat /\ DOMAIN volume = Repos /\ DOMAIN replicaJob = ReplicaKeys
        /\ \A r \in Repos : r \in claims \/ volume[r] = 0
    BY DEF TruthInv, Numbered, JobsTrue
  <1> QED BY <1>1, <1>2, <1>3 DEF Outside

LEMMA TruthBind ==
    ASSUME TruthInv, NEW q \in Repos, Bind(q)
    PROVE  Outside
  <1>1. /\ UNCHANGED <<spec, status, claims, config, mounted, replicaJob, stanzas, backups, w, replaced, mistaken>>
        /\ q \in claims /\ volume[q] = 0 /\ volumes' = volumes + 1
        /\ volume' = [volume EXCEPT ![q] = volumes + 1]
    BY DEF Bind, realVars, historyVars
  <1>2. /\ volumes \in Nat /\ volumes' \in Nat /\ volumes <= volumes' /\ DOMAIN volume = Repos
        /\ \A r \in Repos : r \in claims \/ volume[r] = 0
    BY <1>1 DEF TruthInv, Numbered
  <1>3. DOMAIN volume' = Repos /\ \A r \in Repos : volume'[r] = IF r = q THEN volumes + 1 ELSE volume[r]
    BY <1>1, <1>2
  <1>4. spec.first \in Repos /\ Listed(spec.repos) /\ DOMAIN replicaJob = ReplicaKeys
    BY DEF TruthInv, FilesListed, JobsTrue
  <1> QED BY <1>1, <1>2, <1>3, <1>4 DEF Outside

LEMMA TruthReplace ==
    ASSUME TruthInv, NEW q \in Repos, ReplaceVolume(q)
    PROVE  Outside
  <1>1. /\ UNCHANGED <<spec, status, config, mounted, replicaJob, stanzas, backups, w, volumes>>
        /\ volume[q] # 0 /\ claims' = claims \ {q} /\ volume' = [volume EXCEPT ![q] = 0]
        /\ replaced' = replaced \cup {q} /\ mistaken' = mistaken \cup Unnamed({q})
    BY DEF ReplaceVolume, realVars
  <1>2. /\ volumes \in Nat /\ DOMAIN volume = Repos
        /\ \A r \in Repos : r \in claims \/ volume[r] = 0
    BY DEF TruthInv, Numbered
  <1>3. DOMAIN volume' = Repos /\ \A r \in Repos : volume'[r] = IF r = q THEN 0 ELSE volume[r]
    BY <1>1, <1>2
  <1>4. spec.first \in Repos /\ Listed(spec.repos) /\ DOMAIN replicaJob = ReplicaKeys
    BY DEF TruthInv, FilesListed, JobsTrue
  <1>5. volume[q] # status.repos[q].volume => q \in mistaken'
    BY <1>1 DEF Unnamed
  <1> QED BY <1>1, <1>2, <1>3, <1>4, <1>5 DEF Outside

\* The location of a repository that pgBackRest reaches, with the files it has.
LEMMA LocationIsPlace ==
    ASSUME Listed(mounted), NEW r \in Reachable
    PROVE  /\ r \in Repos /\ mounted[r].kind # "none"
           /\ mounted[r].bucket = None => volume[r] # 0
           /\ Location(mounted, volume, r) =
                Place(r, mounted[r].bucket, IF mounted[r].bucket = None THEN volume[r] ELSE 0)
  <1>1. /\ r \in Repos /\ mounted[r].kind \in {"volume", "cloud"}
        /\ mounted[r].kind = "volume" => volume[r] # 0
    BY DEF Reachable
  <1>2. mounted[r].bucket # None <=> mounted[r].kind = "cloud"
    BY <1>1, ListedKinds
  <1> QED BY <1>1, <1>2 DEF Location, Place

LEMMA TruthRun ==
    ASSUME TruthInv, RunReplicaJob
    PROVE  Outside
  <1> DEFINE r == replicaJob.repo
  <1>1. /\ UNCHANGED <<spec, status, claims, config, volume, mounted, stanzas, w, volumes, replaced>>
        /\ \/ /\ CanBackUp(r) /\ backups' = backups \cup {Location(mounted, volume, r)}
              /\ replicaJob' = [replicaJob EXCEPT !.state = "complete"]
              /\ mistaken' = mistaken \cup OtherFiles
           \/ replicaJob' = [replicaJob EXCEPT !.state = "failed"] /\ UNCHANGED <<backups, mistaken>>
    BY DEF RunReplicaJob, envVars
  <1>2. /\ DOMAIN replicaJob' = ReplicaKeys /\ replicaJob'.repo = r /\ replicaJob'.hash = replicaJob.hash
        /\ backups \subseteq backups' /\ mistaken \subseteq mistaken'
    BY <1>1 DEF TruthInv, JobsTrue, ReplicaKeys
  <1>3. JobTrue(replicaJob)'
    <2>1. CASE /\ CanBackUp(r) /\ backups' = backups \cup {Location(mounted, volume, r)}
               /\ mistaken' = mistaken \cup OtherFiles
      <3>1. r \in Reachable /\ Listed(mounted)
        BY <2>1 DEF CanBackUp, TruthInv, FilesListed
      <3>2. PICK ch \in RepoChoices : mounted = ch.repos
        BY <3>1 DEF Listed
      <3>3. /\ r \in Repos /\ (mounted[r].bucket = None => volume[r] # 0)
            /\ Location(mounted, volume, r) =
                 Place(r, mounted[r].bucket, IF mounted[r].bucket = None THEN volume[r] ELSE 0)
        BY <3>1, LocationIsPlace
      <3>4. BackedUp(mounted[r].bucket, r, volume[r], backups', replaced)
        BY <2>1, <3>3 DEF BackedUp
      <3>5. r \in mistaken' \/ ConfigHash(mounted) = replicaJob.hash
        BY <2>1 DEF OtherFiles
      <3>6. Made(r, replicaJob.hash, volume[r], backups', replaced, mistaken')
        BY <3>2, <3>4, <3>5 DEF Made
      <3> QED BY <1>1, <1>2, <3>3, <3>6 DEF JobTrue
    <2>2. CASE replicaJob' = [replicaJob EXCEPT !.state = "failed"]
      <3>1. replicaJob'.state = "failed"
        BY <2>2 DEF TruthInv, JobsTrue, ReplicaKeys
      <3> QED BY <3>1 DEF JobTrue
    <2> QED BY <1>1, <2>1, <2>2
  <1> HIDE DEF r
  <1>4. /\ spec.first \in Repos /\ Listed(spec.repos) /\ volumes \in Nat /\ DOMAIN volume = Repos
        /\ \A q \in Repos : q \in claims \/ volume[q] = 0
    BY DEF TruthInv, FilesListed, Numbered
  <1> QED BY <1>1, <1>2, <1>3, <1>4 DEF Outside

LEMMA TruthGet ==
    ASSUME TruthInv, GetResources
    PROVE  TruthInv'
  <1>1. /\ UNCHANGED <<spec, status, config, mounted, stanzas, backups, volumes>>
        /\ w.at = "idle" /\ replicaJob' \in {replicaJob, NoReplica}
        /\ claims' = claims \cap VolumeRepos(spec)
        /\ volume' = [r \in Repos |-> IF r \in claims' THEN volume[r] ELSE 0]
        /\ replaced' = replaced \cup {r \in claims \ claims' : volume[r] # 0 /\ replicaJob'.repo = r}
        /\ mistaken' = mistaken \cup Unnamed(claims \ claims')
    BY DEF GetResources, Cleanup, KeptJob, realVars, countVars
  <1>2. w'.at = "repos" /\ w'.spec = spec /\ w'.status = status /\ w'.replicaJob = replicaJob'
    <2>1. w' = [at |-> "repos", spec |-> spec, status |-> status, writable |-> writable,
                replicaJob |-> RepoResources.replicaJob, manualJob |-> RepoResources.manualJob]
      BY DEF GetResources
    <2>2. RepoResources.replicaJob = replicaJob'
      BY DEF RepoResources
    <2> QED BY <2>1, <2>2
  <1>3. /\ volumes \in Nat /\ \A r \in Repos : volume[r] \in 0..volumes /\ (volume[r] # 0 => r \in claims)
    BY DEF TruthInv, Numbered
  <1>4. \A r \in Repos : volume'[r] = IF r \in claims' THEN volume[r] ELSE 0
    BY <1>1
  <1>5. Numbered'
    <2>1. \A r \in claims' : spec.repos[r].kind = "volume"
      BY <1>1 DEF VolumeRepos
    <2>2. \A r \in Repos : volume'[r] \in 0..volumes /\ (volume'[r] # 0 => r \in claims')
      BY <1>3, <1>4
    <2> QED BY <1>1, <1>2, <1>3, <2>1, <2>2 DEF Numbered
  <1>6. StatusTrue'
    <2>1. ASSUME NEW r \in Repos
          PROVE  Truth(status.repos[r], r, volume'[r], volumes, stanzas, backups, replaced', mistaken')
      <3>1. Truth(status.repos[r], r, volume[r], volumes, stanzas, backups, replaced, mistaken)
        BY DEF TruthInv, StatusTrue
      <3>2. Nameless(status.repos[r]) => volume'[r] = volume[r] \/ volume[r] = 0 \/ r \in mistaken'
        BY <1>1, <1>3, <1>4 DEF Nameless, Unnamed
      <3>3. replaced \subseteq replaced' /\ mistaken \subseteq mistaken'
        BY <1>1
      <3> QED BY <1>3, <3>1, <3>2, <3>3, TruthStays
    <2> QED BY <1>1, <2>1 DEF TruthInv, StatusTrue
  <1>7. WorkTrue'
    BY <1>1, <1>2, <1>6 DEF StatusTrue, WorkTrue
  <1>8. NeitherNamed' /\ WorkFits'
    BY <1>1, <1>2 DEF NeitherNamed, Nameless, WorkFits, Later
  <1>9. JobsTrue'
    <2>1. DOMAIN replicaJob' = ReplicaKeys /\ (replicaJob' = replicaJob \/ replicaJob'.state # "complete")
      BY <1>1, WaitIdle DEF TruthInv, JobsTrue
    <2>2. ASSUME replicaJob' = replicaJob, replicaJob.repo \in Repos,
                 Made(replicaJob.repo, replicaJob.hash, volume[replicaJob.repo], backups, replaced, mistaken)
          PROVE  Made(replicaJob.repo, replicaJob.hash, volume'[replicaJob.repo], backups, replaced', mistaken')
      <3> DEFINE q == replicaJob.repo
      <3>1. volume'[q] = volume[q] \/ volume[q] = 0 \/ q \in replaced'
        BY <1>1, <1>3, <1>4, <2>2
      <3>2. replaced \subseteq replaced' /\ mistaken \subseteq mistaken'
        BY <1>1
      <3> HIDE DEF q
      <3> QED BY <2>2, <3>1, <3>2, MadeStays DEF q
    <2>3. JobTrue(replicaJob)'
      BY <1>1, <2>1, <2>2 DEF TruthInv, JobsTrue, JobTrue
    <2> QED BY <1>2, <2>1, <2>3 DEF JobsTrue, JobTrue
  <1>10. FilesListed'
    BY <1>1, <1>2 DEF TruthInv, FilesListed
  <1> QED BY <1>5, <1>6, <1>7, <1>8, <1>9, <1>10 DEF TruthInv

-----------------------------------------------------------------------------
\* getRepoVolumeStatus keeps a status only where it is still true.
LEMMA RepoStatusTrue ==
    ASSUME NEW r \in Repos, NEW old, NEW vol, NEW n \in Nat, NEW sz, NEW bk, NEW rp, NEW mk,
           w.spec.repos[r].kind \in {"none", "volume", "cloud"},
           w.spec.repos[r].bucket # None <=> w.spec.repos[r].kind = "cloud",
           vol \in 0..n, w.spec.repos[r].kind # "volume" => vol = 0,
           Truth(old, r, vol, n, sz, bk, rp, mk)
    PROVE  LET t == RepoStatus(old, r, vol)
           IN  /\ Truth(t, r, vol, n, sz, bk, rp, mk)
               /\ t.known => /\ t.volume = vol /\ t.hash = w.spec.repos[r].bucket
                             /\ w.spec.repos[r].kind # "none"
  <1> DEFINE t == RepoStatus(old, r, vol)
  <1> DEFINE k == w.spec.repos[r].kind
  <1> DEFINE c == w.spec.repos[r].bucket
  <1> DEFINE kept == old.known /\ IF k = "volume" THEN old.hash = None ELSE old.volume = 0
  <1> DEFINE same == IF k = "volume" THEN old.volume \in {0, vol} ELSE old.hash = c
  <1>1. CASE k = "none"
    <2>1. t = NoRepo
      BY <1>1 DEF RepoStatus
    <2> QED BY <2>1, NoRepoTrue
  <1>2. CASE k # "none" /\ ~ kept
    <2> DEFINE a == [NoRepo EXCEPT !.known = TRUE, !.volume = vol, !.hash = c]
    <2>1. t = a
      BY <1>2 DEF RepoStatus
    <2>2. /\ DOMAIN a = RepoKeys /\ a.known = TRUE /\ a.volume = vol /\ a.hash = c
          /\ a.stanza = FALSE /\ a.complete = FALSE
      BY DEF NoRepo, RepoKeys
    <2> HIDE DEF a, t
    <2>3. Truth(a, r, vol, n, sz, bk, rp, mk)
      BY <1>2, <2>2 DEF Truth, InForm
    <2> QED BY <1>2, <2>1, <2>2, <2>3 DEF t
  <1>3. CASE k # "none" /\ kept
    <2> DEFINE b == [known |-> TRUE, volume |-> vol, hash |-> c, stanza |-> old.stanza /\ same,
                     complete |-> old.complete /\ same /\ r = w.spec.first]
    <2>1. t = b
      BY <1>3 DEF RepoStatus
    <2>2. /\ DOMAIN b = RepoKeys /\ b.known = TRUE /\ b.volume = vol /\ b.hash = c
          /\ b.stanza => old.stanza /\ same
          /\ b.complete => old.complete /\ same
      BY DEF RepoKeys
    <2> HIDE DEF b, t
    <2>3. InForm(b, n)
      BY <1>3, <2>2 DEF InForm
    <2>4. same => old.hash = b.hash /\ Used(b, vol) = Used(old, vol)
      BY <1>3, <2>2 DEF Used, Nameless
    <2>5. Truth(b, r, vol, n, sz, bk, rp, mk)
      BY <2>2, <2>3, <2>4 DEF Truth, InUse
    <2> QED BY <1>3, <2>1, <2>2, <2>5 DEF t
  <1> QED BY <1>1, <1>2, <1>3

LEMMA TruthRepos ==
    ASSUME Shape, TruthInv, ReposReconciled \/ ClaimsRefused \/ ConfigFails \/ ReposFail
    PROVE  TruthInv'
  <1>1. PICK step \in {"stanza", "patch"}, refused \in SUBSET Repos :
          /\ \E ready : Continue(step, [w.status EXCEPT !.hostReady = ready, !.repos = VolumeStatus(refused)])
          /\ claims' = claims \cup (VolumeRepos(w.spec) \ refused)
    <2>1. \E step \in {"stanza", "patch"} : \E refused \in SUBSET Repos : ReconcileRepos(refused, step)
      BY DEF ReposReconciled, ClaimsRefused, ConfigFails, ReposFail, VolumeRepos
    <2> QED BY <2>1 DEF ReconcileRepos, ApplyRepoVolumes
  <1>2. /\ UNCHANGED <<spec, status, volume, mounted, replicaJob, stanzas, backups, volumes, replaced, mistaken>>
        /\ w.at = "repos" /\ config' \in {config, w.spec.repos}
    BY DEF ReposReconciled, ClaimsRefused, ConfigFails, ReposFail, ReconcileRepos, ConfigMapIntent, envVars,
           realVars, countVars, historyVars
  <1> DEFINE V == VolumeStatus(refused)
  <1>3. /\ w'.at = step /\ w'.status.repos = V /\ w'.spec = w.spec /\ w'.replicaJob = w.replicaJob
    <2>1. PICK ready : Continue(step, [w.status EXCEPT !.hostReady = ready, !.repos = V])
      BY <1>1
    <2> HIDE DEF V
    <2> DEFINE S == [w.status EXCEPT !.hostReady = ready, !.repos = V]
    <2>2. S.repos = V
      BY DEF Shape, StatusKeys
    <2>3. step \in Steps
      BY DEF Steps
    <2> HIDE DEF S
    <2> QED BY <2>1, <2>2, <2>3, WaitContinue DEF S
  <1>4. w.spec.first \in Repos /\ Listed(w.spec.repos)
    BY <1>2 DEF TruthInv, FilesListed
  <1>5. /\ volumes \in Nat /\ DOMAIN volume = Repos /\ \A r \in claims : w.spec.repos[r].kind = "volume"
        /\ \A r \in Repos : volume[r] \in 0..volumes /\ (volume[r] # 0 => r \in claims)
    BY <1>2 DEF TruthInv, Numbered
  <1>6. Numbered'
    BY <1>1, <1>2, <1>3, <1>5 DEF Numbered
  <1>7. ASSUME NEW r \in Repos
        PROVE  /\ Truth(V[r], r, volume[r], volumes, stanzas, backups, replaced, mistaken)
               /\ V[r].known => /\ V[r].volume = volume[r] /\ V[r].hash = w.spec.repos[r].bucket
                                /\ w.spec.repos[r].kind # "none"
    <2>1. V[r] = NoRepo \/ V[r] = RepoStatus(w.status.repos[r], r, volume[r])
      BY DEF VolumeStatus
    <2>2. Truth(w.status.repos[r], r, volume[r], volumes, stanzas, backups, replaced, mistaken)
      BY <1>2 DEF TruthInv, WorkTrue
    <2>3. /\ w.spec.repos[r].kind \in {"none", "volume", "cloud"}
          /\ w.spec.repos[r].bucket # None <=> w.spec.repos[r].kind = "cloud"
          /\ w.spec.repos[r].kind # "volume" => volume[r] = 0
      BY <1>4, <1>5, ListedKinds
    <2>4. LET t == RepoStatus(w.status.repos[r], r, volume[r])
          IN  /\ Truth(t, r, volume[r], volumes, stanzas, backups, replaced, mistaken)
              /\ t.known => /\ t.volume = volume[r] /\ t.hash = w.spec.repos[r].bucket
                            /\ w.spec.repos[r].kind # "none"
      BY <1>5, <2>2, <2>3, RepoStatusTrue
    <2> HIDE DEF V
    <2> QED BY <1>5, <2>1, <2>4, NoRepoTrue
  <1>8. DOMAIN V = Repos
    BY DEF VolumeStatus
  <1> HIDE DEF V
  <1>9. StatusTrue' /\ WorkTrue'
    BY <1>2, <1>3, <1>7, <1>8 DEF TruthInv, StatusTrue, WorkTrue
  <1>10. NeitherNamed' /\ WorkFits'
    BY <1>2, <1>3, <1>7 DEF NeitherNamed, Nameless, WorkFits
  <1>11. JobsTrue'
    BY <1>2, <1>3 DEF TruthInv, JobsTrue, JobTrue
  <1>12. FilesListed'
    BY <1>2, <1>3, <1>4 DEF TruthInv, FilesListed
  <1> QED BY <1>6, <1>9, <1>10, <1>11, <1>12 DEF TruthInv

\* A step of the reconcile that leaves volumes and files alone.
TruthMovesOn ==
    /\ UNCHANGED <<spec, status, claims, config, volume, mounted, backups, volumes, replaced>>
    /\ stanzas \subseteq stanzas' /\ mistaken \subseteq mistaken'
    /\ w.at # "idle" /\ w'.at \notin {"idle", "repos"} /\ w'.spec = w.spec /\ w'.replicaJob = w.replicaJob
    /\ w'.at \in Later => w.at \in Later
    /\ DOMAIN replicaJob' = ReplicaKeys /\ (replicaJob' = replicaJob \/ replicaJob'.state # "complete")
    /\ DOMAIN w'.status.repos = Repos
    /\ \A r \in Repos :
          LET x == w.status.repos[r]  y == w'.status.repos[r]
          IN  /\ y.known = x.known /\ y.volume = x.volume /\ y.hash = x.hash
              /\ Truth(y, r, volume[r], volumes, stanzas', backups, replaced, mistaken')

LEMMA TruthMovesOnStep ==
    ASSUME TruthInv, TruthMovesOn
    PROVE  TruthInv'
  <1>1. FilesListed' /\ Numbered'
    BY DEF TruthMovesOn, TruthInv, FilesListed, Numbered
  <1>2. NeitherNamed' /\ WorkFits'
    BY DEF TruthMovesOn, TruthInv, NeitherNamed, Nameless, WorkFits
  <1>3. volumes \in Nat
    BY DEF TruthInv, Numbered
  <1>4. \A r \in Repos : \A x :
           Truth(x, r, volume[r], volumes, stanzas, backups, replaced, mistaken) =>
           Truth(x, r, volume[r], volumes, stanzas', backups, replaced, mistaken')
    BY <1>3, TruthStays DEF TruthMovesOn
  <1>5. StatusTrue'
    BY <1>4 DEF TruthMovesOn, TruthInv, StatusTrue
  <1>6. WorkTrue'
    BY DEF TruthMovesOn, TruthInv, WorkTrue
  <1>7. JobsTrue'
    <2>1. \A r, hh, vol : Made(r, hh, vol, backups, replaced, mistaken)
                       => Made(r, hh, vol, backups, replaced, mistaken')
      BY MadeStays DEF TruthMovesOn
    <2> QED BY <2>1 DEF TruthMovesOn, TruthInv, JobsTrue, JobTrue
  <1> QED BY <1>1, <1>2, <1>5, <1>6, <1>7 DEF TruthInv

\* The same, for a step that changes nothing in what is known of repositories.
LEMMA TruthSameRepos ==
    ASSUME Shape, TruthInv, w.at # "idle", NEW step \in Steps \ {"idle", "repos"}, NEW st, Continue(step, st),
           step \in Later => w.at \in Later, st.repos = w.status.repos,
           UNCHANGED <<spec, status, claims, config, volume, mounted, stanzas, backups, volumes, replaced, mistaken>>,
           DOMAIN replicaJob' = ReplicaKeys, replicaJob' = replicaJob \/ replicaJob'.state # "complete"
    PROVE  TruthInv'
  <1>1. w'.at = step /\ w'.status = st /\ w'.spec = w.spec /\ w'.replicaJob = w.replicaJob
    BY WaitContinue
  <1>2. TruthMovesOn
    BY <1>1 DEF TruthInv, WorkTrue, TruthMovesOn
  <1> QED BY <1>2, TruthMovesOnStep

LEMMA TruthOther ==
    ASSUME Shape, TruthInv, ScheduledBackups \/ ManualBackup \/ CallFails
    PROVE  TruthInv'
  <1>1. UNCHANGED <<spec, status, claims, config, volume, mounted, stanzas, backups, volumes, replaced, mistaken,
                    replicaJob>>
    BY DEF ScheduledBackups, ManualBackup, CallFails, envVars, realVars, countVars, historyVars
  <1>2. DOMAIN w.status = StatusKeys /\ DOMAIN replicaJob = ReplicaKeys
    BY DEF Shape, TruthInv, JobsTrue
  <1>3. /\ WithRepoReady(w.status).repos = w.status.repos /\ WithReplicaCreate(w.status).repos = w.status.repos
        /\ ManualResult.repos = w.status.repos
    BY <1>2, WithFacts, ManualKeepsRepos
  <1>4. w.at # "idle" /\ \E step \in {"schedules", "replica", "manual", "patch"} :
           /\ \/ Continue(step, w.status) \/ Continue(step, WithRepoReady(w.status))
              \/ Continue(step, WithReplicaCreate(w.status)) \/ Continue(step, ManualResult)
           /\ step \in Later => w.at \in Later
    BY DEF ScheduledBackups, ManualBackup, CallFails, Later
  <1>5. {"schedules", "replica", "manual", "patch"} \subseteq Steps \ {"idle", "repos"}
    BY DEF Steps
  <1> QED BY <1>1, <1>2, <1>3, <1>4, <1>5, TruthSameRepos

LEMMA TruthStanza ==
    ASSUME Shape, TruthInv, StanzaCreate
    PROVE  TruthInv'
  <1>1. /\ UNCHANGED <<spec, status, claims, config, volume, mounted, backups, volumes, replaced, replicaJob>>
        /\ w.at = "stanza" /\ w.at \in Later
    BY DEF StanzaCreate, envVars, countVars, Later
  <1>2. /\ DOMAIN w.status = StatusKeys /\ DOMAIN replicaJob = ReplicaKeys
        /\ DOMAIN w.status.repos = Repos
        /\ \A r \in Repos :
              Truth(w.status.repos[r], r, volume[r], volumes, stanzas, backups, replaced, mistaken)
    BY <1>1 DEF Shape, TruthInv, JobsTrue, WorkTrue
  <1> DEFINE R == [r \in Repos |-> [w.status.repos[r] EXCEPT !.stanza = w.status.repos[r].known]]
  <1> DEFINE S == [w.status EXCEPT !.repos = R]
  <1>3. \/ Continue("schedules", WithRepoReady(w.status)) /\ UNCHANGED <<stanzas, mistaken>>
        \/ /\ StanzaCreateOrUpgrade /\ Continue("schedules", WithRepoReady(S))
           /\ stanzas' = stanzas \cup {Location(mounted, volume, r) : r \in Reachable}
           /\ mistaken' = mistaken \cup PassingFiles
    BY Zenon DEF StanzaCreate
  <1>4. ASSUME Continue("schedules", WithRepoReady(w.status)), UNCHANGED <<stanzas, mistaken>>
        PROVE  TruthInv'
    <2>1. WithRepoReady(w.status).repos = w.status.repos
      BY <1>2, WithFacts
    <2>2. "schedules" \in Steps \ {"idle", "repos"}
      BY DEF Steps
    <2> QED BY <1>1, <1>2, <1>4, <2>1, <2>2, TruthSameRepos
  <1>5. ASSUME StanzaCreateOrUpgrade, Continue("schedules", WithRepoReady(S)),
               stanzas' = stanzas \cup {Location(mounted, volume, r) : r \in Reachable},
               mistaken' = mistaken \cup PassingFiles
        PROVE  TruthInv'
    <2>1. ASSUME NEW r \in Repos
          PROVE  LET x == w.status.repos[r]
                 IN  /\ R[r].known = x.known /\ R[r].volume = x.volume /\ R[r].hash = x.hash
                     /\ Truth(R[r], r, volume[r], volumes, stanzas', backups, replaced, mistaken')
      <3> DEFINE x == w.status.repos[r]
      <3> DEFINE y == [x EXCEPT !.stanza = x.known]
      <3>1. R[r] = y
        OBVIOUS
      <3>2. Truth(x, r, volume[r], volumes, stanzas, backups, replaced, mistaken) /\ DOMAIN x = RepoKeys
        BY <1>2 DEF Truth, InForm
      <3>3. Listed(mounted)
        BY DEF TruthInv, FilesListed
      <3>4. x.known => /\ w.spec.repos[r].kind # "none" /\ x.hash = w.spec.repos[r].bucket
                       /\ x.volume # 0 => volume[r] = x.volume \/ volume[r] = 0
        BY <1>1 DEF TruthInv, WorkFits
      <3>5. ASSUME x.known, r \notin mistaken'
            PROVE  mounted[r].kind = w.spec.repos[r].kind /\ mounted[r].bucket = w.spec.repos[r].bucket
        BY <1>5, <3>5 DEF PassingFiles, Known, StanzaCreateOrUpgrade
      <3>6. mounted[r].kind # "none" => r \in Reachable
        BY <1>5 DEF StanzaCreateOrUpgrade
      <3> HIDE DEF x
      <3>7. /\ DOMAIN y = RepoKeys /\ y.known = x.known /\ y.volume = x.volume /\ y.hash = x.hash
            /\ y.complete = x.complete /\ y.stanza = x.known
        BY <3>2 DEF RepoKeys
      <3> HIDE DEF y
      <3>8. InForm(y, volumes)
        BY <3>2, <3>7 DEF Truth, InForm
      <3>9. y.complete => r \in mistaken' \/ (y.hash = None /\ r \in replaced) \/ InUse(y, r, volume[r], backups)
        BY <1>5, <3>2, <3>7 DEF Truth, InUse, Used, Nameless
      <3>10. y.stanza => r \in mistaken' \/ InUse(y, r, volume[r], stanzas')
        <4> SUFFICES ASSUME x.known, r \notin mistaken'
                     PROVE  InUse(y, r, volume[r], stanzas')
          BY <3>7
        <4>1. mounted[r].kind # "none" /\ x.hash = mounted[r].bucket
          BY <3>4, <3>5
        <4>2. r \in Reachable
          BY <3>6, <4>1
        <4>3. /\ mounted[r].bucket = None => volume[r] # 0
              /\ Location(mounted, volume, r) =
                   Place(r, mounted[r].bucket, IF mounted[r].bucket = None THEN volume[r] ELSE 0)
          BY <3>3, <4>2, LocationIsPlace
        <4>4. x.hash # None => x.volume = 0
          BY <3>2 DEF Truth, InForm
        <4>5. Used(y, volume[r]) = IF mounted[r].bucket = None THEN volume[r] ELSE 0
          BY <3>4, <3>7, <4>1, <4>3, <4>4 DEF Used, Nameless
        <4>6. Place(r, y.hash, Used(y, volume[r])) \in stanzas'
          BY <1>5, <3>7, <4>1, <4>2, <4>3, <4>5
        <4> QED BY <3>7, <4>1, <4>3, <4>5, <4>6 DEF InUse
      <3> QED BY <3>1, <3>7, <3>8, <3>9, <3>10 DEF Truth, x
    <2>2. DOMAIN R = Repos
      OBVIOUS
    <2> HIDE DEF R
    <2>3. DOMAIN S = StatusKeys /\ S.repos = R
      BY <1>2 DEF StatusKeys
    <2> HIDE DEF S
    <2>4. WithRepoReady(S).repos = R
      BY <2>3, WithFacts
    <2>5. /\ w'.at = "schedules" /\ w'.status = WithRepoReady(S) /\ w'.spec = w.spec
          /\ w'.replicaJob = w.replicaJob
      BY <1>5, WaitContinue DEF Steps
    <2>6. TruthMovesOn
      BY <1>1, <1>2, <1>5, <2>1, <2>2, <2>4, <2>5 DEF TruthMovesOn
    <2> QED BY <2>6, TruthMovesOnStep
  <1> HIDE DEF S, R
  <1> QED BY <1>3, <1>4, <1>5

LEMMA TruthReplica ==
    ASSUME HashTells, Shape, TruthInv, ReplicaCreateBackup
    PROVE  TruthInv'
  <1> DEFINE f == w.spec.first
  <1> DEFINE R == [w.status.repos EXCEPT ![f] = [w.status.repos[f] EXCEPT !.complete = TRUE]]
  <1> DEFINE S == [w.status EXCEPT !.repos = R]
  <1>1. /\ UNCHANGED <<spec, status, claims, config, volume, mounted, stanzas, backups, volumes, replaced, mistaken>>
        /\ w.at = "replica" /\ w.at \in Later
    BY DEF ReplicaCreateBackup, envVars, realVars, countVars, historyVars, Later
  <1>2. /\ DOMAIN w.status = StatusKeys /\ DOMAIN replicaJob = ReplicaKeys
        /\ DOMAIN w.status.repos = Repos /\ f \in Repos /\ Listed(w.spec.repos)
        /\ \A r \in Repos :
              Truth(w.status.repos[r], r, volume[r], volumes, stanzas, backups, replaced, mistaken)
    BY <1>1 DEF Shape, TruthInv, JobsTrue, WorkTrue, FilesListed
  <1>3. \/ /\ Continue("manual", WithReplicaCreate(w.status))
           /\ replicaJob' = replicaJob \/ replicaJob' = NoReplica \/ replicaJob' = ReplicaJobIntent
        \/ /\ Continue("manual", WithReplicaCreate(S)) /\ UNCHANGED replicaJob
           /\ w.status.repos[f].known /\ jobCompleted(w.replicaJob)
           /\ ~ (w.replicaJob # NoReplica /\ ReplicaJobOutdated)
    BY Zenon DEF ReplicaCreateBackup
  <1>4. ASSUME Continue("manual", WithReplicaCreate(w.status)),
               replicaJob' = replicaJob \/ replicaJob' = NoReplica \/ replicaJob' = ReplicaJobIntent
        PROVE  TruthInv'
    <2>1. WithReplicaCreate(w.status).repos = w.status.repos
      BY <1>2, WithFacts
    <2>2. "manual" \in Steps \ {"idle", "repos"} /\ "manual" \notin Later
      BY DEF Steps, Later
    <2>3. DOMAIN ReplicaJobIntent = ReplicaKeys /\ ReplicaJobIntent.state # "complete"
      BY DEF ReplicaJobIntent, ReplicaKeys
    <2>4. DOMAIN replicaJob' = ReplicaKeys /\ (replicaJob' = replicaJob \/ replicaJob'.state # "complete")
      BY <1>2, <1>4, <2>3, WaitIdle
    <2> QED BY <1>1, <1>4, <2>1, <2>2, <2>4, TruthSameRepos
  <1>5. ASSUME Continue("manual", WithReplicaCreate(S)), UNCHANGED replicaJob,
               w.status.repos[f].known, jobCompleted(w.replicaJob),
               ~ (w.replicaJob # NoReplica /\ ReplicaJobOutdated)
        PROVE  TruthInv'
    <2>1. w.replicaJob.state = "complete"
      BY <1>5 DEF jobCompleted
    <2>2. w.replicaJob.repo = f /\ w.replicaJob.hash = ConfigHash(w.spec.repos)
      <3>1. w.replicaJob # NoReplica
        BY <2>1, WaitIdle
      <3> QED BY <1>5, <3>1 DEF ReplicaJobOutdated
    <2>3. f \in mistaken \/ BackedUp(w.spec.repos[f].bucket, f, volume[f], backups, replaced)
      <3>1. Made(f, ConfigHash(w.spec.repos), volume[f], backups, replaced, mistaken)
        BY <1>1, <2>1, <2>2 DEF TruthInv, JobsTrue, JobTrue
      <3>2. PICK own \in RepoChoices : w.spec.repos = own.repos
        BY <1>2 DEF Listed
      <3> SUFFICES ASSUME NEW ch \in RepoChoices, ConfigHash(ch.repos) = ConfigHash(w.spec.repos),
                          BackedUp(ch.repos[f].bucket, f, volume[f], backups, replaced)
                   PROVE  BackedUp(w.spec.repos[f].bucket, f, volume[f], backups, replaced)
        BY <3>1 DEF Made
      <3>3. ch.repos[f].bucket = own.repos[f].bucket
        BY <1>2, <3>2 DEF HashTells
      <3> QED BY <3>2, <3>3
    <2>4. ASSUME NEW r \in Repos
          PROVE  LET x == w.status.repos[r]
                 IN  /\ R[r].known = x.known /\ R[r].volume = x.volume /\ R[r].hash = x.hash
                     /\ Truth(R[r], r, volume[r], volumes, stanzas, backups, replaced, mistaken)
      <3> DEFINE x == w.status.repos[r]
      <3> DEFINE y == [x EXCEPT !.complete = TRUE]
      <3>1. R[r] = IF r = f THEN y ELSE x
        BY <1>2
      <3>2. Truth(x, r, volume[r], volumes, stanzas, backups, replaced, mistaken) /\ DOMAIN x = RepoKeys
        BY <1>2 DEF Truth, InForm
      <3>3. r = f => /\ x.known /\ x.hash = w.spec.repos[f].bucket
                     /\ x.volume # 0 => volume[r] = x.volume \/ volume[r] = 0
        BY <1>1, <1>5 DEF TruthInv, WorkFits
      <3> HIDE DEF x
      <3>4. /\ DOMAIN y = RepoKeys /\ y.known = x.known /\ y.volume = x.volume /\ y.hash = x.hash
            /\ y.stanza = x.stanza
        BY <3>2 DEF RepoKeys
      <3> HIDE DEF y, f
      <3>5. r = f => Truth(y, r, volume[r], volumes, stanzas, backups, replaced, mistaken)
        <4> SUFFICES ASSUME r = f PROVE Truth(y, r, volume[r], volumes, stanzas, backups, replaced, mistaken)
          OBVIOUS
        <4>1. InForm(y, volumes) /\ (y.stanza => r \in mistaken \/ InUse(y, r, volume[r], stanzas))
          BY <3>2, <3>3, <3>4 DEF Truth, InForm, InUse, Used, Nameless
        <4>2. r \in mistaken \/ (y.hash = None /\ r \in replaced) \/ InUse(y, r, volume[r], backups)
          BY <2>3, <3>3, <3>4, <4>1 DEF BackedUp, InForm, InUse, Used, Nameless
        <4> QED BY <4>1, <4>2 DEF Truth
      <3>6. /\ R[r].known = x.known /\ R[r].volume = x.volume /\ R[r].hash = x.hash
            /\ Truth(R[r], r, volume[r], volumes, stanzas, backups, replaced, mistaken)
        BY <3>1, <3>2, <3>4, <3>5
      <3> QED BY <3>6 DEF x
    <2>5. DOMAIN R = Repos
      BY <1>2
    <2> HIDE DEF R
    <2>6. DOMAIN S = StatusKeys /\ S.repos = R
      BY <1>2 DEF StatusKeys
    <2> HIDE DEF S
    <2>7. WithReplicaCreate(S).repos = R
      BY <2>6, WithFacts
    <2>8. /\ w'.at = "manual" /\ w'.status = WithReplicaCreate(S) /\ w'.spec = w.spec
          /\ w'.replicaJob = w.replicaJob
      BY <1>5, WaitContinue DEF Steps
    <2>9. TruthMovesOn
      BY <1>1, <1>2, <1>5, <2>4, <2>5, <2>7, <2>8 DEF TruthMovesOn, Later
    <2> QED BY <2>9, TruthMovesOnStep
  <1> HIDE DEF S, R, f
  <1> QED BY <1>3, <1>4, <1>5

LEMMA TruthEnd ==
    ASSUME TruthInv, PatchStatus \/ Crash
    PROVE  TruthInv'
  <1>1. /\ UNCHANGED <<spec, claims, config, volume, mounted, stanzas, backups, volumes, replaced, mistaken, replicaJob>>
        /\ w' = Idle /\ (status' = status \/ (status' = w.status /\ w.at # "idle"))
    BY DEF PatchStatus, Crash, envVars, realVars, countVars, historyVars
  <1>2. w'.at = "idle"
    BY <1>1, WaitIdle
  <1>3. StatusTrue'
    BY <1>1 DEF TruthInv, StatusTrue, WorkTrue
  <1> QED BY <1>1, <1>2, <1>3 DEF TruthInv, FilesListed, Numbered, WorkTrue, NeitherNamed, WorkFits, Later,
            JobsTrue, JobTrue

LEMMA TruthStep == HashTells /\ Shape /\ TruthInv /\ [Next]_vars => TruthInv'
  <1> SUFFICES ASSUME HashTells, Shape, TruthInv, [Next]_vars PROVE TruthInv'
    OBVIOUS
  <1>1. \/ EditRepos \/ EditShutdown \/ Elect \/ LoseLeader \/ HostStarts \/ Propagate
        \/ RunManualJob \/ ExpireManualJob \/ RequestBackup \/ UNCHANGED vars
        \/ (\E r \in Repos : Bind(r)) \/ (\E r \in Repos : ReplaceVolume(r)) \/ RunReplicaJob
        \/ ReposReconciled \/ ClaimsRefused \/ ConfigFails \/ ReposFail \/ StanzaCreate \/ ScheduledBackups
        \/ ReplicaCreateBackup \/ ManualBackup \/ CallFails
        \/ GetResources \/ PatchStatus \/ Crash
    BY DEF Next, Operator, User, Environment
  <1> QED BY <1>1, TruthElsewhere, TruthBind, TruthReplace, TruthRun, TruthOutside, TruthRepos, TruthStanza,
        TruthOther, TruthReplica, TruthGet, TruthEnd

\* What the status says of stanzas and of the backup for replicas is true of the bucket or
\* volume it names (getRepoVolumeStatus, reconcileStanzaCreate,
\* reconcileReplicaCreateBackup) for any number of repositories and of faults and for any
\* edits, also those that add, remove and exchange repositories and those the hash of the
\* external ones does not show, with the exceptions that RepoStatusTruthful states.  Only
\* lists that have the same buckets under other names are left out, which the Job for
\* replicas cannot tell apart.
THEOREM RepoStatusIsTruthful == ASSUME HashTells PROVE Spec => []RepoStatusTruthful
  <1>1. TruthInv => RepoStatusTruthful
    <2> SUFFICES ASSUME TruthInv, NEW r \in Repos \ mistaken
                 PROVE  /\ status.repos[r].stanza => Recorded(r, stanzas)
                        /\ status.repos[r].complete =>
                             Recorded(r, backups) \/ (r \in replaced /\ status.repos[r].hash = None)
      BY DEF RepoStatusTruthful
    <2> DEFINE x == status.repos[r]
    <2>1. Truth(x, r, volume[r], volumes, stanzas, backups, replaced, mistaken)
      BY DEF TruthInv, StatusTrue
    <2>2. ASSUME NEW ls, InUse(x, r, volume[r], ls)
          PROVE  Recorded(r, ls)
      <3> DEFINE l == Place(r, x.hash, Used(x, volume[r]))
      <3>1. l.repo = r /\ l.bucket = x.hash /\ l.volume = Used(x, volume[r])
        BY DEF Place
      <3>2. l \in ls /\ x.volume \in {0, Used(x, volume[r])}
        BY <2>2 DEF InUse, Used, Nameless
      <3> HIDE DEF l
      <3> QED BY <3>1, <3>2 DEF Recorded
    <2> QED BY <2>1, <2>2 DEF Truth
  <1>2. Init => TruthInv
    BY TruthInit
  <1>3. Shape /\ TruthInv /\ [Next]_vars => TruthInv'
    BY TruthStep
  <1> QED BY <1>1, <1>2, <1>3, ManualInit, ManualInvStep, PTL DEF Spec
=============================================================================
