-------------------------- MODULE PatroniSwitchover --------------------------
(***************************************************************************)
(* The switchover a user asks for with an annotation of the PostgresCluster:*)
(* reconcilePatroniSwitchover (internal/controller/postgrescluster/        *)
(* patroni.go), called from every Reconcile, and the patronictl commands   *)
(* it runs (internal/patroni/api.go).                                      *)
(*                                                                         *)
(* The operator must not switch over twice for one request.  It records    *)
(* PostgreSQL's timeline, which every change of primary increments, in the *)
(* status of the cluster before it acts, and takes a timeline that differs *)
(* from the recorded one for a switchover it has done already.  The status *)
(* is written at the end of a reconcile and read, possibly stale, at the   *)
(* beginning of the next.                                                  *)
(***************************************************************************)
EXTENDS Integers, FiniteSets, Sequences

CONSTANTS
    Members,            \* instances, each with one Pod
    Types,              \* subset of {"Switchover", "Failover"} the user may ask for
    Targets,            \* members the user may name, and None for no target
    MaxEdits,           \* bound on requests and other edits by the user
    MaxTimeline,        \* bound on changes of primary
    MaxFailovers,       \* bound on leaders lost by accident
    MaxStops,           \* bound on Pods that stop running
    MaxCrashes,         \* bound on operator crashes and failing calls
    CommandsOutlive,    \* whether a patronictl may go on without its caller
    OtherCandidate,     \* whether Patroni may elect another than the candidate
    MaxLag,             \* bound on the versions the cache may be behind
    None

ASSUME SwitchoverAssumption ==
    /\ IsFiniteSet(Members) /\ Cardinality(Members) > 1
    /\ None \notin Members
    /\ Types \subseteq {"Switchover", "Failover"}
    /\ Targets \subseteq Members \cup {None}
    /\ CommandsOutlive \in BOOLEAN /\ OtherCandidate \in BOOLEAN
ASSUME SwitchoverBounds ==
    /\ MaxEdits \in Nat /\ MaxTimeline \in Nat \ {0} /\ MaxFailovers \in Nat
    /\ MaxStops \in Nat /\ MaxCrashes \in Nat /\ MaxLag \in Nat

VARIABLES
    cluster,        \* the PostgresCluster: the request and its status
    past,           \* its older versions that the cache may still show, oldest first
    leader,         \* the holder of Patroni's leader lock
    timeline,       \* PostgreSQL's timeline
    up,             \* members whose Pod is running
    order,          \* the switchover Patroni has been told to do
    pc,             \* where the reconcile in flight is
    read,           \* the PostgresCluster it read from the cache
    intent,         \* the status it will write
    edits, failovers, stops, crashes,
    overtaken,      \* history: the operator has read an edit without the status it had
                    \* written meanwhile
    done            \* history: the changes of primary made for each request, with
                    \* the winner, the new timeline and the target of the order

faultVars == <<failovers, stops, crashes>>
vars == <<cluster, past, leader, timeline, up, order, pc, read, intent, edits, faultVars, overtaken, done>>

\* The annotation naming.PatroniSwitchover; zero is the empty string.  A user
\* who wants another switchover chooses a new value.
Triggers == 0..MaxEdits

\* status.patroni: Switchover, and SwitchoverTimeline, zero when nil.
Status  == [switchover : Triggers, timeline : 0..MaxTimeline]
Request == [trigger : Triggers, enabled : BOOLEAN, type : {"Switchover", "Failover"},
            target : Members \cup {None}]
Cluster == [request : Request, status : Status]

NoStatus == [switchover |-> 0, timeline |-> 0]
NoOrder  == [trigger |-> 0, target |-> None]

TypeOK ==
    /\ cluster \in Cluster
    /\ past \in Seq(Cluster) /\ Len(past) <= MaxLag
    /\ leader \in Members \cup {None}
    /\ timeline \in 1..MaxTimeline
    /\ up \in SUBSET Members
    /\ order \in [trigger : Triggers, target : Members \cup {None}]
    /\ pc \in {"idle", "timeline", "command", "wait", "patch"}
    /\ read \in Cluster
    /\ intent \in Status
    /\ edits \in 0..MaxEdits /\ failovers \in 0..MaxFailovers
    /\ stops \in 0..MaxStops /\ crashes \in 0..MaxCrashes
    /\ overtaken \in BOOLEAN
    /\ done \in [Triggers -> SUBSET (Members \X (1..MaxTimeline) \X (Members \cup {None}))]

Init ==
    /\ cluster = [request |-> [trigger |-> 0, enabled |-> TRUE, type |-> "Switchover",
                               target |-> None],
                  status |-> NoStatus]
    /\ past = <<>>
    /\ leader \in Members
    /\ timeline = 1
    /\ up = Members
    /\ order = NoOrder
    /\ pc = "idle" /\ read = cluster /\ intent = NoStatus
    /\ edits = 0 /\ failovers = 0 /\ stops = 0 /\ crashes = 0
    /\ overtaken = FALSE
    /\ done = [t \in Triggers |-> {}]

\* A write of the PostgresCluster makes a new version, unless it changes nothing;
\* the cache sees it later.
Write(c) ==
    /\ cluster' = c
    /\ past' = IF c = cluster THEN past
               ELSE IF Len(past) < MaxLag THEN Append(past, cluster)
               ELSE IF MaxLag = 0 THEN <<>>
               ELSE Append(Tail(past), cluster)

-----------------------------------------------------------------------------
(* reconcilePatroniSwitchover.                                             *)

\* The prerequisites that end it with an error: a failover without a target, a
\* target without a Pod, no running Pod to execute in.
Possible(request, listed) ==
    /\ request.type = "Failover" => request.target # None
    /\ request.target \in listed \cup {None}
    /\ up # {}

\* Reconcile returns at once when there is nothing to do.  A member that is not
\* running may or may not have a Pod.
BeginWith(c) ==
    /\ pc = "idle"
    /\ read' = c
    /\ \/ /\ ~ c.request.enabled
          /\ intent' = NoStatus /\ pc' = "patch"
       \/ /\ c.request.enabled
          /\ c.request.trigger \in {0, c.status.switchover}
          /\ intent' = [c.status EXCEPT !.timeline = 0] /\ pc' = "patch"
       \/ /\ c.request.enabled
          /\ c.request.trigger \notin {0, c.status.switchover}
          /\ intent' = c.status
          /\ \E listed \in SUBSET Members :
                /\ up \subseteq listed
                /\ pc' = IF Possible(c.request, listed) THEN "timeline" ELSE "patch"
    /\ UNCHANGED <<cluster, leader, timeline, up, order, edits, faultVars, done>>

\* No status has been written since the i-th version the cache may show.
StatusSeen(i) == \A j \in i..Len(past) : past[j].status = cluster.status

\* It reads the cluster from a cache that shows the last version or one before
\* it, and never goes back: the user's edit may be seen before the operator's own
\* last write.
BeginFresh == BeginWith(cluster) /\ past' = <<>> /\ UNCHANGED overtaken

BeginLagging ==
    \E i \in DOMAIN past :
        /\ BeginWith(past[i])
        /\ past' = SubSeq(past, i, Len(past))
        /\ overtaken' = (overtaken \/ (past[i] # read /\ ~ StatusSeen(i)))

Begin == BeginFresh \/ BeginLagging

Ended(status) == intent' = status /\ pc' = "patch"

Succeeded == [switchover |-> read.request.trigger, timeline |-> 0]

\* Executor.GetTimeline asks for the timeline of a running leader.
TimelineKnown == leader \in up

GetTimelineFails ==
    /\ pc = "timeline"
    /\ ~ TimelineKnown
    /\ Ended(intent)
    /\ UNCHANGED <<cluster, past, leader, timeline, up, order, read, edits, faultVars, overtaken, done>>

\* Mutant: the timeline is never recorded.
NotRecordedMutant ==
    /\ pc = "timeline"
    /\ TimelineKnown
    /\ read.status.timeline = 0
    /\ Ended(intent)
    /\ UNCHANGED <<cluster, past, leader, timeline, up, order, read, edits, faultVars, overtaken, done>>

\* The first reconcile after a request records the timeline.
RecordTimeline ==
    /\ pc = "timeline"
    /\ TimelineKnown
    /\ read.status.timeline = 0
    /\ Ended([read.status EXCEPT !.timeline = timeline])
    /\ UNCHANGED <<cluster, past, leader, timeline, up, order, read, edits, faultVars, overtaken, done>>

\* A recorded timeline that differs is taken for a switchover already done.
AssumeCompleted ==
    /\ pc = "timeline"
    /\ TimelineKnown
    /\ read.status.timeline \notin {0, timeline}
    /\ Ended(Succeeded)
    /\ UNCHANGED <<cluster, past, leader, timeline, up, order, read, edits, faultVars, overtaken, done>>

\* Mutant: the recorded timeline is not compared.
NotComparedMutant ==
    /\ pc = "timeline"
    /\ TimelineKnown
    /\ read.status.timeline # 0
    /\ pc' = "command"
    /\ UNCHANGED <<cluster, past, leader, timeline, up, order, read, intent, edits, faultVars, overtaken, done>>

Proceed ==
    /\ pc = "timeline"
    /\ TimelineKnown
    /\ read.status.timeline = timeline
    /\ pc' = "command"
    /\ UNCHANGED <<cluster, past, leader, timeline, up, order, read, intent, edits, faultVars, overtaken, done>>

\* patronictl accepts a candidate that is a running replica and, without one,
\* any cluster that has a running replica.  A switchover needs a leader.
Accepted(request) ==
    /\ request.type = "Switchover" => leader # None
    /\ IF request.target = None THEN up \ {leader} # {} ELSE request.target \in up \ {leader}

\* patronictl switchover or failover: Patroni is told what to do, once.
RunCommand ==
    /\ pc = "command"
    /\ Accepted(read.request)
    /\ order' = [trigger |-> read.request.trigger, target |-> read.request.target]
    /\ pc' = "wait"
    /\ UNCHANGED <<cluster, past, leader, timeline, up, read, intent, edits, faultVars, overtaken, done>>

\* Mutant: the exit code zero is taken for success.
ExitZeroMutant ==
    /\ pc = "command"
    /\ ~ Accepted(read.request)
    /\ Ended(Succeeded)
    /\ UNCHANGED <<cluster, past, leader, timeline, up, order, read, edits, faultVars, overtaken, done>>

\* It exits zero when it is refused, without the text "switched over".
CommandRefused ==
    /\ pc = "command"
    /\ ~ Accepted(read.request)
    /\ Ended(intent)
    /\ UNCHANGED <<cluster, past, leader, timeline, up, order, read, edits, faultVars, overtaken, done>>

\* The caller waits for the election, and is told whether the candidate won: a
\* different winner makes "Switched over" of "switched over".
Reply(won) ==
    pc' = "patch" /\ intent' = IF won THEN Succeeded ELSE intent

\* patchClusterStatus sends what differs from the status that was read.
Patched(field) ==
    IF intent[field] # read.status[field] THEN intent[field] ELSE cluster.status[field]

PatchStatus ==
    /\ pc = "patch"
    /\ Write([cluster EXCEPT !.status = [switchover |-> Patched("switchover"),
                                         timeline   |-> Patched("timeline")]])
    /\ pc' = "idle" /\ intent' = NoStatus
    /\ UNCHANGED <<leader, timeline, up, order, read, edits, faultVars, overtaken, done>>

\* A call fails or the operator crashes.  While patronictl runs this leaves the
\* order behind.
Crash ==
    /\ pc # "idle"
    /\ pc = "wait" => CommandsOutlive
    /\ crashes < MaxCrashes
    /\ crashes' = crashes + 1
    /\ pc' = "idle" /\ intent' = NoStatus
    /\ UNCHANGED <<cluster, past, leader, timeline, up, order, read, edits, failovers, stops, overtaken, done>>

-----------------------------------------------------------------------------
(* Patroni and Kubernetes.                                                 *)

\* Patroni carries out its order, and answers when somebody still waits.
Elect(m) ==
    /\ order # NoOrder
    /\ timeline < MaxTimeline
    /\ m \in up \ {leader}
    /\ order.target \in {None, m} \/ OtherCandidate
    /\ leader' = m
    /\ timeline' = timeline + 1
    /\ done' = [done EXCEPT ![order.trigger] = @ \cup {<<m, timeline + 1, order.target>>}]
    /\ order' = NoOrder
    /\ IF pc = "wait" THEN Reply(order.target \in {None, m}) ELSE UNCHANGED <<pc, intent>>
    /\ UNCHANGED <<cluster, past, up, read, edits, faultVars, overtaken>>

\* No candidate is left: the order is dropped.
Abandon ==
    /\ order # NoOrder
    /\ \A m \in up \ {leader} : order.target \notin {None, m}
    /\ order' = NoOrder
    /\ IF pc = "wait" THEN Reply(FALSE) ELSE UNCHANGED <<pc, intent>>
    /\ UNCHANGED <<cluster, past, leader, timeline, up, read, edits, faultVars, overtaken, done>>

\* The leader loses its lock; Patroni elects another if it finds one fit.
LoseLeader ==
    /\ leader # None
    /\ failovers < MaxFailovers
    /\ failovers' = failovers + 1
    /\ leader' = None
    /\ UNCHANGED <<cluster, past, timeline, up, order, pc, read, intent, edits, stops, crashes, overtaken, done>>

ElectOnItsOwn(m) ==
    /\ leader = None
    /\ order = NoOrder
    /\ timeline < MaxTimeline
    /\ m \in up
    /\ leader' = m
    /\ timeline' = timeline + 1
    /\ UNCHANGED <<cluster, past, up, order, pc, read, intent, edits, faultVars, overtaken, done>>

StopMember(m) ==
    /\ m \in up
    /\ stops < MaxStops
    /\ stops' = stops + 1
    /\ up' = up \ {m}
    /\ UNCHANGED <<cluster, past, leader, timeline, order, pc, read, intent, edits, failovers,
                   crashes, overtaken, done>>

StartMember(m) ==
    /\ m \notin up
    /\ up' = up \cup {m}
    /\ UNCHANGED <<cluster, past, leader, timeline, order, pc, read, intent, edits, faultVars, overtaken, done>>

-----------------------------------------------------------------------------
(* The user.                                                               *)

Edit(request) ==
    /\ edits < MaxEdits
    /\ edits' = edits + 1
    /\ Write([cluster EXCEPT !.request = request])
    /\ UNCHANGED <<leader, timeline, up, order, pc, read, intent, faultVars, overtaken, done>>

\* kubectl annotate ... trigger-switchover="$(date)"
Trigger(type, target) ==
    Edit([trigger |-> edits + 1, enabled |-> TRUE, type |-> type, target |-> target])

Disable == cluster.request.enabled /\ Edit([cluster.request EXCEPT !.enabled = FALSE])

-----------------------------------------------------------------------------
ReconcileStep ==
    \/ Begin
    \/ GetTimelineFails \/ RecordTimeline \/ AssumeCompleted \/ Proceed
    \/ RunCommand \/ CommandRefused
    \/ PatchStatus

PatroniStep == (\E m \in Members : Elect(m)) \/ Abandon

Next ==
    \/ ReconcileStep
    \/ PatroniStep
    \/ Crash
    \/ LoseLeader
    \/ \E m \in Members : ElectOnItsOwn(m) \/ StopMember(m) \/ StartMember(m)
    \/ \E type \in Types, target \in Targets : Trigger(type, target)
    \/ Disable

Spec == Init /\ [][Next]_vars

\* The operator reconciles again and again, from a cache that catches up every
\* now and then; Patroni does what it accepted, and Pods that stopped are
\* started again.  Nobody promises that Patroni finds a
\* replica it would promote on its own.
Fairness ==
    /\ WF_vars(ReconcileStep)
    /\ SF_vars(BeginFresh)
    /\ WF_vars(PatroniStep)
    /\ \A m \in Members : WF_vars(StartMember(m))

FairSpec == Spec /\ Fairness

-----------------------------------------------------------------------------
(* Properties.                                                             *)

\* One request makes the operator change the primary at most once, when the
\* operator crashes before it has noted the success or reads again the status it
\* has replaced.  An edit read before the operator's own last status refutes it:
\* the status then tells of another request.
AtMostOnce == overtaken \/ \A t \in Triggers : Cardinality(done[t]) <= 1

\* The primary was changed, to the target if one was named, for the request.
Served(request) ==
    \E d \in done[request.trigger] : request.target \in {None, d[1]}

\* Patroni has elected another member than the candidate it was told.
Diverted == \E t \in Triggers : \E d \in done[t] : d[3] \notin {None, d[1]}

\* status.patroni.switchover tells that the requested switchover has been
\* successful, unless the timeline moved for another reason: a leader was lost,
\* Patroni chose another candidate, the operator crashed before it noted the
\* success of the previous request, or a new request was read without that note.
StatusTruthful ==
    [][\A c \in {cluster'} :
          (/\ c.status.switchover # cluster.status.switchover
           /\ c.status.switchover = c.request.trigger
           /\ c.request.trigger # 0
           /\ failovers = 0 /\ crashes = 0 /\ ~ Diverted /\ ~ overtaken)
          => Served(c.request)]_vars

Handled ==
    \/ ~ cluster.request.enabled
    \/ cluster.request.trigger \in {0, cluster.status.switchover}

\* Every request the operator can serve is served in the end, and the status is
\* left without a recorded timeline, crashes and stale reads notwithstanding.
\* Without a leader nothing is promised.
RequestsHandled ==
    <>[](\/ Handled /\ cluster.status.timeline = 0
         \/ cluster.request.target = leader
         \/ cluster.request.type = "Failover" /\ cluster.request.target = None
         \/ leader = None)
=============================================================================
