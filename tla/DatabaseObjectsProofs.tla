------------------------ MODULE DatabaseObjectsProofs ------------------------
(***************************************************************************)
(* Proofs about DatabaseObjects for any user specifications, passwords,    *)
(* edits and faults.                                                       *)
(***************************************************************************)
EXTENDS DatabaseObjects, TLAPS

HashRecords == [Steps -> Hashes]
Pods == [state : {"absent", "starting", "running"}, exporter : BOOLEAN, image : {1, 2}]
Ops  == [pc : Stages, spec : SpecType \cup {<<>>}, pod : Pods, before : HashRecords,
         noted : HashRecords, secret : [Accounts -> Passwords], end : {"none", "error", "restore"}]

Types ==
    /\ spec \in SpecType /\ cached \in [spec : SpecType, status : HashRecords]
    /\ status \in HashRecords /\ db \in HashRecords
    /\ secrets \in [Accounts -> Passwords]
    /\ DOMAIN objects = {"proxy", "admin"} /\ objects \in [{"proxy", "admin"} -> SUBSET ObjectNames]
    /\ pod \in Pods /\ unsure \subseteq Steps
    /\ op \in Ops /\ (op.pc # "idle" => op.spec \in SpecType)

\* The places of the stages in the pipeline.
Place(pc) ==
    CASE pc = "idle" -> 1 [] pc = "source" -> 2 [] pc = "databases" -> 3 [] pc = "secrets" -> 4
      [] pc = "users" -> 5 [] pc = "admin" -> 6 [] pc = "bouncer" -> 7 [] pc = "proxy" -> 8
      [] pc = "exporter" -> 9 [] pc = "init" -> 10 [] pc = "pgadmin" -> 11 [] OTHER -> 12

LEMMA StageNames ==
    Stages = {"idle", "source", "databases", "secrets", "users", "admin", "bouncer", "proxy",
              "exporter", "init", "pgadmin", "patch"}
  <1>1. DOMAIN Pipeline = 1..12
    BY DEF Pipeline
  <1>2. /\ Pipeline[1] = "idle" /\ Pipeline[2] = "source" /\ Pipeline[3] = "databases"
        /\ Pipeline[4] = "secrets" /\ Pipeline[5] = "users" /\ Pipeline[6] = "admin"
        /\ Pipeline[7] = "bouncer" /\ Pipeline[8] = "proxy" /\ Pipeline[9] = "exporter"
        /\ Pipeline[10] = "init" /\ Pipeline[11] = "pgadmin" /\ Pipeline[12] = "patch"
    BY DEF Pipeline
  <1>3. \A k \in 1..12 : k = 1 \/ k = 2 \/ k = 3 \/ k = 4 \/ k = 5 \/ k = 6 \/ k = 7 \/ k = 8
                         \/ k = 9 \/ k = 10 \/ k = 11 \/ k = 12
    OBVIOUS
  <1> QED BY <1>1, <1>2, <1>3 DEF Stages

LEMMA StageOrder ==
    ASSUME NEW pc \in Stages, pc # "patch"
    PROVE  After(pc) \in Stages /\ Place(After(pc)) = Place(pc) + 1
  <1>1. DOMAIN Pipeline = 1..12
    BY DEF Pipeline
  <1>2. \A k \in 1..12 : Place(Pipeline[k]) = k
    BY DEF Pipeline, Place
  <1>3. PICK k \in 1..12 : Pipeline[k] = pc
    BY <1>1 DEF Stages
  <1>4. Place(pc) = k /\ k # 12
    BY <1>2, <1>3 DEF Pipeline, Place
  <1>5. (CHOOSE j \in DOMAIN Pipeline : Pipeline[j] = pc) = k
    BY <1>1, <1>2, <1>3
  <1>6. After(pc) = Pipeline[1 + k]
    BY <1>5, Zenon DEF After
  <1>7. 1 + k \in 1..12 /\ k \in Int
    BY <1>4
  <1> QED BY <1>1, <1>2, <1>4, <1>6, <1>7 DEF Stages

LEMMA Places ==
    /\ \A pc \in Stages : Place(pc) \in 1..12 /\ (Place(pc) = 1 <=> pc = "idle")
                                              /\ (Place(pc) = 12 <=> pc = "patch")
    /\ \A s \in Steps : s \in Stages /\ Place(s) \in 3..10
    /\ Place("idle") = 1 /\ Place("source") = 2 /\ Place("admin") = 6 /\ Place("pgadmin") = 11
    /\ Place("patch") = 12 /\ {"idle", "source", "patch", "pgadmin", "bouncer", "secrets"} \subseteq Stages
  BY StageNames DEF Place, Steps

LEMMA HashFacts ==
    /\ None \in Hashes /\ Off \in Hashes /\ Mixed \in Hashes
    /\ \A h \in Hashes : h[1] \in Int
    /\ NoHashes \in HashRecords /\ \A s \in Steps : NoHashes[s] = None
  <1>1. None \in Hashes /\ Off \in Hashes /\ Mixed \in Hashes
    BY DatabaseObjectsAssumption DEF None, Off, Mixed, Hashes
  <1>2. \A h \in Hashes : h[1] \in Int
    <2>1. Off[1] \in Int /\ Mixed[1] \in Int
      BY DEF Off, Mixed
    <2>2. \A u \in UserSpecs \cup {0, 1, 2} : u \in Int
      BY DatabaseObjectsAssumption
    <2>3. \A h \in (UserSpecs \cup {0, 1, 2}) \X Passwords : h[1] \in Int
      BY <2>2
    <2> QED BY <2>1, <2>3 DEF Hashes
  <1> QED BY <1>1, <1>2 DEF NoHashes, HashRecords

\* A password that is written is one.
LEMMA NewPasswordType ==
    ASSUME NEW a \in Accounts
    PROVE  NewPassword(a) \in Passwords \ {0}
  <1>1. \E n \in Passwords \ {0} : n \in InUse(a) => Passwords \subseteq InUse(a)
    <2>1. 0 \in InUse(a)
      BY DEF InUse
    <2>2. PICK n \in Passwords : n # 0
      BY DatabaseObjectsAssumption
    <2>3. CASE Passwords \subseteq InUse(a)
      BY <2>2, <2>3
    <2>4. CASE ~ (Passwords \subseteq InUse(a))
      BY <2>1, <2>4
    <2> QED BY <2>3, <2>4
  <1> QED BY <1>1 DEF NewPassword

LEMMA PasswordType ==
    ASSUME Types, NEW a \in Accounts, NEW wanted \in BOOLEAN
    PROVE  Password(a, wanted) \in Passwords /\ (wanted => Password(a, wanted) # 0)
  BY NewPasswordType, DatabaseObjectsAssumption DEF Password, Types

\* What a step wants to write is a hash, and its command leaves what fulfils it.
LEMMA RevisionType ==
    ASSUME Types, NEW s \in Steps, At(s)
    PROVE  Revision(s) \in Hashes
  <1>1. /\ op.spec \in SpecType /\ op.secret \in [Accounts -> Passwords] /\ op.pod.image \in {1, 2}
    BY Places DEF Types, Ops, At, Steps, Pods
  <1>2. /\ op.spec.users \in UserSpecs
        /\ \A a \in Accounts : op.secret[a] \in Passwords
        /\ 0 \in Passwords
    BY <1>1, DatabaseObjectsAssumption DEF SpecType
  <1>3. /\ <<op.spec.users, 0>> \in Hashes /\ <<op.spec.users, op.secret["user"]>> \in Hashes
        /\ <<1, op.secret["proxy"]>> \in Hashes /\ <<op.pod.image, op.secret["monitor"]>> \in Hashes
        /\ <<1, 0>> \in Hashes /\ None \in Hashes /\ Off \in Hashes
    BY <1>1, <1>2, HashFacts DEF Hashes, Accounts
  <1> QED BY <1>3 DEF Revision, WantedHash, Steps, CreateDatabasesInPostgreSQL, WriteUsersInPostgreSQL,
            WriteUsersInPGAdmin, EnableInPostgreSQL, DisableInPostgreSQL, EnableExporterInPostgreSQL,
            DisableExporterInPostgreSQL, InitSQL

LEMMA ContentsFulfil ==
    ASSUME Types, NEW s \in Steps, NEW h \in Hashes
    PROVE  Contents(s, h) \in Hashes /\ Fulfils(s, Contents(s, h), h)
  <1>1. db[s] \in Hashes /\ db[s][1] \in Int /\ h[1] \in Int
    BY HashFacts DEF Types, HashRecords
  <1>2. Contents(s, h) \in Hashes
    BY <1>1 DEF Contents
  <1>3. CASE s = "databases"
    BY <1>1, <1>3 DEF Contents, Fulfils
  <1>4. CASE s # "databases"
    BY <1>1, <1>4 DEF Contents, Fulfils, Steps
  <1> QED BY <1>2, <1>3, <1>4
-----------------------------------------------------------------------------
(* How a step moves the reconcile on.                                      *)

LEMMA GoEffect ==
    ASSUME Types, NEW n \in HashRecords, NEW sec \in [Accounts -> Passwords], Go(n, sec),
           op.pc # "idle", op.pc # "patch"
    PROVE  /\ op' \in Ops /\ op'.spec = op.spec /\ op'.spec \in SpecType /\ op'.pc # "idle"
           /\ op'.noted = n /\ op'.before = op.before /\ op'.end = op.end
           /\ op'.pc = After(op.pc) /\ Place(op'.pc) = Place(op.pc) + 1
  <1>1. op \in Ops /\ op.spec \in SpecType /\ op.pc \in Stages
    BY DEF Types, Ops
  <1>2. After(op.pc) \in Stages /\ Place(After(op.pc)) = Place(op.pc) + 1
    BY <1>1, StageOrder
  <1>3. op' = [op EXCEPT !.pc = After(op.pc), !.noted = n, !.secret = sec]
    BY DEF Go
  <1>4. op' \in Ops /\ op'.spec = op.spec /\ op'.noted = n /\ op'.before = op.before
        /\ op'.end = op.end /\ op'.pc = After(op.pc)
    BY <1>1, <1>2, <1>3 DEF Ops
  <1>5. After(op.pc) # "idle"
    <2>1. Place(op.pc) \in 1..12 /\ Place("idle") = 1
      BY <1>1, Places
    <2> QED BY <1>2, <2>1
  <1> QED BY <1>1, <1>2, <1>4, <1>5

LEMMA AdvanceEffect ==
    ASSUME Types, Advance, op.pc # "idle", op.pc # "patch"
    PROVE  /\ op' \in Ops /\ op'.spec = op.spec /\ op'.spec \in SpecType /\ op'.pc # "idle"
           /\ op'.noted = op.noted /\ op'.before = op.before /\ op'.end = op.end
           /\ op'.pc = After(op.pc) /\ Place(op'.pc) = Place(op.pc) + 1
  <1>1. op.noted \in HashRecords /\ op.secret \in [Accounts -> Passwords]
    BY DEF Types, Ops
  <1> QED BY <1>1, GoEffect DEF Advance

LEMMA StopEffect ==
    ASSUME Types, NEW e \in {"none", "error"}, Stop(e), op.pc # "idle"
    PROVE  /\ op' \in Ops /\ op'.spec = op.spec /\ op'.spec \in SpecType /\ op'.pc = "patch"
           /\ op'.noted = op.noted /\ op'.before = op.before /\ op'.end = e
  <1>1. op \in Ops /\ op.spec \in SpecType /\ "patch" \in Stages
    BY Places DEF Types
  <1>2. op' = [op EXCEPT !.pc = "patch", !.end = e]
    BY DEF Stop
  <1> QED BY <1>1, <1>2 DEF Ops

LEMMA IdleType ==
    /\ Idle \in Ops /\ Idle.pc = "idle"
    /\ Idle.noted = NoHashes /\ Idle.before = NoHashes /\ Idle.end = "none"
  <1>1. NoPod \in Pods /\ [a \in Accounts |-> 0] \in [Accounts -> Passwords] /\ "idle" \in Stages
        /\ NoHashes \in HashRecords
    BY Places, HashFacts, DatabaseObjectsAssumption DEF NoPod, Pods
  <1> QED BY <1>1 DEF Idle, Ops

\* The Secrets a step applies.
LEMMA SecretEffect ==
    ASSUME Types, NEW a \in Accounts, NEW wanted \in BOOLEAN, ApplySecret(a, wanted),
           op.pc # "idle", op.pc # "patch"
    PROVE  /\ secrets' \in [Accounts -> Passwords]
           /\ op' \in Ops /\ op'.spec = op.spec /\ op'.spec \in SpecType /\ op'.pc # "idle"
           /\ op'.noted = op.noted /\ op'.before = op.before /\ op'.end = op.end
           /\ op'.pc = After(op.pc) /\ Place(op'.pc) = Place(op.pc) + 1
  <1>1. Password(a, wanted) \in Passwords /\ secrets \in [Accounts -> Passwords]
        /\ op.noted \in HashRecords /\ op.secret \in [Accounts -> Passwords]
    BY PasswordType DEF Types, Ops
  <1>2. [op.secret EXCEPT ![a] = Password(a, wanted)] \in [Accounts -> Passwords]
        /\ secrets' \in [Accounts -> Passwords]
    BY <1>1 DEF ApplySecret
  <1>3. Go(op.noted, [op.secret EXCEPT ![a] = Password(a, wanted)])
    BY DEF ApplySecret
  <1> QED BY <1>1, <1>2, <1>3, GoEffect

-----------------------------------------------------------------------------
LEMMA TypesInit == Init => Types
  <1> SUFFICES ASSUME Init PROVE Types
    OBVIOUS
  <1>1. spec \in SpecType
    BY DatabaseObjectsAssumption DEF Init, SpecType, Parts
  <1>2. secrets \in [Accounts -> Passwords] /\ status \in HashRecords /\ db \in HashRecords
    BY HashFacts, DatabaseObjectsAssumption DEF Init
  <1>3. cached \in [spec : SpecType, status : HashRecords]
    BY <1>1, HashFacts DEF Init
  <1>4. /\ DOMAIN objects = {"proxy", "admin"} /\ objects \in [{"proxy", "admin"} -> SUBSET ObjectNames]
        /\ unsure \subseteq Steps
    BY DEF Init
  <1>5. pod \in Pods
    BY DEF Init, NoPod, Pods
  <1> QED BY <1>1, <1>2, <1>3, <1>4, <1>5, IdleType DEF Init, Types

\* The steps that execute commands.
LEMMA TypesSteps ==
    ASSUME Types, NEW s \in Steps,
           \/ StepSkips(s) \/ StepRuns(s) \/ StepRefused(s) \/ StepFails(s)
           \/ s = "databases" /\ ExtensionFails
    PROVE  Types'
  <1>0. /\ op.pc = s /\ op.pc # "idle" /\ op.pc # "patch"
    BY DEF StepSkips, StepRuns, StepRefused, StepFails, ExtensionFails, Ready, At, Steps
  <1>1. Revision(s) \in Hashes /\ Contents(s, Revision(s)) \in Hashes
    BY <1>0, RevisionType, ContentsFulfil DEF At
  <1>2. /\ UNCHANGED <<spec, cached, status, secrets, objects, pod>>
    BY DEF StepSkips, StepRuns, StepRefused, StepFails, ExtensionFails, world
  <1>3. unsure' \subseteq Steps
    BY DEF StepSkips, StepRuns, StepRefused, StepFails, ExtensionFails, Recorded, Types
  <1>4. db' \in HashRecords
    <2>1. db \in HashRecords /\ Mixed \in Hashes
      BY HashFacts DEF Types
    <2>2. \A h \in Partial(s, Revision(s)) : h \in Hashes
      <3>1. \A n \in UserSpecs : <<n, 0>> \in Hashes
        BY DatabaseObjectsAssumption DEF Hashes
      <3>2. db[s] \in Hashes
        BY <2>1 DEF HashRecords
      <3> QED BY <1>1, <2>1, <3>1, <3>2 DEF Partial
    <2>3. db' = db \/ \E h \in Hashes : db' = [db EXCEPT ![s] = h]
      BY <1>1, <2>2 DEF StepSkips, StepRuns, StepRefused, StepFails, ExtensionFails
    <2> QED BY <2>1, <2>3 DEF HashRecords
  <1>5. /\ op.noted \in HashRecords /\ op.secret \in [Accounts -> Passwords]
        /\ Note(s, Revision(s)) \in HashRecords /\ Note(s, None) \in HashRecords
    BY <1>1, HashFacts DEF Types, Ops, Note, HashRecords
  <1>6. \/ Go(Note(s, Revision(s)), op.secret) \/ Go(Note(s, None), op.secret) \/ Advance \/ Stop("error")
    BY DEF StepSkips, StepRuns, StepRefused, StepFails, ExtensionFails, FailStep
  <1>7. op' \in Ops /\ op'.spec \in SpecType
    BY <1>0, <1>5, <1>6, GoEffect, AdvanceEffect, StopEffect
  <1> QED BY <1>2, <1>3, <1>4, <1>7 DEF Types

\* The objects of pgBouncer and of pgAdmin, all of them or the first k.
LEMMA TypesObjects ==
    ASSUME Types, ReconcilePGBouncer \/ ReconcilePGAdmin \/ ObjectFails
    PROVE  Types'
  <1>0. op.pc \in {"bouncer", "pgadmin"}
    BY DEF ReconcilePGBouncer, ReconcilePGAdmin, ObjectFails, PGBouncerUpTo, PGAdminUpTo, At
  <1>1. \/ \E k \in 0..5 : PGBouncerUpTo(k)
        \/ \E k \in 0..4 : PGAdminUpTo(k)
    <2>1. Len(PGBouncerObjects) = 5 /\ Len(PGAdminObjects) = 4
      BY DEF PGBouncerObjects, PGAdminObjects
    <2> QED BY <2>1 DEF ReconcilePGBouncer, ReconcilePGAdmin, ObjectFails
  <1>2. \A part \in {"proxy", "admin"} : \A k \in 0..5 :
           (part = "admin" => k <= 4) => First(part, k) \subseteq ObjectNames
    <2>1. \A n \in 1..5 : PGBouncerObjects[n] \in ObjectNames
      BY DEF PGBouncerObjects, ObjectNames
    <2>2. \A n \in 1..4 : PGAdminObjects[n] \in ObjectNames
      BY DEF PGAdminObjects, ObjectNames
    <2> QED BY <2>1, <2>2 DEF First, ObjectsOf
  <1>3. /\ UNCHANGED <<spec, cached, status, pod>>
    BY <1>1 DEF PGBouncerUpTo, PGAdminUpTo, world
  <1>4. /\ DOMAIN objects' = {"proxy", "admin"}
        /\ objects' \in [{"proxy", "admin"} -> SUBSET ObjectNames]
    <2>1. PICK part \in {"proxy", "admin"}, k \in 0..5 :
             (part = "admin" => k <= 4) /\ ReconcileObjects(part, k)
      BY <1>1 DEF PGBouncerUpTo, PGAdminUpTo
    <2>2. First(part, k) \subseteq ObjectNames
      BY <1>2, <2>1
    <2> QED BY <2>1, <2>2 DEF ReconcileObjects, Types
  <1>5. secrets' \in [Accounts -> Passwords]
    <2>1. "proxy" \in Accounts /\ ("proxy" \in op.spec.parts) \in BOOLEAN
      BY DEF Accounts
    <2>2. Password("proxy", "proxy" \in op.spec.parts) \in Passwords
      BY <2>1, PasswordType
    <2>3. secrets \in [Accounts -> Passwords]
      BY DEF Types
    <2>4. secrets' = secrets \/ secrets' = [secrets EXCEPT !["proxy"] = Password("proxy", "proxy" \in op.spec.parts)]
      BY <1>1 DEF PGBouncerUpTo, PGAdminUpTo, ReconcilePGBouncerSecret
    <2> QED BY <2>2, <2>3, <2>4
  <1>6. db' \in HashRecords /\ unsure' \subseteq Steps
    <2>1. db' = db \/ db' = [db EXCEPT !["admin"] = db["admin"]] \/ db' = [db EXCEPT !["admin"] = None]
      BY <1>1 DEF PGBouncerUpTo, PGAdminUpTo, ReconcilePGAdminDataVolume
    <2>2. db \in HashRecords /\ None \in Hashes
      BY HashFacts DEF Types
    <2>3. db' \in HashRecords
      BY <2>1, <2>2 DEF HashRecords
    <2>4. unsure' = unsure \/ unsure' = unsure \cup Recorded({"admin"} \ Unrecorded)
      BY <1>1 DEF PGBouncerUpTo, PGAdminUpTo, ReconcilePGAdminDataVolume
    <2> QED BY <2>3, <2>4 DEF Recorded, Types, Steps
  <1>7. op' \in Ops /\ op'.spec \in SpecType
    <2>1. /\ op.noted \in HashRecords /\ op.secret \in [Accounts -> Passwords]
          /\ [op.secret EXCEPT !["proxy"] = secrets'["proxy"]] \in [Accounts -> Passwords]
      BY <1>5 DEF Types, Ops, Accounts
    <2>2. \/ Go(op.noted, [op.secret EXCEPT !["proxy"] = secrets'["proxy"]]) \/ Advance \/ Stop("error")
      BY DEF ReconcilePGBouncer, ReconcilePGAdmin, ObjectFails
    <2> QED BY <1>0, <2>1, <2>2, GoEffect, AdvanceEffect, StopEffect
  <1> QED BY <1>3, <1>4, <1>5, <1>6, <1>7 DEF Types

\* A claim of pgAdmin that is refused: the other objects follow.
LEMMA ClaimRefusedEffect ==
    ASSUME Types, PGAdminClaimRefused
    PROVE  /\ op.pc = "pgadmin" /\ UNCHANGED <<spec, cached, status, secrets, db, pod, restore, unsure>>
           /\ "admin" \in op.spec.parts /\ Advance
           /\ objects' = [objects EXCEPT !["admin"] = @ \cup (First("admin", 4) \ {"volume"})]
           /\ refused' = ("volume" \notin objects["admin"])
  <1>1. Len(PGAdminObjects) = 4
    BY DEF PGAdminObjects
  <1> QED BY <1>1 DEF PGAdminClaimRefused, At

LEMMA TypesClaimRefused ==
    ASSUME Types, PGAdminClaimRefused
    PROVE  Types'
  <1>1. op.pc # "idle" /\ op.pc # "patch" /\ Advance
    BY ClaimRefusedEffect
  <1>2. op' \in Ops /\ op'.spec \in SpecType
    BY <1>1, AdvanceEffect
  <1>3. First("admin", 4) \subseteq ObjectNames
    BY DEF First, ObjectsOf, PGAdminObjects, ObjectNames
  <1>4. /\ DOMAIN objects' = {"proxy", "admin"}
        /\ objects' \in [{"proxy", "admin"} -> SUBSET ObjectNames]
    BY <1>3, ClaimRefusedEffect DEF Types
  <1> QED BY <1>2, <1>4, ClaimRefusedEffect DEF Types

\* The other steps of the operator.
LEMMA SourceEffect ==
    ASSUME Types, ReconcileDataSource
    PROVE  /\ op.pc = "source" /\ op' \in Ops /\ op'.spec \in SpecType /\ op'.before = op.before
           /\ secrets' \in [Accounts -> Passwords] /\ pod' \in Pods
           /\ \/ op'.noted = op.noted /\ op'.end = op.end /\ op'.pc = "databases" /\ restore = "none"
              \/ op'.noted = op.noted /\ op'.end = "none" /\ op'.pc = "patch" /\ restore # "none"
              \/ /\ op'.noted = ClearedForRestore /\ op'.end = "restore" /\ op'.pc = "patch"
                 /\ op.before = status /\ restore = "requested"
  <1>0. /\ op.pc = "source" /\ op.pc # "idle" /\ op.pc # "patch"
        /\ secrets \in [Accounts -> Passwords] /\ pod \in Pods
    BY DEF ReconcileDataSource, At, Types
  <1>1. CASE restore = "none" /\ ApplySecret("monitor", "exporter" \in op.spec.parts) /\ UNCHANGED pod
    <2>1. "monitor" \in Accounts /\ ("exporter" \in op.spec.parts) \in BOOLEAN
      BY DEF Accounts
    <2>2. After("source") = "databases"
      <3>1. "source" \in Stages /\ "source" # "patch"
        BY Places
      <3>2. After("source") \in Stages /\ Place(After("source")) = 3
        BY <3>1, StageOrder, Places
      <3> QED BY <3>2, StageNames DEF Place
    <2> QED BY <1>0, <1>1, <2>1, <2>2, SecretEffect
  <1>2. CASE restore = "restoring" /\ Stop("none") /\ UNCHANGED <<pod, secrets>>
    BY <1>0, <1>2, StopEffect
  <1>3. CASE /\ restore = "requested" /\ pod' = [pod EXCEPT !.state = "absent"]
             /\ Stop("none") /\ UNCHANGED secrets
    BY <1>0, <1>3, StopEffect DEF Pods
  <1>4. CASE /\ op.before = status /\ restore = "requested"
             /\ op' = [op EXCEPT !.pc = "patch", !.end = "restore", !.noted = ClearedForRestore]
             /\ UNCHANGED <<pod, secrets>>
    <2>1. op \in Ops /\ op.spec \in SpecType /\ "patch" \in Stages /\ None \in Hashes /\ op.noted \in HashRecords
      BY <1>0, Places, HashFacts DEF Types, Ops
    <2>2. ClearedForRestore \in HashRecords
      BY <2>1 DEF ClearedForRestore, HashRecords
    <2> HIDE DEF ClearedForRestore
    <2>3. /\ op' \in Ops /\ op'.spec = op.spec /\ op'.before = op.before /\ op'.noted = ClearedForRestore
          /\ op'.end = "restore" /\ op'.pc = "patch"
      BY <1>4, <2>1, <2>2 DEF Ops
    <2> QED BY <1>0, <1>4, <2>1, <2>3
  <1> QED BY <1>1, <1>2, <1>3, <1>4 DEF ReconcileDataSource

LEMMA ReconcileEffect ==
    ASSUME Types, Reconcile
    PROVE  /\ op.pc = "idle" /\ op' \in Ops /\ op'.spec \in SpecType /\ op'.pc = "source"
           /\ op'.noted = op'.before /\ op'.end = "none"
  <1>1. cached.spec \in SpecType /\ cached.status \in HashRecords /\ pod \in Pods /\ "source" \in Stages
    BY Places DEF Types
  <1>2. op' = [Idle EXCEPT !.pc = "source", !.spec = cached.spec, !.before = cached.status,
                           !.noted = cached.status, !.pod = pod]
    BY DEF Reconcile
  <1>3. /\ op' \in Ops /\ op'.spec = cached.spec /\ op'.pc = "source" /\ op'.noted = cached.status
        /\ op'.before = cached.status /\ op'.end = "none"
    BY <1>1, <1>2, IdleType DEF Ops
  <1> QED BY <1>1, <1>3 DEF Reconcile, At

LEMMA UserSecretsEffect ==
    ASSUME Types, ReconcilePostgresUserSecrets
    PROVE  /\ op.pc = "secrets" /\ op' \in Ops /\ op'.spec = op.spec /\ op'.spec \in SpecType
           /\ secrets' \in [Accounts -> Passwords] /\ Place(op'.pc) = Place(op.pc) + 1
           /\ op'.noted = op.noted /\ op'.before = op.before /\ op'.end = op.end
  <1>1. op.pc = "secrets" /\ "user" \in Accounts /\ ApplySecret("user", TRUE)
    BY DEF ReconcilePostgresUserSecrets, At, Accounts
  <1> QED BY <1>1, SecretEffect

\* What the world does to the cluster.
World == Sync \/ PodChanges \/ RestoreRuns \/ PodDies \/ EditSpec \/ EditSecret \/ RequestRestore

LEMMA Actions ==
    ASSUME Next
    PROVE  \/ Reconcile \/ ReconcileDataSource \/ ReconcilePostgresUserSecrets
           \/ ReconcilePGBouncer \/ ReconcilePGAdmin \/ ObjectFails \/ PGAdminClaimRefused
           \/ PatchClusterStatus \/ PatchLost \/ CallFails \/ World
           \/ \E s \in Steps : \/ StepSkips(s) \/ StepRuns(s) \/ StepRefused(s) \/ StepFails(s)
                               \/ s = "databases" /\ ExtensionFails
  BY DEF Next, Operator, World, Steps

LEMMA TypesWorld ==
    ASSUME Types, World
    PROVE  Types' /\ UNCHANGED <<status, op, objects>>
  <1>1. /\ UNCHANGED <<status, op, objects>>
    BY DEF World, Sync, PodChanges, RestoreRuns, PodDies, EditSpec, EditSecret, RequestRestore, world
  <1>2. CASE Sync
    BY <1>2 DEF Sync, Types, world
  <1>3. CASE PodChanges \/ PodDies
    <2>1. pod' \in Pods
      <3>1. NewPod \in Pods
        BY DEF NewPod, Types, Pods, SpecType
      <3>2. pod \in Pods
        BY DEF Types
      <3>3. \A state \in {"absent", "starting", "running"} : PodIs(state) => pod' \in Pods
        BY <3>2 DEF PodIs, Pods
      <3>4. \/ pod' = NewPod \/ pod' = pod
            \/ \E state \in {"absent", "starting", "running"} : PodIs(state)
        BY <1>3 DEF PodChanges, PodDies
      <3> QED BY <3>1, <3>2, <3>3, <3>4
    <2> QED BY <1>1, <1>3, <2>1 DEF PodChanges, PodDies, Types
  <1>4. CASE RestoreRuns
    <2>1. db' \in HashRecords
      <3>1. db \in HashRecords /\ None \in Hashes
        BY HashFacts DEF Types
      <3>2. PICK kept \in PointsInTime : db' = [s \in Steps |-> IF s \in kept \cup {"admin"} THEN db[s] ELSE None]
        BY <1>4 DEF RestoreRuns
      <3> QED BY <3>1, <3>2 DEF HashRecords
    <2>2. unsure' \subseteq Steps
      BY <1>4 DEF RestoreRuns, Recorded, Types, Steps
    <2> QED BY <1>1, <1>4, <2>1, <2>2 DEF RestoreRuns, Types
  <1>5. CASE EditSpec
    <2>1. spec' \in SpecType
      <3>1. spec \in SpecType /\ 3 - spec.image \in {1, 2}
        BY DEF Types, SpecType
      <3>2. \/ \E u \in UserSpecs : spec' = [spec EXCEPT !.users = u]
            \/ spec' = [spec EXCEPT !.image = 3 - spec.image]
            \/ \E q \in SUBSET Parts : spec' = [spec EXCEPT !.parts = q]
        <4>1. spec.parts \in SUBSET Parts
          BY <3>1 DEF SpecType
        <4> QED BY <1>5, <4>1 DEF EditSpec
      <3> QED BY <3>1, <3>2 DEF SpecType
    <2> QED BY <1>1, <1>5, <2>1 DEF EditSpec, Types
  <1>6. CASE EditSecret
    <2>1. PICK n \in {0, NewPassword("user")} : secrets' = [secrets EXCEPT !["user"] = n]
      BY <1>6 DEF EditSecret
    <2>2. NewPassword("user") \in Passwords
      <3>1. "user" \in Accounts
        BY DEF Accounts
      <3> QED BY <3>1, NewPasswordType
    <2>3. secrets' \in [Accounts -> Passwords]
      BY <2>1, <2>2, DatabaseObjectsAssumption DEF Types
    <2> QED BY <1>1, <1>6, <2>3 DEF EditSecret, Types
  <1>7. CASE RequestRestore
    BY <1>7 DEF RequestRestore, Types
  <1> QED BY <1>1, <1>2, <1>3, <1>4, <1>5, <1>6, <1>7 DEF World

LEMMA TypesStep == Types /\ [Next]_vars => Types'
  <1> SUFFICES ASSUME Types, [Next]_vars PROVE Types'
    OBVIOUS
  <1>1. CASE Reconcile
    BY <1>1, ReconcileEffect DEF Reconcile, Types, world
  <1>2. CASE ReconcileDataSource
    BY <1>2, SourceEffect DEF ReconcileDataSource, Types
  <1>3. CASE ReconcilePostgresUserSecrets
    BY <1>3, UserSecretsEffect DEF ReconcilePostgresUserSecrets, Types, world
  <1>4. CASE PatchClusterStatus
    <2>1. status' \in HashRecords
      BY <1>4 DEF PatchClusterStatus, Types, Ops, HashRecords
    <2>2. unsure' \subseteq Steps
      BY <1>4 DEF PatchClusterStatus, Types
    <2> QED BY <1>4, <2>1, <2>2, IdleType DEF PatchClusterStatus, Types
  <1>5. CASE PatchLost
    <2>1. unsure' \subseteq Steps
      BY <1>5 DEF PatchLost, Types, Recorded, Unrecorded
    <2> QED BY <1>5, <2>1, IdleType DEF PatchLost, Types, world
  <1>6. CASE CallFails
    <2>1. op.pc # "idle" /\ Stop("error")
      BY <1>6 DEF CallFails
    <2> QED BY <1>6, <2>1, StopEffect DEF CallFails, Types, world
  <1>7. CASE UNCHANGED vars
    BY <1>7 DEF Types, vars
  <1> QED BY <1>1, <1>2, <1>3, <1>4, <1>5, <1>6, <1>7, Actions, TypesSteps, TypesObjects, TypesClaimRefused,
            TypesWorld

LEMMA TypesAlways == Spec => []Types
  BY TypesInit, TypesStep, PTL DEF Spec

-----------------------------------------------------------------------------
(* The inductive invariant of the records.                                 *)

\* Only steps that the pipeline has passed have something to record.
InOrder == \A s \in Unrecorded : Place(op.pc) > Place(s)

\* What is to be recorded still holds when the patch is sent.
NotedHolds == \A s \in Unrecorded : op.noted[s] = None \/ Holds(s, op.noted[s])

\* The record of pgAdmin's users is erased before its volume is deleted.
AdminErased == Place(op.pc) \in 7..11 /\ "admin" \notin op.spec.parts => op.noted["admin"] = None

\* The reconcile that lets a restore begin erases the records that the restore undoes,
\* and does so on the strength of a status that is not stale.
RestoreClears ==
    /\ op.end = "restore" => op.before = status /\ op.noted["proxy"] = None /\ op.noted["exporter"] = None
    /\ op.end # "none" => op.pc = "patch"

\* Until the restore is over nobody writes these records again.
RestoringCleared ==
    restore = "restoring" => /\ op.pc \in {"idle", "source", "patch"} /\ Unrecorded = {}
                             /\ status["proxy"] = None /\ status["exporter"] = None

RecordInv == InOrder /\ NotedHolds /\ AdminErased /\ RestoreClears /\ RestoringCleared

\* A step of RecordedWrite for one field, in terms of this module.
Lost(s) == s \in unsure' \/ (status[s] = None /\ (s \in unsure' <=> s \in unsure))
FieldStep(s) ==
    \/ /\ s \in Unrecorded' /\ status'[s] = status[s] /\ (s \in unsure' <=> s \in unsure)
    \/ /\ s \in Unrecorded /\ s \notin Unrecorded' /\ s \notin unsure' /\ db'[s] = db[s]
       /\ status'[s] = None \/ Holds(s, status'[s])
    \/ /\ s \in Unrecorded /\ s \notin Unrecorded' /\ Lost(s)
       /\ db'[s] = db[s] /\ status'[s] = status[s]
    \/ /\ s \notin Unrecorded /\ s \notin Unrecorded' /\ Lost(s) /\ status'[s] = status[s]
    \/ /\ db'[s] = db[s] /\ status'[s] = status[s] /\ (s \in unsure' <=> s \in unsure)
       /\ s \in Unrecorded' <=> s \in Unrecorded

LEMMA FieldSteps ==
    ASSUME Types, Types', \A s \in Steps : FieldStep(s)
    PROVE  Records!Next
  <1>1. \A s \in Steps : db'[s] = db[s] =>
            {h \in Hashes : Holds(s, h)}' = {h \in Hashes : Holds(s, h)}
    BY DEF Holds
  <1>2. \A s \in Steps : status'[s] \in Hashes
    BY DEF Types, HashRecords
  <1>3. ASSUME NEW s \in Steps
        PROVE  Records!Write(s) \/ Records!Record(s) \/ Records!Abandon(s) \/ Records!Disturb(s)
               \/ Records!Same(s)
    <2>1. FieldStep(s) /\ status'[s] \in Hashes
          /\ (db'[s] = db[s] => {h \in Hashes : Holds(s, h)}' = {h \in Hashes : Holds(s, h)})
      BY <1>1, <1>2
    <2> QED BY <2>1 DEF FieldStep, Lost, Records!Write, Records!Record, Records!Abandon, Records!Disturb,
              Records!Same, Records!SameHeld, Records!SameRecorded, Records!SameLost
  <1>4. [s \in Steps |-> {h \in Hashes : Holds(s, h)}]' \in [Steps -> SUBSET Hashes]
    OBVIOUS
  <1> QED BY <1>3, <1>4 DEF Records!Next

Command(s) == StepSkips(s) \/ StepRuns(s) \/ StepRefused(s) \/ StepFails(s)
              \/ (s = "databases" /\ ExtensionFails)

\* Nothing is to be recorded yet of the step that the pipeline is at.
LEMMA NothingYet ==
    ASSUME Types, InOrder, NEW s \in Steps, Place(op.pc) <= Place(s)
    PROVE  s \notin Unrecorded /\ op.noted[s] = op.before[s]
  <1>1. Place(op.pc) \in Int /\ Place(s) \in Int
    BY Places DEF Types, Ops
  <1>2. s \notin Unrecorded
    BY <1>1 DEF InOrder
  <1> QED BY <1>2 DEF Unrecorded

\* What a step that executes a command does to its own field, and to no other.
LEMMA CommandEffect ==
    ASSUME Types, NEW s \in Steps, Command(s)
    PROVE  /\ op.pc = s /\ op'.spec = op.spec /\ op'.before = op.before
           /\ Place(op'.pc) > Place(s)
           /\ op'.end = op.end \/ (op'.end = "error" /\ op'.pc = "patch")
           /\ UNCHANGED <<status, restore>>
           /\ \A r \in Steps \ {s} : op'.noted[r] = op.noted[r] /\ db'[r] = db[r]
           /\ \A r \in Steps \ {s} : r \in unsure' <=> r \in unsure
  <1>0. op.pc = s /\ op.pc # "idle" /\ op.pc # "patch" /\ Place(s) \in 3..10
    BY Places DEF Command, StepSkips, StepRuns, StepRefused, StepFails, ExtensionFails, Ready, At, Steps
  <1>1. /\ UNCHANGED <<status, restore>>
    BY DEF Command, StepSkips, StepRuns, StepRefused, StepFails, ExtensionFails, world
  <1>2. db \in HashRecords /\ op.noted \in HashRecords /\ op.secret \in [Accounts -> Passwords]
    BY DEF Types, Ops
  <1>3. db' = db \/ \E h : db' = [db EXCEPT ![s] = h]
    BY DEF Command, StepSkips, StepRuns, StepRefused, StepFails, ExtensionFails
  <1>4. unsure' = unsure \/ unsure' = unsure \cup Recorded({s})
    BY DEF Command, StepSkips, StepRuns, StepRefused, StepFails, ExtensionFails
  <1>5. /\ Note(s, Revision(s)) \in HashRecords /\ Note(s, None) \in HashRecords
        /\ \A r \in Steps \ {s} : \A h : Note(s, h)[r] = op.noted[r]
    <2>1. Revision(s) \in Hashes
      BY <1>0, RevisionType DEF At
    <2> QED BY <1>2, <2>1, HashFacts DEF Note, HashRecords
  <1>6. \/ Go(Note(s, Revision(s)), op.secret) \/ Go(Note(s, None), op.secret) \/ Advance \/ Stop("error")
    BY DEF Command, StepSkips, StepRuns, StepRefused, StepFails, ExtensionFails, FailStep
  <1>7. /\ op'.spec = op.spec /\ op'.before = op.before
        /\ \/ op'.end = op.end /\ Place(op'.pc) = Place(op.pc) + 1
           \/ op'.end = "error" /\ op'.pc = "patch"
        /\ \/ op'.noted = op.noted \/ op'.noted = Note(s, None) \/ op'.noted = Note(s, Revision(s))
    BY <1>0, <1>2, <1>5, <1>6, GoEffect, AdvanceEffect, StopEffect
  <1>8. Place(op'.pc) > Place(s)
    BY <1>0, <1>7, Places
  <1>9. \A r \in Steps \ {s} : op'.noted[r] = op.noted[r] /\ db'[r] = db[r]
    BY <1>2, <1>3, <1>5, <1>7 DEF HashRecords
  <1>10. \A r \in Steps \ {s} : r \in unsure' <=> r \in unsure
    BY <1>4 DEF Recorded
  <1> QED BY <1>0, <1>1, <1>7, <1>8, <1>9, <1>10

\* The field itself: the command has run and is to be recorded, or was not necessary, or
\* has left contents that are not on record.
LEMMA CommandField ==
    ASSUME Types, InOrder, NEW s \in Steps, Command(s)
    PROVE  /\ s \notin Unrecorded /\ FieldStep(s)
           /\ s \in Unrecorded' => op'.noted[s] = None \/ Fulfils(s, db'[s], op'.noted[s])
           /\ s = "admin" /\ "admin" \notin op.spec.parts => op'.noted["admin"] = None \/ op'.pc = "patch"
  <1>0. op.pc = s /\ op.pc # "idle" /\ op.pc # "patch" /\ UNCHANGED status /\ op'.before = op.before
    <2>1. op.pc = s /\ UNCHANGED status /\ op'.before = op.before
      BY CommandEffect
    <2> QED BY <2>1 DEF Steps
  <1>1. s \notin Unrecorded /\ op.noted[s] = op.before[s]
    BY <1>0, NothingYet, Places
  <1>2. db \in HashRecords /\ op.noted \in HashRecords /\ op.secret \in [Accounts -> Passwords]
        /\ Revision(s) \in Hashes /\ None \in Hashes
    BY <1>0, RevisionType, HashFacts DEF Types, Ops, At
  <1>3. /\ \A h \in Hashes : Note(s, h) \in HashRecords /\ Note(s, h)[s] = h
    BY <1>2 DEF Note, HashRecords
  <1>4. CASE StepSkips(s)
    <2>1. UNCHANGED <<db, unsure>>
      BY <1>4 DEF StepSkips
    <2>2. CASE Disabled(s) /\ Go(Note(s, None), op.secret)
      <3>1. op'.noted[s] = None
        BY <1>0, <1>2, <1>3, <2>2, GoEffect
      <3> QED BY <1>0, <1>1, <2>1, <3>1 DEF FieldStep, Unrecorded
    <2>3. CASE ~Disabled(s) /\ Advance
      <3>1. op'.noted = op.noted
        BY <1>0, <2>3, AdvanceEffect
      <3>2. s \notin Unrecorded'
        BY <1>0, <1>1, <3>1 DEF Unrecorded
      <3> QED BY <1>0, <1>1, <2>1, <2>3, <3>1, <3>2 DEF FieldStep, Disabled
    <2> QED BY <1>4, <2>2, <2>3 DEF StepSkips
  <1>5. CASE StepRuns(s)
    <2>1. UNCHANGED unsure /\ Go(Note(s, Revision(s)), op.secret) /\ ~Disabled(s) /\ ~AlreadyApplied(s)
          /\ db' = [db EXCEPT ![s] = Contents(s, Revision(s))]
      BY <1>5 DEF StepRuns, Ready
    <2>2. op'.noted[s] = Revision(s)
      BY <1>0, <1>2, <1>3, <2>1, GoEffect
    <2>3. s \in Unrecorded'
      BY <1>0, <1>1, <2>1, <2>2 DEF Unrecorded, AlreadyApplied
    <2>4. Fulfils(s, db'[s], op'.noted[s])
      <3>1. db'[s] = Contents(s, Revision(s))
        BY <1>2, <2>1 DEF HashRecords
      <3> QED BY <1>2, <2>2, <3>1, ContentsFulfil
    <2>5. FieldStep(s)
      BY <1>0, <2>1, <2>3 DEF FieldStep
    <2> QED BY <1>1, <2>1, <2>4, <2>5 DEF Disabled
  <1>6. CASE StepRefused(s)
    <2>1. UNCHANGED <<db, unsure>> /\ Stop("error")
      BY <1>6 DEF StepRefused, FailStep
    <2>2. op'.noted = op.noted /\ op'.pc = "patch"
      BY <1>0, <2>1, StopEffect
    <2>3. s \notin Unrecorded'
      BY <1>0, <1>1, <2>2 DEF Unrecorded
    <2> QED BY <1>0, <1>1, <2>1, <2>2, <2>3 DEF FieldStep
  <1>7. CASE StepFails(s) \/ (s = "databases" /\ ExtensionFails)
    <2>1. unsure' = unsure \cup Recorded({s}) /\ (Stop("error") \/ (s = "databases" /\ Advance))
      BY <1>7 DEF StepFails, ExtensionFails, FailStep
    <2>2. op'.noted = op.noted /\ (s = "databases" \/ op'.pc = "patch")
      BY <1>0, <2>1, StopEffect, AdvanceEffect
    <2>3. s \notin Unrecorded'
      BY <1>0, <1>1, <2>2 DEF Unrecorded
    <2>4. Lost(s)
      BY <2>1 DEF Lost, Recorded
    <2> QED BY <1>0, <1>1, <2>2, <2>3, <2>4 DEF FieldStep
  <1> QED BY <1>4, <1>5, <1>6, <1>7 DEF Command

\* The other steps of a reconcile before its patch leave alone what is to be recorded,
\* but for pgAdmin's volume.
LEMMA OtherFields ==
    ASSUME Types, NEW s \in Steps, UNCHANGED status, op'.before[s] = op.before[s],
           op'.noted[s] = op.noted[s], db'[s] = db[s], s \in unsure' <=> s \in unsure
    PROVE  FieldStep(s) /\ (s \in Unrecorded' <=> s \in Unrecorded)
  BY DEF FieldStep, Unrecorded

LEMMA CommandStep ==
    ASSUME Types, RecordInv, NEW s \in Steps, Command(s)
    PROVE  RecordInv' /\ \A r \in Steps : FieldStep(r)
  <1>1. /\ op.pc = s /\ op'.spec = op.spec /\ op'.before = op.before /\ Place(op'.pc) > Place(s)
        /\ op'.end = op.end \/ (op'.end = "error" /\ op'.pc = "patch")
        /\ UNCHANGED <<status, restore>>
        /\ \A r \in Steps \ {s} : op'.noted[r] = op.noted[r] /\ db'[r] = db[r]
        /\ \A r \in Steps \ {s} : r \in unsure' <=> r \in unsure
    BY CommandEffect
  <1>2. /\ s \notin Unrecorded /\ FieldStep(s)
        /\ s \in Unrecorded' => op'.noted[s] = None \/ Fulfils(s, db'[s], op'.noted[s])
        /\ s = "admin" /\ "admin" \notin op.spec.parts => op'.noted["admin"] = None \/ op'.pc = "patch"
    BY CommandField DEF RecordInv
  <1>3. \A r \in Steps \ {s} : FieldStep(r) /\ (r \in Unrecorded' <=> r \in Unrecorded)
    BY <1>1, OtherFields
  <1>4. s \in Stages /\ Place(s) \in 3..10 /\ s \notin {"idle", "source", "patch"}
    BY Places DEF Steps
  <1>5. op' \in Ops
    BY TypesSteps DEF Command, Types
  <1>6. Place(op'.pc) \in 1..12 /\ (Place(op'.pc) = 12 <=> op'.pc = "patch")
    BY <1>5, Places DEF Ops
  <1>7. InOrder'
    <2> SUFFICES ASSUME NEW r \in Unrecorded' PROVE Place(op'.pc) > Place(r)
      BY DEF InOrder
    <2>1. r \in Steps /\ Place(r) \in Int
      BY Places DEF Unrecorded
    <2>2. CASE r = s
      BY <1>1, <2>2
    <2>3. CASE r # s
      <3>1. r \in Unrecorded
        BY <1>3, <2>1, <2>3
      <3>2. Place(s) > Place(r)
        BY <1>1, <3>1 DEF RecordInv, InOrder
      <3> QED BY <1>1, <1>4, <1>6, <2>1, <3>2
    <2> QED BY <2>2, <2>3
  <1>8. NotedHolds'
    <2> SUFFICES ASSUME NEW r \in Unrecorded' PROVE op'.noted[r] = None \/ Fulfils(r, db'[r], op'.noted[r])
      BY DEF NotedHolds, Holds
    <2>1. r \in Steps
      BY DEF Unrecorded
    <2>2. CASE r = s
      BY <1>2, <2>2
    <2>3. CASE r # s
      <3>1. r \in Unrecorded /\ op'.noted[r] = op.noted[r] /\ db'[r] = db[r]
        BY <1>1, <1>3, <2>1, <2>3
      <3> QED BY <3>1 DEF RecordInv, NotedHolds, Holds
    <2> QED BY <2>2, <2>3
  <1>9. AdminErased'
    <2> SUFFICES ASSUME Place(op'.pc) \in 7..11, "admin" \notin op.spec.parts
                 PROVE  op'.noted["admin"] = None
      BY <1>1 DEF AdminErased
    <2>1. CASE s = "admin"
      BY <1>2, <1>6, <2>1
    <2>2. CASE s # "admin"
      <3>1. op'.noted["admin"] = op.noted["admin"] /\ Place("admin") = 6
        BY <1>1, <2>2, Places DEF Steps
      <3>2. CASE Place(s) > 6
        BY <1>1, <1>4, <3>1, <3>2 DEF RecordInv, AdminErased
      <3>3. CASE Place(s) <= 6
        <4>1. Place(op'.pc) = Place(s) + 1 \/ op'.pc = "patch"
          <5>1. \/ \E h \in Hashes : Go(Note(s, h), op.secret)
                \/ Advance \/ Stop("error")
            <6>1. None \in Hashes /\ Revision(s) \in Hashes
              BY <1>1, RevisionType, HashFacts DEF At
            <6> QED BY <6>1 DEF Command, StepSkips, StepRuns, StepRefused, StepFails, ExtensionFails, FailStep
          <5>2. \A h \in Hashes : Note(s, h) \in HashRecords
            BY DEF Note, Types, Ops, HashRecords
          <5>3. op.secret \in [Accounts -> Passwords] /\ op.pc # "idle" /\ op.pc # "patch"
            BY <1>1, <1>4 DEF Types, Ops
          <5> QED BY <1>1, <5>1, <5>2, <5>3, GoEffect, AdvanceEffect, StopEffect
        <4>2. Place(s) # 6
          BY <2>2 DEF Place, Steps
        <4> QED BY <1>4, <1>6, <3>3, <4>1, <4>2
      <3> QED BY <1>4, <3>2, <3>3
    <2> QED BY <2>1, <2>2
  <1>10. RestoreClears' /\ RestoringCleared'
    <2>1. op.end = "none" /\ restore # "restoring"
      <3>1. op.pc \notin {"idle", "source", "patch"}
        BY <1>1, <1>4
      <3> QED BY <3>1 DEF RecordInv, RestoreClears, RestoringCleared
    <2> QED BY <1>1, <2>1 DEF RestoreClears, RestoringCleared
  <1> QED BY <1>2, <1>3, <1>7, <1>8, <1>9, <1>10 DEF RecordInv

\* A step of the reconcile that records nothing new and disturbs nothing that is noted.
LEMMA QuietStep ==
    ASSUME Types, Types', RecordInv, UNCHANGED <<status, restore>>,
           op'.before = op.before, op'.noted = op.noted, op'.spec = op.spec,
           \A s \in Steps : db'[s] = db[s] \/ (s \notin Unrecorded /\ Lost(s))
                            \/ (op.noted[s] = None /\ s \in Unrecorded /\ (s \in unsure' <=> s \in unsure)),
           \A s \in Steps : db'[s] = db[s] => (s \in unsure' <=> s \in unsure),
           Place(op'.pc) >= Place(op.pc),
           restore = "restoring" => op'.pc \in {"idle", "source", "patch"},
           op'.pc = "patch" \/ Place(op.pc) \notin {6, 12},
           op'.pc = "patch" \/ Place(op'.pc) <= Place(op.pc) + 1,
           op'.end = op.end \/ (op'.end # "restore" /\ op'.pc = "patch"),
           op'.pc = "patch" \/ op.end = "none"
    PROVE  RecordInv' /\ \A s \in Steps : FieldStep(s)
  <1>0. Place(op.pc) \in 1..12 /\ Place(op'.pc) \in 1..12 /\ (Place(op'.pc) = 12 <=> op'.pc = "patch")
        /\ (Place(op.pc) = 12 <=> op.pc = "patch")
    BY Places DEF Types, Ops
  <1>1. Unrecorded' = Unrecorded
    BY DEF Unrecorded
  <1>2. \A s \in Steps : FieldStep(s)
    <2> SUFFICES ASSUME NEW s \in Steps PROVE FieldStep(s)
      OBVIOUS
    <2>1. CASE db'[s] = db[s]
      BY <1>1, <2>1 DEF FieldStep
    <2>2. CASE db'[s] # db[s] /\ s \notin Unrecorded
      BY <1>1, <2>2 DEF FieldStep
    <2>3. CASE db'[s] # db[s] /\ s \in Unrecorded
      BY <1>1, <2>3 DEF FieldStep
    <2> QED BY <2>1, <2>2, <2>3
  <1>3. InOrder'
    <2> SUFFICES ASSUME NEW s \in Unrecorded PROVE Place(op'.pc) > Place(s)
      BY <1>1 DEF InOrder
    <2>1. Place(op.pc) > Place(s) /\ Place(s) \in Int
      BY Places DEF RecordInv, InOrder, Unrecorded
    <2> QED BY <1>0, <2>1
  <1>4. NotedHolds'
    <2> SUFFICES ASSUME NEW s \in Unrecorded PROVE op.noted[s] = None \/ Fulfils(s, db'[s], op.noted[s])
      BY <1>1 DEF NotedHolds, Holds
    <2>1. s \in Steps /\ (op.noted[s] = None \/ Fulfils(s, db[s], op.noted[s]))
      BY DEF RecordInv, NotedHolds, Holds, Unrecorded
    <2> QED BY <2>1
  <1>5. AdminErased'
    <2> SUFFICES ASSUME Place(op'.pc) \in 7..11, "admin" \notin op.spec.parts
                 PROVE  op.noted["admin"] = None
      BY DEF AdminErased
    <2>1. Place(op.pc) \in 7..11
      BY <1>0
    <2> QED BY <2>1 DEF RecordInv, AdminErased
  <1>6. RestoreClears'
    BY DEF RecordInv, RestoreClears
  <1>7. RestoringCleared'
    BY <1>1 DEF RecordInv, RestoringCleared
  <1> QED BY <1>2, <1>3, <1>4, <1>5, <1>6, <1>7 DEF RecordInv

LEMMA ObjectsStep ==
    ASSUME Types, Types', RecordInv, ReconcilePGBouncer \/ ReconcilePGAdmin \/ ObjectFails
    PROVE  RecordInv' /\ \A s \in Steps : FieldStep(s)
  <1>0. /\ op.pc \in {"bouncer", "pgadmin"} /\ UNCHANGED <<status, restore>>
        /\ op.pc = "pgadmin" \/ UNCHANGED <<db, unsure>>
    BY DEF ReconcilePGBouncer, ReconcilePGAdmin, ObjectFails, PGBouncerUpTo, PGAdminUpTo, At, world
  <1>1. Place(op.pc) \in {7, 11} /\ op.pc # "idle" /\ op.pc # "patch"
    BY <1>0 DEF Place
  <1>2. /\ op.noted \in HashRecords /\ op.secret \in [Accounts -> Passwords] /\ db \in HashRecords
        /\ [op.secret EXCEPT !["proxy"] = secrets'["proxy"]] \in [Accounts -> Passwords]
    BY DEF Types, Ops, Accounts
  <1>3. \/ Go(op.noted, [op.secret EXCEPT !["proxy"] = secrets'["proxy"]]) \/ Advance \/ Stop("error")
    BY DEF ReconcilePGBouncer, ReconcilePGAdmin, ObjectFails
  <1>4. /\ op'.spec = op.spec /\ op'.before = op.before /\ op'.noted = op.noted
        /\ \/ op'.end = op.end /\ Place(op'.pc) = Place(op.pc) + 1
           \/ op'.end = "error" /\ op'.pc = "patch"
    BY <1>1, <1>2, <1>3, GoEffect, AdvanceEffect, StopEffect
  <1>5. restore # "restoring" /\ op.end = "none"
    BY <1>0 DEF RecordInv, RestoringCleared, RestoreClears
  <1>6. /\ \A s \in Steps : db'[s] = db[s] \/ (s \notin Unrecorded /\ Lost(s))
                            \/ (op.noted[s] = None /\ s \in Unrecorded /\ (s \in unsure' <=> s \in unsure))
        /\ \A s \in Steps : db'[s] = db[s] => (s \in unsure' <=> s \in unsure)
    <2>1. CASE UNCHANGED <<db, unsure>>
      BY <2>1
    <2>2. CASE \E k \in Nat : ReconcilePGAdminDataVolume(k)
      <3>1. PICK k \in Nat : ReconcilePGAdminDataVolume(k)
        BY <2>2
      <3> DEFINE gone == "admin" \notin op.spec.parts /\ "volume" \in First("admin", k)
      <3>2. /\ db' = [db EXCEPT !["admin"] = IF gone THEN None ELSE @]
            /\ unsure' = IF gone /\ db' # db THEN unsure \cup Recorded({"admin"} \ Unrecorded) ELSE unsure
        BY <3>1 DEF ReconcilePGAdminDataVolume
      <3> HIDE DEF gone
      <3>3. \A s \in Steps \ {"admin"} : db'[s] = db[s] /\ (s \in unsure' <=> s \in unsure)
        BY <1>2, <3>2 DEF HashRecords, Recorded
      <3>4. CASE db' = db
        BY <3>2, <3>4
      <3>5. CASE db' # db
        <4>1. gone /\ unsure' = unsure \cup Recorded({"admin"} \ Unrecorded)
          BY <1>2, <3>2, <3>5 DEF HashRecords
        <4>2. db'["admin"] # db["admin"]
          BY <1>2, <3>2, <3>5 DEF HashRecords
        <4>3. op.noted["admin"] = None
          <5>1. Place(op.pc) \in 7..11
            BY <1>1
          <5> QED BY <4>1, <5>1 DEF RecordInv, AdminErased, gone
        <4>4. "admin" \notin Unrecorded => Lost("admin")
          BY <4>1 DEF Lost, Recorded
        <4>5. "admin" \in Unrecorded => ("admin" \in unsure' <=> "admin" \in unsure)
          BY <4>1 DEF Recorded
        <4> QED BY <3>3, <4>2, <4>3, <4>4, <4>5
      <3> QED BY <3>4, <3>5
    <2>3. op.pc = "pgadmin" => \E k \in Nat : ReconcilePGAdminDataVolume(k)
      <3>1. Len(PGAdminObjects) \in Nat /\ 0..(Len(PGAdminObjects) - 1) \subseteq Nat
        BY DEF PGAdminObjects
      <3> QED BY <3>1 DEF ReconcilePGBouncer, ReconcilePGAdmin, ObjectFails, PGBouncerUpTo, PGAdminUpTo, At
    <2> QED BY <1>0, <2>1, <2>2, <2>3
  <1>7. /\ Place(op'.pc) >= Place(op.pc) /\ (op'.pc = "patch" \/ Place(op'.pc) <= Place(op.pc) + 1)
        /\ (op'.pc = "patch" \/ Place(op.pc) \notin {6, 12})
    BY <1>1, <1>4, Places
  <1> QED BY <1>0, <1>4, <1>5, <1>6, <1>7, QuietStep

LEMMA ClaimRefusedStep ==
    ASSUME Types, Types', RecordInv, PGAdminClaimRefused
    PROVE  RecordInv' /\ \A s \in Steps : FieldStep(s)
  <1>1. op.pc = "pgadmin" /\ UNCHANGED <<status, restore, db, unsure>> /\ Advance
    BY ClaimRefusedEffect
  <1>2. /\ op'.spec = op.spec /\ op'.before = op.before /\ op'.noted = op.noted
        /\ op'.end = op.end /\ Place(op'.pc) = Place(op.pc) + 1 /\ Place(op.pc) = 11
    BY <1>1, AdvanceEffect, Places
  <1>3. op'.pc = "patch"
    BY <1>2, Places DEF Types, Ops
  <1> QED BY <1>1, <1>2, <1>3, QuietStep

LEMMA OtherSteps ==
    ASSUME Types, Types', RecordInv, ReconcilePostgresUserSecrets \/ CallFails
    PROVE  RecordInv' /\ \A s \in Steps : FieldStep(s)
  <1>1. UNCHANGED <<status, restore, db, unsure>> /\ op.pc \in {"source", "secrets"}
        /\ (op.pc = "secrets" \/ Stop("error"))
    BY DEF ReconcilePostgresUserSecrets, CallFails, world, At
  <1>2. Place(op.pc) \in {2, 4}
    BY <1>1 DEF Place
  <1>3. /\ op'.spec = op.spec /\ op'.before = op.before /\ op'.noted = op.noted
        /\ \/ op'.end = op.end /\ Place(op'.pc) = Place(op.pc) + 1 /\ op.pc = "secrets"
           \/ op'.end = "error" /\ op'.pc = "patch"
    BY <1>1, UserSecretsEffect, StopEffect DEF CallFails
  <1>4. /\ restore = "restoring" => op.pc = "source"
        /\ op.end = "none"
    BY <1>1 DEF RecordInv, RestoringCleared, RestoreClears
  <1>5. /\ Place(op'.pc) >= Place(op.pc) /\ (op'.pc = "patch" \/ Place(op'.pc) <= Place(op.pc) + 1)
        /\ (op'.pc = "patch" \/ Place(op.pc) \notin {6, 12})
    BY <1>2, <1>3, Places
  <1> QED BY <1>1, <1>3, <1>4, <1>5, QuietStep

\* A restore begins: nothing is noted yet, and the two records are noted as erased.
LEMMA SourceStep ==
    ASSUME Types, Types', RecordInv, ReconcileDataSource
    PROVE  RecordInv' /\ \A s \in Steps : FieldStep(s)
  <1>1. /\ op.pc = "source" /\ op'.before = op.before
        /\ \/ op'.noted = op.noted /\ op'.end = op.end /\ op'.pc = "databases" /\ restore = "none"
           \/ op'.noted = op.noted /\ op'.end = "none" /\ op'.pc = "patch"
           \/ /\ op'.noted = ClearedForRestore /\ op'.end = "restore" /\ op'.pc = "patch"
              /\ op.before = status /\ restore = "requested"
    BY SourceEffect
  <1>2. UNCHANGED <<status, restore, db, unsure>>
    BY DEF ReconcileDataSource
  <1>3. Unrecorded = {} /\ op.noted = op.before
    <2>1. Place(op.pc) = 2
      BY <1>1 DEF Place
    <2>2. \A s \in Steps : s \notin Unrecorded /\ op.noted[s] = op.before[s]
      BY <2>1, NothingYet, Places DEF RecordInv
    <2>3. op.noted \in HashRecords /\ op.before \in HashRecords
      BY DEF Types, Ops
    <2> QED BY <2>2, <2>3 DEF HashRecords, Unrecorded
  <1>4. op.end = "none"
    BY <1>1 DEF RecordInv, RestoreClears
  <1>5. CASE op'.noted = op.noted
    <2>1. Unrecorded' = {}
      BY <1>1, <1>3, <1>5 DEF Unrecorded
    <2>2. Place(op'.pc) \notin 7..11
      BY <1>1, <1>4 , <1>5 DEF Place
    <2>3. \A s \in Steps : FieldStep(s)
      BY <1>2, <1>3, <2>1 DEF FieldStep
    <2>4. InOrder' /\ NotedHolds' /\ AdminErased'
      BY <2>1, <2>2 DEF InOrder, NotedHolds, AdminErased
    <2>5. CASE op'.end = "none"
      BY <1>1, <1>2, <2>1, <2>3, <2>4, <2>5 DEF RecordInv, RestoreClears, RestoringCleared
    <2>6. CASE op'.end = "restore" /\ op'.noted = ClearedForRestore
      <3>1. op'.noted["proxy"] = None /\ op'.noted["exporter"] = None
        BY <2>6 DEF Types, Ops, HashRecords, ClearedForRestore, Steps
      <3> QED BY <1>1, <1>2, <2>1, <2>3, <2>4, <2>6, <3>1 DEF RecordInv, RestoreClears, RestoringCleared
    <2> QED BY <1>1, <1>4, <2>5, <2>6
  <1>6. CASE /\ op'.noted = ClearedForRestore /\ op'.end = "restore" /\ op'.pc = "patch"
             /\ op.before = status /\ restore = "requested"
    <2>1. /\ op'.noted["proxy"] = None /\ op'.noted["exporter"] = None
          /\ \A s \in Steps : op'.noted[s] = op.noted[s] \/ op'.noted[s] = None
      BY <1>6 DEF Types, Ops, HashRecords, ClearedForRestore, Steps
    <2>2. \A s \in Unrecorded' : s \in Steps /\ op'.noted[s] = None
      BY <1>1, <1>3, <2>1 DEF Unrecorded
    <2>3. \A s \in Steps : FieldStep(s)
      BY <1>2, <1>3 DEF FieldStep
    <2>4. InOrder'
      <3>1. \A s \in Steps : Place(s) \in 3..10 /\ Place("patch") = 12
        BY Places
      <3> QED BY <1>6, <2>2, <3>1 DEF InOrder
    <2>5. NotedHolds' /\ AdminErased'
      BY <1>6, <2>2, Places DEF NotedHolds, AdminErased
    <2> QED BY <1>1, <1>2, <1>6, <2>1, <2>3, <2>4, <2>5 DEF RecordInv, RestoreClears, RestoringCleared
  <1> QED BY <1>1, <1>5, <1>6

\* Between reconciles, and at the start of one, there is nothing to record.
LEMMA FreshOp ==
    ASSUME op'.noted = op'.before, op'.end = "none", op'.pc \in {"idle", "source"},
           (restore' = "restoring" => status'["proxy"] = None /\ status'["exporter"] = None)
    PROVE  RecordInv' /\ Unrecorded' = {}
  <1>1. Unrecorded' = {}
    BY DEF Unrecorded
  <1>2. Place(op'.pc) \notin 7..11
    BY DEF Place
  <1> QED BY <1>1, <1>2 DEF RecordInv, InOrder, NotedHolds, AdminErased, RestoreClears, RestoringCleared

LEMMA IdleNothing ==
    ASSUME Types, RecordInv, op.pc = "idle"
    PROVE  Unrecorded = {} /\ op.end = "none"
  <1>1. Place(op.pc) = 1
    BY DEF Place
  <1>2. \A s \in Steps : s \notin Unrecorded
    BY <1>1, NothingYet, Places DEF RecordInv
  <1> QED BY <1>2 DEF Unrecorded, RecordInv, RestoreClears

LEMMA ReconcileStep ==
    ASSUME Types, RecordInv, Reconcile
    PROVE  RecordInv' /\ \A s \in Steps : FieldStep(s)
  <1>1. /\ op.pc = "idle" /\ op'.pc = "source" /\ op'.noted = op'.before /\ op'.end = "none"
    BY ReconcileEffect
  <1>2. UNCHANGED <<status, restore, db, unsure>>
    BY DEF Reconcile, world
  <1>3. restore' = "restoring" => status'["proxy"] = None /\ status'["exporter"] = None
    BY <1>2 DEF RecordInv, RestoringCleared
  <1>4. RecordInv' /\ Unrecorded' = {}
    BY <1>1, <1>3, FreshOp
  <1> QED BY <1>1, <1>2, <1>4, IdleNothing DEF FieldStep

LEMMA PatchStep ==
    ASSUME Types, RecordInv, PatchClusterStatus
    PROVE  RecordInv' /\ \A s \in Steps : FieldStep(s)
  <1>1. /\ op' = Idle /\ UNCHANGED db /\ unsure' = unsure \ Unrecorded
        /\ \A s \in Steps : status'[s] = IF s \in Unrecorded THEN op.noted[s] ELSE status[s]
        /\ restore' = IF op.end = "restore" THEN "restoring" ELSE restore
    BY DEF PatchClusterStatus
  <1>2. op'.noted = op'.before /\ op'.end = "none" /\ op'.pc = "idle"
    BY <1>1, IdleType
  <1>3. restore' = "restoring" => status'["proxy"] = None /\ status'["exporter"] = None
    <2>1. "proxy" \in Steps /\ "exporter" \in Steps
      BY DEF Steps
    <2>2. CASE op.end = "restore"
      <3>1. op.before = status /\ op.noted["proxy"] = None /\ op.noted["exporter"] = None
        BY <2>2 DEF RecordInv, RestoreClears
      <3> QED BY <1>1, <2>1, <3>1 DEF Unrecorded
    <2>3. CASE op.end # "restore" /\ restore = "restoring"
      <3>1. Unrecorded = {} /\ status["proxy"] = None /\ status["exporter"] = None
        BY <2>3 DEF RecordInv, RestoringCleared
      <3> QED BY <1>1, <2>1, <3>1
    <2> QED BY <1>1, <2>2, <2>3
  <1>4. RecordInv' /\ Unrecorded' = {}
    BY <1>2, <1>3, FreshOp
  <1>5. ASSUME NEW s \in Steps
        PROVE  FieldStep(s)
    <2>1. CASE s \in Unrecorded
      <3>1. status'[s] = op.noted[s]
        BY <1>1, <2>1
      <3>2. status'[s] = None \/ Holds(s, status'[s])
        BY <2>1, <3>1 DEF RecordInv, NotedHolds
      <3> QED BY <1>1, <1>4, <2>1, <3>2 DEF FieldStep
    <2>2. CASE s \notin Unrecorded
      BY <1>1, <1>4, <2>2 DEF FieldStep
    <2> QED BY <2>1, <2>2
  <1> QED BY <1>4, <1>5

LEMMA LostStep ==
    ASSUME Types, RecordInv, PatchLost
    PROVE  RecordInv' /\ \A s \in Steps : FieldStep(s)
  <1>1. op' = Idle /\ UNCHANGED <<db, status, restore>> /\ unsure' = unsure \cup Recorded(Unrecorded)
    BY DEF PatchLost, world
  <1>2. op'.noted = op'.before /\ op'.end = "none" /\ op'.pc = "idle"
    BY <1>1, IdleType
  <1>3. restore' = "restoring" => status'["proxy"] = None /\ status'["exporter"] = None
    BY <1>1 DEF RecordInv, RestoringCleared
  <1>4. RecordInv' /\ Unrecorded' = {}
    BY <1>2, <1>3, FreshOp
  <1> QED BY <1>1, <1>4 DEF FieldStep, Lost, Recorded

LEMMA WorldStep ==
    ASSUME Types, Types', RecordInv, World
    PROVE  RecordInv' /\ \A s \in Steps : FieldStep(s)
  <1>1. UNCHANGED <<status, op, objects>>
    BY TypesWorld
  <1>2. CASE ~ RestoreRuns
    <2>1. UNCHANGED <<db, unsure>> /\ (restore' = "restoring" => restore = "restoring")
      BY <1>2 DEF World, Sync, PodChanges, PodDies, EditSpec, EditSecret, RequestRestore, world
    <2>2. Unrecorded' = Unrecorded
      BY <1>1 DEF Unrecorded
    <2>3. \A s \in Steps : FieldStep(s)
      BY <1>1, <2>1, <2>2 DEF FieldStep
    <2>4. InOrder' /\ NotedHolds' /\ AdminErased' /\ RestoreClears' /\ RestoringCleared'
      BY <1>1, <2>1, <2>2 DEF RecordInv, InOrder, NotedHolds, Holds, AdminErased, RestoreClears, RestoringCleared
    <2> QED BY <2>3, <2>4 DEF RecordInv
  <1>3. CASE RestoreRuns
    <2>1. op.pc = "idle" /\ restore = "restoring" /\ restore' = "none"
          /\ unsure' = unsure \cup Recorded({s \in {"databases", "users", "init"} : db'[s] # db[s]})
      BY <1>3 DEF RestoreRuns, At
    <2>2. PICK kept \in PointsInTime : db' = [s \in Steps |-> IF s \in kept \cup {"admin"} THEN db[s] ELSE None]
      BY <1>3 DEF RestoreRuns
    <2>3. Unrecorded = {} /\ Unrecorded' = {} /\ op.end = "none"
      <3>1. Unrecorded = {} /\ op.end = "none"
        BY <2>1, IdleNothing
      <3> QED BY <1>1, <3>1 DEF Unrecorded
    <2>4. status["proxy"] = None /\ status["exporter"] = None
      BY <2>1 DEF RecordInv, RestoringCleared
    <2>5. ASSUME NEW s \in Steps
          PROVE  FieldStep(s)
      <3>1. CASE s = "admin"
        <4>1. db'[s] = db[s] /\ (s \in unsure' <=> s \in unsure)
          BY <2>1, <2>2, <3>1 DEF Recorded
        <4> QED BY <1>1, <2>3, <4>1 DEF FieldStep
      <3>2. CASE s \in {"proxy", "exporter"}
        <4>1. s \in unsure' <=> s \in unsure
          BY <2>1, <3>2 DEF Recorded
        <4> QED BY <1>1, <2>3, <2>4, <3>2, <4>1 DEF FieldStep, Lost
      <3>3. CASE s \in {"databases", "users", "init"}
        <4>1. CASE db'[s] = db[s]
          BY <1>1, <2>1, <2>3, <3>3, <4>1 DEF FieldStep, Recorded
        <4>2. CASE db'[s] # db[s]
          BY <1>1, <2>1, <2>3, <3>3, <4>2 DEF FieldStep, Recorded, Lost
        <4> QED BY <4>1, <4>2
      <3> QED BY <3>1, <3>2, <3>3 DEF Steps
    <2>6. RecordInv'
      <3>1. Place(op'.pc) \notin 7..11
        BY <1>1, <2>1 DEF Place
      <3> QED BY <1>1, <2>1, <2>3, <3>1 DEF RecordInv, InOrder, NotedHolds, AdminErased, RestoreClears, RestoringCleared
    <2> QED BY <2>5, <2>6
  <1> QED BY <1>2, <1>3

LEMMA RecordInit == Init => RecordInv
  <1> SUFFICES ASSUME Init PROVE RecordInv
    OBVIOUS
  <1>1. op = Idle /\ restore = "none"
    BY DEF Init
  <1>2. op.noted = op.before /\ op.end = "none" /\ op.pc = "idle"
    BY <1>1, IdleType
  <1>3. Unrecorded = {} /\ Place(op.pc) \notin 7..11
    BY <1>2 DEF Unrecorded, Place
  <1> QED BY <1>1, <1>2, <1>3 DEF RecordInv, InOrder, NotedHolds, AdminErased, RestoreClears, RestoringCleared

LEMMA RecordStep ==
    ASSUME Types, RecordInv, [Next]_vars
    PROVE  RecordInv' /\ [Records!Next]_(Records!vars)
  <1>1. Types'
    BY TypesStep
  <1>2. CASE UNCHANGED vars
    <2>1. RecordInv'
      BY <1>2 DEF vars, RecordInv, InOrder, NotedHolds, Holds, AdminErased, RestoreClears, RestoringCleared, Unrecorded
    <2>2. UNCHANGED Records!vars
      BY <1>2 DEF vars, Records!vars, Holds, Unrecorded
    <2> QED BY <2>1, <2>2
  <1>3. CASE Next
    <2>1. RecordInv' /\ \A s \in Steps : FieldStep(s)
      BY <1>1, <1>3, Actions, CommandStep, ObjectsStep, ClaimRefusedStep, OtherSteps, SourceStep, ReconcileStep, PatchStep,
         LostStep, WorldStep DEF Command
    <2> QED BY <1>1, <2>1, FieldSteps
  <1> QED BY <1>2, <1>3

\* The hashes in the status, written by one patch at the end of a reconcile that may fail
\* at any point, implement recorded writes.
THEOREM StatusIsRecord == Spec => StatusRecords
  <1>1. Init => Records!Init
    <2> SUFFICES ASSUME Init PROVE Records!Init
      OBVIOUS
    <2>1. status = [s \in Steps |-> None] /\ unsure = {} /\ op = Idle
      BY DEF Init, NoHashes
    <2>2. Unrecorded = {}
      BY <2>1, IdleType DEF Unrecorded
    <2> QED BY <2>1, <2>2 DEF Records!Init
  <1>2. Init => Types /\ RecordInv
    BY TypesInit, RecordInit
  <1>3. Types /\ RecordInv /\ [Next]_vars => (Types /\ RecordInv)' /\ [Records!Next]_(Records!vars)
    BY TypesStep, RecordStep
  <1> QED BY <1>1, <1>2, <1>3, PTL DEF Spec, StatusRecords, Records!Spec

\* Hence a hash in the status is that of work that has been done and still holds, unless
\* newer work is about to be recorded or a loss has been accounted for: the premise of
\* every "already applied" in the reconcile functions.
THEOREM StatusIsTruthful == Spec => []Records!Truthful
  <1>1. Init => Records!Truthful
    BY DEF Init, NoHashes, Records!Truthful
  <1>2. ASSUME Types, Records!Truthful, [Records!Next]_(Records!vars)
        PROVE  Records!Truthful'
    <2>1. CASE UNCHANGED Records!vars
      <3>1. /\ UNCHANGED <<status, unsure>> /\ Unrecorded' = Unrecorded
            /\ [s \in Steps |-> {h \in Hashes : Holds(s, h)}]' = [s \in Steps |-> {h \in Hashes : Holds(s, h)}]
        BY <2>1 DEF Records!vars
      <3> QED BY <1>2, <3>1 DEF Records!Truthful
    <2>2. CASE Records!Next
      <3> SUFFICES ASSUME NEW s \in Steps
                   PROVE  \/ status'[s] = None
                          \/ status'[s] \in [r \in Steps |-> {h \in Hashes : Holds(r, h)}]'[s]
                          \/ s \in Unrecorded' \/ s \in unsure'
        BY DEF Records!Truthful
      <3> DEFINE held == [r \in Steps |-> {h \in Hashes : Holds(r, h)}]
      <3>1. status[s] = None \/ status[s] \in held[s] \/ s \in Unrecorded \/ s \in unsure
        BY <1>2 DEF Records!Truthful
      <3>2. Records!Write(s) \/ Records!Record(s) \/ Records!Abandon(s) \/ Records!Disturb(s) \/ Records!Same(s)
        BY <2>2 DEF Records!Next
      <3>3. \/ s \in Unrecorded'
            \/ (status'[s] \in held[s] \cup {None} /\ held'[s] = held[s])
            \/ s \in unsure'
            \/ (status'[s] = status[s] /\ status[s] = None)
            \/ /\ held'[s] = held[s] /\ status'[s] = status[s] /\ (s \in unsure' <=> s \in unsure)
               /\ s \in Unrecorded' <=> s \in Unrecorded
        BY <3>2 DEF Records!Write, Records!Record, Records!Abandon, Records!Disturb, Records!Same,
              Records!SameHeld, Records!SameRecorded, Records!SameLost
      <3> HIDE DEF held
      <3>4. status'[s] = None \/ status'[s] \in held'[s] \/ s \in Unrecorded' \/ s \in unsure'
        BY <3>1, <3>3
      <3> QED BY <3>4 DEF held
    <2> QED BY <1>2, <2>1, <2>2
  <1>3. Init => Types /\ RecordInv
    BY TypesInit, RecordInit
  <1>4. Types /\ RecordInv /\ [Next]_vars => (Types /\ RecordInv)' /\ [Records!Next]_(Records!vars)
    BY TypesStep, RecordStep
  <1>5. Types /\ Records!Truthful /\ [Records!Next]_(Records!vars) => Records!Truthful'
    BY <1>2
  <1> QED BY <1>1, <1>3, <1>4, <1>5, PTL DEF Spec

-----------------------------------------------------------------------------
(* What a reconcile that reports no error has left behind.                 *)

\* A step that the pipeline has passed left what was wanted, unless the copy of the status
\* was stale, a loss is on record or there was no container for it.
Done(s) == op.before = status /\ s \notin unsure /\ Writable(s) => Holds(s, Revision(s))

AllObjects(part) == First(part, Len(ObjectsOf(part)))
ObjectDone(part, o) == (o \in objects[part] <=> part \in op.spec.parts) \/ (o = "volume" /\ refused)
ObjectsDone(part) == \A o \in AllObjects(part) : ObjectDone(part, o)

\* So it is, along the pipeline, for what has been passed.
Undisturbed == restore = "none" /\ op.end = "none"
CompleteInv ==
    Undisturbed =>
        /\ \A s \in Steps : Place(op.pc) > Place(s) => Done(s)
        /\ Place(op.pc) > 7 => ObjectsDone("proxy")
        /\ Place(op.pc) > 11 => ObjectsDone("admin")

LEMMA GoKeeps ==
    ASSUME Types, NEW n, NEW sec, Go(n, sec)
    PROVE  op'.pod = op.pod /\ op'.secret = sec /\ op'.spec = op.spec /\ op'.before = op.before
  BY DEF Types, Ops, Go

\* The steps want what their own part of the spec and their own Secret say.
LEMMA SameRevision ==
    ASSUME Types, NEW s \in Steps, op'.spec = op.spec, op'.pod = op.pod,
           s \in {"users", "admin"} => op'.secret["user"] = op.secret["user"],
           s = "proxy" => op'.secret["proxy"] = op.secret["proxy"],
           s = "exporter" => op'.secret["monitor"] = op.secret["monitor"]
    PROVE  Revision(s)' = Revision(s)
  BY DEF Revision, WantedHash, Steps, CreateDatabasesInPostgreSQL, WriteUsersInPostgreSQL,
         WriteUsersInPGAdmin, EnableInPostgreSQL, DisableInPostgreSQL, EnableExporterInPostgreSQL,
         DisableExporterInPostgreSQL, InitSQL

LEMMA SameWritable ==
    ASSUME Types, NEW s \in Steps, op'.spec = op.spec, op'.pod = op.pod,
           adminPod' = "running" => adminPod = "running", Writable(s)'
    PROVE  Writable(s)
  BY DEF Writable, WritablePod, PGBouncerPod, ExporterReady, PGAdminReady, Steps

LEMMA StillDone ==
    ASSUME Types, NEW s \in Steps, Done(s), UNCHANGED status, op'.before = op.before,
           s \in unsure => s \in unsure', op'.spec = op.spec, op'.pod = op.pod,
           adminPod' = "running" => adminPod = "running", Revision(s)' = Revision(s),
           db'[s] = db[s] \/ (s = "admin" /\ Revision(s) = None)
    PROVE  Done(s)'
  <1> SUFFICES ASSUME op'.before = status', s \notin unsure', Writable(s)'
               PROVE  Fulfils(s, db'[s], Revision(s))
    BY DEF Done, Holds
  <1>1. Writable(s)
    BY SameWritable
  <1>2. Fulfils(s, db[s], Revision(s))
    BY <1>1 DEF Done, Holds
  <1> QED BY <1>2 DEF Fulfils

\* A step that is not disabled wants something, and one that is wants nothing.
LEMMA RevisionIsSome ==
    ASSUME Types, NEW s \in Steps, At(s)
    PROVE  (Revision(s) = None) <=> Disabled(s)
  <1>1. op.spec \in SpecType /\ op.spec.users \in Nat \ {0} /\ op.pod.image \in {1, 2}
    <2>1. op.spec \in SpecType /\ op.pod \in Pods
      BY DEF Types, Ops, At, Steps
    <2> QED BY <2>1, DatabaseObjectsAssumption DEF SpecType, Pods
  <1>2. \A x, y : <<x, y>> = None => x = 0
    BY DEF None
  <1>3. Off # None /\ InitSQL # None
    BY DEF Off, None, InitSQL
  <1>4. \A y : /\ <<op.spec.users, y>> # None /\ <<1, y>> # None /\ <<op.pod.image, y>> # None
    BY <1>1, <1>2
  <1> QED BY <1>3, <1>4 DEF Revision, WantedHash, Disabled, Steps, CreateDatabasesInPostgreSQL,
            WriteUsersInPostgreSQL, WriteUsersInPGAdmin, EnableInPostgreSQL, DisableInPostgreSQL,
            EnableExporterInPostgreSQL, DisableExporterInPostgreSQL

\* What the command of a step does to the claim that the step is done: it was skipped on
\* the strength of a truthful record, or it has run.
LEMMA CommandDone ==
    ASSUME Types, RecordInv, Records!Truthful, NEW s \in Steps, Command(s), op'.end = "none"
    PROVE  Done(s)'
  <1>0. /\ op.pc = s /\ op.pc # "idle" /\ op.pc # "patch" /\ op'.before = op.before /\ UNCHANGED status
        /\ op'.spec = op.spec
    <2>1. op.pc = s /\ UNCHANGED status /\ op'.before = op.before /\ op'.spec = op.spec
      BY CommandEffect
    <2> QED BY <2>1 DEF Steps
  <1>1. op.noted \in HashRecords /\ op.secret \in [Accounts -> Passwords] /\ db \in HashRecords
        /\ Revision(s) \in Hashes
    BY <1>0, RevisionType DEF Types, Ops, At
  <1>2. ~Stop("error")
    BY <1>0, StopEffect
  <1>3. \E n : Go(n, op.secret)
    BY <1>2 DEF Command, StepSkips, StepRuns, StepRefused, StepFails, ExtensionFails, FailStep, Advance
  <1>4. op'.pod = op.pod /\ op'.secret = op.secret
    BY <1>3, GoKeeps
  <1>5. Revision(s)' = Revision(s)
    BY <1>0, <1>4, SameRevision
  <1> SUFFICES ASSUME op.before = status, s \notin unsure', Writable(s)'
               PROVE  Fulfils(s, db'[s], Revision(s))
    BY <1>0, <1>5 DEF Done, Holds
  <1>6. CASE StepRuns(s) \/ (s = "databases" /\ ExtensionFails)
    <2>1. db' = [db EXCEPT ![s] = Contents(s, Revision(s))]
      BY <1>6 DEF StepRuns, ExtensionFails
    <2>2. db'[s] = Contents(s, Revision(s))
      BY <1>1, <2>1 DEF HashRecords
    <2> QED BY <1>1, <2>2, ContentsFulfil
  <1>7. CASE StepSkips(s)
    <2>1. UNCHANGED <<db, unsure, adminPod>>
      BY <1>7 DEF StepSkips, world
    <2>2. CASE Disabled(s)
      <3>1. Revision(s) = None /\ s \in {"admin", "init"}
        BY <1>0, <2>2, RevisionIsSome DEF At, Disabled
      <3> QED BY <3>1 DEF Fulfils
    <2>3. CASE ~Disabled(s)
      <3>1. Writable(s)
        BY <1>0, <1>4, <2>1, SameWritable
      <3>2. op.noted[s] = Revision(s)
        BY <1>7, <2>3, <3>1 DEF StepSkips, AlreadyApplied
      <3>3. s \notin Unrecorded /\ op.noted[s] = op.before[s]
        BY <1>0, NothingYet, Places DEF RecordInv
      <3>4. status[s] = Revision(s) /\ status[s] # None
        BY <1>0, <2>3, <3>2, <3>3, RevisionIsSome DEF At
      <3>5. status[s] \in [r \in Steps |-> {h \in Hashes : Holds(r, h)}][s]
        BY <2>1, <3>3, <3>4 DEF Records!Truthful
      <3>6. Holds(s, Revision(s))
        BY <3>4, <3>5
      <3> QED BY <2>1, <3>6 DEF Holds
    <2> QED BY <2>2, <2>3
  <1> QED BY <1>2, <1>6, <1>7 DEF Command, StepRefused, StepFails, FailStep

\* Where the stages are.
LEMMA PlaceOf ==
    /\ \A s \in Steps : /\ (Place(s) < 4 <=> s = "databases")
                        /\ (Place(s) < 7 <=> s \in {"databases", "users", "admin"})
                        /\ Place(s) # 4 /\ Place(s) # 7 /\ Place(s) # 11
    /\ \A s, r \in Steps : Place(s) = Place(r) => s = r
    /\ Place("secrets") = 4 /\ Place("bouncer") = 7 /\ Place("pgadmin") = 11
  <1>1. /\ Place("databases") = 3 /\ Place("users") = 5 /\ Place("admin") = 6 /\ Place("proxy") = 8
        /\ Place("exporter") = 9 /\ Place("init") = 10
        /\ Place("secrets") = 4 /\ Place("bouncer") = 7 /\ Place("pgadmin") = 11
    BY DEF Place
  <1> QED BY <1>1 DEF Steps

LEMMA CompleteCommand ==
    ASSUME Types, RecordInv, Records!Truthful, CompleteInv, NEW s \in Steps, Command(s)
    PROVE  CompleteInv'
  <1> SUFFICES ASSUME restore' = "none", op'.end = "none"
               PROVE  /\ \A r \in Steps : Place(op'.pc) > Place(r) => Done(r)'
                      /\ Place(op'.pc) > 7 => ObjectsDone("proxy")'
                      /\ Place(op'.pc) > 11 => ObjectsDone("admin")'
    BY DEF CompleteInv, Undisturbed
  <1>1. /\ op.pc = s /\ op'.spec = op.spec /\ op'.before = op.before /\ UNCHANGED <<status, restore>>
        /\ op'.end = op.end \/ op'.end = "error"
        /\ \A r \in Steps \ {s} : db'[r] = db[r] /\ (r \in unsure' <=> r \in unsure)
    BY CommandEffect
  <1>2. op.pc # "idle" /\ op.pc # "patch" /\ Place(s) \in 3..10
    BY <1>1, Places DEF Steps
  <1>3. ~Stop("error") /\ op.secret \in [Accounts -> Passwords] /\ op.noted \in HashRecords
    BY <1>1, <1>2, StopEffect DEF Types, Ops
  <1>4. PICK n \in HashRecords : Go(n, op.secret)
    <2>1. None \in Hashes /\ Revision(s) \in Hashes
      BY <1>1, RevisionType, HashFacts DEF At
    <2>2. \A h \in Hashes : Note(s, h) \in HashRecords
      BY <1>3 DEF Note, HashRecords
    <2> QED BY <1>3, <2>1, <2>2 DEF Command, StepSkips, StepRuns, StepRefused, StepFails, ExtensionFails, FailStep,
              Advance
  <1>5. op'.pod = op.pod /\ op'.secret = op.secret /\ Place(op'.pc) = Place(s) + 1
    BY <1>1, <1>2, <1>3, <1>4, GoKeeps, GoEffect
  <1>6. UNCHANGED <<adminPod, refused, objects>>
    BY DEF Command, StepSkips, StepRuns, StepRefused, StepFails, ExtensionFails, world
  <1>7. Undisturbed
    BY <1>1 DEF Undisturbed
  <1>8. ASSUME NEW r \in Steps, Place(op'.pc) > Place(r)
        PROVE  Done(r)'
    <2>1. CASE r = s
      BY <2>1, CommandDone
    <2>2. CASE r # s
      <3>1. Place(r) # Place(s) /\ Place(r) \in Int
        BY <2>2, PlaceOf, Places
      <3>2. Done(r)
        BY <1>1, <1>2, <1>5, <1>7, <1>8, <3>1 DEF CompleteInv
      <3>3. Revision(r)' = Revision(r)
        BY <1>1, <1>5, SameRevision
      <3> QED BY <1>1, <1>5, <1>6, <2>2, <3>2, <3>3, StillDone
    <2> QED BY <2>1, <2>2
  <1>9. ASSUME NEW part \in {"proxy", "admin"}, ObjectsDone(part)
        PROVE  ObjectsDone(part)'
    BY <1>1, <1>6, <1>9 DEF ObjectsDone, ObjectDone, AllObjects, First, ObjectsOf
  <1>10. /\ Place(op'.pc) > 7 => Place(s) > 7
         /\ ~(Place(op'.pc) > 11)
    <2>1. Place(s) # 7
      BY PlaceOf
    <2> QED BY <1>2, <1>5, <2>1
  <1> QED BY <1>1, <1>7, <1>8, <1>9, <1>10 DEF CompleteInv

\* The steps that write Secrets or objects leave alone what the passed steps want.
LEMMA KeepsDone ==
    ASSUME Types, CompleteInv, Undisturbed, NEW n, NEW sec, Go(n, sec), UNCHANGED status,
           unsure \subseteq unsure', adminPod' = "running" => adminPod = "running",
           \A r \in Steps : db'[r] = db[r] \/ (r = "admin" /\ Revision(r) = None),
           \/ Place(op.pc) = 4 /\ sec["proxy"] = op.secret["proxy"] /\ sec["monitor"] = op.secret["monitor"]
           \/ Place(op.pc) = 7 /\ sec["user"] = op.secret["user"] /\ sec["monitor"] = op.secret["monitor"]
           \/ Place(op.pc) = 11 /\ sec = op.secret,
           NEW s \in Steps, Place(op.pc) > Place(s)
    PROVE  Done(s)'
  <1>1. op'.pod = op.pod /\ op'.secret = sec /\ op'.spec = op.spec /\ op'.before = op.before
    BY GoKeeps
  <1>2. Done(s)
    BY DEF CompleteInv
  <1>3. /\ Place(op.pc) = 4 => s = "databases"
        /\ Place(op.pc) = 7 => s \in {"databases", "users", "admin"}
    BY PlaceOf
  <1>4. Revision(s)' = Revision(s)
    BY <1>1, <1>3, SameRevision
  <1> QED BY <1>1, <1>2, <1>4, StillDone

LEMMA CompleteObjects ==
    ASSUME Types, Types', RecordInv, CompleteInv, ReconcilePGBouncer
    PROVE  CompleteInv'
  <1> SUFFICES ASSUME restore' = "none", op'.end = "none"
               PROVE  /\ \A r \in Steps : Place(op'.pc) > Place(r) => Done(r)'
                      /\ ObjectsDone("proxy")' /\ ~(Place(op'.pc) > 11)
    BY DEF CompleteInv, Undisturbed
  <1> DEFINE sec == [op.secret EXCEPT !["proxy"] = secrets'["proxy"]]
  <1>1. /\ op.pc = "bouncer" /\ UNCHANGED <<status, restore, adminPod, db, unsure>>
        /\ ReconcileObjects("proxy", Len(PGBouncerObjects)) /\ Go(op.noted, sec)
    BY DEF ReconcilePGBouncer, PGBouncerUpTo, At, world
  <1>2. /\ op.noted \in HashRecords /\ op.secret \in [Accounts -> Passwords] /\ sec \in [Accounts -> Passwords]
        /\ sec["user"] = op.secret["user"] /\ sec["monitor"] = op.secret["monitor"]
    BY DEF Types, Ops, Accounts
  <1> HIDE DEF sec
  <1>3. op'.spec = op.spec /\ op'.end = op.end /\ Place(op'.pc) = Place(op.pc) + 1 /\ Place(op.pc) = 7
    BY <1>1, <1>2, GoEffect, PlaceOf
  <1>4. Undisturbed
    BY <1>1, <1>3 DEF Undisturbed
  <1>5. ASSUME NEW r \in Steps, Place(op'.pc) > Place(r)
        PROVE  Done(r)'
    <2>1. Place(op.pc) > Place(r)
      BY <1>3, <1>5, PlaceOf, Places
    <2> QED BY <1>1, <1>2, <1>3, <1>4, <2>1, KeepsDone
  <1>6. ObjectsDone("proxy")'
    <2>1. AllObjects("proxy") = First("proxy", Len(PGBouncerObjects)) /\ AllObjects("proxy")' = AllObjects("proxy")
      BY DEF AllObjects, ObjectsOf, First
    <2>2. objects'["proxy"] = IF "proxy" \in op.spec.parts THEN objects["proxy"] \cup AllObjects("proxy")
                              ELSE objects["proxy"] \ AllObjects("proxy")
      BY <1>1, <2>1 DEF ReconcileObjects, Types
    <2> QED BY <1>3, <2>1, <2>2 DEF ObjectsDone, ObjectDone
  <1> QED BY <1>3, <1>5, <1>6

LEMMA CompletePGAdmin ==
    ASSUME Types, Types', RecordInv, CompleteInv, ReconcilePGAdmin \/ PGAdminClaimRefused
    PROVE  CompleteInv'
  <1> SUFFICES ASSUME restore' = "none", op'.end = "none"
               PROVE  /\ \A r \in Steps : Place(op'.pc) > Place(r) => Done(r)'
                      /\ ObjectsDone("proxy")' /\ ObjectsDone("admin")'
    BY DEF CompleteInv, Undisturbed
  <1>0. Len(PGAdminObjects) = 4 /\ Len(PGAdminObjects) \in Nat
    BY DEF PGAdminObjects
  <1>1. /\ op.pc = "pgadmin" /\ UNCHANGED <<status, restore>> /\ Advance
        /\ ReconcilePGAdminStatefulSet(Len(PGAdminObjects))
        /\ objects' = [objects EXCEPT !["admin"] = objects'["admin"]]
    <2>1. CASE ReconcilePGAdmin
      BY <2>1 DEF ReconcilePGAdmin, PGAdminUpTo, At, ReconcileObjects, Types
    <2>2. CASE PGAdminClaimRefused
      BY <2>2 DEF PGAdminClaimRefused, At, Types
    <2> QED BY <2>1, <2>2
  <1>2. /\ op'.spec = op.spec /\ op'.end = op.end /\ Place(op'.pc) = Place(op.pc) + 1 /\ Place(op.pc) = 11
        /\ Go(op.noted, op.secret)
    BY <1>1, AdvanceEffect, PlaceOf DEF Advance
  <1>3. Undisturbed
    BY <1>1, <1>2 DEF Undisturbed
  <1>4. adminPod' = "running" => adminPod = "running"
    BY <1>1 DEF ReconcilePGAdminStatefulSet
  <1>5. /\ unsure \subseteq unsure'
        /\ \A r \in Steps : db'[r] = db[r] \/ (r = "admin" /\ Revision(r) = None)
    <2>1. CASE UNCHANGED <<db, unsure>>
      BY <2>1
    <2>2. CASE ReconcilePGAdminDataVolume(Len(PGAdminObjects))
      <3>1. unsure \subseteq unsure'
        BY <2>2 DEF ReconcilePGAdminDataVolume
      <3>2. db' = [db EXCEPT !["admin"] = db["admin"]]
            \/ ("admin" \notin op.spec.parts /\ db' = [db EXCEPT !["admin"] = None])
        BY <2>2 DEF ReconcilePGAdminDataVolume
      <3>3. "admin" \notin op.spec.parts => Revision("admin") = None
        BY DEF Revision, WantedHash
      <3>4. db \in HashRecords
        BY DEF Types
      <3> QED BY <3>1, <3>2, <3>3, <3>4 DEF HashRecords
    <2> QED BY <2>1, <2>2, ClaimRefusedEffect DEF ReconcilePGAdmin, PGAdminUpTo
  <1>6. ASSUME NEW r \in Steps, Place(op'.pc) > Place(r)
        PROVE  Done(r)'
    <2>1. Place(op.pc) > Place(r)
      BY <1>2, Places
    <2> QED BY <1>1, <1>2, <1>3, <1>4, <1>5, <2>1, KeepsDone
  <1>7. ObjectsDone("proxy")'
    <2>1. ObjectsDone("proxy")
      BY <1>2, <1>3 DEF CompleteInv
    <2>2. objects'["proxy"] = objects["proxy"]
      BY <1>1 DEF Types
    <2>3. \A o \in AllObjects("proxy") : o # "volume"
      BY DEF AllObjects, First, ObjectsOf, PGBouncerObjects
    <2>4. AllObjects("proxy")' = AllObjects("proxy")
      BY DEF AllObjects, First, ObjectsOf
    <2> QED BY <1>2, <2>1, <2>2, <2>3, <2>4 DEF ObjectsDone, ObjectDone
  <1>8. ObjectsDone("admin")'
    <2>1. AllObjects("admin") = First("admin", 4) /\ AllObjects("admin")' = AllObjects("admin")
      BY <1>0 DEF AllObjects, ObjectsOf, First
    <2>2. CASE ReconcilePGAdmin
      <3>1. objects'["admin"] = IF "admin" \in op.spec.parts THEN objects["admin"] \cup AllObjects("admin")
                                ELSE objects["admin"] \ AllObjects("admin")
        BY <1>0, <2>1, <2>2 DEF ReconcilePGAdmin, PGAdminUpTo, ReconcileObjects, Types
      <3> QED BY <1>2, <2>1, <3>1 DEF ObjectsDone, ObjectDone
    <2>3. CASE PGAdminClaimRefused
      <3>1. /\ "admin" \in op.spec.parts /\ refused' = ("volume" \notin objects["admin"])
            /\ objects' = [objects EXCEPT !["admin"] = @ \cup (First("admin", 4) \ {"volume"})]
        BY <2>3, ClaimRefusedEffect
      <3>2. objects'["admin"] = objects["admin"] \cup (AllObjects("admin") \ {"volume"})
        BY <2>1, <3>1 DEF Types
      <3>3. \A o \in AllObjects("admin") : o \in objects'["admin"] \/ (o = "volume" /\ refused')
        BY <3>1, <3>2
      <3> QED BY <1>2, <2>1, <3>1, <3>3 DEF ObjectsDone, ObjectDone
    <2> QED BY <2>2, <2>3
  <1> QED BY <1>6, <1>7, <1>8

LEMMA CompleteSecrets ==
    ASSUME Types, Types', RecordInv, CompleteInv, ReconcilePostgresUserSecrets
    PROVE  CompleteInv'
  <1> SUFFICES ASSUME restore' = "none", op'.end = "none"
               PROVE  /\ \A r \in Steps : Place(op'.pc) > Place(r) => Done(r)'
                      /\ ~(Place(op'.pc) > 7) /\ ~(Place(op'.pc) > 11)
    BY DEF CompleteInv, Undisturbed
  <1>1. /\ op.pc = "secrets" /\ UNCHANGED <<status, restore, adminPod, db, unsure>>
        /\ Go(op.noted, [op.secret EXCEPT !["user"] = Password("user", TRUE)])
    BY DEF ReconcilePostgresUserSecrets, ApplySecret, At, world
  <1>2. /\ op'.end = op.end /\ Place(op'.pc) = Place(op.pc) + 1 /\ Place(op.pc) = 4
    BY UserSecretsEffect, PlaceOf
  <1>3. Undisturbed
    BY <1>1, <1>2 DEF Undisturbed
  <1> DEFINE sec == [op.secret EXCEPT !["user"] = Password("user", TRUE)]
  <1>4. sec["proxy"] = op.secret["proxy"] /\ sec["monitor"] = op.secret["monitor"]
    BY DEF Types, Ops, Accounts
  <1>5. Go(op.noted, sec)
    BY <1>1
  <1> HIDE DEF sec
  <1>6. ASSUME NEW r \in Steps, Place(op'.pc) > Place(r)
        PROVE  Done(r)'
    <2>1. Place(op.pc) > Place(r)
      BY <1>2, <1>6, PlaceOf, Places
    <2> QED BY <1>1, <1>2, <1>3, <1>4, <1>5, <2>1, KeepsDone
  <1> QED BY <1>2, <1>6

\* Nothing is claimed at the start of a reconcile, nor of one that ends with an error or
\* in a restore.
LEMMA CompleteFresh ==
    ASSUME op'.pc \in {"idle", "source", "databases"} \/ op'.end # "none" \/ restore' # "none"
    PROVE  CompleteInv'
  <1>1. CASE op'.end # "none" \/ restore' # "none"
    BY <1>1 DEF CompleteInv, Undisturbed
  <1>2. CASE op'.pc \in {"idle", "source", "databases"}
    <2>1. Place(op'.pc) \in 1..3 /\ \A s \in Steps : Place(s) \in 3..10
      BY <1>2, Places DEF Place
    <2>2. ~(Place(op'.pc) > 7) /\ ~(Place(op'.pc) > 11)
      BY <2>1
    <2>3. \A s \in Steps : ~(Place(op'.pc) > Place(s))
      BY <2>1
    <2> QED BY <2>2, <2>3 DEF CompleteInv
  <1> QED BY <1>1, <1>2

LEMMA CompleteWorld ==
    ASSUME Types, CompleteInv, World \/ UNCHANGED vars
    PROVE  CompleteInv'
  <1>1. CASE op'.pc = "idle"
    BY <1>1, CompleteFresh
  <1>2. CASE UNCHANGED <<op, status, objects, db, unsure, adminPod, restore, refused>>
    <2>1. \A s \in Steps : Done(s) => Done(s)'
      BY <1>2, StillDone, SameRevision
    <2>2. \A part \in {"proxy", "admin"} : ObjectsDone(part) => ObjectsDone(part)'
      BY <1>2 DEF ObjectsDone, ObjectDone, AllObjects, First, ObjectsOf
    <2> QED BY <1>2, <2>1, <2>2 DEF CompleteInv, Undisturbed
  <1>3. op'.pc = "idle" \/ UNCHANGED <<op, status, objects, db, unsure, adminPod, restore, refused>>
    BY DEF World, Sync, PodChanges, RestoreRuns, PodDies, EditSpec, EditSecret, RequestRestore, At, vars, world
  <1> QED BY <1>1, <1>2, <1>3

LEMMA CompleteStep ==
    ASSUME Types, RecordInv, Records!Truthful, CompleteInv, [Next]_vars
    PROVE  CompleteInv'
  <1>0. Types'
    BY TypesStep
  <1>1. CASE Reconcile
    BY <1>1, ReconcileEffect, CompleteFresh
  <1>2. CASE ReconcileDataSource
    <2>1. op'.pc = "databases" \/ op'.end # "none" \/ restore' # "none"
      <3>1. CASE restore = "none"
        BY <1>2, <3>1, SourceEffect DEF ReconcileDataSource
      <3>2. CASE restore # "none"
        BY <1>2, <3>2 DEF ReconcileDataSource
      <3> QED BY <3>1, <3>2
    <2> QED BY <2>1, CompleteFresh
  <1>3. CASE PatchClusterStatus \/ PatchLost
    BY <1>3, IdleType, CompleteFresh DEF PatchClusterStatus, PatchLost
  <1>4. CASE CallFails \/ ObjectFails
    <2>1. op.pc # "idle" /\ Stop("error")
      BY <1>4 DEF CallFails, ObjectFails, PGBouncerUpTo, PGAdminUpTo, At
    <2>2. op'.end = "error"
      BY <2>1, StopEffect
    <2> QED BY <2>2, CompleteFresh
  <1> QED BY <1>0, <1>1, <1>2, <1>3, <1>4, Actions, CompleteCommand, CompleteObjects, CompletePGAdmin,
            CompleteSecrets, CompleteWorld DEF Command

\* A reconcile of any cluster that ends without an error outside of a restore has left all
\* objects and contents that it was asked for, but for those that SuccessIsComplete excepts.
THEOREM SuccessfulReconcileIsComplete == Spec => []SuccessIsComplete
  <1>1. Init => CompleteInv
    <2> SUFFICES ASSUME Init PROVE CompleteInv
      OBVIOUS
    <2>1. Place(op.pc) = 1 /\ \A s \in Steps : Place(s) \in 3..10
      BY IdleType, Places DEF Init
    <2>2. ~(Place(op.pc) > 7) /\ ~(Place(op.pc) > 11) /\ \A s \in Steps : ~(Place(op.pc) > Place(s))
      BY <2>1
    <2> QED BY <2>2 DEF CompleteInv
  <1>2. Types /\ RecordInv /\ Records!Truthful /\ CompleteInv /\ [Next]_vars => CompleteInv'
    BY CompleteStep
  <1>3. Types /\ CompleteInv => SuccessIsComplete
    <2> SUFFICES ASSUME Types, CompleteInv, At("patch"), op.end = "none", restore = "none"
                 PROVE  /\ \A part \in {"proxy", "admin"} : \A o \in First(part, Len(ObjectsOf(part))) :
                             (o \in objects[part] <=> part \in op.spec.parts) \/ (o = "volume" /\ refused)
                        /\ op.before = status =>
                             \A s \in Steps \ unsure : Writable(s) => Holds(s, Revision(s))
      BY DEF SuccessIsComplete
    <2>1. Place(op.pc) = 12 /\ \A s \in Steps : Place(s) \in 3..10
      BY Places DEF At
    <2>2. /\ \A s \in Steps : Done(s)
          /\ ObjectsDone("proxy") /\ ObjectsDone("admin")
      BY <2>1 DEF CompleteInv, Undisturbed
    <2>3. \A part \in {"proxy", "admin"} : \A o \in First(part, Len(ObjectsOf(part))) :
             (o \in objects[part] <=> part \in op.spec.parts) \/ (o = "volume" /\ refused)
      BY <2>2 DEF ObjectsDone, ObjectDone, AllObjects
    <2>4. op.before = status => \A s \in Steps \ unsure : Writable(s) => Holds(s, Revision(s))
      BY <2>2 DEF Done
    <2> QED BY <2>3, <2>4
  <1>4. Init => Types /\ RecordInv
    BY TypesInit, RecordInit
  <1>5. Types /\ RecordInv /\ [Next]_vars => (Types /\ RecordInv)'
    BY TypesStep, RecordStep
  <1> QED BY <1>1, <1>2, <1>3, <1>4, <1>5, StatusIsTruthful, PTL DEF Spec
=============================================================================
