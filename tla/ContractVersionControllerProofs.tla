-------------------- MODULE ContractVersionControllerProofs --------------------
(****************************************************************************)
(* Theorems about ContractVersionController, for any codes, dependencies    *)
(* and bounds.                                                              *)
(****************************************************************************)
EXTENDS ContractVersionController, FeedTheorems

RunType == [stage : Stages, copy : Version, fresh : BOOLEAN]

-------------------------------------------------------------------------------
(* The objects that steps write *)

LEMMA VersionFields ==
  ASSUME NEW v \in Version
  PROVE  /\ v.uid \in Nat /\ v.uid + 1 \in Nat /\ v.alive \in BOOLEAN /\ v.code \in AllCodes
         /\ v.state \in {"", "deployed", "failed"} /\ v.address \in Nat /\ v.timed \in BOOLEAN
<1>1. /\ v.uid \in Nat /\ v.code \in AllCodes /\ v.address \in Nat
      /\ v.state \in {"", "deployed", "failed"}
  BY DEF Version
<1>2. v.alive \in BOOLEAN /\ v.timed \in BOOLEAN
  BY DEF Version
<1>3. \A n \in Nat : n + 1 \in Nat
  OBVIOUS
<1>4. v.uid + 1 \in Nat
  BY <1>1, <1>3, Zenon
<1> QED
  BY <1>1, <1>2, <1>4, Zenon

LEMMA VersionEdits ==
  ASSUME NEW v \in Version
  PROVE  /\ LET new == [v EXCEPT !.alive = FALSE]
            IN /\ new \in Version /\ new.uid = v.uid /\ new.code = v.code
               /\ new.state = v.state /\ ~new.alive
         /\ LET new == [v EXCEPT !.state = "failed"]
            IN /\ new \in Version /\ new.uid = v.uid /\ new.code = v.code
               /\ new.state = "failed" /\ new.alive = v.alive
         /\ \A address \in Nat :
              LET new == [v EXCEPT !.state = "deployed", !.address = address, !.timed = TRUE]
              IN /\ new \in Version /\ new.uid = v.uid /\ new.code = v.code
                 /\ new.state = "deployed" /\ new.alive = v.alive
BY DEF Version

LEMMA AnyCodeTyped == AnyCode \in AllCodes
<1>1. 1 \in DOMAIN Codes /\ Codes[1] # {}
  BY VersionAssumption
<1>2. Codes[1] \in Range(Codes)
  BY <1>1 DEF Range
<1>3. \E code : code \in AllCodes
  BY <1>1, <1>2 DEF AllCodes
<1> QED
  BY <1>3 DEF AnyCode

LEMMA NewVersions ==
  /\ NoVersion \in Version /\ NoVersion.uid = 0 /\ ~NoVersion.alive
  /\ \A uid \in Nat, code \in AllCodes :
       LET new == [NoVersion EXCEPT !.uid = uid, !.alive = TRUE, !.code = code]
       IN new \in Version /\ new.uid = uid /\ new.alive /\ new.code = code /\ new.state = ""
<1>1. /\ NoVersion \in Version /\ NoVersion.uid = 0 /\ ~NoVersion.alive
      /\ NoVersion.state = ""
  BY AnyCodeTyped DEF NoVersion, Version
<1> QED
  BY <1>1 DEF Version

LEMMA ConfigMapFields ==
  /\ NoConfigMap \in ConfigMap /\ NoConfigMap.owner = 0
  /\ \A object \in ConfigMap : object.owner \in Nat /\ object.code \in AllCodes
  /\ \A object \in ConfigMap, code \in AllCodes :
       LET new == [object EXCEPT !.code = code]
       IN new \in ConfigMap /\ new.owner = object.owner /\ new.code = code
BY AnyCodeTyped DEF NoConfigMap, ConfigMap

LEMMA JobFields ==
  ASSUME NEW object \in Job
  PROVE  /\ object.uid \in Nat /\ object.owner \in Nat
         /\ object.succeeded \in BOOLEAN /\ object.failed \in BOOLEAN
         /\ LET new == [object EXCEPT !.succeeded = TRUE]
            IN new \in Job /\ new.uid = object.uid /\ new.owner = object.owner /\ new.succeeded
         /\ LET new == [object EXCEPT !.failed = TRUE]
            IN /\ new \in Job /\ new.uid = object.uid /\ new.owner = object.owner
               /\ new.succeeded = object.succeeded
<1>1. object.uid \in Nat /\ object.owner \in Nat
  BY DEF Job
<1>2. object.succeeded \in BOOLEAN /\ object.failed \in BOOLEAN
  BY DEF Job
<1>3. LET new == [object EXCEPT !.succeeded = TRUE]
      IN new \in Job /\ new.uid = object.uid /\ new.owner = object.owner /\ new.succeeded
  BY DEF Job
<1>4. LET new == [object EXCEPT !.failed = TRUE]
      IN /\ new \in Job /\ new.uid = object.uid /\ new.owner = object.owner
         /\ new.succeeded = object.succeeded
  BY DEF Job
<1> QED
  BY <1>1, <1>2, <1>3, <1>4, Zenon

LEMMA NewJobs ==
  /\ NoJob \in Job /\ NoJob.uid = 0 /\ NoJob.owner = 0 /\ ~NoJob.succeeded
  /\ \A uid, owner \in Nat :
       LET new == [NoJob EXCEPT !.uid = uid, !.owner = owner]
       IN new \in Job /\ new.uid = uid /\ new.owner = owner /\ ~new.succeeded
BY DEF NoJob, Job

LEMMA PodFields ==
  ASSUME NEW pod \in Pod
  PROVE  /\ pod.job \in Nat /\ pod.owner \in Nat /\ pod.code \in AllCodes /\ pod.log \in Nat
         /\ \A log \in Nat : LET new == [pod EXCEPT !.log = log]
              IN /\ new \in Pod /\ new.job = pod.job /\ new.owner = pod.owner
                 /\ new.code = pod.code
         /\ \A phase \in {"succeeded", "failed"} : LET new == [pod EXCEPT !.phase = phase]
              IN /\ new \in Pod /\ new.job = pod.job /\ new.owner = pod.owner
                 /\ new.code = pod.code
BY DEF Pod

-------------------------------------------------------------------------------
(* Type correctness *)

\* The API server finds a uid for every new Job, as there are finitely many.
PodsFinite == IsFiniteSet(pods)

LEMMA ObjectsTyped ==
  ASSUME TypeOK
  PROVE  /\ version \in Feed(Version) /\ configMap \in Feed(ConfigMap) /\ job \in Feed(Job)
         /\ View(version) \in Version /\ Server(version) \in Version
         /\ View(configMap) \in ConfigMap /\ Server(configMap) \in ConfigMap
         /\ View(job) \in Job /\ Server(job) \in Job
         /\ run \in RunType /\ run.copy \in Version /\ Idle \in RunType
         /\ Wanted \in ConfigMap
         /\ Wanted.owner = run.copy.uid /\ Wanted.code = run.copy.code
<1>1. /\ version \in Feed(Version) /\ configMap \in Feed(ConfigMap) /\ job \in Feed(Job)
      /\ run \in RunType /\ run.copy \in Version
  BY DEF TypeOK, Feed, RunType
<1>2. /\ View(version) \in Version /\ Server(version) \in Version
      /\ View(configMap) \in ConfigMap /\ Server(configMap) \in ConfigMap
      /\ View(job) \in Job /\ Server(job) \in Job
  BY <1>1, FeedEntries DEF View, Server, First, Last
<1>3. Idle \in RunType
  BY NewVersions DEF Idle, RunType, Stages
<1>4. /\ Wanted \in ConfigMap /\ Wanted.owner = run.copy.uid /\ Wanted.code = run.copy.code
  BY <1>1, VersionFields DEF Wanted, ConfigMap
<1> QED
  BY <1>1, <1>2, <1>3, <1>4

\* A new Job is a Job with a uid, of the version that the reconcile fetched.
LEMMA NewJobTyped ==
  ASSUME TypeOK, PodsFinite
  PROVE  /\ NewJob \in Job /\ NewJob.uid \in Nat \ {0} /\ NewJob.owner = run.copy.uid
         /\ ~NewJob.succeeded
<1> DEFINE uidOf    == [object \in Range(job) |-> object.uid]
           ofPod    == [pod \in pods |-> pod.job]
           deployed == [contract \in Range(chain) |-> contract.job]
<1>1. JobUids = ({uidOf[x] : x \in Range(job)} \cup {ofPod[x] : x \in pods})
                \cup {deployed[x] : x \in Range(chain)}
  BY DEF JobUids
<1> HIDE DEF uidOf, ofPod, deployed
<1>2. IsFiniteSet(Range(job)) /\ IsFiniteSet(Range(chain)) /\ IsFiniteSet(pods)
  BY RangeFinite DEF TypeOK, PodsFinite
<1>3. IsFiniteSet({uidOf[x] : x \in Range(job)})
  BY <1>2, ImageFinite
<1>4. IsFiniteSet({ofPod[x] : x \in pods})
  BY <1>2, ImageFinite
<1>5. IsFiniteSet({deployed[x] : x \in Range(chain)})
  BY <1>2, ImageFinite
<1>6. IsFiniteSet(JobUids)
  BY <1>1, <1>3, <1>4, <1>5, FS_Union
<1>7. Cardinality(JobUids) \in Nat
  BY <1>6, FS_CardinalityType
<1>8. \E uid \in 1..(Cardinality(JobUids) + 1) : uid \notin JobUids
  BY <1>6, SomeUnused
<1>9. NewUid \in 1..(Cardinality(JobUids) + 1)
  BY <1>8, Zenon DEF NewUid
<1>10. NewUid \in Nat \ {0}
  BY <1>7, <1>9
<1>11. run.copy.uid \in Nat
  BY ObjectsTyped, VersionFields
<1> QED
  BY <1>10, <1>11, NewJobs DEF NewJob

LEMMA TypeInit == Init => TypeOK /\ PodsFinite
<1> SUFFICES ASSUME Init PROVE TypeOK /\ PodsFinite
  OBVIOUS
<1>1. NoVersion \in Version /\ NoConfigMap \in ConfigMap /\ NoJob \in Job
  BY NewVersions, ConfigMapFields, NewJobs
<1>2. /\ version \in Feed(Version) /\ configMap \in Feed(ConfigMap) /\ job \in Feed(Job)
  BY <1>1, FeedList DEF Init
<1>3. run \in RunType /\ chain \in Seq(Contract)
  BY <1>1 DEF Init, Idle, RunType, Stages
<1>4. removed \in 0..MaxRemoved /\ faults \in 0..MaxFaults
  BY VersionAssumption DEF Init
<1>6. queued \in BOOLEAN
  BY DEF Init
<1>5. pods \subseteq Pod /\ present \subseteq Required \cup Modules /\ IsFiniteSet(pods)
  BY FS_EmptySet DEF Init
<1> QED
  BY <1>2, <1>3, <1>4, <1>5, <1>6 DEF TypeOK, Feed, RunType, PodsFinite

-------------------------------------------------------------------------------
(* Which actions write what *)

\* The status that a reconcile at the Job's stage writes.
StatusOf(object) ==
  \/ View(job).succeeded /\ \E pod \in PodsOfJob : object = DeployedStatus(pod)
  \/ ~View(job).succeeded /\ object = FailedStatus

RecordStatus ==
  /\ AtJob /\ run.fresh /\ run' = Idle
  /\ \E object : StatusOf(object) /\ version' = StatusWritten(object)
  /\ UNCHANGED <<configMap, job, world>>

LEMMA VersionWrites ==
  ASSUME [Next]_vars
  PROVE  \/ version' = version
         \/ Len(version) > 1 /\ version' = Tail(version) /\ UNCHANGED <<configMap, job, world, run>>
         \/ version' = <<Server(version)>> /\ Restart
         \/ RecordStatus
         \/ \E code \in AllCodes : CreateVersion(code)
         \/ DeleteVersion
<1> DEFINE Goal ==
      \/ version' = version
      \/ Len(version) > 1 /\ version' = Tail(version) /\ UNCHANGED <<configMap, job, world, run>>
      \/ version' = <<Server(version)>> /\ Restart
      \/ RecordStatus
      \/ \E code \in AllCodes : CreateVersion(code)
      \/ DeleteVersion
<1>1. CASE RecordDeployed
  <2>1. CASE UNCHANGED version
    BY <2>1
  <2>2. CASE \E pod \in PodsOfJob : UpdateStatus(DeployedStatus(pod))
    <3>1. PICK pod \in PodsOfJob : UpdateStatus(DeployedStatus(pod))
      BY <2>2
    <3>2. CASE ~run.fresh
      BY <3>1, <3>2 DEF UpdateStatus
    <3>3. CASE run.fresh
      <4>1. StatusOf(DeployedStatus(pod))
        BY <1>1 DEF RecordDeployed, StatusOf
      <4>2. version' = StatusWritten(DeployedStatus(pod)) /\ run' = Idle
        BY <3>1, <3>3 DEF UpdateStatus, Return
      <4> QED
        BY <1>1, <3>3, <4>1, <4>2 DEF RecordDeployed, RecordStatus
    <3> QED
      BY <3>2, <3>3
  <2> QED
    BY <1>1, <2>1, <2>2 DEF RecordDeployed
<1>2. CASE RecordFailed
  <2>1. CASE ~run.fresh
    BY <1>2, <2>1 DEF RecordFailed, UpdateStatus
  <2>2. CASE run.fresh
    <3>1. StatusOf(FailedStatus)
      BY <1>2 DEF RecordFailed, StatusOf
    <3>2. version' = StatusWritten(FailedStatus) /\ run' = Idle
      BY <1>2, <2>2 DEF RecordFailed, UpdateStatus, Return
    <3> QED
      BY <1>2, <2>2, <3>1, <3>2 DEF RecordFailed, RecordStatus
  <2> QED
    BY <2>1, <2>2
<1>3. CASE CallFails
  <2>1. run' = Idle /\ UNCHANGED world
    BY <1>3 DEF CallFails, Return
  <2>2. CASE UNCHANGED version
    BY <2>2
  <2>3. CASE /\ AtJob /\ run.fresh /\ UNCHANGED <<configMap, job>>
             /\ View(job).succeeded
             /\ \E pod \in PodsOfJob : version' = StatusWritten(DeployedStatus(pod))
    <3>1. PICK pod \in PodsOfJob : version' = StatusWritten(DeployedStatus(pod))
      BY <2>3
    <3>2. StatusOf(DeployedStatus(pod))
      BY <2>3 DEF StatusOf
    <3> QED
      BY <2>1, <2>3, <3>1, <3>2 DEF RecordStatus
  <2>4. CASE /\ AtJob /\ run.fresh /\ UNCHANGED <<configMap, job>>
             /\ ~View(job).succeeded /\ version' = StatusWritten(FailedStatus)
    <3>1. StatusOf(FailedStatus)
      BY <2>4 DEF StatusOf
    <3> QED
      BY <2>1, <2>4, <3>1 DEF RecordStatus
  <2> QED
    BY <1>3, <2>2, <2>3, <2>4 DEF CallFails
<1>4. CASE VersionSync
  BY <1>4 DEF VersionSync
<1>5. CASE Restart
  BY <1>5 DEF Restart
<1>6. \/ version' = version
      \/ RecordDeployed \/ RecordFailed \/ CallFails \/ VersionSync \/ Restart
      \/ (\E code \in AllCodes : CreateVersion(code)) \/ DeleteVersion
  BY DEF Next, Fetch, FetchMissing, FetchFails, FetchFound, Reconcile, EnsureConfigMap,
         ModulesMissing, CreateJob, PollJob, Informers, JobSync, ConfigMapSync, PodStarts,
         PodDeploys, ContainerRestarts, PodSucceeds, PodFails, PodRemoved, CollectJob,
         CollectConfigMap, DeleteJob, Provide, Withdraw, outside, vars
<1> QED
  BY <1>1, <1>2, <1>3, <1>4, <1>5, <1>6

\* What a reconcile writes to the ConfigMap, when it is not refused.
WriteConfigMap ==
  /\ run.stage = "configMap" /\ ~ConfigMapRefused
  /\ configMap' = ConfigMapWritten
  /\ UNCHANGED <<version, job, world>>

LEMMA ConfigMapWrites ==
  ASSUME [Next]_vars
  PROVE  \/ configMap' = configMap
         \/ /\ Len(configMap) > 1 /\ configMap' = Tail(configMap)
            /\ UNCHANGED <<version, job, world, run>>
         \/ configMap' = <<Server(configMap)>> /\ Restart
         \/ WriteConfigMap
         \/ CollectConfigMap
<1>1. CASE EnsureConfigMap
  BY <1>1 DEF EnsureConfigMap, WriteConfigMap
<1>2. CASE CallFails
  BY <1>2 DEF CallFails, WriteConfigMap
<1>3. CASE ConfigMapSync
  BY <1>3 DEF ConfigMapSync
<1>4. CASE Restart
  BY <1>4 DEF Restart
<1>5. \/ configMap' = configMap
      \/ EnsureConfigMap \/ CallFails \/ ConfigMapSync \/ Restart \/ CollectConfigMap
  BY DEF Next, Fetch, FetchMissing, FetchFails, FetchFound, Reconcile,
         ModulesMissing, CreateJob, PollJob, RecordDeployed, RecordFailed, Informers, VersionSync,
         JobSync, PodStarts, PodDeploys, ContainerRestarts, PodSucceeds, PodFails, PodRemoved,
         CollectJob, CreateVersion, DeleteVersion, WriteVersion, DeleteJob, Provide, Withdraw,
         outside, vars
<1> QED
  BY <1>1, <1>2, <1>3, <1>4, <1>5

\* A reconcile creates the Job; a pod that ends turns its Job's status.
MakeJob ==
  /\ AtJob /\ View(job).uid = 0 /\ Server(job).uid = 0
  /\ job' = Append(job, NewJob) /\ run' = Idle
  /\ UNCHANGED <<version, configMap, world>>

JobTurns ==
  /\ \/ job' = Append(job, [Server(job) EXCEPT !.succeeded = TRUE])
     \/ job' = Append(job, [Server(job) EXCEPT !.failed = TRUE])
  /\ \E pod \in pods : pod.job = Server(job).uid
  /\ UNCHANGED <<version, configMap, removed, run>>

LEMMA JobWrites ==
  ASSUME [Next]_vars
  PROVE  \/ job' = job
         \/ Len(job) > 1 /\ job' = Tail(job) /\ UNCHANGED <<version, configMap, world, run>>
         \/ job' = <<Server(job)>> /\ Restart
         \/ MakeJob
         \/ JobTurns
         \/ CollectJob \/ DeleteJob
<1> DEFINE Goal ==
      \/ job' = job
      \/ Len(job) > 1 /\ job' = Tail(job) /\ UNCHANGED <<version, configMap, world, run>>
      \/ job' = <<Server(job)>> /\ Restart
      \/ MakeJob
      \/ JobTurns
      \/ CollectJob \/ DeleteJob
<1>1. CASE CreateJob
  BY <1>1 DEF CreateJob, MakeJob, Return
<1>2. CASE CallFails
  BY <1>2 DEF CallFails, MakeJob, Return
<1>3. CASE JobSync
  BY <1>3 DEF JobSync
<1>4. CASE Restart
  BY <1>4 DEF Restart
<1>5. ASSUME NEW pod \in pods, PodSucceeds(pod) PROVE Goal
  BY <1>5 DEF PodSucceeds, JobStatus, JobTurns, outside
<1>6. ASSUME NEW pod \in pods, PodFails(pod) PROVE Goal
  BY <1>6 DEF PodFails, JobStatus, JobTurns, outside
<1>7. \/ job' = job
      \/ CreateJob \/ CallFails \/ JobSync \/ Restart \/ CollectJob \/ DeleteJob
      \/ \E pod \in pods : PodSucceeds(pod) \/ PodFails(pod)
  BY DEF Next, Fetch, FetchMissing, FetchFails, FetchFound, Reconcile, EnsureConfigMap,
         ModulesMissing, PollJob, RecordDeployed, RecordFailed, Informers, VersionSync,
         ConfigMapSync, PodStarts, PodDeploys, ContainerRestarts, PodRemoved, CollectConfigMap,
         CreateVersion, DeleteVersion, WriteVersion, Provide, Withdraw, outside, vars
<1> QED
  BY <1>1, <1>2, <1>3, <1>4, <1>5, <1>6, <1>7

\* A pod goes on: to its next attempt, or to its end.
PodGoesOn(pod) ==
  \/ Replace(pod, [pod EXCEPT !.log = 0])
  \/ Replace(pod, [pod EXCEPT !.phase = "succeeded"])
  \/ Replace(pod, [pod EXCEPT !.phase = "failed"])

LEMMA PodWrites ==
  ASSUME [Next]_vars
  PROVE  \/ UNCHANGED <<pods, chain>>
         \/ PodStarts
         \/ \E pod \in pods : \/ PodDeploys(pod)
                              \/ PodGoesOn(pod) /\ UNCHANGED chain
                              \/ pods' = pods \ {pod} /\ UNCHANGED chain
<1>1. ASSUME NEW pod \in pods,
             ContainerRestarts(pod) \/ PodSucceeds(pod) \/ PodFails(pod)
      PROVE  PodGoesOn(pod) /\ UNCHANGED chain
  BY <1>1 DEF ContainerRestarts, PodSucceeds, PodFails, PodGoesOn
<1>2. ASSUME NEW pod \in pods, PodRemoved(pod) PROVE pods' = pods \ {pod} /\ UNCHANGED chain
  BY <1>2 DEF PodRemoved
<1>3. \/ UNCHANGED <<pods, chain>>
      \/ PodStarts
      \/ \E pod \in pods : \/ PodDeploys(pod) \/ ContainerRestarts(pod)
                           \/ PodSucceeds(pod) \/ PodFails(pod) \/ PodRemoved(pod)
  BY DEF Next, Fetch, FetchMissing, FetchFails, FetchFound, Reconcile, EnsureConfigMap,
         ModulesMissing, CreateJob, PollJob, RecordDeployed, RecordFailed, CallFails, Informers,
         VersionSync, JobSync, ConfigMapSync, Restart, CollectJob, CollectConfigMap,
         CreateVersion, DeleteVersion, WriteVersion, DeleteJob, Provide, Withdraw, world, vars
<1> QED
  BY <1>1, <1>2, <1>3

LEMMA RemovedWrites ==
  ASSUME [Next]_vars
  PROVE  removed' = removed \/ DeleteJob
BY DEF Next, Fetch, FetchMissing, FetchFails, FetchFound, Reconcile, EnsureConfigMap,
       ModulesMissing, CreateJob, PollJob, RecordDeployed, RecordFailed, CallFails, Informers,
       VersionSync, JobSync, ConfigMapSync, Restart, PodStarts, PodDeploys,
       ContainerRestarts, PodSucceeds, PodFails, PodRemoved, CollectJob, CollectConfigMap,
       CreateVersion, DeleteVersion, WriteVersion, Provide, Withdraw, world, outside, vars

LEMMA RunWrites ==
  ASSUME [Next]_vars
  PROVE  \/ run' = Idle
         \/ /\ run' = run
            /\ \/ UNCHANGED version
               \/ Len(version) > 1 /\ version' = Tail(version)
         \/ FetchFound
         \/ EnsureConfigMap /\ ~ConfigMapRefused /\ Proceed("job") /\ configMap' = ConfigMapWritten
         \/ /\ run' = [run EXCEPT !.fresh = FALSE]
            /\ (\E code \in AllCodes : CreateVersion(code)) \/ DeleteVersion
<1>1. CASE EnsureConfigMap
  BY <1>1 DEF EnsureConfigMap, Return
<1>2. CASE RecordDeployed \/ RecordFailed
  BY <1>2 DEF RecordDeployed, RecordFailed, UpdateStatus, Return
<1>3. ASSUME NEW code \in AllCodes, CreateVersion(code)
      PROVE  run' = [run EXCEPT !.fresh = FALSE]
  BY <1>3 DEF CreateVersion, WriteVersion
<1>4. CASE DeleteVersion
  BY <1>4 DEF DeleteVersion, WriteVersion
<1>5. CASE CallFails \/ ModulesMissing \/ CreateJob \/ PollJob \/ Restart \/ FetchFails
  BY <1>5 DEF CallFails, ModulesMissing, CreateJob, PollJob, Restart, FetchFails, Return
<1>6. CASE FetchMissing \/ PodStarts \/ CollectJob \/ CollectConfigMap \/ DeleteJob
  BY <1>6 DEF FetchMissing, PodStarts, CollectJob, CollectConfigMap, DeleteJob, outside
<1>7. CASE Informers
  BY <1>7 DEF Informers, VersionSync, JobSync, ConfigMapSync
<1>8. ASSUME NEW pod \in pods,
             \/ PodDeploys(pod) \/ ContainerRestarts(pod)
             \/ PodSucceeds(pod) \/ PodFails(pod) \/ PodRemoved(pod)
      PROVE  run' = run /\ UNCHANGED version
  BY <1>8 DEF PodDeploys, ContainerRestarts, PodSucceeds, PodFails, PodRemoved, outside
<1>9. ASSUME NEW d, Provide(d) \/ Withdraw(d)
      PROVE  run' = run /\ UNCHANGED version
  BY <1>9 DEF Provide, Withdraw
<1>10. CASE UNCHANGED vars
  BY <1>10 DEF vars
<1> QED
  BY <1>1, <1>2, <1>3, <1>4, <1>5, <1>6, <1>7, <1>8, <1>9, <1>10 DEF Next, Fetch, Reconcile

-------------------------------------------------------------------------------
(* Every step writes objects of the types *)

\* What a status is: the fetched copy, but for the outcome.
LEMMA StatusTyped ==
  ASSUME TypeOK, NEW object, StatusOf(object)
  PROVE  /\ object \in Version /\ object.uid = run.copy.uid /\ object.code = run.copy.code
         /\ object.alive = run.copy.alive
         /\ object.state = IF View(job).succeeded THEN "deployed" ELSE "failed"
<1>1. run.copy \in Version
  BY ObjectsTyped
<1>2. ASSUME NEW pod \in PodsOfJob, object = DeployedStatus(pod), View(job).succeeded
      PROVE  /\ object \in Version /\ object.uid = run.copy.uid /\ object.code = run.copy.code
             /\ object.alive = run.copy.alive /\ object.state = "deployed"
  <2>1. pod.log \in Nat
    BY PodFields DEF TypeOK, PodsOfJob
  <2>2. object = [run.copy EXCEPT !.state = "deployed", !.address = pod.log, !.timed = TRUE]
    BY <1>2 DEF DeployedStatus
  <2> QED
    BY <1>1, <2>1, <2>2, VersionEdits
<1>3. CASE object = FailedStatus /\ ~View(job).succeeded
  BY <1>1, <1>3, VersionEdits DEF FailedStatus
<1> QED
  BY <1>2, <1>3 DEF StatusOf

LEMMA VersionTyped ==
  ASSUME TypeOK, [Next]_vars
  PROVE  FeedStep(version, version', Version)
<1>0. /\ Server(version) \in Version /\ Server(version).uid + 1 \in Nat
      /\ Server(version) = Last(version)
  BY ObjectsTyped, VersionFields DEF Server, Last
<1>1. ASSUME NEW object \in Version, version' = Append(version, object)
      PROVE  FeedStep(version, version', Version)
  BY <1>1 DEF FeedStep
<1>2. CASE RecordStatus
  <2>1. PICK object : StatusOf(object) /\ version' = StatusWritten(object)
    BY <1>2 DEF RecordStatus
  <2>2. object \in Version
    BY <2>1, StatusTyped
  <2>3. version' = version \/ version' = Append(version, object)
    BY <2>1 DEF StatusWritten
  <2> QED
    BY <1>1, <2>2, <2>3 DEF FeedStep
<1>3. ASSUME NEW code \in AllCodes, CreateVersion(code) PROVE FeedStep(version, version', Version)
  <2>1. [NoVersion EXCEPT !.uid = Server(version).uid + 1, !.alive = TRUE, !.code = code]
          \in Version
    BY <1>0, NewVersions
  <2> QED
    BY <1>1, <1>3, <2>1 DEF CreateVersion, WriteVersion
<1>4. CASE DeleteVersion
  <2>1. [Server(version) EXCEPT !.alive = FALSE] \in Version
    BY <1>0, VersionEdits
  <2> QED
    BY <1>1, <1>4, <2>1 DEF DeleteVersion, WriteVersion
<1>5. CASE \/ version' = version
           \/ Len(version) > 1 /\ version' = Tail(version)
           \/ version' = <<Server(version)>>
  BY <1>0, <1>5 DEF FeedStep
<1> QED
  BY <1>2, <1>3, <1>4, <1>5, VersionWrites

LEMMA ConfigMapTyped ==
  ASSUME TypeOK, [Next]_vars
  PROVE  FeedStep(configMap, configMap', ConfigMap)
<1>0. /\ Wanted \in ConfigMap /\ NoConfigMap \in ConfigMap
      /\ [View(configMap) EXCEPT !.code = Wanted.code] \in ConfigMap
      /\ Server(configMap) = Last(configMap)
  BY ObjectsTyped, ConfigMapFields DEF Server, Last
<1>1. CASE WriteConfigMap
  <2>1. \/ configMap' = configMap \/ configMap' = Append(configMap, Wanted)
        \/ configMap' = Append(configMap, [View(configMap) EXCEPT !.code = Wanted.code])
    BY <1>1 DEF WriteConfigMap, ConfigMapWritten
  <2> QED
    BY <1>0, <2>1 DEF FeedStep
<1>2. CASE CollectConfigMap
  BY <1>0, <1>2 DEF CollectConfigMap, FeedStep
<1>3. CASE \/ configMap' = configMap
           \/ Len(configMap) > 1 /\ configMap' = Tail(configMap)
           \/ configMap' = <<Server(configMap)>>
  BY <1>0, <1>3 DEF FeedStep
<1> QED
  BY <1>1, <1>2, <1>3, ConfigMapWrites

LEMMA JobTyped ==
  ASSUME TypeOK, PodsFinite, [Next]_vars
  PROVE  FeedStep(job, job', Job)
<1>0. /\ Server(job) \in Job /\ NewJob \in Job /\ NoJob \in Job /\ Server(job) = Last(job)
  BY ObjectsTyped, NewJobTyped, NewJobs DEF Server, Last
<1>1. ASSUME NEW object \in Job, job' = Append(job, object) PROVE FeedStep(job, job', Job)
  BY <1>1 DEF FeedStep
<1>2. CASE MakeJob
  BY <1>0, <1>1, <1>2 DEF MakeJob
<1>3. CASE JobTurns
  BY <1>0, <1>1, <1>3, JobFields DEF JobTurns
<1>4. CASE CollectJob \/ DeleteJob
  BY <1>0, <1>1, <1>4 DEF CollectJob, DeleteJob, JobStatus
<1>5. CASE \/ job' = job
           \/ Len(job) > 1 /\ job' = Tail(job)
           \/ job' = <<Server(job)>>
  BY <1>0, <1>5 DEF FeedStep
<1> QED
  BY <1>2, <1>3, <1>4, <1>5, JobWrites

LEMMA PodsTyped ==
  ASSUME TypeOK, PodsFinite, [Next]_vars
  PROVE  pods' \subseteq Pod /\ IsFiniteSet(pods') /\ chain' \in Seq(Contract)
<1> DEFINE Goal == pods' \subseteq Pod /\ IsFiniteSet(pods') /\ chain' \in Seq(Contract)
<1>0. /\ pods \subseteq Pod /\ IsFiniteSet(pods) /\ chain \in Seq(Contract) /\ Len(chain) \in Nat
      /\ Server(job) \in Job /\ Server(configMap) \in ConfigMap
  BY ObjectsTyped, LenProperties DEF TypeOK, PodsFinite
<1>1. ASSUME NEW pod \in pods, NEW new \in Pod, Replace(pod, new)
      PROVE  pods' \subseteq Pod /\ IsFiniteSet(pods')
  <2>1. IsFiniteSet(pods \ {pod})
    BY <1>0, FS_RemoveElement
  <2>2. IsFiniteSet((pods \ {pod}) \cup {new})
    BY <2>1, FS_AddElement
  <2> QED
    BY <1>0, <1>1, <2>2 DEF Replace
<1>2. CASE PodStarts
  <2> DEFINE new == [job |-> Server(job).uid, owner |-> Server(job).owner, phase |-> "running",
                     code |-> Server(configMap).code, log |-> 0]
  <2>1. new \in Pod
    BY <1>0, JobFields, ConfigMapFields DEF Pod
  <2>2. pods' = pods \cup {new} /\ chain' = chain
    BY <1>2 DEF PodStarts
  <2> HIDE DEF new
  <2>3. IsFiniteSet(pods \cup {new})
    BY <1>0, FS_AddElement
  <2> QED
    BY <1>0, <2>1, <2>2, <2>3
<1>3. ASSUME NEW pod \in pods, PodDeploys(pod) PROVE Goal
  <2>1. pod \in Pod
    BY <1>0
  <2>2. Len(chain) + 1 \in Nat
    BY <1>0
  <2>3. [pod EXCEPT !.log = Len(chain) + 1] \in Pod
    BY <2>1, <2>2, PodFields
  <2>4. [job |-> pod.job, owner |-> pod.owner, code |-> pod.code] \in Contract
    BY <2>1, PodFields DEF Contract
  <2>5. chain' \in Seq(Contract)
    BY <1>0, <1>3, <2>4, AppendProperties DEF PodDeploys
  <2> QED
    BY <1>1, <1>3, <2>3, <2>5 DEF PodDeploys
<1>4. ASSUME NEW pod \in pods, PodGoesOn(pod), UNCHANGED chain PROVE Goal
  <2>1. pod \in Pod
    BY <1>0
  <2>2. /\ [pod EXCEPT !.log = 0] \in Pod /\ [pod EXCEPT !.phase = "succeeded"] \in Pod
        /\ [pod EXCEPT !.phase = "failed"] \in Pod
    BY <2>1, PodFields
  <2> QED
    BY <1>0, <1>1, <1>4, <2>2 DEF PodGoesOn
<1>5. ASSUME NEW pod \in pods, pods' = pods \ {pod}, UNCHANGED chain PROVE Goal
  BY <1>0, <1>5, FS_RemoveElement
<1>6. CASE UNCHANGED <<pods, chain>>
  BY <1>0, <1>6
<1> QED
  BY <1>2, <1>3, <1>4, <1>5, <1>6, PodWrites

LEMMA RunTyped ==
  ASSUME TypeOK, [Next]_vars
  PROVE  run' \in RunType
<1>0. run \in RunType /\ View(version) \in Version /\ Idle \in RunType
  BY ObjectsTyped
<1>1. CASE FetchFound
  <2>1. (Len(version) = 1) \in BOOLEAN
    OBVIOUS
  <2> QED
    BY <1>0, <1>1, <2>1 DEF FetchFound, RunType, Stages
<1>2. CASE Proceed("job")
  BY <1>0, <1>2 DEF Proceed, RunType, Stages
<1>3. CASE run' = [run EXCEPT !.fresh = FALSE]
  BY <1>0, <1>3 DEF RunType
<1> QED
  BY <1>0, <1>1, <1>2, <1>3, RunWrites

LEMMA RestTyped ==
  ASSUME TypeOK, [Next]_vars
  PROVE  /\ removed' \in 0..MaxRemoved /\ faults' \in 0..MaxFaults
         /\ present' \subseteq Required \cup Modules /\ queued' \in BOOLEAN
<1> USE VersionAssumption
<1>1. removed' \in 0..MaxRemoved
  <2>1. removed \in 0..MaxRemoved
    BY DEF TypeOK
  <2>2. CASE DeleteJob
    BY <2>1, <2>2 DEF DeleteJob
  <2>3. removed' = removed \/ DeleteJob
    BY RemovedWrites
  <2> QED
    BY <2>1, <2>2, <2>3
<1>2. faults' \in 0..MaxFaults
  <2>1. faults \in 0..MaxFaults
    BY DEF TypeOK
  <2>2. CASE Fail
    BY <2>1, <2>2 DEF Fail
  <2>3. faults' = faults \/ Fail
    BY DEF Next, Fetch, FetchMissing, FetchFails, FetchFound, Reconcile, EnsureConfigMap,
           ModulesMissing, CreateJob, PollJob, RecordDeployed, RecordFailed, CallFails, Informers,
           VersionSync, JobSync, ConfigMapSync, Restart, PodStarts, PodDeploys,
           ContainerRestarts, PodSucceeds, PodFails, PodRemoved, CollectJob, CollectConfigMap,
           CreateVersion, DeleteVersion, WriteVersion, DeleteJob, Provide, Withdraw, outside, vars
  <2> QED
    BY <2>1, <2>2, <2>3
<1>3. present' \subseteq Required \cup Modules
  <2>1. present \subseteq Required \cup Modules
    BY DEF TypeOK
  <2>2. ASSUME NEW d \in Required \cup Modules, Provide(d) \/ Withdraw(d)
        PROVE  present' \subseteq Required \cup Modules
    BY <2>1, <2>2 DEF Provide, Withdraw
  <2>3. present' = present \/ \E d \in Required \cup Modules : Provide(d) \/ Withdraw(d)
    BY DEF Next, Fetch, FetchMissing, FetchFails, FetchFound, Reconcile, EnsureConfigMap,
           ModulesMissing, CreateJob, PollJob, RecordDeployed, RecordFailed, CallFails, Informers,
           VersionSync, JobSync, ConfigMapSync, Restart, PodStarts, PodDeploys,
           ContainerRestarts, PodSucceeds, PodFails, PodRemoved, CollectJob, CollectConfigMap,
           CreateVersion, DeleteVersion, WriteVersion, DeleteJob, world, outside, vars
  <2> QED
    BY <2>1, <2>2, <2>3
<1>4. queued' \in BOOLEAN
  <2>1. queued \in BOOLEAN /\ Server(version).alive \in BOOLEAN
    BY ObjectsTyped, VersionFields DEF TypeOK
  <2>2. ASSUME NEW again \in BOOLEAN, queued' = (queued \/ again) PROVE queued' \in BOOLEAN
    BY <2>2
  <2>3. \/ queued' = queued \/ queued' = TRUE \/ queued' = FALSE
        \/ queued' = Server(version).alive
        \/ queued' = (queued \/ TRUE) \/ queued' = (queued \/ FALSE)
    BY DEF Next, Fetch, FetchMissing, FetchFails, FetchFound, Reconcile, EnsureConfigMap,
           ModulesMissing, CreateJob, PollJob, RecordDeployed, RecordFailed, UpdateStatus,
           CallFails, Informers, VersionSync, JobSync, ConfigMapSync, Restart, PodStarts,
           PodDeploys, ContainerRestarts, PodSucceeds, PodFails, PodRemoved, CollectJob,
           CollectConfigMap, CreateVersion, DeleteVersion, WriteVersion, DeleteJob, Provide,
           Withdraw, Return, Proceed, outside, vars
  <2> QED
    BY <2>1, <2>3
<1> QED
  BY <1>1, <1>2, <1>3, <1>4

LEMMA TypeInductive ==
  ASSUME TypeOK, PodsFinite, [Next]_vars
  PROVE  TypeOK' /\ PodsFinite'
<1>1. /\ version' \in Feed(Version) /\ configMap' \in Feed(ConfigMap) /\ job' \in Feed(Job)
  BY VersionTyped, ConfigMapTyped, JobTyped, ObjectsTyped, FeedStepTyped
<1> QED
  BY <1>1, PodsTyped, RunTyped, RestTyped DEF TypeOK, PodsFinite, Feed, RunType

\* Every variable keeps its type: no feed is ever empty, and the API server has
\* a uid for every new Job.
THEOREM TypeCorrect == Spec => []TypeOK
<1>1. TypeOK /\ PodsFinite /\ [Next]_vars => TypeOK' /\ PodsFinite'
  BY TypeInductive
<1> QED
  BY <1>1, TypeInit, PTL DEF Spec

-------------------------------------------------------------------------------
(* The invariant *)

\* What the pods may deploy and have deployed, as contracts.
Deployments ==
  {[job |-> pod.job, owner |-> pod.owner, code |-> pod.code] : pod \in pods} \cup Range(chain)

\* What the next write of the reconciler is for: the copy that it fetched, or
\* what the cache shows.
Latest == IF run.stage = "idle" THEN View(version) ELSE run.copy

Older(v, w) == v.uid <= w.uid /\ (v.uid = w.uid => v.code = w.code)

VersionOrder == {pair \in Version \X Version : Older(pair[1], pair[2])}
JobOrder     == {pair \in Job \X Job : pair[1].succeeded => pair[2].succeeded}

\* The incarnations of the name follow each other, each with one code.
VersionsOrdered ==
  /\ \A i \in 1..Len(version) : version[i].alive => version[i].uid > 0
  /\ Server(version).uid <= MaxUid
  /\ Ordered(version, VersionOrder)

\* A fetched copy is of an incarnation that the cache has shown; a fresh one is
\* the API server's.
RunSane ==
  /\ run.stage # "idle" =>
       /\ run.copy.alive /\ run.copy.uid \in 1..View(version).uid
       /\ \A i \in 1..Len(version) : version[i].uid = run.copy.uid => version[i].code = run.copy.code
  /\ run.fresh => run.copy = Server(version)

\* No object belongs to an incarnation that the reconciler has yet to see.
OwnersKnown ==
  /\ \A k \in 1..Len(configMap) : configMap[k].owner <= Latest.uid
  /\ \A k \in 1..Len(job) : /\ job[k].owner <= Latest.uid
                            /\ job[k].uid = 0 => job[k] = NoJob
                            /\ job[k].uid # 0 => job[k].owner # 0
  /\ \A d \in Deployments : d.job # 0 /\ d.owner # 0 /\ d.owner <= Latest.uid

\* What is or will be deployed for a live version is of the Job that is there.
OneJob ==
  removed = 0 /\ Server(version).alive =>
    \A d \in Deployments : d.owner = Server(version).uid =>
      d.job = Server(job).uid /\ Server(job).owner = Server(version).uid

\* The ConfigMaps of the first incarnation all have its code.  Those of the
\* second may be the first one's, until the reconciler has looked at it once.
FirstMaps ==
  Latest.uid <= 1 =>
    \A k \in 1..Len(configMap) : configMap[k].owner # 0 => configMap[k].code = Latest.code

Looked ==
  \/ \E k \in 1..Len(configMap) : configMap[k].owner # 0 /\ configMap[k].code = Latest.code
  \/ run.stage = "job"
  \/ Server(job).owner = 2

SecondMap ==
  Latest.uid = 2 /\ Looked =>
    (Server(configMap).owner # 0 => Server(configMap).code = Latest.code)

OwnCode ==
  Server(version).uid <= 2 =>
    \A d \in Deployments : d.owner = Server(version).uid => d.code = Server(version).code

\* While the first incarnation lives and nobody deletes Jobs, it has one Job,
\* whose success the cache does not unlearn.
FirstJob ==
  removed = 0 /\ Server(version).alive /\ Server(version).uid = 1 =>
    /\ Ordered(job, JobOrder)
    /\ Server(version).state = "deployed" => View(job).succeeded
    /\ Server(job).uid # 0 => Server(job).owner = 1

VInv ==
  /\ TypeOK /\ PodsFinite
  /\ VersionsOrdered /\ RunSane /\ OwnersKnown
  /\ OneJob /\ FirstMaps /\ SecondMap /\ OwnCode /\ FirstJob

-------------------------------------------------------------------------------
(* The orders *)

LEMMA VersionPairs ==
  /\ \A v, w \in Version : <<v, w>> \in VersionOrder <=> Older(v, w)
  /\ \A v \in Version : <<v, v>> \in VersionOrder
  /\ \A u, v, w \in Version :
       <<u, v>> \in VersionOrder /\ <<v, w>> \in VersionOrder => <<u, w>> \in VersionOrder
<1>1. \A v, w \in Version : <<v, w>> \in VersionOrder <=> Older(v, w)
  BY DEF VersionOrder
<1>2. \A v \in Version : v.uid \in Nat
  BY VersionFields
<1>3. \A v \in Version : Older(v, v)
  BY <1>2 DEF Older
<1>4. \A u, v, w \in Version : Older(u, v) /\ Older(v, w) => Older(u, w)
  BY <1>2 DEF Older
<1> QED
  BY <1>1, <1>3, <1>4

LEMMA JobPairs ==
  /\ \A a, b \in Job : <<a, b>> \in JobOrder <=> (a.succeeded => b.succeeded)
  /\ \A a \in Job : <<a, a>> \in JobOrder
  /\ \A a, b, c \in Job : <<a, b>> \in JobOrder /\ <<b, c>> \in JobOrder => <<a, c>> \in JobOrder
BY DEF JobOrder

\* Writes and events, and the two ends of a feed.
LEMMA FeedEnds ==
  ASSUME NEW S, NEW feed \in Feed(S)
  PROVE  /\ Len(feed) \in Nat \ {0} /\ 1 \in 1..Len(feed) /\ Len(feed) \in 1..Len(feed)
         /\ View(feed) = First(feed) /\ Server(feed) = Last(feed)
         /\ View(feed) = feed[1] /\ Server(feed) = feed[Len(feed)]
         /\ Len(feed) = 1 => View(feed) = Server(feed)
         /\ \A i \in 1..Len(feed) : feed[i] \in S
         /\ \A object \in S : /\ Server(Append(feed, object)) = object
                              /\ View(Append(feed, object)) = View(feed)
         /\ Len(feed) > 1 => Server(Tail(feed)) = Server(feed)
         /\ Server(<<Server(feed)>>) = Server(feed)
<1>1. \A f : View(f) = First(f) /\ Server(f) = Last(f)
  BY DEF View, Server, First, Last
<1>2. \A object : Last(<<object>>) = object
  BY DEF Last
<1>3. View(feed) = feed[1] /\ Server(feed) = feed[Len(feed)]
  BY DEF View, Server
<1>4. /\ Len(feed) \in Nat \ {0} /\ 1 \in 1..Len(feed) /\ Len(feed) \in 1..Len(feed)
      /\ \A i \in 1..Len(feed) : feed[i] \in S
      /\ Len(feed) = 1 => View(feed) = Server(feed)
  BY <1>1, FeedEntries
<1>5. \A object \in S : /\ Server(Append(feed, object)) = object
                        /\ View(Append(feed, object)) = View(feed)
  BY <1>1, FeedAppend
<1>6. Len(feed) > 1 => Server(Tail(feed)) = Server(feed)
  BY <1>1, FeedTail
<1>7. Server(<<Server(feed)>>) = Server(feed)
  BY <1>1, <1>2
<1> QED
  BY <1>1, <1>3, <1>4, <1>5, <1>6, <1>7

\* The cache's version is older than what comes after it in the feed.
LEMMA ViewOldest ==
  ASSUME TypeOK, VersionsOrdered
  PROVE  /\ \A i \in 1..Len(version) : Older(version[i], Server(version))
         /\ \A i \in 1..Len(version) : Older(View(version), version[i])
         /\ Older(View(version), Server(version))
<1>1. version \in Feed(Version)
  BY ObjectsTyped
<1>2. /\ Len(version) \in Nat \ {0} /\ 1 \in 1..Len(version) /\ Len(version) \in 1..Len(version)
      /\ \A i \in 1..Len(version) : version[i] \in Version
      /\ View(version) = version[1] /\ Server(version) = version[Len(version)]
  BY <1>1, FeedEnds
<1>3. \A i, j \in 1..Len(version) : i <= j => Older(version[i], version[j])
  BY <1>2, VersionPairs DEF VersionsOrdered, Ordered
<1>4. \A i \in 1..Len(version) : 1 <= i /\ i <= Len(version)
  BY <1>2
<1> QED
  BY <1>2, <1>3, <1>4

LEMMA LatestOlder ==
  ASSUME TypeOK, VersionsOrdered, RunSane
  PROVE  Latest \in Version /\ Older(Latest, View(version)) /\ Older(Latest, Server(version))
<1>1. /\ View(version) \in Version /\ Server(version) \in Version /\ run.copy \in Version
      /\ View(version).uid \in Nat /\ Server(version).uid \in Nat /\ run.copy.uid \in Nat
  BY ObjectsTyped, VersionFields
<1>2. Older(View(version), Server(version)) /\ Older(View(version), View(version))
  BY <1>1, ViewOldest, VersionPairs
<1>3. 1 \in 1..Len(version) /\ version[1] = View(version)
  BY ObjectsTyped, FeedEnds
<1>4. CASE run.stage = "idle"
  BY <1>1, <1>2, <1>4 DEF Latest
<1>5. CASE run.stage # "idle"
  <2>1. Older(run.copy, View(version))
    BY <1>1, <1>3, <1>5 DEF RunSane, Older
  <2>2. Older(run.copy, Server(version))
    BY <1>1, <1>2, <2>1 DEF Older
  <2> QED
    BY <1>1, <1>5, <2>1, <2>2 DEF Latest
<1> QED
  BY <1>4, <1>5

-------------------------------------------------------------------------------
(* What a step does to what the API server has *)

RunKept == run'.stage = run.stage /\ run'.copy = run.copy

VersionAdvances ==
  LET old == Server(version)  new == Server(version)'
  IN \/ new = old
     \/ /\ ~old.alive /\ new.uid = old.uid + 1 /\ new.uid <= MaxUid
        /\ new.alive /\ new.state = ""
        /\ UNCHANGED <<configMap, job, world>> /\ RunKept
     \/ /\ new.uid = old.uid /\ new.code = old.code /\ new.state = old.state
        /\ ~new.alive
        /\ UNCHANGED <<configMap, job, world>> /\ RunKept
     \/ /\ new.uid = old.uid /\ new.code = old.code /\ old.alive
        /\ new.state = IF View(job).succeeded THEN "deployed" ELSE "failed"
        /\ UNCHANGED <<configMap, job, world>>

ConfigMapAdvances ==
  LET old == Server(configMap)  new == Server(configMap)'
  IN \/ new = old
     \/ /\ run.stage = "configMap" /\ new.code = run.copy.code
        /\ new.owner = run.copy.uid \/ new.owner = old.owner
        /\ UNCHANGED <<version, job, world>>
     \/ new.owner = 0 /\ UNCHANGED <<version, job, world, run>>

JobAdvances ==
  LET old == Server(job)  new == Server(job)'
  IN \/ new = old
     \/ /\ old.uid = 0 /\ new.uid # 0 /\ new.owner = run.copy.uid /\ ~new.succeeded
        /\ run.stage = "job" /\ UNCHANGED <<version, configMap, world>>
     \/ /\ new.uid = old.uid /\ new.owner = old.owner /\ (old.succeeded => new.succeeded)
        /\ \E d \in Deployments : d.job = old.uid
        /\ UNCHANGED <<version, configMap, removed, run>>
     \/ /\ new = NoJob /\ old.uid # 0 /\ (~Live(old.owner) \/ removed' # 0)
        /\ UNCHANGED <<version, configMap, pods, chain, run>>

\* What an append and the other steps leave at the API server.
LEMMA ServerAfter ==
  ASSUME TypeOK
  PROVE  /\ \A object \in Version : Server(Append(version, object)) = object
         /\ \A object \in ConfigMap : Server(Append(configMap, object)) = object
         /\ \A object \in Job : Server(Append(job, object)) = object
         /\ Len(version) > 1 => Server(Tail(version)) = Server(version)
         /\ Len(configMap) > 1 => Server(Tail(configMap)) = Server(configMap)
         /\ Len(job) > 1 => Server(Tail(job)) = Server(job)
         /\ Server(<<Server(version)>>) = Server(version)
         /\ Server(<<Server(configMap)>>) = Server(configMap)
         /\ Server(<<Server(job)>>) = Server(job)
<1>1. version \in Feed(Version) /\ configMap \in Feed(ConfigMap) /\ job \in Feed(Job)
  BY ObjectsTyped
<1> QED
  BY <1>1, FeedEnds

LEMMA VersionStep ==
  ASSUME TypeOK, RunSane, [Next]_vars
  PROVE  VersionAdvances
<1> DEFINE old == Server(version)
<1>0. /\ version \in Feed(Version) /\ run \in RunType /\ run.copy \in Version
      /\ old \in Version /\ old.uid \in Nat /\ old.uid + 1 \in Nat
  BY ObjectsTyped, VersionFields
<1>1. CASE Server(version)' = old
  BY <1>1 DEF VersionAdvances
<1>2. CASE RecordStatus
  <2>1. PICK object : StatusOf(object) /\ version' = StatusWritten(object)
    BY <1>2 DEF RecordStatus
  <2>2. /\ object \in Version /\ object.uid = run.copy.uid /\ object.code = run.copy.code
        /\ object.state = IF View(job).succeeded THEN "deployed" ELSE "failed"
    BY <2>1, StatusTyped
  <2>3. run.copy = old /\ run.copy.alive
    BY <1>2 DEF RecordStatus, AtJob, RunSane
  <2>4. CASE version' = version
    BY <1>1, <2>4 DEF Server
  <2>5. CASE version' = Append(version, object)
    <3>1. Server(version)' = object
      BY <1>0, <2>2, <2>5, ServerAfter
    <3> QED
      BY <1>2, <2>2, <2>3, <3>1 DEF RecordStatus, VersionAdvances
  <2> QED
    BY <2>1, <2>4, <2>5 DEF StatusWritten
<1>3. CASE run' = [run EXCEPT !.fresh = FALSE]
  <2>1. RunKept
    BY <1>0, <1>3 DEF RunType, RunKept
  <2>2. ASSUME NEW code \in AllCodes, CreateVersion(code) PROVE VersionAdvances
    <3> DEFINE new == [NoVersion EXCEPT !.uid = old.uid + 1, !.alive = TRUE, !.code = code]
    <3>1. /\ new \in Version /\ new.uid = old.uid + 1 /\ new.alive /\ new.state = ""
      BY <1>0, NewVersions
    <3>2. ~old.alive /\ old.uid < MaxUid /\ version' = Append(version, new)
          /\ UNCHANGED <<configMap, job, world>>
      BY <2>2 DEF CreateVersion, WriteVersion
    <3> HIDE DEF new
    <3>3. Server(version)' = new
      BY <1>0, <3>1, <3>2, ServerAfter
    <3>4. new.uid <= MaxUid
      <4>1. MaxUid \in Nat /\ old.uid \in Nat /\ old.uid < MaxUid /\ new.uid = old.uid + 1
        BY <1>0, <3>1, <3>2, VersionAssumption
      <4> QED
        BY <4>1
    <3> QED
      BY <2>1, <3>1, <3>2, <3>3, <3>4 DEF VersionAdvances
  <2>3. CASE DeleteVersion
    <3> DEFINE new == [old EXCEPT !.alive = FALSE]
    <3>1. /\ new \in Version /\ new.uid = old.uid /\ new.code = old.code
          /\ new.state = old.state /\ ~new.alive
      BY <1>0, VersionEdits
    <3>2. version' = Append(version, new) /\ UNCHANGED <<configMap, job, world>>
      BY <2>3 DEF DeleteVersion, WriteVersion
    <3> HIDE DEF new
    <3>3. Server(version)' = new
      BY <1>0, <3>1, <3>2, ServerAfter
    <3> QED
      BY <2>1, <3>1, <3>2, <3>3 DEF VersionAdvances
  <2>4. CASE \/ version' = version
             \/ Len(version) > 1 /\ version' = Tail(version)
             \/ version' = <<Server(version)>>
    BY <1>0, <1>1, <2>4, ServerAfter DEF Server
  <2> QED
    BY <1>2, <2>2, <2>3, <2>4, VersionWrites
<1>4. ASSUME NEW code \in AllCodes, CreateVersion(code)
      PROVE  run' = [run EXCEPT !.fresh = FALSE]
  BY <1>4 DEF CreateVersion, WriteVersion
<1>5. DeleteVersion => run' = [run EXCEPT !.fresh = FALSE]
  BY DEF DeleteVersion, WriteVersion
<1>6. CASE \/ version' = version
           \/ Len(version) > 1 /\ version' = Tail(version)
           \/ version' = <<Server(version)>>
  BY <1>0, <1>1, <1>6, ServerAfter DEF Server
<1> QED
  BY <1>2, <1>3, <1>4, <1>5, <1>6, VersionWrites

LEMMA ConfigMapStep ==
  ASSUME TypeOK, [Next]_vars
  PROVE  ConfigMapAdvances
<1> DEFINE old == Server(configMap)
<1>0. /\ configMap \in Feed(ConfigMap) /\ Wanted \in ConfigMap
      /\ Wanted.owner = run.copy.uid /\ Wanted.code = run.copy.code
      /\ View(configMap) \in ConfigMap
  BY ObjectsTyped
<1>1. CASE Server(configMap)' = old
  BY <1>1 DEF ConfigMapAdvances
<1>2. CASE WriteConfigMap
  <2>1. CASE configMap' = Append(configMap, Wanted)
    <3>1. Server(configMap)' = Wanted
      BY <1>0, <2>1, ServerAfter
    <3> QED
      BY <1>0, <1>2, <3>1 DEF WriteConfigMap, ConfigMapAdvances
  <2>2. CASE /\ View(configMap).owner # 0 /\ View(configMap).code # Wanted.code
             /\ configMap' = Append(configMap, [View(configMap) EXCEPT !.code = Wanted.code])
    <3> DEFINE new == [View(configMap) EXCEPT !.code = Wanted.code]
    <3>1. new \in ConfigMap /\ new.owner = View(configMap).owner /\ new.code = Wanted.code
      BY <1>0, ConfigMapFields
    <3>2. configMap' = Append(configMap, new)
      BY <2>2
    <3> HIDE DEF new
    <3>3. Server(configMap)' = new
      BY <1>0, <3>1, <3>2, ServerAfter
    <3>4. Len(configMap) = 1
      <4>1. configMap' # configMap
        <5>1. Len(configMap') = Len(configMap) + 1 /\ Len(configMap) \in Nat
          BY <1>0, <3>1, <3>2, FeedAppend, FeedEnds
        <5> QED
          BY <5>1
      <4>2. ~(Len(configMap) > 1)
        BY <1>2, <2>2, <4>1 DEF WriteConfigMap, ConfigMapRefused
      <4>3. Len(configMap) \in Nat \ {0}
        BY <1>0, FeedEnds
      <4> QED
        BY <4>2, <4>3
    <3>5. View(configMap) = old
      BY <1>0, <3>4, FeedEnds
    <3> QED
      BY <1>0, <1>2, <3>1, <3>3, <3>5 DEF WriteConfigMap, ConfigMapAdvances
  <2>3. CASE configMap' = configMap
    BY <1>1, <2>3 DEF Server
  <2> QED
    BY <1>2, <2>1, <2>2, <2>3 DEF WriteConfigMap, ConfigMapWritten
<1>3. CASE CollectConfigMap
  <2>1. Server(configMap)' = NoConfigMap /\ NoConfigMap.owner = 0
    BY <1>0, <1>3, ConfigMapFields, ServerAfter DEF CollectConfigMap
  <2> QED
    BY <1>3, <2>1 DEF CollectConfigMap, ConfigMapAdvances
<1>4. CASE \/ configMap' = configMap
           \/ Len(configMap) > 1 /\ configMap' = Tail(configMap)
           \/ configMap' = <<Server(configMap)>>
  BY <1>0, <1>1, <1>4, ServerAfter DEF Server
<1> QED
  BY <1>2, <1>3, <1>4, ConfigMapWrites

LEMMA JobStep ==
  ASSUME TypeOK, PodsFinite, [Next]_vars
  PROVE  JobAdvances
<1> DEFINE old == Server(job)
<1>0. job \in Feed(Job) /\ old \in Job /\ NoJob \in Job
  BY ObjectsTyped, NewJobs
<1>1. CASE Server(job)' = old
  BY <1>1 DEF JobAdvances
<1>2. CASE MakeJob
  <2>1. NewJob \in Job /\ NewJob.uid # 0 /\ NewJob.owner = run.copy.uid /\ ~NewJob.succeeded
    BY NewJobTyped
  <2>2. Server(job)' = NewJob
    BY <1>0, <1>2, <2>1, ServerAfter DEF MakeJob
  <2> QED
    BY <1>2, <2>1, <2>2 DEF MakeJob, AtJob, JobAdvances
<1>3. CASE JobTurns
  <2>1. PICK new \in Job : /\ job' = Append(job, new)
                           /\ new.uid = old.uid /\ new.owner = old.owner
                           /\ old.succeeded => new.succeeded
    <3>1. CASE job' = Append(job, [old EXCEPT !.succeeded = TRUE])
      BY <1>0, <3>1, JobFields
    <3>2. CASE job' = Append(job, [old EXCEPT !.failed = TRUE])
      BY <1>0, <3>2, JobFields
    <3> QED
      BY <1>3, <3>1, <3>2 DEF JobTurns
  <2>2. Server(job)' = new
    BY <1>0, <2>1, ServerAfter
  <2>3. PICK pod \in pods : pod.job = old.uid
    BY <1>3 DEF JobTurns
  <2>4. \E d \in Deployments : d.job = old.uid
    <3>1. [job |-> pod.job, owner |-> pod.owner, code |-> pod.code] \in Deployments
      BY DEF Deployments
    <3> QED
      BY <2>3, <3>1
  <2> QED
    BY <1>3, <2>1, <2>2, <2>4 DEF JobTurns, JobAdvances
<1>4. CASE CollectJob \/ DeleteJob
  <2>1. Server(job)' = NoJob
    BY <1>0, <1>4, ServerAfter DEF CollectJob, DeleteJob, JobStatus
  <2>2. DeleteJob => removed' # 0
    <3>1. removed \in 0..MaxRemoved
      BY DEF TypeOK
    <3> QED
      BY <3>1, VersionAssumption DEF DeleteJob
  <2> QED
    BY <1>4, <2>1, <2>2 DEF CollectJob, DeleteJob, world, JobAdvances
<1>5. CASE \/ job' = job
           \/ Len(job) > 1 /\ job' = Tail(job)
           \/ job' = <<Server(job)>>
  BY <1>0, <1>1, <1>5, ServerAfter DEF Server
<1> QED
  BY <1>2, <1>3, <1>4, <1>5, JobWrites

\* A step deploys, or has a pod deploy, what a pod may deploy already, or starts
\* a pod of the Job with the ConfigMap's code.
Started(d) ==
  /\ d.job = Server(job).uid /\ d.owner = Server(job).owner
  /\ d.code = Server(configMap).code
  /\ Server(job).uid # 0 /\ Server(configMap).owner # 0
  /\ UNCHANGED <<version, configMap, job, removed, run>>

LEMMA DeploymentsStep ==
  ASSUME TypeOK, PodsFinite, [Next]_vars
  PROVE  \A d \in Deployments' : d \in Deployments \/ Started(d)
<1> DEFINE Claim(pod) == [job |-> pod.job, owner |-> pod.owner, code |-> pod.code]
<1>0. /\ pods \subseteq Pod /\ chain \in Seq(Contract)
      /\ Deployments = {Claim(pod) : pod \in pods} \cup Range(chain)
      /\ Deployments' = {Claim(pod) : pod \in pods'} \cup Range(chain')
  BY DEF TypeOK, Deployments
<1>1. \A pod \in pods : Claim(pod) \in Deployments
  BY <1>0
<1>2. ASSUME NEW pod \in pods, NEW new, Claim(new) = Claim(pod), Replace(pod, new),
             Range(chain') \subseteq Range(chain) \cup {Claim(pod)}
      PROVE  \A d \in Deployments' : d \in Deployments
  <2>1. \A x \in pods' : x = new \/ x \in pods
    BY <1>2 DEF Replace
  <2>2. \A x \in pods' : Claim(x) \in Deployments
    BY <1>1, <1>2, <2>1
  <2> HIDE DEF Claim
  <2> QED
    BY <1>0, <1>1, <1>2, <2>2
<1>3. ASSUME NEW pod \in pods, PodDeploys(pod) PROVE \A d \in Deployments' : d \in Deployments
  <2> DEFINE new == [pod EXCEPT !.log = Len(chain) + 1]
  <2>1. pod \in Pod /\ Len(chain) + 1 \in Nat
    BY <1>0, LenProperties
  <2>2. Claim(new) = Claim(pod)
    BY <2>1, PodFields
  <2>3. Range(chain') \subseteq Range(chain) \cup {Claim(pod)}
    <3>1. Claim(pod) \in Contract /\ chain' = Append(chain, Claim(pod))
      BY <1>3, <2>1, PodFields DEF PodDeploys, Contract
    <3> HIDE DEF Claim
    <3>2. /\ Len(chain) \in Nat /\ DOMAIN chain = 1..Len(chain)
          /\ DOMAIN chain' = 1..(Len(chain) + 1)
          /\ \A i \in 1..Len(chain) : chain'[i] = chain[i]
          /\ chain'[Len(chain) + 1] = Claim(pod)
      BY <1>0, <3>1, LenProperties, AppendProperties
    <3>3. \A i \in DOMAIN chain' : i \in DOMAIN chain \/ i = Len(chain) + 1
      BY <3>2
    <3> QED
      BY <3>2, <3>3 DEF Range
  <2>4. Replace(pod, new)
    BY <1>3 DEF PodDeploys
  <2> HIDE DEF new, Claim
  <2> QED
    BY <1>2, <2>2, <2>3, <2>4
<1>4. ASSUME NEW pod \in pods, PodGoesOn(pod), UNCHANGED chain
      PROVE  \A d \in Deployments' : d \in Deployments
  <2>1. pod \in Pod
    BY <1>0
  <2>2. PICK new : Claim(new) = Claim(pod) /\ Replace(pod, new)
    <3>1. Claim([pod EXCEPT !.log = 0]) = Claim(pod)
      BY <2>1, PodFields
    <3>2. Claim([pod EXCEPT !.phase = "succeeded"]) = Claim(pod)
      BY <2>1, PodFields
    <3>3. Claim([pod EXCEPT !.phase = "failed"]) = Claim(pod)
      BY <2>1, PodFields
    <3> HIDE DEF Claim
    <3> QED
      BY <1>4, <3>1, <3>2, <3>3 DEF PodGoesOn
  <2> HIDE DEF Claim
  <2> QED
    BY <1>2, <1>4, <2>2
<1>5. ASSUME NEW pod \in pods, pods' = pods \ {pod}, UNCHANGED chain
      PROVE  \A d \in Deployments' : d \in Deployments
  <2> HIDE DEF Claim
  <2> QED
    BY <1>0, <1>1, <1>5
<1>6. CASE UNCHANGED <<pods, chain>>
  BY <1>6 DEF Deployments
<1>7. CASE PodStarts
  <2> DEFINE new == [job |-> Server(job).uid, owner |-> Server(job).owner, phase |-> "running",
                     code |-> Server(configMap).code, log |-> 0]
  <2>1. pods' = pods \cup {new} /\ chain' = chain
    BY <1>7 DEF PodStarts
  <2>2. /\ new.job = Server(job).uid /\ new.owner = Server(job).owner
        /\ new.code = Server(configMap).code
    OBVIOUS
  <2> HIDE DEF new
  <2>3. Started(Claim(new))
    BY <1>7, <2>2 DEF PodStarts, Started, outside
  <2> HIDE DEF Claim
  <2> QED
    BY <1>0, <1>1, <2>1, <2>3
<1> QED
  BY <1>3, <1>4, <1>5, <1>6, <1>7, PodWrites

-------------------------------------------------------------------------------
(* The invariant is inductive *)

\* Two states' worth of typed objects.
LEMMA StepTyped ==
  ASSUME TypeOK, PodsFinite, [Next]_vars
  PROVE  /\ FeedStep(version, version', Version) /\ FeedStep(configMap, configMap', ConfigMap)
         /\ FeedStep(job, job', Job)
         /\ Server(version)' \in Version /\ View(version)' \in Version /\ run'.copy \in Version
         /\ Server(version)'.uid \in Nat /\ Server(version).uid \in Nat
         /\ Server(configMap)' \in ConfigMap /\ Server(job)' \in Job
         /\ version' \in Feed(Version) /\ configMap' \in Feed(ConfigMap) /\ job' \in Feed(Job)
<1>1. /\ FeedStep(version, version', Version) /\ FeedStep(configMap, configMap', ConfigMap)
      /\ FeedStep(job, job', Job)
  BY VersionTyped, ConfigMapTyped, JobTyped
<1>2. /\ version' \in Feed(Version) /\ configMap' \in Feed(ConfigMap) /\ job' \in Feed(Job)
  BY <1>1, ObjectsTyped, FeedStepTyped
<1>3. /\ Server(version)' \in Version /\ View(version)' \in Version
      /\ Server(configMap)' \in ConfigMap /\ Server(job)' \in Job
  BY <1>2, FeedEntries DEF Server, View, First, Last
<1>4. run'.copy \in Version
  BY RunTyped DEF RunType
<1>5. Server(version)'.uid \in Nat /\ Server(version).uid \in Nat
  BY <1>3, ObjectsTyped, VersionFields
<1> QED
  BY <1>1, <1>2, <1>3, <1>4, <1>5

\* Every entry of a feed after a step was there or is what the API server has.
LEMMA EntriesStep ==
  ASSUME TypeOK, PodsFinite, [Next]_vars
  PROVE  /\ \A i \in 1..Len(version') :
              version'[i] = Server(version)' \/ \E j \in 1..Len(version) : version'[i] = version[j]
         /\ \A i \in 1..Len(configMap') :
              \/ configMap'[i] = Server(configMap)'
              \/ \E j \in 1..Len(configMap) : configMap'[i] = configMap[j]
         /\ \A i \in 1..Len(job') :
              job'[i] = Server(job)' \/ \E j \in 1..Len(job) : job'[i] = job[j]
<1>1. /\ Server(version)' = Last(version') /\ Server(configMap)' = Last(configMap')
      /\ Server(job)' = Last(job')
  BY DEF Server, Last
<1> QED
  BY <1>1, StepTyped, ObjectsTyped, FeedStepEntries

\* And the API server's entry is one of the feed.
LEMMA ServerEntry ==
  ASSUME TypeOK
  PROVE  /\ Len(version) \in 1..Len(version) /\ version[Len(version)] = Server(version)
         /\ 1 \in 1..Len(version) /\ version[1] = View(version)
         /\ Len(configMap) \in 1..Len(configMap)
         /\ configMap[Len(configMap)] = Server(configMap)
         /\ 1 \in 1..Len(configMap) /\ configMap[1] = View(configMap)
         /\ Len(job) \in 1..Len(job) /\ job[Len(job)] = Server(job)
BY ObjectsTyped, FeedEnds

LEMMA VersionsOrderedStep ==
  ASSUME TypeOK, PodsFinite, VersionsOrdered, VersionAdvances, [Next]_vars
  PROVE  /\ VersionsOrdered'
         /\ Older(Server(version), Server(version)') /\ Older(View(version), View(version)')
<1> DEFINE old == Server(version)  new == Server(version)'
<1>0. /\ old \in Version /\ new \in Version /\ old.uid \in Nat /\ new.uid \in Nat
      /\ View(version) \in Version /\ View(version)' \in Version
      /\ version \in Feed(Version) /\ FeedStep(version, version', Version)
      /\ MaxUid \in Nat /\ old.uid <= MaxUid
      /\ old.alive => old.uid > 0
  BY StepTyped, ObjectsTyped, ServerEntry, VersionAssumption DEF VersionsOrdered
<1>1. /\ Older(old, new) /\ new.uid <= MaxUid
      /\ new.alive => new.uid > 0
  <2> HIDE DEF old, new
  <2>1. CASE new = old
    BY <1>0, <2>1 DEF Older
  <2>2. CASE new.uid = old.uid + 1 /\ new.uid <= MaxUid
    BY <1>0, <2>2 DEF Older
  <2>3. CASE new.uid = old.uid /\ new.code = old.code /\ ~new.alive
    BY <1>0, <2>3 DEF Older
  <2>4. CASE new.uid = old.uid /\ new.code = old.code /\ old.alive
    BY <1>0, <2>4 DEF Older
  <2> QED
    BY <2>1, <2>2, <2>3, <2>4 DEF VersionAdvances, old, new
<1>2. /\ Ordered(version', VersionOrder)
      /\ <<View(version), View(version)'>> \in VersionOrder
  <2>1. /\ First(version) = View(version) /\ First(version') = View(version)'
        /\ Last(version) = old /\ Last(version') = new
    BY DEF First, Last, View, Server
  <2>2. <<Last(version), Last(version')>> \in VersionOrder
    BY <1>0, <1>1, <2>1, VersionPairs
  <2>3. Ordered(version', VersionOrder) /\ <<First(version), First(version')>> \in VersionOrder
    BY <1>0, <2>2, VersionPairs, FeedOrdered DEF VersionsOrdered
  <2> QED
    BY <2>1, <2>3
<1>3. ASSUME NEW i \in 1..Len(version') PROVE version'[i].alive => version'[i].uid > 0
  <2>1. \/ version'[i] = new
        \/ \E j \in 1..Len(version) : version'[i] = version[j]
    BY EntriesStep
  <2> QED
    BY <1>1, <2>1 DEF VersionsOrdered
<1> QED
  BY <1>0, <1>1, <1>2, <1>3, VersionPairs DEF VersionsOrdered

\* How the reconcile goes on, and what it has fetched.
LEMMA RunSteps ==
  ASSUME TypeOK, [Next]_vars
  PROVE  \/ run'.stage = "idle" /\ ~run'.fresh
         \/ /\ run' = run
            /\ \/ UNCHANGED version
               \/ Len(version) > 1 /\ version' = Tail(version)
         \/ /\ run.stage = "idle" /\ UNCHANGED version
            /\ run'.stage = "configMap" /\ run'.copy = View(version) /\ View(version).alive
            /\ run'.fresh = (Len(version) = 1)
         \/ /\ run.stage = "configMap" /\ run'.stage = "job" /\ UNCHANGED <<version, job>>
            /\ run'.copy = run.copy /\ run'.fresh = run.fresh
            /\ ~ConfigMapRefused /\ configMap' = ConfigMapWritten
         \/ /\ RunKept /\ ~run'.fresh /\ UNCHANGED <<configMap, job>>
            /\ \E object \in Version : version' = Append(version, object)
<1>0. run \in RunType /\ Server(version) \in Version /\ Server(version).uid + 1 \in Nat
  BY ObjectsTyped, VersionFields
<1>1. CASE run' = Idle
  BY <1>1 DEF Idle
<1>2. CASE FetchFound
  BY <1>2 DEF FetchFound
<1>3. CASE EnsureConfigMap /\ ~ConfigMapRefused /\ Proceed("job") /\ configMap' = ConfigMapWritten
  BY <1>0, <1>3 DEF EnsureConfigMap, Proceed, RunType
<1>4. CASE run' = [run EXCEPT !.fresh = FALSE]
  <2>1. RunKept /\ ~run'.fresh
    BY <1>0, <1>4 DEF RunType, RunKept
  <2>2. ASSUME NEW object \in Version, WriteVersion(object)
        PROVE  UNCHANGED <<configMap, job>> /\ version' = Append(version, object)
    BY <2>2 DEF WriteVersion
  <2>3. ASSUME NEW code \in AllCodes, CreateVersion(code)
        PROVE  \E object \in Version : WriteVersion(object)
    <3>1. [NoVersion EXCEPT !.uid = Server(version).uid + 1, !.alive = TRUE, !.code = code]
            \in Version
      BY <1>0, NewVersions
    <3> QED
      BY <2>3, <3>1 DEF CreateVersion
  <2>4. ASSUME DeleteVersion PROVE \E object \in Version : WriteVersion(object)
    <3>1. [Server(version) EXCEPT !.alive = FALSE] \in Version
      BY <1>0, VersionEdits
    <3> QED
      BY <2>4, <3>1 DEF DeleteVersion
  <2>5. CASE (\E code \in AllCodes : CreateVersion(code)) \/ DeleteVersion
    BY <2>1, <2>2, <2>3, <2>4, <2>5
  <2>6. CASE ~((\E code \in AllCodes : CreateVersion(code)) \/ DeleteVersion)
    BY <1>1, <1>2, <1>3, <2>6, RunWrites
  <2> QED
    BY <2>5, <2>6
<1>5. CASE /\ run' = run
           /\ \/ UNCHANGED version
              \/ Len(version) > 1 /\ version' = Tail(version)
  BY <1>5
<1> QED
  BY <1>1, <1>2, <1>3, <1>4, <1>5, RunWrites

\* A step that leaves a fetched copy keeps what is known of its incarnation.
LEMMA CopyKnown ==
  ASSUME TypeOK, PodsFinite, VersionsOrdered, RunSane, VersionAdvances, [Next]_vars,
         run.stage # "idle",
         Older(View(version), View(version)')
  PROVE  /\ run.copy.uid \in 1..View(version)'.uid
         /\ \A i \in 1..Len(version') :
              version'[i].uid = run.copy.uid => version'[i].code = run.copy.code
<1> DEFINE old == Server(version)  new == Server(version)'
<1>0. /\ run.copy.uid \in Nat /\ View(version).uid \in Nat /\ View(version)'.uid \in Nat
      /\ old.uid \in Nat /\ new.uid \in Nat
  BY StepTyped, ObjectsTyped, VersionFields
<1>1. run.copy.uid \in 1..View(version)'.uid
  BY <1>0 DEF RunSane, Older
<1>2. run.copy.uid <= old.uid
  BY <1>0, LatestOlder DEF Latest, Older
<1>3. old.uid = run.copy.uid => old.code = run.copy.code
  BY ServerEntry DEF RunSane
<1>4. new.uid = run.copy.uid => new.code = run.copy.code
  <2> HIDE DEF old, new
  <2>1. \/ new = old
        \/ new.uid = old.uid + 1
        \/ new.uid = old.uid /\ new.code = old.code
    BY DEF VersionAdvances, old, new
  <2> QED
    BY <1>0, <1>2, <1>3, <2>1
<1>5. ASSUME NEW i \in 1..Len(version'), version'[i].uid = run.copy.uid
      PROVE  version'[i].code = run.copy.code
  <2>1. \/ version'[i] = new
        \/ \E j \in 1..Len(version) : version'[i] = version[j]
    BY EntriesStep
  <2> QED
    BY <1>4, <1>5, <2>1 DEF RunSane
<1> QED
  BY <1>1, <1>5

LEMMA RunSaneStep ==
  ASSUME TypeOK, PodsFinite, VersionsOrdered, RunSane, VersionAdvances, [Next]_vars,
         Older(View(version), View(version)')
  PROVE  RunSane'
<1>0. /\ run.stage # "idle" => run.copy.alive
      /\ run.fresh => run.copy = Server(version)
  BY DEF RunSane
<1>1. CASE run'.stage = "idle" /\ ~run'.fresh
  BY <1>1 DEF RunSane
<1>2. CASE /\ run' = run
           /\ \/ UNCHANGED version
              \/ Len(version) > 1 /\ version' = Tail(version)
  <2>1. Server(version)' = Server(version)
    BY <1>2, ServerAfter DEF Server
  <2> QED
    BY <1>0, <1>2, <2>1, CopyKnown DEF RunSane
<1>3. CASE /\ run.stage = "idle" /\ UNCHANGED version
           /\ run'.stage = "configMap" /\ run'.copy = View(version) /\ View(version).alive
           /\ run'.fresh = (Len(version) = 1)
  <2>1. /\ View(version)' = View(version) /\ Server(version)' = Server(version)
        /\ Len(version) = 1 => View(version) = Server(version)
    BY <1>3 DEF View, Server
  <2>2. View(version).uid \in 1..View(version).uid
    <3>1. View(version).uid \in Nat /\ View(version).uid > 0
      BY <1>3, ObjectsTyped, VersionFields, ServerEntry DEF VersionsOrdered
    <3> QED
      BY <3>1
  <2>3. \A i \in 1..Len(version) :
          version[i].uid = View(version).uid => version[i].code = View(version).code
    BY ViewOldest DEF Older
  <2> QED
    BY <1>3, <2>1, <2>2, <2>3 DEF RunSane
<1>4. CASE /\ run.stage = "configMap" /\ UNCHANGED <<version, job>>
           /\ run'.copy = run.copy /\ run'.fresh = run.fresh
  <2>1. Server(version)' = Server(version)
    BY <1>4 DEF Server
  <2> QED
    BY <1>0, <1>4, <2>1, CopyKnown DEF RunSane
<1>5. CASE RunKept /\ ~run'.fresh
  BY <1>0, <1>5, CopyKnown DEF RunSane, RunKept
<1> QED
  BY <1>1, <1>2, <1>3, <1>4, <1>5, RunSteps

\* What the reconciler has seen only gets newer.
LEMMA LatestStep ==
  ASSUME TypeOK, PodsFinite, VersionsOrdered, RunSane, [Next]_vars,
         Older(View(version), View(version)')
  PROVE  /\ Older(Latest, Latest') /\ Latest.uid \in Nat /\ Latest'.uid \in Nat
         /\ Latest' = Latest \/ (run'.stage = "idle" /\ Latest' = View(version)')
<1>0. /\ Latest \in Version /\ Older(Latest, View(version)) /\ Older(Latest, Latest)
      /\ View(version) \in Version /\ View(version)' \in Version
      /\ View(version).uid \in Nat /\ View(version)'.uid \in Nat /\ Latest.uid \in Nat
  <2>1. Latest \in Version /\ Older(Latest, View(version))
    BY LatestOlder
  <2> QED
    BY <2>1, StepTyped, ObjectsTyped, VersionFields, VersionPairs
<1>1. CASE run'.stage = "idle"
  <2>1. Latest' = View(version)'
    BY <1>1 DEF Latest
  <2> QED
    BY <1>0, <1>1, <2>1 DEF Older
<1>2. CASE run'.stage # "idle" /\ run' = run
  <2>1. Latest' = Latest
    BY <1>2 DEF Latest
  <2> QED
    BY <1>0, <2>1
<1>3. CASE /\ run.stage = "idle" /\ run'.stage = "configMap" /\ run'.copy = View(version)
  <2>1. Latest' = Latest
    BY <1>3 DEF Latest
  <2> QED
    BY <1>0, <2>1
<1>4. CASE run.stage = "configMap" /\ run'.stage = "job" /\ run'.copy = run.copy
  <2>1. Latest' = Latest
    BY <1>4 DEF Latest
  <2> QED
    BY <1>0, <2>1
<1>5. CASE RunKept /\ run'.stage # "idle"
  <2>1. Latest' = Latest
    BY <1>5 DEF Latest, RunKept
  <2> QED
    BY <1>0, <2>1
<1> QED
  BY <1>1, <1>2, <1>3, <1>4, <1>5, RunSteps

LEMMA OwnersKnownStep ==
  ASSUME TypeOK, PodsFinite, VersionsOrdered, RunSane, OwnersKnown,
         ConfigMapAdvances, JobAdvances, [Next]_vars,
         Older(View(version), View(version)')
  PROVE  OwnersKnown'
<1>0. /\ Latest.uid \in Nat /\ Latest'.uid \in Nat /\ Latest.uid <= Latest'.uid
  BY LatestStep DEF Older
<1>1. run.stage # "idle" => run.copy.uid = Latest.uid
  BY DEF Latest
<1>2. /\ Server(configMap).owner <= Latest.uid /\ Server(job).owner <= Latest.uid
      /\ Server(job).uid = 0 => Server(job) = NoJob
      /\ Server(job).uid # 0 => Server(job).owner # 0
  BY ServerEntry DEF OwnersKnown
<1>3. /\ Server(configMap)'.owner \in Nat /\ Server(configMap).owner \in Nat
      /\ Server(job).owner \in Nat
      /\ \A k \in 1..Len(configMap) : configMap[k].owner \in Nat
      /\ \A k \in 1..Len(job) : job[k].owner \in Nat
      /\ run.copy.uid \in Nat
  <2>1. /\ \A k \in 1..Len(configMap) : configMap[k] \in ConfigMap
        /\ \A k \in 1..Len(job) : job[k] \in Job
    BY ObjectsTyped, FeedEnds
  <2>2. Server(configMap)' \in ConfigMap /\ Server(configMap) \in ConfigMap /\ Server(job) \in Job
    BY StepTyped, ObjectsTyped
  <2> QED
    BY <2>1, <2>2, ConfigMapFields, JobFields, ObjectsTyped, VersionFields
<1>4. Server(configMap)'.owner <= Latest'.uid
  <2>1. \/ Server(configMap)'.owner = Server(configMap).owner
        \/ run.stage = "configMap" /\ Server(configMap)'.owner = run.copy.uid
        \/ Server(configMap)'.owner = 0
    BY DEF ConfigMapAdvances
  <2> QED
    BY <1>0, <1>1, <1>2, <1>3, <2>1
<1>5. ASSUME NEW k \in 1..Len(configMap') PROVE configMap'[k].owner <= Latest'.uid
  <2>1. CASE configMap'[k] = Server(configMap)'
    BY <1>4, <2>1
  <2>2. ASSUME NEW j \in 1..Len(configMap), configMap'[k] = configMap[j]
        PROVE  configMap'[k].owner <= Latest'.uid
    <3>1. configMap[j].owner <= Latest.uid /\ configMap[j].owner \in Nat
      BY <1>3 DEF OwnersKnown
    <3> QED
      BY <1>0, <2>2, <3>1
  <2> QED
    BY <2>1, <2>2, EntriesStep
<1>6. /\ Server(job)'.owner <= Latest'.uid
      /\ Server(job)'.uid = 0 => Server(job)' = NoJob
      /\ Server(job)'.uid # 0 => Server(job)'.owner # 0
  <2>1. CASE Server(job)' = Server(job)
    BY <1>0, <1>2, <1>3, <2>1
  <2>2. CASE /\ Server(job)'.uid # 0 /\ Server(job)'.owner = run.copy.uid /\ run.stage = "job"
    <3>1. run.copy.uid # 0
      BY <2>2 DEF RunSane
    <3> QED
      BY <1>0, <1>1, <1>3, <2>2, <3>1
  <2>3. CASE /\ Server(job)'.uid = Server(job).uid /\ Server(job)'.owner = Server(job).owner
             /\ \E d \in Deployments : d.job = Server(job).uid
    <3>1. Server(job).uid # 0
      BY <2>3 DEF OwnersKnown
    <3> QED
      BY <1>0, <1>2, <1>3, <2>3, <3>1
  <2>4. CASE Server(job)' = NoJob
    <3>1. NoJob.uid = 0 /\ NoJob.owner = 0
      BY NewJobs
    <3>2. 0 <= Latest'.uid
      BY <1>0
    <3> QED
      BY <2>4, <3>1, <3>2
  <2> QED
    BY <2>1, <2>2, <2>3, <2>4 DEF JobAdvances
<1>7. ASSUME NEW k \in 1..Len(job')
      PROVE  /\ job'[k].owner <= Latest'.uid
             /\ job'[k].uid = 0 => job'[k] = NoJob
             /\ job'[k].uid # 0 => job'[k].owner # 0
  <2>1. CASE job'[k] = Server(job)'
    BY <1>6, <2>1
  <2>2. ASSUME NEW j \in 1..Len(job), job'[k] = job[j]
        PROVE  /\ job'[k].owner <= Latest'.uid
               /\ job'[k].uid = 0 => job'[k] = NoJob
               /\ job'[k].uid # 0 => job'[k].owner # 0
    <3>1. /\ job[j].owner <= Latest.uid /\ job[j].owner \in Nat
          /\ job[j].uid = 0 => job[j] = NoJob
          /\ job[j].uid # 0 => job[j].owner # 0
      BY <1>3 DEF OwnersKnown
    <3> QED
      BY <1>0, <2>2, <3>1
  <2> QED
    BY <2>1, <2>2, EntriesStep
<1>8. ASSUME NEW d \in Deployments'
      PROVE  d.job # 0 /\ d.owner # 0 /\ d.owner <= Latest'.uid
  <2>1. CASE d \in Deployments
    <3>1. d.owner \in Nat
      <4>1. /\ pods \subseteq Pod /\ chain \in Seq(Contract)
        BY DEF TypeOK
      <4>2. \A c \in Range(chain) : c.owner \in Nat
        <5>1. DOMAIN chain = 1..Len(chain) /\ \A i \in 1..Len(chain) : chain[i] \in Contract
          BY <4>1, LenProperties, ElementOfSeq
        <5> QED
          BY <5>1 DEF Range, Contract
      <4>3. \A pod \in pods : pod.owner \in Nat
        BY <4>1, PodFields
      <4> QED
        BY <2>1, <4>2, <4>3 DEF Deployments
    <3>2. d.job # 0 /\ d.owner # 0 /\ d.owner <= Latest.uid
      BY <2>1 DEF OwnersKnown
    <3> QED
      BY <1>0, <3>1, <3>2
  <2>2. CASE Started(d)
    BY <1>0, <1>2, <1>3, <2>2 DEF Started
  <2> QED
    BY <2>1, <2>2, DeploymentsStep
<1> QED
  BY <1>5, <1>7, <1>8 DEF OwnersKnown

\* Only a new version belongs to an incarnation that nothing was deployed for.
LEMMA OlderOwners ==
  ASSUME TypeOK, VersionsOrdered, RunSane, OwnersKnown
  PROVE  /\ \A d \in Deployments : d.owner # Server(version).uid + 1
         /\ Server(version).uid = 0 =>
              /\ \A k \in 1..Len(job) : job[k] = NoJob
              /\ \A k \in 1..Len(configMap) : configMap[k].owner = 0
         /\ Latest.uid <= Server(version).uid
         /\ Latest.uid = Server(version).uid => Latest.code = Server(version).code
<1>1. /\ Latest.uid \in Nat /\ Server(version).uid \in Nat
      /\ Older(Latest, Server(version))
  <2>1. Latest \in Version /\ Older(Latest, Server(version))
    BY LatestOlder
  <2> QED
    BY <2>1, ObjectsTyped, VersionFields
<1>2. ASSUME NEW d \in Deployments PROVE d.owner # Server(version).uid + 1
  BY <1>1 DEF OwnersKnown, Older
<1>3. ASSUME Server(version).uid = 0, NEW k \in 1..Len(job) PROVE job[k] = NoJob
  <2>1. job[k] \in Job
    BY ObjectsTyped, FeedEnds
  <2>2. job[k].owner \in Nat
    BY <2>1, JobFields
  <2>3. job[k].owner <= Latest.uid /\ Latest.uid = 0
    BY <1>1, <1>3 DEF OwnersKnown, Older
  <2>4. job[k].owner = 0
    BY <2>2, <2>3
  <2> QED
    BY <2>4 DEF OwnersKnown
<1>4. ASSUME Server(version).uid = 0, NEW k \in 1..Len(configMap) PROVE configMap[k].owner = 0
  <2>1. configMap[k] \in ConfigMap
    BY ObjectsTyped, FeedEnds
  <2>2. configMap[k].owner \in Nat
    BY <2>1, ConfigMapFields
  <2>3. configMap[k].owner <= Latest.uid /\ Latest.uid = 0
    BY <1>1, <1>4 DEF OwnersKnown, Older
  <2> QED
    BY <2>2, <2>3
<1> QED
  BY <1>1, <1>2, <1>3, <1>4 DEF Older

LEMMA RemovedStep ==
  ASSUME TypeOK, [Next]_vars, removed' = 0
  PROVE  removed = 0
<1>1. removed' = removed \/ DeleteJob
  BY RemovedWrites
<1>2. removed \in 0..MaxRemoved /\ MaxRemoved \in Nat
  BY VersionAssumption DEF TypeOK
<1> QED
  BY <1>1, <1>2 DEF DeleteJob

LEMMA OneJobStep ==
  ASSUME TypeOK, PodsFinite, VersionsOrdered, RunSane, OwnersKnown, OneJob,
         VersionAdvances, JobAdvances, [Next]_vars
  PROVE  OneJob'
<1> SUFFICES ASSUME removed' = 0, Server(version)'.alive,
                    NEW d \in Deployments', d.owner = Server(version)'.uid
             PROVE  d.job = Server(job)'.uid /\ Server(job)'.owner = Server(version)'.uid
  BY DEF OneJob
<1>0. removed = 0
  BY RemovedStep
<1>1. CASE Server(version)'.uid = Server(version).uid + 1 /\ UNCHANGED world
  <2>1. d \in Deployments
    BY <1>1 DEF world, Deployments
  <2> QED
    BY <1>1, <2>1, OlderOwners
<1>2. CASE Server(version)'.uid = Server(version).uid /\ Server(version).alive
  <2>1. CASE Started(d)
    <3>1. Server(job)' = Server(job)
      BY <2>1 DEF Started, Server
    <3> QED
      BY <2>1, <3>1 DEF Started
  <2>2. CASE d \in Deployments
    <3>1. d.job = Server(job).uid /\ Server(job).owner = Server(version).uid /\ d.job # 0
      BY <1>0, <1>2, <2>2 DEF OneJob, OwnersKnown
    <3>2. Live(Server(job).owner)
      BY <1>2, <3>1 DEF Live
    <3> QED
      BY <1>2, <3>1, <3>2 DEF JobAdvances
  <2> QED
    BY <2>1, <2>2, DeploymentsStep
<1> QED
  BY <1>1, <1>2 DEF VersionAdvances

\* What a reconcile writes to the ConfigMap is of the version that it fetched.
LEMMA FirstMapsKept ==
  ASSUME TypeOK, PodsFinite, RunSane, OwnersKnown, FirstMaps, ConfigMapAdvances, [Next]_vars,
         Latest.uid \in Nat, Latest.uid <= 1,
         NEW k \in 1..Len(configMap'), configMap'[k].owner # 0
  PROVE  Latest.uid = 1 /\ configMap'[k].code = Latest.code
<1>1. ASSUME NEW j \in 1..Len(configMap), configMap[j].owner # 0
      PROVE  Latest.uid = 1 /\ configMap[j].code = Latest.code
  <2>1. configMap[j].code = Latest.code /\ configMap[j].owner <= Latest.uid
    BY <1>1 DEF FirstMaps, OwnersKnown
  <2>2. configMap[j].owner \in Nat
    <3>1. configMap[j] \in ConfigMap
      BY ObjectsTyped, FeedEnds
    <3> QED
      BY <3>1, ConfigMapFields
  <2> QED
    BY <1>1, <2>1, <2>2
<1>2. ASSUME run.stage # "idle" PROVE Latest.uid = 1 /\ Latest = run.copy
  <2>1. Latest = run.copy /\ run.copy.uid # 0
    BY <1>2 DEF Latest, RunSane
  <2> QED
    BY <2>1
<1>3. CASE configMap'[k] = Server(configMap)'
  <2>1. CASE Server(configMap)' = Server(configMap)
    BY <1>1, <1>3, <2>1, ServerEntry
  <2>2. CASE run.stage = "configMap" /\ Server(configMap)'.code = run.copy.code
    BY <1>2, <1>3, <2>2
  <2> QED
    BY <1>3, <2>1, <2>2 DEF ConfigMapAdvances
<1>4. ASSUME NEW j \in 1..Len(configMap), configMap'[k] = configMap[j]
      PROVE  Latest.uid = 1 /\ configMap'[k].code = Latest.code
  BY <1>1, <1>4
<1> QED
  BY <1>3, <1>4, EntriesStep

LEMMA FirstMapsStep ==
  ASSUME TypeOK, PodsFinite, VersionsOrdered, RunSane, OwnersKnown, FirstMaps,
         ConfigMapAdvances, [Next]_vars, Older(View(version), View(version)')
  PROVE  FirstMaps'
<1> SUFFICES ASSUME Latest'.uid <= 1, NEW k \in 1..Len(configMap'), configMap'[k].owner # 0
             PROVE  configMap'[k].code = Latest'.code
  BY DEF FirstMaps
<1>1. Latest.uid \in Nat /\ Latest'.uid \in Nat /\ Older(Latest, Latest')
  BY LatestStep
<1>2. Latest.uid <= 1
  BY <1>1 DEF Older
<1>3. Latest.uid = 1 /\ configMap'[k].code = Latest.code
  BY <1>1, <1>2, FirstMapsKept
<1> QED
  BY <1>1, <1>3 DEF Older

\* After the reconciler has made sure of the ConfigMap, it has looked at it.
LEMMA EnsuredMap ==
  ASSUME TypeOK, PodsFinite, SecondMap, [Next]_vars,
         run.stage = "configMap", Latest.uid = 2,
         ~ConfigMapRefused, configMap' = ConfigMapWritten,
         Server(configMap)'.owner # 0
  PROVE  Server(configMap)'.code = Latest.code
<1>0. /\ Wanted \in ConfigMap /\ Wanted.code = Latest.code
      /\ View(configMap) \in ConfigMap
      /\ Latest = run.copy
  BY ObjectsTyped DEF Latest
<1>1. CASE configMap' = Append(configMap, Wanted)
  <2>1. Server(configMap)' = Wanted
    BY <1>0, <1>1, ServerAfter DEF Server
  <2> QED
    BY <1>0, <2>1
<1>2. CASE configMap' = Append(configMap, [View(configMap) EXCEPT !.code = Wanted.code])
  <2> DEFINE new == [View(configMap) EXCEPT !.code = Wanted.code]
  <2>1. new \in ConfigMap /\ new.code = Wanted.code
    BY <1>0, ConfigMapFields
  <2>2. configMap' = Append(configMap, new)
    BY <1>2
  <2> HIDE DEF new
  <2>3. Server(configMap)' = new
    BY <2>1, <2>2, ServerAfter DEF Server
  <2> QED
    BY <1>0, <2>1, <2>3
<1>3. CASE /\ configMap' = configMap
           /\ View(configMap).owner # 0 /\ View(configMap).code = Wanted.code
  <2>1. Server(configMap)' = Server(configMap)
    BY <1>3 DEF Server
  <2>2. Looked
    BY <1>0, <1>3, ServerEntry DEF Looked
  <2> QED
    BY <2>1, <2>2 DEF SecondMap
<1> QED
  BY <1>1, <1>2, <1>3 DEF ConfigMapWritten

LEMMA SecondMapStep ==
  ASSUME TypeOK, PodsFinite, VersionsOrdered, RunSane, OwnersKnown, FirstMaps, SecondMap,
         ConfigMapAdvances, JobAdvances, [Next]_vars, Older(View(version), View(version)')
  PROVE  SecondMap'
<1> SUFFICES ASSUME Latest'.uid = 2, Looked', Server(configMap)'.owner # 0
             PROVE  Server(configMap)'.code = Latest'.code
  BY DEF SecondMap
<1>0. /\ Latest.uid \in Nat /\ Older(Latest, Latest')
      /\ Latest' = Latest \/ run'.stage = "idle"
  BY LatestStep
<1>1. /\ Len(configMap') \in 1..Len(configMap')
      /\ configMap'[Len(configMap')] = Server(configMap)'
  BY StepTyped, FeedEntries DEF Server
<1>2. Server(job).owner \in Nat /\ Server(job).owner <= Latest.uid
  BY ObjectsTyped, JobFields, ServerEntry DEF OwnersKnown
<1>3. Server(job)'.owner = 2 =>
        Server(job).owner = 2 \/ (run.stage = "job" /\ run.copy.uid = 2)
  <2>1. NoJob.owner # 2
    <3>1. NoJob.owner = 0
      BY NewJobs
    <3> QED
      BY <3>1
  <2> QED
    BY <2>1 DEF JobAdvances
<1>4. CASE Latest.uid = 2
  <2>1. Latest'.code = Latest.code
    BY <1>0, <1>4 DEF Older
  <2>2. CASE Server(configMap)' # Server(configMap)
    <3>1. run.stage = "configMap" /\ Server(configMap)'.code = run.copy.code
      BY <2>2 DEF ConfigMapAdvances
    <3> QED
      BY <2>1, <3>1 DEF Latest
  <2>3. CASE Server(configMap)' = Server(configMap) /\ Looked
    BY <1>4, <2>1, <2>3 DEF SecondMap
  <2>4. CASE Server(configMap)' = Server(configMap) /\ ~Looked
    <3>1. Server(job)'.owner # 2
      BY <1>3, <2>4 DEF Looked
    <3>2. ASSUME NEW k \in 1..Len(configMap'), configMap'[k].owner # 0,
                 configMap'[k].code = Latest.code
          PROVE  FALSE
      <4>1. \E j \in 1..Len(configMap) : configMap'[k] = configMap[j]
        BY <2>4, EntriesStep, ServerEntry
      <4> QED
        BY <2>4, <3>2, <4>1 DEF Looked
    <3>3. run'.stage = "job"
      BY <2>1, <3>1, <3>2 DEF Looked
    <3>4. run.stage # "job"
      BY <2>4 DEF Looked
    <3>5. run.stage = "configMap" /\ ~ConfigMapRefused /\ configMap' = ConfigMapWritten
      BY <3>3, <3>4, RunSteps DEF RunKept
    <3> QED
      BY <1>4, <2>1, <3>5, EnsuredMap
  <2> QED
    BY <2>2, <2>3, <2>4
<1>5. CASE Latest.uid <= 1
  <2>1. \A k \in 1..Len(configMap') : configMap'[k].owner # 0 =>
          Latest.uid = 1 /\ configMap'[k].code = Latest.code
    BY <1>0, <1>5, FirstMapsKept
  <2>2. Latest.uid = 1 /\ Server(configMap)'.code = Latest.code
    BY <1>1, <2>1
  <2>3. run'.stage = "idle"
    BY <1>0, <2>2
  <2>4. Server(job)'.owner # 2
    <3>1. Server(job).owner # 2
      BY <1>0, <1>2, <1>5
    <3>2. run.stage = "job" => run.copy.uid # 2
      BY <2>2 DEF Latest
    <3> QED
      BY <1>3, <3>1, <3>2
  <2>5. \E k \in 1..Len(configMap') : configMap'[k].owner # 0 /\ configMap'[k].code = Latest'.code
    BY <2>3, <2>4 DEF Looked
  <2> QED
    BY <2>1, <2>2, <2>5
<1> QED
  BY <1>0, <1>4, <1>5 DEF Older

LEMMA OwnCodeStep ==
  ASSUME TypeOK, PodsFinite, VersionsOrdered, RunSane, OwnersKnown, FirstMaps, SecondMap,
         OwnCode, VersionAdvances, [Next]_vars,
         Older(Server(version), Server(version)')
  PROVE  OwnCode'
<1> DEFINE old == Server(version)  new == Server(version)'
<1> SUFFICES ASSUME new.uid <= 2, NEW d \in Deployments', d.owner = new.uid
             PROVE  d.code = new.code
  BY DEF OwnCode
<1>0. old.uid \in Nat /\ new.uid \in Nat /\ old.uid <= 2
  BY StepTyped DEF Older
<1>1. CASE new.uid = old.uid + 1 /\ UNCHANGED world
  <2>1. d \in Deployments
    BY <1>1 DEF world, Deployments
  <2> QED
    BY <1>1, <2>1, OlderOwners
<1>2. CASE new.uid = old.uid /\ new.code = old.code
  <2>1. CASE d \in Deployments
    BY <1>0, <1>2, <2>1 DEF OwnCode
  <2>2. CASE Started(d)
    <3>1. /\ d.owner = Server(job).owner /\ d.code = Server(configMap).code
          /\ Server(job).uid # 0 /\ Server(configMap).owner # 0
      BY <2>2 DEF Started
    <3>2. /\ Server(job).owner = old.uid
          /\ Server(job).owner # 0 /\ Server(job).owner <= Latest.uid
      BY <1>2, <3>1, ServerEntry DEF OwnersKnown
    <3>3. Latest.uid \in Nat
      <4>1. Latest \in Version
        BY LatestOlder
      <4> QED
        BY <4>1, VersionFields
    <3>4. Latest.uid = old.uid /\ Latest.code = old.code
      <4>1. Latest.uid <= old.uid
        BY OlderOwners
      <4>2. Latest.uid = old.uid
        BY <1>0, <3>2, <3>3, <4>1
      <4> QED
        BY <4>2, OlderOwners
    <3>5. CASE old.uid = 1
      BY <1>2, <3>1, <3>4, <3>5, ServerEntry DEF FirstMaps
    <3>6. CASE old.uid = 2
      <4>1. Looked
        BY <3>2, <3>6 DEF Looked
      <4> QED
        BY <1>2, <3>1, <3>4, <3>6, <4>1 DEF SecondMap
    <3>7. old.uid = 1 \/ old.uid = 2
      BY <1>0, <3>2
    <3> QED
      BY <3>5, <3>6, <3>7
  <2> QED
    BY <2>1, <2>2, DeploymentsStep
<1>3. new.uid = old.uid => new.code = old.code
  BY DEF Older
<1> QED
  BY <1>1, <1>2, <1>3 DEF VersionAdvances

LEMMA FirstJobStep ==
  ASSUME TypeOK, PodsFinite, VersionsOrdered, RunSane, OwnersKnown, FirstJob,
         VersionAdvances, JobAdvances, [Next]_vars
  PROVE  FirstJob'
<1> DEFINE old == Server(version)  new == Server(version)'
<1> SUFFICES ASSUME removed' = 0, new.alive, new.uid = 1
             PROVE  /\ Ordered(job', JobOrder)
                    /\ new.state = "deployed" => View(job)'.succeeded
                    /\ Server(job)'.uid # 0 => Server(job)'.owner = 1
  BY DEF FirstJob
<1>0. /\ removed = 0 /\ old.uid \in Nat
      /\ job \in Feed(Job) /\ FeedStep(job, job', Job)
      /\ Server(job) \in Job /\ Server(job)' \in Job
  BY StepTyped, ObjectsTyped, RemovedStep
<1>1. CASE /\ new.uid = old.uid + 1 /\ new.state = "" /\ UNCHANGED <<configMap, job, world>>
  <2>1. old.uid = 0
    <3>1. old.uid \in Nat /\ old.uid + 1 = 1
      BY <1>0, <1>1
    <3> HIDE DEF old
    <3> QED
      BY <3>1
  <2>2. \A k \in 1..Len(job) : job[k] = NoJob
    BY <2>1, OlderOwners
  <2>3. NoJob.uid = 0 /\ NoJob \in Job /\ <<NoJob, NoJob>> \in JobOrder
    BY NewJobs, JobPairs
  <2>4. Ordered(job, JobOrder)
    BY <2>2, <2>3 DEF Ordered
  <2>5. Server(job)' = NoJob
    BY <1>1, <2>2, ServerEntry DEF Server
  <2> QED
    BY <1>1, <2>3, <2>4, <2>5
<1>2. CASE old.alive /\ old.uid = 1
  <2>1. /\ Ordered(job, JobOrder)
        /\ old.state = "deployed" => View(job).succeeded
        /\ Server(job).uid # 0 => Server(job).owner = 1
    BY <1>0, <1>2 DEF FirstJob
  <2>2. /\ Server(job).succeeded => Server(job)'.succeeded
        /\ Server(job)'.uid # 0 => Server(job)'.owner = 1
    <3>1. Server(job).uid = 0 => ~Server(job).succeeded
      BY ServerEntry, NewJobs DEF OwnersKnown
    <3>2. Server(job).uid # 0 => Live(Server(job).owner)
      BY <1>2, <2>1 DEF Live
    <3>3. run.stage = "job" => run.copy.uid = 1
      <4>1. ASSUME run.stage = "job" PROVE run.copy.uid = 1
        <5>1. Latest = run.copy /\ Latest.uid <= 1
          BY <1>2, <4>1, OlderOwners DEF Latest
        <5>2. run.copy.uid \in 1..View(version).uid
          BY <4>1 DEF RunSane
        <5>3. run.copy.uid \in Nat /\ View(version).uid \in Nat
          BY ObjectsTyped, VersionFields
        <5> QED
          BY <5>1, <5>2, <5>3
      <4> QED
        BY <4>1
    <3> QED
      BY <2>1, <3>1, <3>2, <3>3 DEF JobAdvances
  <2>3. /\ Ordered(job', JobOrder)
        /\ View(job).succeeded => View(job)'.succeeded
    <3>1. /\ First(job) = View(job) /\ First(job') = View(job)'
          /\ Last(job) = Server(job) /\ Last(job') = Server(job)'
      BY DEF First, Last, View, Server
    <3>2. <<Last(job), Last(job')>> \in JobOrder
      BY <1>0, <2>2, <3>1, JobPairs
    <3>3. Ordered(job', JobOrder) /\ <<First(job), First(job')>> \in JobOrder
      BY <1>0, <2>1, <3>2, JobPairs, FeedOrdered
    <3> QED
      BY <3>1, <3>3 DEF JobOrder
  <2>4. ASSUME new.state = "deployed" PROVE View(job)'.succeeded
    <3>1. CASE new = old
      BY <2>1, <2>3, <2>4, <3>1
    <3>2. CASE /\ new.state = IF View(job).succeeded THEN "deployed" ELSE "failed"
      BY <2>3, <2>4, <3>2
    <3> QED
      BY <1>0, <1>2, <2>1, <2>3, <2>4, <3>1, <3>2 DEF VersionAdvances
  <2> QED
    BY <2>2, <2>3, <2>4
<1>3. CASE new = old
  BY <1>2, <1>3
<1>4. CASE new.uid = old.uid /\ old.alive
  BY <1>2, <1>4
<1> QED
  BY <1>1, <1>3, <1>4 DEF VersionAdvances

LEMMA InvariantInit ==
  ASSUME Init
  PROVE  VInv
<1>1. TypeOK /\ PodsFinite
  BY TypeInit
<1>2. /\ NoVersion \in Version /\ NoVersion.uid = 0 /\ ~NoVersion.alive
      /\ NoConfigMap.owner = 0
      /\ NoJob.uid = 0 /\ NoJob.owner = 0
  BY NewVersions, ConfigMapFields, NewJobs
<1>3. /\ Len(version) = 1 /\ (\A i \in 1..Len(version) : version[i] = NoVersion)
      /\ Server(version) = NoVersion /\ View(version) = NoVersion
      /\ Len(configMap) = 1 /\ (\A k \in 1..Len(configMap) : configMap[k] = NoConfigMap)
      /\ Server(configMap) = NoConfigMap
      /\ Len(job) = 1 /\ (\A k \in 1..Len(job) : job[k] = NoJob)
      /\ Server(job) = NoJob
  <2>1. \A object : /\ Len(<<object>>) = 1 /\ (\A i \in 1..Len(<<object>>) : <<object>>[i] = object)
                    /\ Server(<<object>>) = object /\ View(<<object>>) = object
    BY DEF Server, View
  <2>2. version = <<NoVersion>> /\ configMap = <<NoConfigMap>> /\ job = <<NoJob>>
    BY DEF Init
  <2> QED
    BY <2>1, <2>2
<1>4. run.stage = "idle" /\ ~run.fresh
  BY DEF Init, Idle
<1>5. Deployments = {}
  <2>1. Range(chain) = {}
    BY DEF Init, Range
  <2> QED
    BY <2>1 DEF Init, Deployments
<1>6. Latest = NoVersion
  BY <1>3, <1>4 DEF Latest
<1>7. VersionsOrdered
  <2>1. <<NoVersion, NoVersion>> \in VersionOrder
    BY <1>2, VersionPairs
  <2>2. Ordered(version, VersionOrder)
    BY <1>3, <2>1 DEF Ordered
  <2>3. 0 <= MaxUid
    BY VersionAssumption
  <2> QED
    BY <1>2, <1>3, <2>2, <2>3 DEF VersionsOrdered
<1>8. RunSane
  BY <1>4 DEF RunSane
<1>9. OwnersKnown
  <2>1. \A k \in 1..Len(configMap) : configMap[k].owner = 0
    BY <1>2, <1>3
  <2>2. \A k \in 1..Len(job) : job[k].owner = 0 /\ job[k].uid = 0 /\ job[k] = NoJob
    BY <1>2, <1>3
  <2>3. Latest.uid = 0
    BY <1>2, <1>6
  <2> QED
    BY <1>5, <2>1, <2>2, <2>3 DEF OwnersKnown
<1>10. OneJob /\ OwnCode
  BY <1>5 DEF OneJob, OwnCode
<1>11. FirstMaps /\ SecondMap
  BY <1>2, <1>3, <1>6 DEF FirstMaps, SecondMap
<1>12. FirstJob
  BY <1>2, <1>3 DEF FirstJob
<1> QED
  BY <1>1, <1>7, <1>8, <1>9, <1>10, <1>11, <1>12 DEF VInv

LEMMA InvariantInductive ==
  ASSUME VInv, [Next]_vars
  PROVE  VInv'
<1> USE DEF VInv
<1>1. TypeOK' /\ PodsFinite'
  BY TypeInductive
<1>2. VersionAdvances /\ ConfigMapAdvances /\ JobAdvances
  BY VersionStep, ConfigMapStep, JobStep
<1>3. /\ VersionsOrdered' /\ Older(Server(version), Server(version)')
      /\ Older(View(version), View(version)')
  BY <1>2, VersionsOrderedStep
<1>4. RunSane' /\ OwnersKnown'
  BY <1>2, <1>3, RunSaneStep, OwnersKnownStep
<1>5. OneJob'
  BY <1>2, OneJobStep
<1>6. FirstMaps' /\ SecondMap'
  BY <1>2, <1>3, FirstMapsStep, SecondMapStep
<1>7. OwnCode' /\ FirstJob'
  BY <1>2, <1>3, OwnCodeStep, FirstJobStep
<1> QED
  BY <1>1, <1>3, <1>4, <1>5, <1>6, <1>7

LEMMA InvariantHolds == Spec => []VInv
<1>1. Init => VInv
  BY InvariantInit
<1>2. VInv /\ [Next]_vars => VInv'
  BY InvariantInductive
<1> QED
  BY <1>1, <1>2, PTL DEF Spec

-------------------------------------------------------------------------------
(* What the users may rely on *)

\* Nobody deletes Jobs, and yet calls fail after they were applied, caches lag
\* by any number of events, the manager restarts and the name is used again: what
\* is deployed for a live version is deployed by one Job.  The Job's name makes
\* it so: no second one is created before the first is collected, and the
\* collector takes no Job whose version lives.
THEOREM OneJobDeploys == Spec => []OneJobPerVersion
<1>1. ASSUME VInv, removed = 0, Server(version).alive,
             NEW c \in Range(chain), NEW d \in Range(chain),
             c.owner = Server(version).uid, d.owner = Server(version).uid
      PROVE  c.job = d.job
  <2>1. c \in Deployments /\ d \in Deployments
    BY DEF Deployments
  <2> QED
    BY <1>1, <2>1 DEF VInv, OneJob
<1>2. VInv => OneJobPerVersion
  BY <1>1 DEF OneJobPerVersion
<1> QED
  BY <1>2, InvariantHolds, PTL

\* What is deployed for the first two incarnations of a name is their code,
\* whatever ConfigMap the first one left behind: the reconciler creates a Job
\* only past a ConfigMap that it wrote or that showed the code, and a ConfigMap
\* that has shown the second code is never the first one's again.
THEOREM CodeIsOwn == Spec => []OwnCodeDeployed
<1>1. ASSUME VInv, Server(version).uid <= 2,
             NEW c \in Range(chain), c.owner = Server(version).uid
      PROVE  c.code = Server(version).code
  <2>1. c \in Deployments
    BY DEF Deployments
  <2> QED
    BY <1>1, <2>1 DEF VInv, OwnCode
<1>2. VInv => OwnCodeDeployed
  BY <1>1 DEF OwnCodeDeployed
<1> QED
  BY <1>2, InvariantHolds, PTL

\* A step that takes "deployed" from the first incarnation records a Job that has
\* not succeeded, as the cache shows it.
LEMMA DemotedAfterDeletion ==
  ASSUME VInv, [Next]_vars, Server(version).uid <= 1,
         Server(version).state = "deployed",
         Server(version)'.uid = Server(version).uid, Server(version)'.state # "deployed"
  PROVE  removed > 0
<1>1. VersionAdvances /\ Server(version).uid \in Nat
  BY VersionStep, ObjectsTyped, VersionFields DEF VInv
<1>2. Server(version).alive /\ ~View(job).succeeded
  <2> DEFINE old == Server(version)  new == Server(version)'
  <2>1. new # old /\ new.state # old.state
    OBVIOUS
  <2>2. new.uid # old.uid + 1
    <3>1. new.uid = old.uid /\ old.uid \in Nat
      BY <1>1
    <3> HIDE DEF old, new
    <3> QED
      BY <3>1
  <2>3. /\ old.alive
        /\ new.state = IF View(job).succeeded THEN "deployed" ELSE "failed"
    <3> HIDE DEF old, new
    <3> QED
      BY <1>1, <2>1, <2>2 DEF VersionAdvances, old, new
  <2> QED
    BY <2>3
<1>3. Server(version).uid = 1
  <2>1. Server(version).uid > 0
    BY <1>2, ServerEntry DEF VInv, VersionsOrdered
  <2> QED
    BY <1>1, <2>1
<1>4. removed # 0
  BY <1>2, <1>3 DEF VInv, FirstJob
<1>5. removed \in 0..MaxRemoved /\ MaxRemoved \in Nat
  BY VersionAssumption DEF VInv, TypeOK
<1> QED
  BY <1>4, <1>5

\* DeployedNotDemoted of the first incarnation of any name.  A later one may be
\* shown the success of its predecessor's Job before its own Job fails.
FirstNotDemoted ==
  [][Server(version).state = "deployed" /\ Server(version).uid = 1
       /\ Server(version)'.uid = 1 /\ Server(version)'.state # "deployed" => removed > 0]_vars

\* No step takes "deployed" from the first incarnation while nobody has deleted
\* a Job: the status is only written from a copy that the API server still has,
\* and the cache has shown the success that the status came from.
THEOREM FirstStaysDeployed == Spec => FirstNotDemoted
<1>1. VInv /\ [Next]_vars =>
        [Server(version).state = "deployed" /\ Server(version).uid = 1
           /\ Server(version)'.uid = 1 /\ Server(version)'.state # "deployed"
         => removed > 0]_vars
  <2>1. ASSUME Server(version).uid = 1 PROVE Server(version).uid <= 1
    BY <2>1
  <2> QED
    BY <2>1, DemotedAfterDeletion
<1> QED
  BY <1>1, InvariantHolds, PTL DEF Spec, FirstNotDemoted

\* Of a name that is created once: "deployed" is only ever taken back after
\* somebody has deleted a Job.
THEOREM DeployedStays ==
  ASSUME MaxUid = 1
  PROVE  Spec => DeployedNotDemoted
<1>1. VInv /\ [Next]_vars =>
        [Server(version).state = "deployed" /\ Server(version)'.uid = Server(version).uid
           /\ Server(version)'.state # "deployed" => removed > 0]_vars
  <2>1. VInv => Server(version).uid <= 1
    BY DEF VInv, VersionsOrdered
  <2> QED
    BY <2>1, DemotedAfterDeletion
<1> QED
  BY <1>1, InvariantHolds, PTL DEF Spec, DeployedNotDemoted
==============================================================================
