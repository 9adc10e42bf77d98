---------------------- MODULE ContractVersionController ----------------------
(****************************************************************************)
(* The ContractVersion reconciler: one ContractVersion name, the ConfigMap  *)
(* and the Job that the reconciler keeps for it, the Job's pods and what    *)
(* they deploy.                                                             *)
(*                                                                          *)
(* Each API object is a feed: the entries the informer cache has yet to     *)
(* show.  The first entry is what the cache shows, the last one is what the *)
(* API server has.  A read of the cache and the write it leads to are one   *)
(* step: what happens in between is a cache that lags a little more.        *)
(****************************************************************************)
EXTENDS Naturals, Sequences, FiniteSets, Functions

CONSTANTS
  Codes,       \* codes that each incarnation of the name can carry
  Required,    \* Network, RPCProvider, Wallet and their Secrets
  Modules,     \* local module ConfigMaps and the BlockExplorer, read later
  MaxUid,      \* bound: how often the name is created
  MaxDeleted,  \* bound: the first of them are deleted
  MaxRemoved,  \* bound: Jobs that users delete
  MaxPods,     \* bound: pods at a time
  MaxDeploys,  \* bound: contracts deployed
  MaxLag,      \* bound: what a cache lags behind when the collector acts
  MaxFaults    \* bound: failed calls, restarts and withdrawn dependencies

ASSUME VersionAssumption ==
  /\ DOMAIN Codes = 1..MaxUid /\ \A uid \in 1..MaxUid : Codes[uid] # {}
  /\ MaxUid \in Nat \ {0} /\ MaxDeleted \in Nat /\ MaxRemoved \in Nat /\ MaxPods \in Nat
  /\ MaxDeploys \in Nat /\ MaxLag \in Nat /\ MaxFaults \in Nat

VARIABLES
  version,    \* feed of the ContractVersion
  configMap,  \* feed of the ConfigMap "<version>-contract"
  job,        \* feed of the Job "contract-deploy-<version>"
  removed,    \* Jobs that users deleted so far
  pods,       \* pods that exist
  chain,      \* contracts deployed on the network, in order
  present,    \* the dependencies that exist
  queued,     \* the name is in the work queue
  run,        \* the reconcile in progress: stage, fetched copy, and whether
              \* that copy is still what the API server has
  faults

vars == <<version, configMap, job, removed, pods, chain, present, queued, run, faults>>

AllCodes == UNION Range(Codes)

\* address: the position on the chain of the recorded contract, 0 for "".
Version == [uid : Nat, alive : BOOLEAN, code : AllCodes,
            state : {"", "deployed", "failed"}, address : Nat, timed : BOOLEAN]
\* owner: the incarnation that the owner reference names; uid 0 is no object.
ConfigMap == [owner : Nat, code : AllCodes]
Job       == [uid : Nat, owner : Nat, succeeded : BOOLEAN, failed : BOOLEAN]
\* log: the address that the container printed, 0 for none.
Pod       == [job : Nat, owner : Nat, phase : {"running", "succeeded", "failed"},
              code : AllCodes, log : Nat]
\* A deployed contract: the Job and incarnation it was deployed for.
Contract  == [job : Nat, owner : Nat, code : AllCodes]

AnyCode     == CHOOSE c \in AllCodes : TRUE
NoVersion   == [uid |-> 0, alive |-> FALSE, code |-> AnyCode,
                state |-> "", address |-> 0, timed |-> FALSE]
NoConfigMap == [owner |-> 0, code |-> AnyCode]
NoJob       == [uid |-> 0, owner |-> 0, succeeded |-> FALSE, failed |-> FALSE]

View(feed)   == feed[1]
Server(feed) == feed[Len(feed)]

Stages == {"idle", "configMap", "job"}
Idle == [stage |-> "idle", copy |-> NoVersion, fresh |-> FALSE]

TypeOK ==
  /\ version \in Seq(Version) /\ configMap \in Seq(ConfigMap) /\ job \in Seq(Job)
  /\ Len(version) > 0 /\ Len(configMap) > 0 /\ Len(job) > 0
  /\ removed \in 0..MaxRemoved
  /\ pods \subseteq Pod /\ chain \in Seq(Contract)
  /\ present \subseteq Required \cup Modules
  /\ queued \in BOOLEAN
  /\ run \in [stage : Stages, copy : Version, fresh : BOOLEAN]
  /\ faults \in 0..MaxFaults

Init ==
  /\ version = <<NoVersion>> /\ configMap = <<NoConfigMap>> /\ job = <<NoJob>>
  /\ removed = 0 /\ pods = {} /\ chain = <<>>
  /\ present = {}
  /\ queued = FALSE
  /\ run = Idle
  /\ faults = 0

-------------------------------------------------------------------------------
(* The reconciler *)

Fail == faults < MaxFaults /\ faults' = faults + 1

Return(again) == run' = Idle /\ queued' = (queued \/ again)
Proceed(stage) == run' = [run EXCEPT !.stage = stage] /\ UNCHANGED queued

world == <<removed, pods, chain, present>>

FetchMissing ==
  /\ run.stage = "idle" /\ queued
  /\ ~View(version).alive
  /\ queued' = FALSE
  /\ UNCHANGED <<version, configMap, job, world, run, faults>>

\* Mutant: the error of a missing dependency is logged and not returned.
FetchFailsDropped ==
  /\ run.stage = "idle" /\ queued
  /\ View(version).alive /\ ~(Required \subseteq present)
  /\ queued' = FALSE
  /\ UNCHANGED <<version, configMap, job, world, run, faults>>

\* Network, RPCProvider, its Secret, Wallet, its SecretRef and its Secret are
\* fetched after the version, each from the cache.
FetchFails ==
  /\ run.stage = "idle" /\ queued
  /\ View(version).alive /\ ~(Required \subseteq present)
  /\ Return(TRUE)
  /\ UNCHANGED <<version, configMap, job, world, faults>>

FetchFound ==
  /\ run.stage = "idle" /\ queued
  /\ View(version).alive /\ Required \subseteq present
  /\ queued' = FALSE
  /\ run' = [stage |-> "configMap", copy |-> View(version), fresh |-> Len(version) = 1]
  /\ UNCHANGED <<version, configMap, job, world, faults>>

Wanted == [owner |-> run.copy.uid, code |-> run.copy.code]

\* Mutant: a ConfigMap that is there is taken as it is.
ConfigMapKept ==
  IF View(configMap).owner = 0 THEN Append(configMap, Wanted) ELSE configMap

\* createOrUpdateConfigMap.  An update writes the data and leaves the owner
\* reference as it is.
ConfigMapWritten ==
  IF View(configMap).owner = 0 THEN Append(configMap, Wanted)
  ELSE IF View(configMap).code # Wanted.code
       THEN Append(configMap, [View(configMap) EXCEPT !.code = Wanted.code])
       ELSE configMap

\* A creation is refused by an object of that name, an update by a newer entry.
ConfigMapRefused ==
  /\ ConfigMapWritten # configMap
  /\ IF View(configMap).owner = 0 THEN Server(configMap).owner # 0 ELSE Len(configMap) > 1

\* Mutant: an update that is refused ends the reconcile without an error.
EnsureConfigMapOnce ==
  /\ run.stage = "configMap"
  /\ IF ConfigMapRefused
     THEN Return(FALSE) /\ UNCHANGED configMap
     ELSE Proceed("job") /\ configMap' = ConfigMapWritten
  /\ UNCHANGED <<version, job, world, faults>>

EnsureConfigMap ==
  /\ run.stage = "configMap"
  /\ IF ConfigMapRefused
     THEN Return(TRUE) /\ UNCHANGED configMap
     ELSE Proceed("job") /\ configMap' = ConfigMapWritten
  /\ UNCHANGED <<version, job, world, faults>>

\* A local module's ConfigMap or the BlockExplorer is missing.
ModulesMissing ==
  /\ run.stage = "job" /\ ~(Modules \subseteq present)
  /\ Return(TRUE)
  /\ UNCHANGED <<version, configMap, job, world, faults>>

AtJob == run.stage = "job" /\ Modules \subseteq present

JobUids == {object.uid : object \in Range(job)}
           \cup {pod.job : pod \in pods} \cup {contract.job : contract \in Range(chain)}

\* The API server gives a new Job a uid that no other had.
NewUid == CHOOSE uid \in 1..(Cardinality(JobUids) + 1) : uid \notin JobUids

NewJob == [NoJob EXCEPT !.uid = NewUid, !.owner = run.copy.uid]

\* Mutant: the Job has a generated name, which no other Job has.
CreateJobGenerated ==
  /\ AtJob /\ View(job).uid = 0
  /\ job' = Append(job, NewJob)
  /\ Return(TRUE)
  /\ UNCHANGED <<version, configMap, world, faults>>

\* The cache shows no Job: one is created under the version's name, and the
\* version is requeued; a Job that the cache does not show yet refuses it.
CreateJob ==
  /\ AtJob /\ View(job).uid = 0
  /\ IF Server(job).uid = 0
     THEN job' = Append(job, NewJob)
     ELSE UNCHANGED job
  /\ Return(TRUE)
  /\ UNCHANGED <<version, configMap, world, faults>>

\* The Job is pending or running: look again in ten seconds.
PollJob ==
  /\ AtJob
  /\ View(job).uid # 0 /\ ~View(job).succeeded /\ ~View(job).failed
  /\ Return(TRUE)
  /\ UNCHANGED <<version, configMap, job, world, faults>>

\* A status update from a stale copy is refused; one that changes nothing
\* leaves no new entry.
StatusWritten(object) ==
  IF object = run.copy THEN version
  ELSE Append(version, object)

UpdateStatus(object) ==
  IF run.fresh
  THEN version' = StatusWritten(object) /\ Return(FALSE)
  ELSE UNCHANGED version /\ Return(TRUE)

PodsOfJob == {pod \in pods : pod.job = View(job).uid}

\* What a pod's log says; the first deployment time stays.
DeployedStatus(pod) ==
  [run.copy EXCEPT !.state = "deployed", !.address = pod.log, !.timed = TRUE]

\* The Job has succeeded: whichever of its pods is listed first is read.
RecordDeployed ==
  /\ AtJob /\ View(job).succeeded
  /\ IF PodsOfJob = {}
     THEN UNCHANGED version /\ Return(TRUE)
     ELSE \E pod \in PodsOfJob : UpdateStatus(DeployedStatus(pod))
  /\ UNCHANGED <<configMap, job, world, faults>>

\* Mutant: the name of the Job's condition is recorded.
FailedStatusByCondition == [run.copy EXCEPT !.state = "Failed"]

FailedStatus == [run.copy EXCEPT !.state = "failed"]

\* Mutant: the Job's failures are looked at first.
RecordFailedFirst ==
  /\ AtJob /\ View(job).failed
  /\ UpdateStatus(FailedStatus)
  /\ UNCHANGED <<configMap, job, world, faults>>

RecordFailed ==
  /\ AtJob /\ ~View(job).succeeded /\ View(job).failed
  /\ UpdateStatus(FailedStatus)
  /\ UNCHANGED <<configMap, job, world, faults>>

\* A call fails on its way there or back: what it writes is written or not.
CallFails ==
  /\ run.stage # "idle"
  /\ Fail
  /\ Return(TRUE)
  /\ \/ UNCHANGED <<version, configMap, job>>
     \/ /\ run.stage = "configMap" /\ ~ConfigMapRefused
        /\ configMap' = ConfigMapWritten
        /\ UNCHANGED <<version, job>>
     \/ /\ AtJob /\ View(job).uid = 0 /\ Server(job).uid = 0
        /\ job' = Append(job, NewJob)
        /\ UNCHANGED <<version, configMap>>
     \/ /\ AtJob /\ run.fresh
        /\ \/ View(job).succeeded /\ \E pod \in PodsOfJob : version' = StatusWritten(DeployedStatus(pod))
           \/ ~View(job).succeeded /\ View(job).failed /\ version' = StatusWritten(FailedStatus)
        /\ UNCHANGED <<configMap, job>>
  /\ UNCHANGED world

-------------------------------------------------------------------------------
(* The informers and the manager's process *)

\* Events of the ContractVersion and of the Job it owns enqueue the name.
VersionSync ==
  /\ Len(version) > 1
  /\ version' = Tail(version) /\ queued' = TRUE
  /\ UNCHANGED <<configMap, job, world, run, faults>>

\* Mutant: the controller does not watch the Jobs it owns.
JobSyncUnwatched ==
  /\ Len(job) > 1
  /\ job' = Tail(job)
  /\ UNCHANGED <<version, configMap, world, queued, run, faults>>

JobSync ==
  /\ Len(job) > 1
  /\ job' = Tail(job) /\ queued' = TRUE
  /\ UNCHANGED <<version, configMap, world, run, faults>>

ConfigMapSync ==
  /\ Len(configMap) > 1
  /\ configMap' = Tail(configMap)
  /\ UNCHANGED <<version, job, world, queued, run, faults>>

Restart ==
  /\ Fail
  /\ version' = <<Server(version)>> /\ job' = <<Server(job)>> /\ configMap' = <<Server(configMap)>>
  /\ queued' = Server(version).alive
  /\ run' = Idle
  /\ UNCHANGED world

-------------------------------------------------------------------------------
(* Kubernetes: the Job's pods, what they deploy, and the garbage collector *)

Live(uid) == Server(version).alive /\ Server(version).uid = uid
JobStatus(object) == job' = Append(job, object)
outside == <<version, configMap, removed, present, queued, run, faults>>

\* A Job has one running pod at a time; a pod takes the code from the ConfigMap
\* it mounts, and waits while there is none.
PodStarts ==
  /\ Server(job).uid # 0 /\ ~Server(job).succeeded
  /\ \A pod \in pods : pod.job = Server(job).uid => pod.phase = "failed"
  /\ Cardinality(pods) < MaxPods
  /\ Server(configMap).owner # 0
  /\ pods' = pods \cup {[job |-> Server(job).uid, owner |-> Server(job).owner,
                         phase |-> "running",
                         code |-> Server(configMap).code, log |-> 0]}
  /\ UNCHANGED <<outside, job, chain>>

Replace(pod, new) == pods' = (pods \ {pod}) \cup {new}

\* The transaction is broadcast and the address printed.
PodDeploys(pod) ==
  /\ pod.phase = "running" /\ pod.log = 0 /\ Len(chain) < MaxDeploys
  /\ chain' = Append(chain, [job |-> pod.job, owner |-> pod.owner, code |-> pod.code])
  /\ Replace(pod, [pod EXCEPT !.log = Len(chain) + 1])
  /\ UNCHANGED <<outside, job>>

PodSucceeds(pod) ==
  /\ pod.phase = "running" /\ pod.log # 0
  /\ Replace(pod, [pod EXCEPT !.phase = "succeeded"])
  /\ IF pod.job = Server(job).uid THEN JobStatus([Server(job) EXCEPT !.succeeded = TRUE])
     ELSE UNCHANGED job
  /\ UNCHANGED <<outside, chain>>

\* The container exits with an error after the broadcast and is started again
\* in the same pod, with a log of its own.
ContainerRestarts(pod) ==
  /\ pod.phase = "running" /\ pod.log # 0
  /\ Replace(pod, [pod EXCEPT !.log = 0])
  /\ UNCHANGED <<outside, job, chain>>

\* A pod is evicted, lost with its node, or fails too often.
PodFails(pod) ==
  /\ pod.phase = "running"
  /\ Replace(pod, [pod EXCEPT !.phase = "failed"])
  /\ IF pod.job = Server(job).uid /\ ~Server(job).failed
     THEN JobStatus([Server(job) EXCEPT !.failed = TRUE])
     ELSE UNCHANGED job
  /\ UNCHANGED <<outside, chain>>

\* Finished pods are cleaned up; pods whose Job is gone are collected.
PodRemoved(pod) ==
  /\ pod.phase # "running" \/ pod.job # Server(job).uid
  /\ pods' = pods \ {pod}
  /\ UNCHANGED <<outside, job, chain>>

CollectJob ==
  /\ Server(job).uid # 0 /\ ~Live(Server(job).owner) /\ Len(job) <= MaxLag
  /\ JobStatus(NoJob)
  /\ UNCHANGED <<version, configMap, world, queued, run, faults>>

CollectConfigMap ==
  /\ Server(configMap).owner # 0 /\ ~Live(Server(configMap).owner) /\ Len(configMap) <= MaxLag
  /\ configMap' = Append(configMap, NoConfigMap)
  /\ UNCHANGED <<version, job, world, queued, run, faults>>

-------------------------------------------------------------------------------
(* Users and the Contract controller *)

WriteVersion(object) ==
  /\ version' = Append(version, object)
  /\ run' = [run EXCEPT !.fresh = FALSE]
  /\ UNCHANGED <<configMap, job, world, queued, faults>>

CreateVersion(code) ==
  /\ ~Server(version).alive /\ Server(version).uid < MaxUid
  /\ code \in Codes[Server(version).uid + 1]
  /\ WriteVersion([NoVersion EXCEPT !.uid = Server(version).uid + 1, !.alive = TRUE, !.code = code])

DeleteVersion ==
  /\ Server(version).alive /\ Server(version).uid <= MaxDeleted
  /\ WriteVersion([Server(version) EXCEPT !.alive = FALSE])

\* kubectl delete job, or a clean-up of finished Jobs.
DeleteJob ==
  /\ Server(job).uid # 0 /\ removed < MaxRemoved
  /\ JobStatus(NoJob) /\ removed' = removed + 1
  /\ UNCHANGED <<version, configMap, present, queued, run, faults, pods, chain>>

Provide(d) ==
  /\ present' = present \cup {d}
  /\ UNCHANGED <<version, configMap, job, removed, pods, chain, queued, run, faults>>

Withdraw(d) ==
  /\ d \in present /\ Fail
  /\ present' = present \ {d}
  /\ UNCHANGED <<version, configMap, job, removed, pods, chain, queued, run>>

-------------------------------------------------------------------------------
Fetch == FetchMissing \/ FetchFails \/ FetchFound

Reconcile ==
  \/ EnsureConfigMap \/ ModulesMissing
  \/ CreateJob \/ PollJob \/ RecordDeployed \/ RecordFailed

Informers == VersionSync \/ JobSync \/ ConfigMapSync

Next ==
  \/ Fetch \/ Reconcile \/ CallFails
  \/ Informers \/ Restart
  \/ PodStarts
  \/ \E pod \in pods : \/ PodDeploys(pod) \/ ContainerRestarts(pod)
                       \/ PodSucceeds(pod) \/ PodFails(pod) \/ PodRemoved(pod)
  \/ CollectJob \/ CollectConfigMap
  \/ \E code \in AllCodes : CreateVersion(code)
  \/ DeleteVersion \/ DeleteJob
  \/ \E d \in Required \cup Modules : Provide(d) \/ Withdraw(d)

Fairness ==
  /\ WF_vars(Fetch) /\ WF_vars(Reconcile)
  /\ WF_vars(VersionSync) /\ WF_vars(JobSync) /\ WF_vars(ConfigMapSync)
  /\ WF_vars(CollectJob) /\ WF_vars(CollectConfigMap)

Spec == Init /\ [][Next]_vars /\ Fairness
-------------------------------------------------------------------------------
(* What the users may rely on *)

\* Nobody deletes Jobs, and yet caches lag, calls fail after they were applied,
\* the manager restarts, and the name's earlier incarnation may have left a Job:
\* what is deployed for a live version is deployed by one Job.
OneJobPerVersion ==
  removed = 0 /\ Server(version).alive =>
    \A c, d \in {e \in Range(chain) : e.owner = Server(version).uid} : c.job = d.job

\* What is deployed for a version is the code of that version, although the
\* ConfigMap that the pods mount may be left from an earlier incarnation, is
\* read from a stale cache and is rewritten or collected meanwhile.  Of a name
\* created at most twice: a cache two incarnations behind can fool the third.
OwnCodeDeployed ==
  LET v == Server(version)
  IN v.uid <= 2 => \A c \in Range(chain) : c.owner = v.uid => c.code = v.code

\* "deployed" is never taken back while the Job that deployed is there: pods
\* that failed before one succeeded, or late events, do not turn it to "failed".
DeployedNotDemoted ==
  [][Server(version).state = "deployed" /\ Server(version)'.uid = Server(version).uid
       /\ Server(version)'.state # "deployed" => removed > 0]_vars

\* The outcome of a live version's Job is recorded in the end, as long as a pod
\* is left to read, whatever was refused, lost or retried on the way: and an
\* address that an earlier Job left there makes way for one of this Job.
OutcomeRecorded ==
  <>[](LET v == Server(version)  j == Server(job)
       IN v.alive /\ j.uid # 0 /\ j.owner = v.uid /\ present = Required \cup Modules
            /\ (\E pod \in pods : pod.job = j.uid) =>
              /\ j.succeeded => v.state = "deployed"
                                 /\ (v.address # 0 => chain[v.address].job = j.uid)
              /\ j.failed /\ ~j.succeeded => v.state = "failed")

\* A live version whose dependencies are there gets its own Job, and while that
\* Job has no outcome the ConfigMap that its pods mount: neither is left to an
\* earlier incarnation whose objects are still being collected.
DeploymentStarts ==
  <>[](LET v == Server(version)  j == Server(job)
       IN v.alive /\ present = Required \cup Modules =>
            /\ j.uid # 0 /\ j.owner = v.uid
            /\ ~j.succeeded /\ ~j.failed =>
                 Server(configMap).owner = v.uid /\ Server(configMap).code = v.code)

\* "Once deployed, the contract is immutable": the contract that a version
\* names is never replaced by another one.
AddressImmutable ==
  [][Server(version).address # 0 /\ Server(version)'.uid = Server(version).uid
       => Server(version)'.address \in {0, Server(version).address}]_vars

\* The ContractVersion of a deployed contract contains the deployment
\* information: a version that is "deployed" has an address.
DeployedHasAddress == Server(version).state = "deployed" => Server(version).address # 0
==============================================================================
