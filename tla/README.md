# Kontract in TLA+

Kontract is a Kubernetes operator that deploys smart contracts: a user writes a
`Contract`, the operator turns every generation of it into one
`ContractVersion` per network, and every `ContractVersion` into a `Job` that
compiles and deploys the code with Foundry and prints the address, which the
operator records. This directory holds the model of the reconcilers that do so,
the TLC configurations that check it and the theorems TLAPS proves about it.

## The system

The operator is one process (`kubebuilder/cmd/main.go`, a kubebuilder manager
on controller-runtime 0.19, one replica, leader election on) with one
reconciler per kind of resource. Each reconciler has a work queue and one
worker. A reconciler shares nothing with the others but the API server:

- reads go through an informer cache, which lags behind the API server by any
  number of events, object kind by object kind;
- writes go to the API server. A creation is refused when the name is taken, an
  update when the copy that is written back is not the last one (optimistic
  locking); either may be applied although its answer is lost;
- a reconcile that returns an error is queued again, with a growing delay; a
  watch event queues the object's name, once however many events there are;
- a restart loses the queue and the reconcile, fills the caches from a list and
  queues every object listed;
- the informers hand out every object anew every ten hours (the manager's
  options do not say otherwise), which queues its name;
- the garbage collector deletes objects whose owner is gone, some time later.

| component | code | state it keeps | operations | interacts by |
|---|---|---|---|---|
| Contract reconciler | `internal/controller/contract_controller.go` | `Status.CurrentVersion` | resolve four texts inline or from ConfigMaps, create a ContractVersion per network, write the status | reads ConfigMaps; creates ContractVersions, which it owns and does not watch |
| ContractVersion reconciler | `internal/controller/contractversion_controller.go` | `Status` (state, address, time, hash) | fetch Network, RPCProvider, Wallet and Secrets; create or update a ConfigMap; create a Job; read the Job's outcome and a pod's log; write the status | owns and watches Jobs; owns and does not watch the ConfigMap; polls every 10 s while the Job has no outcome |
| Deployment container | `foundry-build/entrypoint.sh` | the chain, its log | install modules, run a script or tests and `forge create`, print address and hash | mounts the ConfigMap, is restarted on failure |
| Wallet reconciler | `internal/controller/wallet_controller.go` | `Status` (public key, Secret name), a Secret | import a Secret, or generate a key pair and create a Secret | read by the ContractVersion reconciler |
| Network reconciler | `internal/controller/network_controller.go` | finalizer; anvil Pod, Service, two Secrets, RPCProvider and Wallet; `Status` | create and delete the local anvil network, copy health and endpoints to the status | reads RPCProvider and BlockExplorer; watches nothing but Networks; the anvil objects have fixed names and no owner, so all anvil Networks of a namespace share them |
| RPCProvider check | `internal/controller/rpcprovider_controller.go` | `Status` (healthy, endpoint) | a goroutine checks every provider once a minute; Reconcile does nothing | read by Network |
| BlockExplorer check | `internal/controller/blockexplorer_controller.go` | `Status` | the same for explorers | read by Network and ContractVersion |
| Action, ContractProxy, EventHook, GasStrategy, ProxyAdmin | `internal/controller/*_controller.go` | none | scaffolds that do nothing | none |
| Manager | `cmd/main.go` | none | wiring | starts the above |

What is hard in it: stale reads followed by a write, loops that fail half way
and are retried from the start, creations whose "already exists" is taken for
success, names that are used again while the objects of their former owner are
still being collected, changes that no watch reports, outcomes read from
whichever pod is listed first, and containers that are started again after they
have sent a transaction. `PROJECT.json` lists these hazards at their lines.

What makes each component correct:

- *Contract*: a status that names a generation stands for a version on every
  network; it never goes back; a version is a faithful copy of one generation;
  the last generation is rolled out in the end.
- *ContractVersion*: one Job deploys a version; it deploys that version's code;
  the outcome is recorded in the end and success is not taken back.
- *Wallet*: the recorded public key belongs to the recorded Secret; a wallet's
  key never changes.
- *Network*: an anvil object never stays without a Network that will clean it
  up; a live anvil Network has its objects and a deleted one goes, in the end;
  the status follows the RPCProvider and the BlockExplorer.
- *Checks*: healthy is said of an endpoint that answered for this very object
  only; in the end the status says whether the endpoint answers.
- *Container*: success implies one recorded contract that this attempt deployed.

## Modules

| module | models | state |
|---|---|---|
| `ContractController` | Contract reconciler, its caches and queue, users, garbage collector | `contract`: per name, the history of the object on the API server; `seen`: the entry the cache shows; `config`, `configSeen`: the same for all ConfigMaps together; `versions`: ContractVersions; `queue`; `run`: the local variables of the reconcile; `faults` |
| `Rollout` | what is promised of one Contract, as users see it | `wanted`, `ordered`, `recorded`, `ended` |
| `ContractRefinement` | the mapping under which `ContractController` implements `Rollout` | |
| `ContractControllerProofs` | theorems about `ContractController`: its inductive invariant | |
| `ContractFaithfulProofs` | the theorem about `VersionFaithful`, from that invariant | |
| `ContractRefinementProofs` | the theorem about `ImplementsRollout`, from that invariant | |
| `MCContractController` | instances of both for TLC | |
| `ContractVersionController` | ContractVersion reconciler, Job, pods, container seen from outside | `version`, `configMap`, `job`: per object a feed of the entries the cache has not passed (the first is what it shows, the last what the API server has); `pods`, `chain`; `present`: dependencies; `queued`; `run`; `removed`, `faults` |
| `ContractVersionControllerProofs` | theorems about it | |
| `MCContractVersionController` | instances for TLC | |
| `WalletController` | Wallet reconciler, its Secret | `wallet`, `secret`: feeds as above; `imported`: the public key in the user's Secret; `queued`; `run`; `faults` |
| `WalletControllerProofs` | theorems about it | |
| `MCWalletController` | instance for TLC | |
| `NetworkController` | Network reconciler, the anvil objects, the reports of the health checks | `network`, `objects`: feeds as above; `queue`; `run`; `missed`: history; `writes`, `events` |
| `NetworkControllerProofs` | theorems about it | |
| `MCNetworkController` | two Networks that share the anvil objects | |
| `HealthChecks` | the goroutine that checks RPCProviders, and the one that checks BlockExplorers | `object`, `secret`: feeds; `up`; `tick`, `round`: the ticker's channel and the goroutine's local variables; `kind`; `answered`: history; `events` |
| `HealthChecksProofs` | theorems about it | |
| `MCHealthChecks` | instance for TLC | |
| `FeedTheorems` | lemmas about feeds that the four modules of theorems above share: what a write and a watch event do to one | |

### ContractController

The actions follow `Reconcile` from top to bottom. `FetchMissing` and
`FetchFound` are the `Get`; `ResolveText` and `ResolveFails` the four texts, one
read of the ConfigMap cache per step, and the early return without a retry when
code and script are both empty; `CreateVersion` one turn of the loop, with
`AlreadyExists` as success; `CreateFails` any other outcome of that call,
applied or not; `UpdateStatus`, `UpdateStatusConflict` and `UpdateStatusFails`
the status update. `CacheSync` is a watch event on a Contract, `ConfigSync` one
on a ConfigMap, which queues nothing. `CreateContract`, `EditSpec`,
`DeleteContract` and `EditConfig` are users.

Abstractions. A Contract's index in its history is its resourceVersion; a
deletion is an entry too. A name is a sequence of the segments between hyphens,
so that the join of `"%s-%s-version-%d"` is concatenation and two pairs of names
can clash. `wallet` stands for all fields that are copied unseen. A `Get` that
fails otherwise than with NotFound queues the name again and changes nothing:
it is a stutter. `Import` and `ImportContractAddress` are not read by the
controller and left out. A ConfigMap that is absent, and one without the key,
are both `Missing`: the code retries both alike.

`Resync` is the ten-hour resync. It is allowed at any time between reconciles
and never required: the rollout does not wait for it.

### Rollout and ContractRefinement

`Rollout` is the promise without the machinery: a user asks for generations
(`Want`), deployments of them are ordered one by one (`Order`), a generation is
recorded when all of it has been ordered and never after a later one (`Record`),
and a deletion ends it (`End`). It has no caches, queues, failures or retries.
`ContractRefinement` maps the first incarnation of a Contract onto it: what
generation asks for which networks is read off the history, what is ordered are
the versions it owns, what is recorded is the status. `ImplementsRollout` says
that every step of the controller and of its environment is one of these or
none of them. Later incarnations are not mapped: a version of the first one may
stand in for theirs (`contract_name_reuse`). Nor are names that clash. Fairness
is not part of the promise; `RolloutConverges` is its liveness.

### ContractVersionController

One name. `FetchMissing`, `FetchFails` and `FetchFound` are the reads up to the
wallet's Secret; `EnsureConfigMap` is `createOrUpdateConfigMap`;
`ModulesMissing` the reads of local modules and of the block explorer;
`CreateJob`, `PollJob`, `RecordDeployed` and `RecordFailed` the four ways in
which the Job is handled. `CallFails` is an error of any of the calls, before
or after it was applied. `Owns(&Job{})` is `JobSync`, which queues the name;
the ConfigMap has no watch and `ConfigMapSync` queues nothing.

Around it, `PodStarts`, `PodDeploys`, `PodSucceeds`, `ContainerRestarts`,
`PodFails` and `PodRemoved` are the Job controller, the kubelet and the script,
`CollectJob` and `CollectConfigMap` the garbage collector. A pod takes its code
when it starts, because the volumes are mounted by sub-path.

Abstractions. Consecutive reads are one step, and so are a read of the cache
and the write it leads to: what happens in between cannot be told from a cache
that lags a little more. `run.fresh` stands for the comparison of
resourceVersions: nobody has written the version since it was fetched. The
uid of a Job is the least that no Job, pod or contract still carries. The spec
of a ContractVersion is not edited: only the Contract reconciler creates it and
never updates it. A resync is left out: a version whose Job has no outcome is
polled anyway, and TLC finds no state more with it. Pods are listed without a lag. The container's environment
(RPC URL, key, parameters) is left out.

### WalletController

One name. `FetchDone` is the wallet that is gone or already created,
`FetchFound` one that is not; `ReadImported` and `ImportMissing` the import
branch; `GenerateSecret` the other one: a key pair is generated, the Secret
created, or kept when the cache shows one; `UpdateStatus` writes the public key
and the Secret's name. `CallFails` is an error of any call, applied or not.

Abstractions. A key is a number that stands for both halves of the pair; a
Secret holds one key, a status one. `imported` is what the import finds in the
user's Secret: `NoPublicKey` when the Secret, or its entry `publicKey`, is
missing, which the code retries alike; 0 when the entry is empty, which the code
takes for a key and records (a second such write changes nothing and leaves no
entry); or the key. It is read without a lag. `walletType` and `networkRef` are
not read by the code. `Resync` is as in `ContractController`.

### NetworkController

Several Networks. `FetchMissing`, `FetchGuarded`, `AddFinalizer` and
`FetchDeleting` are the fetch and the branches on deletion and finalizer;
`AddFinalizer` goes on with the object that the update returned, as the code
does. `CreateObject` is one `Get` and `Create` of the six objects in
`CreateOrder`, `DeleteObject` one `Get` and `Delete` in `DeleteOrder`: each
looks in the cache and asks the API server, which refuses a name that is taken
and an object that is gone. `UpdateStatus` reads the references and writes the
status, `RemoveFinalizer` ends a deletion. `CallFails` and `AddFinalizerFails`
are calls that fail before or after they were applied. `NetworkSync` queues a
name; `ObjectSync` is an event of anything else and queues nothing. `Resync` is
fair here: it is what brings objects back that were lost, or deleted for
another Network, and what copies later reports.

Around it: users create, edit and delete Networks, `LoseObject` removes an
anvil object, `PodStops` ends the grace period of a deleted pod, and `Report` is
a health check that writes what `ReportsMakeSense` of `HealthChecks` allows.

Abstractions. An endpoint is empty or not; the network name is "anvil" or not.
The references that users made are there from the start and not deleted. What
the anvil objects contain is left out. A delete of a Network without the
finalizer removes it at once. `missed` is a history variable: the objects that
a deletion passed over because the cache did not show them yet.

### HealthChecks

The two checks are one program but for what a Secret must hold (a URL; a URL
and a token) and what a failed check reports (the endpoint; nothing): `kind`,
chosen at the start, selects one, and the two never meet because they work on
objects of their own kind. `Tick` fills the ticker's channel, which holds one
tick; `List` starts a round with copies from the cache, in no fixed order;
`SecretUnusable` is a Secret that is missing or incomplete; `Ask` sends the
request and `AnswerGood`, `AnswerBad` and `AnswerLate` end it; each of these
writes the status into the listed copy and goes on with the next object,
whether the write was refused (`StatusWritten`) or lost (`UpdateStatusFails`).
`Reconcile` of both reconcilers only reads and is left out. A restart drops the
round; the ticker starts anew.

Abstractions. An endpoint answers as it should or not, at the moment of the
answer; a Secret that does not exist and one without a URL are one value, as
both are reported alike. The token itself is left out, as is the trailing slash
of a URL. The status subresource keeps the spec: a copy that is not stale has
the same one. `answered` is a history variable: the endpoints that answered for
the object while it had not been deleted.

## Runs

| run | instance | shows |
|---|---|---|
| `contract_rollout` | one Contract, two networks, two inline specs that differ in networks, code and wallet; two incarnations, two generations, one fault (388,384 states) | `CurrentVersionComplete`, `VersionFaithful`, `CurrentVersionNeverRegresses`, `RolloutConverges`, `ImplementsRollout` |
| `contract_configmaps` | one Contract, specs that refer to two keys; ConfigMaps absent, empty, partly there, two revisions; three states of them, one fault (288,526 states) | `TypeOK`, `VersionFaithful` with reads that are torn by edits, `RolloutConverges` with ConfigMaps that come late |
| `contract_name_reuse` | two incarnations | violated: `CurrentVersionDeployed` |
| `contract_configmap_edit` | one ConfigMap edit | violated: `ConfigMapUpdatesDeployed` |
| `version_deploy` | one incarnation, a wallet and a module that come late and may go, two pods, two deployments, one Job deleted by a user, one fault (228,410 states) | `TypeOK`, `OneJobPerVersion`, `DeployedNotDemoted`, `OutcomeRecorded`, `DeploymentStarts` |
| `version_reuse` | two incarnations, the second with the same code or another, the first one deleted at any time (836,352 states) | `OneJobPerVersion`, `OwnCodeDeployed`, `OutcomeRecorded`, `DeploymentStarts` |
| `wallet_keys` | two incarnations, each generated or imported, one edit, one fault; a user's Secret that comes late, without `publicKey`, with an empty one or with a key (255,203 states) | `TypeOK`, `SecretExists`, `KeyNeverChanges`, `WalletReady`, `LateKeyRecorded` |
| `network_anvil` | two Networks: one of them anvil, the other anvil or with the same RPCProvider and a BlockExplorer; two creations or edits, any deletions, one event: a failed call, a restart, a lost object or a report (415,853 states) | `TypeOK`, `ObjectsGuarded`, `DeletedNetworkGoes`, `AnvilProvided`, `StatusConverges` |
| `health_checks` | two objects of either kind, two Secrets with three contents, two endpoints; two events: edits, deletions, endpoints that go down, late answers, lost calls, restarts (861,982 states) | `TypeOK`, `HealthyWasAnswered`, `ReportsMakeSense`, `HealthConverges` |
| `wallet_key_mismatch` | a status update that fails | violated: `SecretHoldsKey` |
| `version_redeploy` | a Job deleted after the deployment | violated: `AddressImmutable` |
| `version_no_address` | two pods of one Job | violated: `DeployedHasAddress` |

Every property of a passing run has a mutant in `PROJECT.json`: a variant of
one definition, as a slip in the code would make it, with which the run finds
the property violated. The variants stand just before the definitions they
vary and are marked "Mutant".

Bounds, and why they are enough. `MaxUid` 2: the second incarnation meets what
the first one left, a third one adds nothing but a longer queue of leftovers
(with one exception that `OwnCodeDeployed` names). `MaxGen` 2: one edit is what
a stale copy needs to be stale. `MaxFaults` 1: a fault at any point; two in a
row repeat the retry. `MaxConfig` 3: absent, then one revision, then another.
`MaxPods` 2: an unlucky pod and its replacement, or a pod of a Job that is gone
next to one of its successor. `MaxDeploys` 2: a contract too many.
`MaxLag` bounds what the garbage collector piles up for a cache that does not
move, and limits no write of the reconcilers; in `NetworkController` it bounds all
changes of objects that the caches have yet to show, together, so that a
reconcile waits when one is outstanding: one unseen object is what a stale
lookup needs, and which one it is varies with the run. `MaxWrites` 2 there: both
Networks, or one and an edit. `MaxEvents` 1 there, 2 in `HealthChecks`: a stale
round needs a deletion and a creation, or an edit of an object and one of its
Secret. `MaxDeleted` 1: of two
incarnations the last one stays, so that its properties have a subject.

Deadlock is not checked: when the bounds are used up and the queue is empty the
operator has nothing left to do and rightly stops.

Fairness. A reconcile that has begun goes on until it returns, since no call
blocks for ever (`WF` on `Reconcile`). The Contract queue serves every name:
`SF` on `Fetch`, because reconciles of other names come between; with one name,
`WF` is enough. Watches deliver (`WF` on each `...Sync`) and the garbage
collector runs. In `NetworkController` the resync comes again and again (`SF`,
as it is only taken between reconciles) and a deleted pod stops. In
`HealthChecks` the ticker ticks and a round goes on: every request ends, at the
latest with the ten seconds of its client. A retry after an error and the poll
after ten seconds are the queue's own: the name is put back and served again. In
`WalletController` a resync is not owed: `WalletReady` must come from retries
and watches, so that it leaves out a status that was written from an empty
`publicKey`: the code asks for the entry and not for a value, records the
reference without a key and returns no error, and nothing watches Secrets, so
that a value that is filled in later waits for a resync, a restart or an edit of
the Wallet. `LateKeyRecorded` takes the resyncs as its premise
(`SF_vars(Resync)`) and says that the key then comes once it is filled in for
good. Users, faults, pods and containers owe nothing.

## What the violated runs say

- A Contract that is deleted and created again before its versions were
  collected keeps none: the creation is answered by the old object, `err`
  `AlreadyExists` counts as success, and nobody looks again. Names that clash
  (`my` on `prod-eu`, `my-prod` on `eu`) fail in the same way.
  `CurrentVersionComplete` holds of all other Contracts.
- Code in a ConfigMap is read once per generation. Editing it has no effect.
- The Job stands for the deployment. Removing it, as clean-up of finished Jobs
  does, deploys again and replaces the address.
- The pod list is read as if it had one element. An evicted pod gives a
  "deployed" version without an address.
- A wallet's key pair is generated anew on every attempt, its Secret only once.
  After a failed or conflicting status update the recorded public key is not
  that of the Secret; the deployments then come from another account. The same
  happens to a name that is created again before the old Secret was collected,
  which then loses the Secret as well.

## Proofs

Every safety invariant and every action property that a passing run checks is
stated by a theorem, for all values of the constants. The only assumption on
these is the one that each module names (`ContractAssumption`,
`VersionAssumption`, `WalletAssumption`, `NetworkAssumption`,
`HealthAssumption`) and that TLC evaluates in the runs; two theorems have a
hypothesis besides, which is discussed with them. Some type invariants are
inductive as they stand, the other invariants are not. Those are strengthened,
with TLC looking for counterexamples to the stronger invariant on the instances
of the runs first, and the proof then has one step per action. Actions that write the same object share a
lemma about what they write.

### ContractController

`ContractControllerProofs`: `TypeCorrect` (`TypeOK`), `CurrentVersionIsComplete`
(`CurrentVersionComplete`), `StatusMovesForward`
(`CurrentVersionNeverRegresses`). When the status is written, the versions must
be there already, which a reconcile knows of the networks it has passed. `IInv`
adds to `TypeOK`

- `HistoryForward`: along a history, incarnations and generations do not
  decrease, a generation has one spec, a status never exceeds its generation
  nor goes back within an incarnation;
- `VersionsOwned`: a version bears the name made from its owner, network and
  generation and belongs to an incarnation that existed, so that a name that is
  taken is taken by the right version unless names clash or are used again;
- `LoopProgress`: the networks before `run.i` have their version, as long as
  the incarnation that is being reconciled is the first and alive;
- `StatusComplete`: the conclusion, entry by entry of the history.

Garbage collection keeps the conclusion because it removes only versions of
incarnations that are gone.

`ContractFaithfulProofs`: `VersionsAreFaithful` (`VersionFaithful`). `FInv` adds
to `IInv` what the reconcile in progress holds: `TextsFaithful`, the parts it
has resolved come from the entry that it fetched and from revisions of the
ConfigMaps that its cache has shown, never an older one after a newer one; and
past the script there is something to deploy. Revisions are only added, so what
was read stays readable: the versions, once faithful, stay so.

`ContractRefinementProofs`: `RolloutImplemented` (`ImplementsRollout`), step by
step: the initial states map to that of `Rollout`, and every action to `Want`,
`Order`, `Record`, `End` or a stutter. That a status is only recorded once all
is ordered is `CurrentVersionComplete` again; `RInv` adds to `IInv`
`GenerationsKept`: no generation of a living Contract is missing from its
history, so that what is wanted grows by one generation at a time. The
hypothesis `Unclashed` says that some Contract's name clashes with no other's:
`ContractRefinement` maps one such Contract, of which the proof uses nothing
else, and without one there is nothing to map.

### Feeds

`FeedTheorems` is about the nonempty sequences that stand for an object and its
watch: `FeedStep` is an appended entry, a dropped first one, or none of it, and
all steps of the four modules below are such steps of each object. The lemmas
say that these preserve types, what the entries are afterwards
(`FeedStepEntries`) and that entries that only ever grow in some order stay
`Ordered` (`FeedOrdered`): what a cache shows is never ahead of the API server.

### ContractVersionController

`ContractVersionControllerProofs`: `TypeCorrect` (`TypeOK`), `OneJobDeploys`
(`OneJobPerVersion`), `CodeIsOwn` (`OwnCodeDeployed`), `FirstStaysDeployed`
(`FirstNotDemoted`) and `DeployedStays` (`DeployedNotDemoted`). `TypeOK` needs
`PodsFinite`: a new Job's uid is one that no pod carries, and there must be one.
`VInv` adds

- `VersionsOrdered`, `RunSane`, `OwnersKnown`: incarnations follow each other,
  each with one code; no ConfigMap, Job, pod or contract belongs to an incarnation
  later than `Latest`, the one that the reconciler works for or would fetch.
  An incarnation that the reconciler has not seen has therefore nothing deployed;
- `OneJob`: all that is, or will be, deployed for the live version is of the Job
  that is on the API server. A Job is only created where none is, and only
  collected when its version is gone;
- `FirstMaps`, `SecondMap`, `OwnCode`: the first incarnation meets no ConfigMap
  but its own. The second may meet the first one's, and its reconciler does not
  come to the Job before it has looked (`Looked`): it has written its code or was
  shown it. A later ConfigMap never has the first one's code again. A
  third incarnation may be shown a ConfigMap of the first while
  that of the second is there, which is why `OwnCodeDeployed` claims no more;
- `FirstJob`: while nobody has deleted a Job, the success that the status of the
  first incarnation came from is one that the cache has shown, and goes on
  showing.

`FirstNotDemoted` is `DeployedNotDemoted` of the first incarnation, for all
`MaxUid`. Of a name that is used again, the statement for later incarnations is
false: the second may be shown the success of its predecessor's Job before its
own Job fails. `DeployedStays` is therefore for `MaxUid = 1`, names that are
created once, as `version_deploy` has it.

### WalletController

`WalletControllerProofs`: `TypeCorrect` (`TypeOK`), `SecretStaysWhileNamed`
(`SecretExists`), `RecordedKeyStays` (`KeyNeverChanges`). `WInv` adds

- `FeedForward`: the cache shows the incarnation that the API server has or an
  earlier one;
- `RunSane`: a reconcile goes on only with a copy that has no key recorded, and
  the copy can be written back only while the API server has the same;
- `SecretsOwned`: while the first incarnation lives, a Secret that the cache has
  shown is still there, and so is one when a reconcile has come to the status.

### NetworkController

`NetworkControllerProofs`: `TypeCorrect` (`TypeOK`), `AnvilObjectsGuarded`
(`ObjectsGuarded`), for any number of Networks that share the objects. `NInv`
adds

- `FinalizerKept`: a Network that any cache shows alive with the finalizer has
  it on the API server, since it goes only from one that is being deleted;
- `RunSane`: hence a reconcile that creates objects works for a Network that has
  the finalizer, whatever copy it has; and one that may still remove the finalizer
  works on all that the caches have;
- `PodPlain`: nothing but its deletion changes the pod;
- `DeletionSane`: each object that the deletion has passed is gone or was missed
  by a stale lookup, and all of them are when the finalizer is removed.

### HealthChecks

`HealthChecksProofs`: `TypeCorrect` (`TypeOK`), `HealthyStatusesWereAnswered`
(`HealthyWasAnswered`), `StatusesMakeSense` (`ReportsMakeSense`), for both kinds.
`HInv` adds `RoundSane`: a listed copy that may still be written is what the API
server has, and it lives. An answer that comes after a deletion or an edit then
goes into a copy that is refused.

### Checked by TLC only

Liveness (`RolloutConverges`, `OutcomeRecorded`, `DeploymentStarts`,
`WalletReady`, `LateKeyRecorded`, `DeletedNetworkGoes`, `AnvilProvided`,
`StatusConverges`, `HealthConverges`): with fairness and `ENABLED` it is beyond the prover.

## Not modelled

The scaffolded reconcilers do nothing. Helm chart, kustomize files, samples,
generated code, metrics and probes have no behaviour of the program. Kubernetes
itself is modelled as far as the reconcilers can tell: caches, conflicts, names,
owners, pods.

Of the modelled components: what the deployment script does between its start
and the address (installing modules, tests, the choice of a `forge` command) and
the environment it gets; a Network's chain id; Wallets and Contracts that use an
anvil object while it is deleted. Two managers at once, which happens while the
operator's own Deployment is rolled out: reconcilers wait for the leader's
lease, the health checks do not, and two of them may write in turns. Their
writes are conflicts to each other like those of users.

Which names of objects clash is covered as far as `NoClash` names it; the names
of Jobs and ConfigMaps derive from those of versions and are not taken apart.

## What the modules promise each other

| from | to | what |
|---|---|---|
| `HealthChecks` | `NetworkController` | `ReportsMakeSense`: the guard of `Report` |
| `NetworkController`, `WalletController` | `ContractVersionController` | a dependency may be missing and come back at any time: `Provide` and `Withdraw` |
| `ContractController` | `ContractVersionController` | a version is created once per name and never edited (`VersionFaithful`), and is collected after its Contract: `CreateVersion`, `DeleteVersion` |

## Plan

The components above are modelled and checked, and their safety is proved. Left,
by worth:

1. An abstract specification of one version's deployment (ordered, running,
   deployed or failed), which `ContractVersionController` implements for the
   first incarnation of a name while nobody deletes Jobs; the parts of the proof
   are `OneJob` and `FirstJob`.
2. The same for a Wallet's key: chosen, recorded, kept.
3. What holds of any incarnation of a name, where the theorems speak of the
   first one or the first two.
