-------------------------- MODULE ContractController --------------------------
(****************************************************************************)
(* The Contract reconciler: one worker that turns every generation of a     *)
(* Contract into one ContractVersion per network reference and then records *)
(* that generation in the Contract's status.                                *)
(*                                                                          *)
(* The API server's copy of a Contract is the last entry of its history; an *)
(* entry's index is its resourceVersion.  The reconciler reads through the  *)
(* informer cache, which shows some earlier entry, and writes to the API    *)
(* server, which refuses a status update made from an entry that is no      *)
(* longer the last.  ConfigMaps have a history of the same kind.            *)
(****************************************************************************)
EXTENDS Naturals, Sequences, Functions

CONSTANTS
  Contracts,   \* Contract names: sequences of the segments between hyphens
  Networks,    \* Network names, sequences of segments too
  Texts,       \* contents a code, script, test or foundry field can have
  Empty,       \* the empty text, one of Texts
  Missing,     \* what a ConfigMap holds under a key it does not have
  Keys,        \* (ConfigMap name, key) pairs
  NoRef,       \* a nil ConfigMapKeyReference
  Specs,       \* the specs users write
  ConfigMaps,  \* the contents users give to the ConfigMaps
  MaxUid,      \* bound: how often a name is created
  MaxGen,      \* bound: generations of one Contract
  MaxConfig,   \* bound: revisions of the ConfigMaps
  MaxFaults    \* bound: failed calls and restarts

Parts == {"code", "script", "test", "foundryConfig"}

\* The fields of a ContractSpec.  wallet stands for the fields that are copied
\* without being looked at (wallet, contract name, parameters, modules).
SpecType == [nets : Seq(Networks), wallet : STRING,
             inline : [Parts -> Texts], ref : [Parts -> Keys \cup {NoRef}]]

ASSUME ContractAssumption ==
  /\ Contracts # {} /\ Contracts \subseteq Seq(STRING) /\ Networks \subseteq Seq(STRING)
  /\ Empty \in Texts /\ Missing \notin Texts /\ NoRef \notin Keys
  /\ Specs # {} /\ Specs \subseteq SpecType
  /\ ConfigMaps # {} /\ ConfigMaps \subseteq [Keys -> Texts \cup {Missing}]
  /\ MaxUid \in Nat /\ MaxGen \in Nat /\ MaxConfig \in Nat /\ MaxFaults \in Nat

VARIABLES
  contract,    \* API server: history of the Contract with each name
  seen,        \* informer cache: the entry of each history it shows
  config,      \* API server: history of the ConfigMaps' contents
  configSeen,  \* informer cache: the entry of config it shows
  versions,    \* API server: the ContractVersions that exist
  queue,       \* work queue: names waiting for a reconcile
  run,         \* the reconcile in progress: its local variables
  faults       \* failures so far

vars == <<contract, seen, config, configSeen, versions, queue, run, faults>>

\* Incarnation uid of a name at generation gen; current is the generation that
\* Status.CurrentVersion names, 0 for the empty string.
Object == [uid : Nat, alive : BOOLEAN, gen : Nat, spec : Specs, current : Nat]

NeverCreated ==
  [uid |-> 0, alive |-> FALSE, gen |-> 0, spec |-> CHOOSE s \in Specs : TRUE, current |-> 0]

Live(c)   == contract[c][Len(contract[c])]
Cached(c) == contract[c][seen[c]]

\* "%s-%s-version-%d": joining with hyphens is concatenation of the segments,
\* and the suffix can be read back off the name.
VersionName(c, net, gen) == <<c \o net, gen>>

Version == [name : Seq(STRING) \X Nat, owner : Contracts, uid : Nat, gen : Nat,
            net : Networks, wallet : STRING, text : [Parts -> Texts]]

Stages == Parts \cup {"idle", "create"}

\* at: the history entry that was fetched; text: code, script, test and
\* foundryConfig as resolved so far; i: the network the loop has reached.
Idle == [pc |-> "idle", key |-> CHOOSE c \in Contracts : TRUE, at |-> 1,
         text |-> [p \in Parts |-> Empty], i |-> 1]

\* The reconcile's own copy of the Contract.
Copy == contract[run.key][run.at]

TypeOK ==
  /\ \A c \in Contracts : seen[c] \in 1..Len(contract[c])
  /\ contract \in [Contracts -> Seq(Object)]
  /\ seen \in [Contracts -> Nat]
  /\ config \in Seq(ConfigMaps) /\ configSeen \in 1..Len(config)
  /\ versions \subseteq Version
  /\ queue \subseteq Contracts
  /\ run \in [pc : Stages, key : Contracts, at : Nat, text : [Parts -> Texts], i : Nat \ {0}]
  /\ run.at \in 1..Len(contract[run.key])
  /\ faults \in 0..MaxFaults

Init ==
  /\ contract = [c \in Contracts |-> <<NeverCreated>>]
  /\ seen = [c \in Contracts |-> 1]
  /\ \E data \in ConfigMaps : config = <<data>>
  /\ configSeen = 1
  /\ versions = {}
  /\ queue = {}
  /\ run = Idle
  /\ faults = 0

-------------------------------------------------------------------------------
(* The reconciler *)

Fail == faults < MaxFaults /\ faults' = faults + 1

\* The end of a reconcile, with and without an error to retry.
Done  == run' = Idle /\ UNCHANGED queue
Retry == run' = Idle /\ queue' = queue \cup {run.key}

\* The Contract is gone: the request is dropped.
FetchMissing(c) ==
  /\ run.pc = "idle" /\ c \in queue
  /\ ~Cached(c).alive
  /\ queue' = queue \ {c}
  /\ UNCHANGED <<contract, seen, config, configSeen, versions, run, faults>>

FetchFound(c) ==
  /\ run.pc = "idle" /\ c \in queue
  /\ Cached(c).alive
  /\ queue' = queue \ {c}
  /\ run' = [Idle EXCEPT !.pc = "code", !.key = c, !.at = seen[c]]
  /\ UNCHANGED <<contract, seen, config, configSeen, versions, faults>>

\* An inline text wins over a reference; the reference is read from the cache.
Resolved(p) ==
  LET spec == Copy.spec
  IN IF spec.inline[p] # Empty \/ spec.ref[p] = NoRef
     THEN spec.inline[p] ELSE config[configSeen][spec.ref[p]]

\* The order in which the four texts are resolved.
After(p) == CASE p = "code"          -> "script"
              [] p = "script"        -> "test"
              [] p = "test"          -> "foundryConfig"
              [] p = "foundryConfig" -> "create"

\* Mutant: the check for both being empty is dropped.
EmptyIsDeployed(p, text) == FALSE

\* Neither code nor script: nothing to deploy.
NothingToDeploy(p, text) == p = "script" /\ text["code"] = Empty /\ text["script"] = Empty

\* Mutant: whether the ConfigMap has the key is not looked at.
ResolveTextUnchecked(p) ==
  /\ run.pc = p
  /\ LET text == [run.text EXCEPT ![p] = Resolved(p)]
     IN IF NothingToDeploy(p, text)
        THEN Done
        ELSE run' = [run EXCEPT !.pc = After(p), !.text = text] /\ UNCHANGED queue
  /\ UNCHANGED <<contract, seen, config, configSeen, versions, faults>>

\* One text is resolved.  With neither code nor script the reconcile ends
\* there, without an error and so without a retry.
ResolveText(p) ==
  /\ run.pc = p
  /\ Resolved(p) # Missing
  /\ LET text == [run.text EXCEPT ![p] = Resolved(p)]
     IN IF NothingToDeploy(p, text)
        THEN Done
        ELSE run' = [run EXCEPT !.pc = After(p), !.text = text] /\ UNCHANGED queue
  /\ UNCHANGED <<contract, seen, config, configSeen, versions, faults>>

\* Mutant: the error of a missing ConfigMap is logged and not returned.
ResolveFailsDropped(p) ==
  /\ run.pc = p
  /\ Resolved(p) = Missing
  /\ Done
  /\ UNCHANGED <<contract, seen, config, configSeen, versions, faults>>

\* The ConfigMap or its key is missing.
ResolveFails(p) ==
  /\ run.pc = p
  /\ Resolved(p) = Missing
  /\ Retry
  /\ UNCHANGED <<contract, seen, config, configSeen, versions, faults>>

\* Mutant: the wallet is read from the Contract as it is now.
NextVersionReread ==
  LET net == Copy.spec.nets[run.i]
  IN [name |-> VersionName(run.key, net, Copy.gen), owner |-> run.key, uid |-> Copy.uid,
      gen |-> Copy.gen, net |-> net, wallet |-> Live(run.key).spec.wallet, text |-> run.text]

NextVersion ==
  LET net == Copy.spec.nets[run.i]
  IN [name |-> VersionName(run.key, net, Copy.gen), owner |-> run.key, uid |-> Copy.uid,
      gen |-> Copy.gen, net |-> net, wallet |-> Copy.spec.wallet, text |-> run.text]

\* The API server accepts an object only under a name that is free.
Created(v) ==
  IF \E w \in versions : w.name = v.name THEN versions ELSE versions \cup {v}

\* One turn of the loop: the version is created or its name is already taken.
CreateVersion ==
  /\ run.pc = "create" /\ run.i <= Len(Copy.spec.nets)
  /\ versions' = Created(NextVersion)
  /\ run' = [run EXCEPT !.i = run.i + 1]
  /\ UNCHANGED <<contract, seen, config, configSeen, queue, faults>>

\* Mutant: the loop goes on after any error, as it does after AlreadyExists.
CreateFailsGoesOn ==
  /\ run.pc = "create" /\ run.i <= Len(Copy.spec.nets)
  /\ Fail
  /\ versions' \in {versions, Created(NextVersion)}
  /\ run' = [run EXCEPT !.i = run.i + 1]
  /\ UNCHANGED <<contract, seen, config, configSeen, queue>>

\* The call fails, before or after the API server applied it.
CreateFails ==
  /\ run.pc = "create" /\ run.i <= Len(Copy.spec.nets)
  /\ Fail
  /\ versions' \in {versions, Created(NextVersion)}
  /\ Retry
  /\ UNCHANGED <<contract, seen, config, configSeen>>

\* A status update that changes nothing leaves no new entry.
StatusWritten ==
  IF Copy.current = Copy.gen THEN contract
  ELSE [contract EXCEPT ![run.key] = Append(@, [Copy EXCEPT !.current = Copy.gen])]

\* Mutant: a merge patch of the status, which no resourceVersion guards.
UpdateStatusPatched ==
  /\ run.pc = "create" /\ run.i > Len(Copy.spec.nets)
  /\ Live(run.key).alive
  /\ contract' = [contract EXCEPT ![run.key] = Append(@, [Live(run.key) EXCEPT !.current = Copy.gen])]
  /\ Done
  /\ UNCHANGED <<seen, config, configSeen, versions, faults>>

UpdateStatus ==
  /\ run.pc = "create" /\ run.i > Len(Copy.spec.nets)
  /\ run.at = Len(contract[run.key])
  /\ contract' = StatusWritten
  /\ Done
  /\ UNCHANGED <<seen, config, configSeen, versions, faults>>

\* The Contract was written or deleted since it was fetched.
UpdateStatusConflict ==
  /\ run.pc = "create" /\ run.i > Len(Copy.spec.nets)
  /\ run.at # Len(contract[run.key])
  /\ Retry
  /\ UNCHANGED <<contract, seen, config, configSeen, versions, faults>>

\* Mutant: the failure is logged and not returned.
UpdateStatusFailsDropped ==
  /\ run.pc = "create" /\ run.i > Len(Copy.spec.nets)
  /\ run.at = Len(contract[run.key])
  /\ Fail
  /\ contract' \in {contract, StatusWritten}
  /\ Done
  /\ UNCHANGED <<seen, config, configSeen, versions>>

UpdateStatusFails ==
  /\ run.pc = "create" /\ run.i > Len(Copy.spec.nets)
  /\ run.at = Len(contract[run.key])
  /\ Fail
  /\ contract' \in {contract, StatusWritten}
  /\ Retry
  /\ UNCHANGED <<seen, config, configSeen, versions>>

-------------------------------------------------------------------------------
(* The informers, the manager's process and the garbage collector *)

\* A watch event: the cache moves on and the name is enqueued.
CacheSync(c) ==
  /\ seen[c] < Len(contract[c])
  /\ seen' = [seen EXCEPT ![c] = seen[c] + 1]
  /\ queue' = queue \cup {c}
  /\ UNCHANGED <<contract, config, configSeen, versions, run, faults>>

\* The informer hands out every object anew from time to time (ten hours, as the
\* manager's options do not say otherwise).
Resync(c) ==
  /\ run.pc = "idle" /\ Cached(c).alive
  /\ queue' = queue \cup {c}
  /\ UNCHANGED <<contract, seen, config, configSeen, versions, run, faults>>

\* The controller watches Contracts only: a ConfigMap event enqueues nothing.
ConfigSync ==
  /\ configSeen < Len(config)
  /\ configSeen' = configSeen + 1
  /\ UNCHANGED <<contract, seen, config, versions, queue, run, faults>>

\* The manager restarts: the reconcile and the queue are lost, the caches are
\* filled from a list of the API server, every Contract listed is enqueued.
Restart ==
  /\ Fail
  /\ seen' = [c \in Contracts |-> Len(contract[c])]
  /\ configSeen' = Len(config)
  /\ queue' = {c \in Contracts : Live(c).alive}
  /\ run' = Idle
  /\ UNCHANGED <<contract, config, versions>>

\* Kubernetes removes a ContractVersion whose owner no longer exists.
OwnerGone(v) == ~(Live(v.owner).alive /\ Live(v.owner).uid = v.uid)

GarbageCollect(v) ==
  /\ OwnerGone(v)
  /\ versions' = versions \ {v}
  /\ UNCHANGED <<contract, seen, config, configSeen, queue, run, faults>>

-------------------------------------------------------------------------------
(* The users *)

Write(c, object) ==
  /\ contract' = [contract EXCEPT ![c] = Append(@, object)]
  /\ UNCHANGED <<seen, config, configSeen, versions, queue, run, faults>>

\* A new incarnation: the API server drops the status of what is created.
CreateContract(c, spec) ==
  /\ ~Live(c).alive /\ Live(c).uid < MaxUid
  /\ Write(c, [uid |-> Live(c).uid + 1, alive |-> TRUE, gen |-> 1, spec |-> spec, current |-> 0])

EditSpec(c, spec) ==
  /\ Live(c).alive /\ Live(c).gen < MaxGen /\ spec # Live(c).spec
  /\ Write(c, [Live(c) EXCEPT !.spec = spec, !.gen = Live(c).gen + 1])

DeleteContract(c) ==
  /\ Live(c).alive
  /\ Write(c, [Live(c) EXCEPT !.alive = FALSE])

EditConfig(data) ==
  /\ Len(config) < MaxConfig /\ data # config[Len(config)]
  /\ config' = Append(config, data)
  /\ UNCHANGED <<contract, seen, configSeen, versions, queue, run, faults>>

-------------------------------------------------------------------------------
Fetch(c) == FetchMissing(c) \/ FetchFound(c)

Reconcile ==
  \/ \E p \in Parts : ResolveText(p) \/ ResolveFails(p)
  \/ CreateVersion
  \/ UpdateStatus
  \/ UpdateStatusConflict

Next ==
  \/ \E c \in Contracts : Fetch(c)
  \/ Reconcile
  \/ CreateFails
  \/ UpdateStatusFails
  \/ \E c \in Contracts : CacheSync(c) \/ Resync(c)
  \/ ConfigSync
  \/ Restart
  \/ \E v \in versions : GarbageCollect(v)
  \/ \E c \in Contracts, spec \in Specs : CreateContract(c, spec) \/ EditSpec(c, spec)
  \/ \E c \in Contracts : DeleteContract(c)
  \/ \E data \in ConfigMaps : EditConfig(data)

\* The queue serves every name it holds in turn, a reconcile goes on until it
\* returns, watches and garbage collection go on.  Users and faults owe nothing.
Fairness ==
  /\ \A c \in Contracts : SF_vars(Fetch(c)) /\ WF_vars(CacheSync(c))
  /\ WF_vars(Reconcile)
  /\ WF_vars(ConfigSync)
  /\ WF_vars(\E v \in versions : GarbageCollect(v))

Spec == Init /\ [][Next]_vars /\ Fairness
-------------------------------------------------------------------------------
(* What the users may rely on *)

\* No two (Contract, Network) pairs are joined to the same name.
NoClash(c) ==
  \A d \in Contracts, n, m \in Networks : c \o n = d \o m => c = d /\ n = m

NameReused(c) == Live(c).uid > 1

Deployed(c, uid, gen, net) ==
  \E v \in versions : v.owner = c /\ v.uid = uid /\ v.gen = gen /\ v.net = net

\* The specs that incarnation uid of a Contract had at generation gen.
SpecsAt(c, uid, gen) ==
  {object.spec : object \in {o \in Range(contract[c]) : o.uid = uid /\ o.gen = gen}}

\* Every network of the generation that the status names has its version.
Complete(c) ==
  Live(c).alive /\ Live(c).current # 0 =>
    \A spec \in SpecsAt(c, Live(c).uid, Live(c).current) :
      \A net \in Range(spec.nets) : Deployed(c, Live(c).uid, Live(c).current, net)

\* "CurrentVersion is the current version of the contract": a status that names
\* a version stands for a ContractVersion on every network of that generation's
\* spec, whatever failed, was retried, was lost or was edited meanwhile.  Every
\* network, of a name in its first incarnation that clashes with no other.
CurrentVersionComplete ==
  \A c \in Contracts : NoClash(c) /\ ~NameReused(c) => Complete(c)

\* The same for every Contract.  "When contract is deployed, a new
\* ContractVersion resource will be created" does not hold of a name that is
\* used again, nor of names that clash: the creation finds the name taken.
CurrentVersionDeployed == \A c \in Contracts : Complete(c)

TextAt(spec, p, revision) ==
  IF spec.inline[p] # Empty \/ spec.ref[p] = NoRef
  THEN spec.inline[p] ELSE config[revision][spec.ref[p]]

\* The ConfigMaps' revisions four reads in a row can have come from.
ReadOrders ==
  {rev \in [Parts -> DOMAIN config] :
     rev["code"] <= rev["script"] /\ rev["script"] <= rev["test"]
       /\ rev["test"] <= rev["foundryConfig"]}

\* A version is a faithful copy of one entry of its owner's history and of the
\* ConfigMaps as one reconcile read them, never older after newer, and it has
\* something to deploy: no retry, restart or stale cache mixes generations.
VersionFaithful ==
  \A v \in versions :
    /\ v.text["code"] # Empty \/ v.text["script"] # Empty
    /\ \E object \in Range(contract[v.owner]) :
         /\ object.alive /\ object.uid = v.uid /\ object.gen = v.gen
         /\ v.net \in Range(object.spec.nets) /\ v.wallet = object.spec.wallet
         /\ \E rev \in ReadOrders :
              \A p \in Parts : v.text[p] = TextAt(object.spec, p, rev[p])

\* A reconcile of a stale copy never sets the status back to an earlier
\* generation, whatever order reconciles, edits and retries come in.
CurrentVersionNeverRegresses ==
  [][\A c \in Contracts :
       Live(c)'.alive /\ Live(c)'.uid = Live(c).uid => Live(c)'.current >= Live(c).current]_vars

\* The Contract's texts can be resolved, and what it deploys was never empty.
Deployable(c) ==
  LET spec == Live(c).spec
  IN /\ Live(c).alive
     /\ \A p \in Parts : TextAt(spec, p, Len(config)) # Missing
     /\ \E p \in {"code", "script"} :
          \A revision \in DOMAIN config : TextAt(spec, p, revision) # Empty

\* The last generation of a deployable Contract is rolled out in the end,
\* through failed calls, conflicts, restarts and ConfigMaps that come late.
RolloutConverges ==
  \A c \in Contracts :
    <>[](Deployable(c) => Live(c).current = Live(c).gen
                            /\ (NoClash(c) /\ ~NameReused(c) => Complete(c)))

\* "Store your contract code in a Kubernetes ConfigMap for easy management and
\* updates": the code that the ConfigMap holds in the end has a version.
ConfigMapUpdatesDeployed ==
  \A c \in Contracts :
    <>[](Deployable(c) /\ Live(c).current # 0 =>
           \E v \in versions : v.owner = c /\ v.uid = Live(c).uid
              /\ v.text["code"] = TextAt(Live(c).spec, "code", Len(config)))
===============================================================================
