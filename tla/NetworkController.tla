--------------------------- MODULE NetworkController ---------------------------
(****************************************************************************)
(* The Network reconciler: the finalizer, the objects that an anvil Network *)
(* is given, their deletion, and the endpoints and the health that a        *)
(* Network's status copies from its RPCProvider and its BlockExplorer.      *)
(*                                                                          *)
(* The anvil objects have fixed names and no owner: all anvil Networks of a *)
(* namespace share them.  Each API object is a feed as in                   *)
(* ContractVersionController: first what the cache shows, last what the API *)
(* server has.                                                              *)
(****************************************************************************)
EXTENDS Naturals, Sequences, FiniteSets, Functions, FiniteSetsExt

CONSTANTS
  Networks,        \* Network names
  RPCProviders,    \* RPCProviders that users made
  BlockExplorers,  \* BlockExplorers that users made
  NoRef,           \* a nil BlockExplorerRef
  Specs,           \* the specs that users give each Network
  MaxWrites,       \* bound: Networks created or edited
  MaxLag,          \* bound: changes of objects that the caches have yet to show
  MaxEvents        \* bound: failed calls, restarts, lost objects, health reports

\* What createAnvilResources, createAnvilRPCProvider and createAnvilWallet
\* create, in their order, and the order of deleteAnvilResources.
AnvilResources   == <<"pod", "service">>
AnvilRPCProvider == <<"rpcSecret", "anvil">>
AnvilWallet      == <<"walletSecret", "wallet">>
CreateOrder == AnvilResources \o AnvilRPCProvider \o AnvilWallet
DeleteOrder == <<"pod", "service", "walletSecret", "wallet", "rpcSecret", "anvil">>

Anvil == Range(CreateOrder)

\* anvil: the network name is "anvil"; provider, explorer: what the spec refers to.
SpecType == [anvil : BOOLEAN, provider : RPCProviders \cup {"anvil"},
             explorer : BlockExplorers \cup {NoRef}]

References == RPCProviders \cup BlockExplorers

ASSUME NetworkAssumption ==
  /\ Networks # {} /\ References \cap Anvil = {} /\ NoRef \notin References
  /\ Specs \in [Networks -> (SUBSET SpecType) \ {{}}]
  /\ MaxWrites \in Nat /\ MaxLag \in Nat /\ MaxEvents \in Nat

VARIABLES
  network,  \* feed of the Network with each name
  objects,  \* feed of each anvil object and of each reference
  missed,   \* history: anvil objects that a deletion looked for in vain
  queue,    \* work queue: names waiting for a reconcile
  run,      \* the reconcile in progress: stage, name, the copy it works on,
            \* whether that is still what the API server has, place in the order
  writes,   \* Networks created or edited so far
  events    \* failures and health reports so far

vars == <<network, objects, missed, queue, run, writes, events>>

NoStatus == [rpc |-> "", explorer |-> "", healthy |-> FALSE]
Network == [state : {"absent", "live", "deleting"}, finalizer : BOOLEAN, spec : SpecType,
            status : [rpc : {"", "url"}, explorer : {"", "url"}, healthy : BOOLEAN]]
NoNetwork == [state |-> "absent", finalizer |-> FALSE,
              spec |-> CHOOSE s \in SpecType : TRUE, status |-> NoStatus]

\* A pod that is deleted is leaving before it is absent.  Endpoint and health
\* are those an RPCProvider or a BlockExplorer reports in its status.
Object == [state : {"absent", "there", "leaving"}, endpoint : {"", "url"}, healthy : BOOLEAN]
NoObject == [state |-> "absent", endpoint |-> "", healthy |-> FALSE]
New == [NoObject EXCEPT !.state = "there"]

View(feed)   == feed[1]
Server(feed) == feed[Len(feed)]
Exists(object) == object.state # "absent"

Stages == {"idle", "create", "status", "delete", "release"}
Idle == [stage |-> "idle", key |-> CHOOSE n \in Networks : TRUE, copy |-> NoNetwork,
         fresh |-> FALSE, i |-> 1]

TypeOK ==
  /\ network \in [Networks -> Seq(Network)]
  /\ objects \in [Anvil \cup References -> Seq(Object)]
  /\ \A n \in Networks : Len(network[n]) > 0
  /\ \A o \in Anvil \cup References : Len(objects[o]) > 0
  /\ missed \subseteq Anvil
  /\ queue \subseteq Networks
  /\ run \in [stage : Stages, key : Networks, copy : Network, fresh : BOOLEAN, i : 1..6]
  /\ writes \in 0..MaxWrites /\ events \in 0..MaxEvents

Init ==
  /\ network = [n \in Networks |-> <<NoNetwork>>]
  /\ objects = [o \in Anvil \cup References |-> <<IF o \in Anvil THEN NoObject ELSE New>>]
  /\ missed = {} /\ queue = {} /\ run = Idle
  /\ writes = 0 /\ events = 0

-------------------------------------------------------------------------------
(* The reconciler *)

Event == events < MaxEvents /\ events' = events + 1

Done  == run' = Idle /\ UNCHANGED queue
Retry == run' = Idle /\ queue' = queue \cup {run.key}
Proceed(stage) == run' = [run EXCEPT !.stage = stage, !.i = 1] /\ UNCHANGED queue

\* On to the next object of the order, and after the last to the next stage.
Step(stage) ==
  IF run.i = Len(CreateOrder) THEN Proceed(stage)
  ELSE run' = [run EXCEPT !.i = run.i + 1] /\ UNCHANGED queue

WriteNetwork(n, object) == network' = [network EXCEPT ![n] = Append(@, object)]

Lag == MapThenSumSet(LAMBDA o : Len(objects[o]) - 1, DOMAIN objects)
WriteObject(o, object) ==
  /\ Lag < MaxLag
  /\ objects' = [objects EXCEPT ![o] = Append(@, object)]

Fetch(n, state) ==
  /\ run.stage = "idle" /\ n \in queue
  /\ View(network[n]).state = state
  /\ queue' = queue \ {n}

FetchMissing(n) ==
  /\ Fetch(n, "absent")
  /\ UNCHANGED <<network, objects, missed, run, writes, events>>

\* After the finalizer: the anvil objects, for the network named "anvil".
AfterFinalizer(object) == IF object.spec.anvil THEN "create" ELSE "status"

Begin(n, stage, object, fresh) ==
  run' = [stage |-> stage, key |-> n, copy |-> object, fresh |-> fresh, i |-> 1]

\* Mutant: the anvil objects are created along with the finalizer only.
FetchGuardedOnce(n) ==
  /\ Fetch(n, "live") /\ View(network[n]).finalizer
  /\ Begin(n, "status", View(network[n]), Len(network[n]) = 1)
  /\ UNCHANGED <<network, objects, missed, writes, events>>

FetchGuarded(n) ==
  /\ Fetch(n, "live") /\ View(network[n]).finalizer
  /\ Begin(n, AfterFinalizer(View(network[n])), View(network[n]), Len(network[n]) = 1)
  /\ UNCHANGED <<network, objects, missed, writes, events>>

Guarded(n) == [View(network[n]) EXCEPT !.finalizer = TRUE]

\* Mutant: a finalizer that could not be added is logged and not returned.
AddFinalizerDropped(n) ==
  /\ Fetch(n, "live") /\ ~View(network[n]).finalizer
  /\ IF Len(network[n]) = 1 THEN WriteNetwork(n, Guarded(n)) ELSE UNCHANGED network
  /\ Begin(n, AfterFinalizer(Guarded(n)), Guarded(n), Len(network[n]) = 1)
  /\ UNCHANGED <<objects, missed, writes, events>>

\* Without the finalizer it is added first, and the reconcile goes on with the
\* object that the API server returns.  A stale copy is refused and retried.
AddFinalizer(n) ==
  /\ run.stage = "idle" /\ n \in queue
  /\ View(network[n]).state = "live" /\ ~View(network[n]).finalizer
  /\ IF Len(network[n]) = 1
     THEN /\ WriteNetwork(n, Guarded(n))
          /\ Begin(n, AfterFinalizer(Guarded(n)), Guarded(n), TRUE)
          /\ queue' = queue \ {n}
     ELSE UNCHANGED <<network, run, queue>>
  /\ UNCHANGED <<objects, missed, writes, events>>

\* One object at a time, what the cache does not show is created.  The API
\* server refuses a name that is taken.
CreateObject ==
  /\ run.stage = "create"
  /\ LET o == CreateOrder[run.i]
     IN IF Exists(View(objects[o])) THEN Step("status") /\ UNCHANGED objects
        ELSE IF Exists(Server(objects[o])) THEN Retry /\ UNCHANGED objects
        ELSE WriteObject(o, New) /\ Step("status")
  /\ UNCHANGED <<network, missed, writes, events>>

ReferencesOf(spec) == {spec.provider, spec.explorer} \ {NoRef}

\* Mutant: the RPCProvider's name is taken for its endpoint.
StatusFromName(object, reported) ==
  LET spec == object.spec
  IN [rpc |-> spec.provider,
      explorer |-> IF spec.explorer = NoRef THEN object.status.explorer
                   ELSE reported[spec.explorer].endpoint,
      healthy |-> \A o \in ReferencesOf(spec) : reported[o].healthy]

\* The status of a Network, from what its references report.  Without a
\* BlockExplorer reference the explorer's endpoint stays what it was.
StatusFrom(object, reported) ==
  LET spec == object.spec
  IN [rpc |-> reported[spec.provider].endpoint,
      explorer |-> IF spec.explorer = NoRef THEN object.status.explorer
                   ELSE reported[spec.explorer].endpoint,
      healthy |-> \A o \in ReferencesOf(spec) : reported[o].healthy]

Cached == [o \in DOMAIN objects |-> View(objects[o])]
Ready  == \A o \in ReferencesOf(run.copy.spec) : Exists(Cached[o])

\* A status update that changes nothing leaves no new entry.
StatusWritten ==
  LET status == StatusFrom(run.copy, Cached)
  IN IF status = run.copy.status THEN UNCHANGED network
     ELSE WriteNetwork(run.key, [run.copy EXCEPT !.status = status])

\* Mutant: a status that vouches for nothing is not worth an update.
UpdateStatusHealthy ==
  /\ run.stage = "status"
  /\ IF ~(Ready /\ run.fresh) THEN Retry /\ UNCHANGED network
     ELSE /\ IF StatusFrom(run.copy, Cached).healthy THEN StatusWritten ELSE UNCHANGED network
          /\ Done
  /\ UNCHANGED <<objects, missed, writes, events>>

\* A reference is missing, or the copy is stale: an error, and a retry.
UpdateStatus ==
  /\ run.stage = "status"
  /\ IF Ready /\ run.fresh THEN StatusWritten /\ Done ELSE Retry /\ UNCHANGED network
  /\ UNCHANGED <<objects, missed, writes, events>>

\* A pod is given time to stop; everything else goes at once.
Deletion(o) ==
  /\ IF o # "pod" THEN WriteObject(o, NoObject)
     ELSE IF Server(objects[o]) = New THEN WriteObject(o, [New EXCEPT !.state = "leaving"])
     ELSE UNCHANGED objects
  /\ missed' = missed \ {o}

\* Mutant: an object that is not there is an error here too.
DeleteObjectStrict ==
  /\ run.stage = "delete"
  /\ LET o == DeleteOrder[run.i]
     IN IF ~Exists(View(objects[o])) \/ ~Exists(Server(objects[o]))
        THEN Retry /\ UNCHANGED <<objects, missed>>
        ELSE Deletion(o) /\ Step("release")
  /\ UNCHANGED <<network, writes, events>>

\* For whatever Network, one object at a time: what the cache does not show is
\* passed over; one that the cache shows and that is gone is an error.
DeleteObject ==
  /\ run.stage = "delete"
  /\ LET o == DeleteOrder[run.i]
     IN IF ~Exists(View(objects[o]))
        THEN /\ missed' = IF Exists(Server(objects[o])) THEN missed \cup {o} ELSE missed
             /\ Step("release") /\ UNCHANGED objects
        ELSE IF ~Exists(Server(objects[o])) THEN Retry /\ UNCHANGED <<objects, missed>>
        ELSE Deletion(o) /\ Step("release")
  /\ UNCHANGED <<network, writes, events>>

FetchDeleting(n) ==
  /\ Fetch(n, "deleting")
  /\ Begin(n, "delete", View(network[n]), Len(network[n]) = 1)
  /\ UNCHANGED <<network, objects, missed, writes, events>>

\* Nothing else holds a Network back: without the finalizer it is gone.
RemoveFinalizer ==
  /\ run.stage = "release"
  /\ IF run.fresh THEN WriteNetwork(run.key, NoNetwork) /\ Done
     ELSE Retry /\ UNCHANGED network
  /\ UNCHANGED <<objects, missed, writes, events>>

\* A call fails on its way there or back: what it writes is written or not.
CallFails ==
  /\ run.stage # "idle" /\ Event /\ Retry
  /\ \/ UNCHANGED <<network, objects, missed>>
     \/ /\ run.stage = "create"
        /\ LET o == CreateOrder[run.i]
           IN ~Exists(View(objects[o])) /\ ~Exists(Server(objects[o])) /\ WriteObject(o, New)
        /\ UNCHANGED <<network, missed>>
     \/ /\ run.stage = "delete"
        /\ LET o == DeleteOrder[run.i]
           IN Exists(View(objects[o])) /\ Exists(Server(objects[o])) /\ Deletion(o)
        /\ UNCHANGED network
     \/ /\ run.fresh
        /\ \/ run.stage = "status" /\ Ready /\ StatusWritten
           \/ run.stage = "release" /\ WriteNetwork(run.key, NoNetwork)
        /\ UNCHANGED <<objects, missed>>
  /\ UNCHANGED writes

AddFinalizerFails(n) ==
  /\ run.stage = "idle" /\ n \in queue /\ Event
  /\ View(network[n]).state = "live" /\ ~View(network[n]).finalizer
  /\ Len(network[n]) = 1 /\ WriteNetwork(n, Guarded(n))
  /\ UNCHANGED <<objects, missed, queue, run, writes>>

-------------------------------------------------------------------------------
(* The informers and the manager's process *)

NetworkSync(n) ==
  /\ Len(network[n]) > 1
  /\ network' = [network EXCEPT ![n] = Tail(@)] /\ queue' = queue \cup {n}
  /\ UNCHANGED <<objects, missed, run, writes, events>>

\* The controller watches Networks only: other events enqueue nothing.
ObjectSync(o) ==
  /\ Len(objects[o]) > 1
  /\ objects' = [objects EXCEPT ![o] = Tail(@)]
  /\ UNCHANGED <<network, missed, queue, run, writes, events>>

\* The informers hand out every object anew from time to time (ten hours, as
\* the manager's options do not say otherwise).  The worker takes what comes
\* during a reconcile after it, as if it came then.
Resync(n) ==
  /\ run.stage = "idle" /\ Exists(View(network[n]))
  /\ queue' = queue \cup {n}
  /\ UNCHANGED <<network, objects, missed, run, writes, events>>

Restart ==
  /\ Event
  /\ network' = [n \in Networks |-> <<Server(network[n])>>]
  /\ objects' = [o \in DOMAIN objects |-> <<Server(objects[o])>>]
  /\ queue' = {n \in Networks : Exists(Server(network[n]))}
  /\ run' = Idle
  /\ UNCHANGED <<missed, writes>>

-------------------------------------------------------------------------------
(* Users, the health checks and the cluster *)

UserWrites(n, object) ==
  /\ WriteNetwork(n, object)
  /\ run' = IF n = run.key THEN [run EXCEPT !.fresh = FALSE] ELSE run
  /\ UNCHANGED <<objects, missed, queue, events>>

CreateNetwork(n, spec) ==
  /\ ~Exists(Server(network[n])) /\ writes < MaxWrites /\ writes' = writes + 1
  /\ UserWrites(n, [NoNetwork EXCEPT !.state = "live", !.spec = spec])

EditNetwork(n, spec) ==
  /\ Exists(Server(network[n])) /\ spec # Server(network[n]).spec
  /\ writes < MaxWrites /\ writes' = writes + 1
  /\ UserWrites(n, [Server(network[n]) EXCEPT !.spec = spec])

DeleteNetwork(n) ==
  /\ Server(network[n]).state = "live"
  /\ UserWrites(n, IF Server(network[n]).finalizer
                   THEN [Server(network[n]) EXCEPT !.state = "deleting"] ELSE NoNetwork)
  /\ UNCHANGED writes

\* A health check writes the status of an RPCProvider or a BlockExplorer.
Report(o, endpoint, healthy) ==
  LET new == [Server(objects[o]) EXCEPT !.endpoint = endpoint, !.healthy = healthy]
  IN /\ Exists(Server(objects[o])) /\ new # Server(objects[o])
     /\ healthy => endpoint # ""
     /\ o \in BlockExplorers => (endpoint # "" => healthy)
     /\ Event
     /\ WriteObject(o, new)
     /\ UNCHANGED <<network, missed, queue, run, writes>>

PodStops ==
  /\ Server(objects["pod"]).state = "leaving"
  /\ WriteObject("pod", NoObject)
  /\ UNCHANGED <<network, missed, queue, run, writes, events>>

\* A pod is lost with its node, or a user deletes an object.
LoseObject(o) ==
  /\ Exists(Server(objects[o])) /\ Event
  /\ WriteObject(o, NoObject) /\ missed' = missed \ {o}
  /\ UNCHANGED <<network, queue, run, writes>>

-------------------------------------------------------------------------------
Handle(n) == FetchMissing(n) \/ FetchGuarded(n) \/ AddFinalizer(n) \/ FetchDeleting(n)

Reconcile == CreateObject \/ UpdateStatus \/ DeleteObject \/ RemoveFinalizer

Next ==
  \/ Reconcile \/ CallFails \/ Restart \/ PodStops
  \/ \E n \in Networks : \/ Handle(n) \/ AddFinalizerFails(n)
                         \/ NetworkSync(n) \/ Resync(n) \/ DeleteNetwork(n)
  \/ \E n \in Networks : \E spec \in Specs[n] : CreateNetwork(n, spec) \/ EditNetwork(n, spec)
  \/ \E o \in DOMAIN objects : ObjectSync(o)
  \/ \E o \in {"anvil"} \cup References, endpoint \in {"", "url"}, healthy \in BOOLEAN :
       Report(o, endpoint, healthy)
  \/ \E o \in Anvil : LoseObject(o)

\* As in ContractController; a resync comes to every Network again and again.
Fairness ==
  /\ \A n \in Networks : SF_vars(Handle(n)) /\ SF_vars(Resync(n))
  /\ WF_vars(Reconcile) /\ WF_vars(PodStops)
  /\ WF_vars(\E n \in Networks : NetworkSync(n))
  /\ WF_vars(\E o \in DOMAIN objects : ObjectSync(o))

Spec == Init /\ [][Next]_vars /\ Fairness
-------------------------------------------------------------------------------
(* What the users may rely on *)

\* No anvil object is left without a Network to clean it up: while one is
\* there, some Network holds the finalizer, whatever was interrupted, refused or
\* retried, and whoever created it.  The one way to leave an object behind is a
\* deletion that looked for it in a cache that did not show it yet.
ObjectsGuarded ==
  \A o \in Anvil \ missed :
    Server(objects[o]).state = "there" => \E n \in Networks : Server(network[n]).finalizer

\* A Network that is deleted goes in the end: neither an object that was lost, a
\* deletion that had succeeded unnoticed, nor another Network that had the same
\* objects deleted holds its finalizer for ever.
DeletedNetworkGoes ==
  <>[](\A n \in Networks : Server(network[n]).state # "deleting")

\* "Kontract operator will automatically create the dependent resources": a live
\* anvil Network has its objects in the end, also when a creation failed half
\* way, an object was lost, or the deletion of another Network took them.
AnvilProvided ==
  <>[](\A n \in Networks :
         Server(network[n]).state = "live" /\ Server(network[n]).spec.anvil =>
           \A o \in Anvil : Server(objects[o]).state = "there")

\* A live Network's status is in the end what its references report, although
\* no watch brings their changes.
StatusConverges ==
  <>[](LET reported == [o \in DOMAIN objects |-> Server(objects[o])]
       IN \A n \in Networks :
            LET object == Server(network[n])
            IN object.state = "live" /\ (\A o \in ReferencesOf(object.spec) : Exists(reported[o]))
                 => object.status = StatusFrom(object, reported))
================================================================================
