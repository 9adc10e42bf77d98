------------------------ MODULE NetworkControllerProofs ------------------------
(****************************************************************************)
(* Theorems about NetworkController, for any Networks, references, specs    *)
(* and bounds.                                                              *)
(****************************************************************************)
EXTENDS NetworkController, FeedTheorems

Names == Anvil \cup References

Status  == [rpc : {"", "url"}, explorer : {"", "url"}, healthy : BOOLEAN]
RunType == [stage : Stages, key : Networks, copy : Network, fresh : BOOLEAN, i : 1..6]

-------------------------------------------------------------------------------
(* The two orders *)

LEMMA Pair ==
  ASSUME NEW S, NEW a \in S, NEW b \in S
  PROVE  <<a, b>> \in Seq(S) /\ Len(<<a, b>>) = 2 /\ <<a, b>>[1] = a /\ <<a, b>>[2] = b
OBVIOUS

LEMMA ThreePairs ==
  ASSUME NEW S, NEW a \in S, NEW b \in S, NEW c \in S, NEW d \in S, NEW e \in S, NEW f \in S
  PROVE  LET s == <<a, b>> \o <<c, d>> \o <<e, f>>
         IN /\ s \in Seq(S) /\ Len(s) = 6
            /\ s[1] = a /\ s[2] = b /\ s[3] = c /\ s[4] = d /\ s[5] = e /\ s[6] = f
<1> DEFINE ab == <<a, b>>  cd == <<c, d>>  ef == <<e, f>>  abcd == ab \o cd
<1>1. /\ ab \in Seq(S) /\ Len(ab) = 2 /\ ab[1] = a /\ ab[2] = b
      /\ cd \in Seq(S) /\ Len(cd) = 2 /\ cd[1] = c /\ cd[2] = d
      /\ ef \in Seq(S) /\ Len(ef) = 2 /\ ef[1] = e /\ ef[2] = f
  BY Pair
<1> HIDE DEF ab, cd, ef
<1>2. /\ abcd \in Seq(S) /\ Len(abcd) = 4
      /\ \A i \in 1..4 : abcd[i] = IF i <= 2 THEN ab[i] ELSE cd[i - 2]
  <2>1. /\ ab \o cd \in Seq(S) /\ Len(ab \o cd) = Len(ab) + Len(cd)
        /\ \A i \in 1..Len(ab) + Len(cd) :
             (ab \o cd)[i] = IF i <= Len(ab) THEN ab[i] ELSE cd[i - Len(ab)]
    BY <1>1, ConcatProperties, Zenon
  <2> QED
    BY <1>1, <2>1
<1> HIDE DEF abcd
<1>3. /\ abcd \o ef \in Seq(S) /\ Len(abcd \o ef) = 6
      /\ \A i \in 1..6 : (abcd \o ef)[i] = IF i <= 4 THEN abcd[i] ELSE ef[i - 4]
  <2>1. /\ abcd \o ef \in Seq(S) /\ Len(abcd \o ef) = Len(abcd) + Len(ef)
        /\ \A i \in 1..Len(abcd) + Len(ef) :
             (abcd \o ef)[i] = IF i <= Len(abcd) THEN abcd[i] ELSE ef[i - Len(abcd)]
    BY <1>1, <1>2, ConcatProperties, Zenon
  <2> QED
    BY <1>1, <1>2, <2>1
<1>4. /\ abcd[1] = a /\ abcd[2] = b /\ abcd[3] = c /\ abcd[4] = d
  BY <1>1, <1>2
<1>5. LET s == abcd \o ef
      IN s[1] = a /\ s[2] = b /\ s[3] = c /\ s[4] = d /\ s[5] = e /\ s[6] = f
  BY <1>1, <1>3, <1>4
<1> QED
  BY <1>3, <1>5 DEF abcd, ab, cd, ef

LEMMA Orders ==
  /\ Len(CreateOrder) = 6 /\ "pod" \in Anvil /\ "anvil" \in Anvil
  /\ \A i \in 1..6 : CreateOrder[i] \in Anvil /\ DeleteOrder[i] \in Anvil
  /\ \A o \in Anvil : \E i \in 1..6 : DeleteOrder[i] = o
<1> DEFINE S == {"pod", "service", "rpcSecret", "anvil", "walletSecret", "wallet"}
<1>1. /\ CreateOrder \in Seq(S) /\ Len(CreateOrder) = 6
      /\ CreateOrder[1] = "pod" /\ CreateOrder[2] = "service" /\ CreateOrder[3] = "rpcSecret"
      /\ CreateOrder[4] = "anvil" /\ CreateOrder[5] = "walletSecret" /\ CreateOrder[6] = "wallet"
  <2>1. /\ "pod" \in S /\ "service" \in S /\ "rpcSecret" \in S
        /\ "anvil" \in S /\ "walletSecret" \in S /\ "wallet" \in S
    OBVIOUS
  <2> HIDE DEF S
  <2> QED
    BY <2>1, ThreePairs DEF CreateOrder, AnvilResources, AnvilRPCProvider, AnvilWallet
<1>2. Anvil = S
  <2>1. DOMAIN CreateOrder = 1..6
    BY <1>1
  <2>2. \A i \in 1..6 : i = 1 \/ i = 2 \/ i = 3 \/ i = 4 \/ i = 5 \/ i = 6
    OBVIOUS
  <2>3. 1 \in 1..6 /\ 2 \in 1..6 /\ 3 \in 1..6 /\ 4 \in 1..6 /\ 5 \in 1..6 /\ 6 \in 1..6
    OBVIOUS
  <2> QED
    BY <1>1, <2>1, <2>2, <2>3 DEF Anvil, Range
<1>3. \A i \in 1..6 : i = 1 \/ i = 2 \/ i = 3 \/ i = 4 \/ i = 5 \/ i = 6
  OBVIOUS
<1>4. Len(CreateOrder) = 6
  BY <1>1
<1>5. \A i \in 1..6 : CreateOrder[i] \in Anvil /\ DeleteOrder[i] \in Anvil
  BY <1>1, <1>2, <1>3 DEF DeleteOrder
<1>6. ASSUME NEW o \in Anvil PROVE \E i \in 1..6 : DeleteOrder[i] = o
  <2>1. /\ DeleteOrder[1] = "pod" /\ DeleteOrder[2] = "service" /\ DeleteOrder[3] = "walletSecret"
        /\ DeleteOrder[4] = "wallet" /\ DeleteOrder[5] = "rpcSecret" /\ DeleteOrder[6] = "anvil"
    BY DEF DeleteOrder
  <2>2. 1 \in 1..6 /\ 2 \in 1..6 /\ 3 \in 1..6 /\ 4 \in 1..6 /\ 5 \in 1..6 /\ 6 \in 1..6
    OBVIOUS
  <2> QED
    BY <1>2, <2>1, <2>2
<1> QED
  BY <1>2, <1>4, <1>5, <1>6

-------------------------------------------------------------------------------
(* The objects that steps write *)

LEMMA NetworkFields ==
  ASSUME NEW x \in Network
  PROVE  /\ x.state \in {"absent", "live", "deleting"} /\ x.finalizer \in BOOLEAN
         /\ x.spec \in SpecType /\ x.status \in Status
BY DEF Network, Status

LEMMA NetworkEdits ==
  ASSUME NEW x \in Network
  PROVE  /\ LET new == [x EXCEPT !.finalizer = TRUE]
            IN new \in Network /\ new.state = x.state /\ new.finalizer
         /\ LET new == [x EXCEPT !.state = "deleting"]
            IN new \in Network /\ new.state = "deleting" /\ new.finalizer = x.finalizer
         /\ \A spec \in SpecType : LET new == [x EXCEPT !.spec = spec]
              IN new \in Network /\ new.state = x.state /\ new.finalizer = x.finalizer
         /\ \A status \in Status : LET new == [x EXCEPT !.status = status]
              IN new \in Network /\ new.state = x.state /\ new.finalizer = x.finalizer
BY DEF Network, Status

LEMMA NewNetworks ==
  /\ NoNetwork \in Network /\ NoNetwork.state = "absent" /\ NoNetwork.finalizer = FALSE
  /\ \A spec \in SpecType : LET new == [NoNetwork EXCEPT !.state = "live", !.spec = spec]
       IN new \in Network /\ new.state = "live" /\ new.finalizer = FALSE
<1> DEFINE any == CHOOSE s \in SpecType : TRUE
<1>1. any \in SpecType
  <2>1. [anvil |-> TRUE, provider |-> "anvil", explorer |-> NoRef] \in SpecType
    BY DEF SpecType
  <2> QED
    BY <2>1
<1>2. NoNetwork = [state |-> "absent", finalizer |-> FALSE, spec |-> any, status |-> NoStatus]
  BY DEF NoNetwork
<1> HIDE DEF any
<1>3. NoStatus \in Status
  BY DEF NoStatus, Status
<1>4. [state |-> "absent", finalizer |-> FALSE, spec |-> any, status |-> NoStatus] \in Network
  BY <1>1, <1>3 DEF Network, Status
<1>5. NoNetwork \in Network /\ NoNetwork.state = "absent" /\ NoNetwork.finalizer = FALSE
  BY <1>2, <1>4
<1>6. ASSUME NEW spec \in SpecType
      PROVE  LET new == [NoNetwork EXCEPT !.state = "live", !.spec = spec]
             IN new \in Network /\ new.state = "live" /\ new.finalizer = FALSE
  BY <1>5 DEF Network
<1> QED
  BY <1>5, <1>6

LEMMA NewObjects ==
  /\ NoObject \in Object /\ NoObject.state = "absent"
  /\ New \in Object /\ New.state = "there"
  /\ LET new == [New EXCEPT !.state = "leaving"] IN new \in Object /\ new.state = "leaving"
  /\ \A x \in Object, endpoint \in {"", "url"}, healthy \in BOOLEAN :
       LET new == [x EXCEPT !.endpoint = endpoint, !.healthy = healthy]
       IN new \in Object /\ new.state = x.state
BY DEF NoObject, New, Object

-------------------------------------------------------------------------------
(* Type correctness *)

LEMMA Typed ==
  ASSUME TypeOK
  PROVE  /\ network \in [Networks -> Feed(Network)] /\ objects \in [Names -> Feed(Object)]
         /\ DOMAIN objects = Names
         /\ \A n \in Networks : /\ network[n] \in Feed(Network)
                                /\ View(network[n]) \in Network /\ Server(network[n]) \in Network
                                /\ 1 \in 1..Len(network[n]) /\ Len(network[n]) \in 1..Len(network[n])
                                /\ Len(network[n]) \in Nat
         /\ \A o \in Names : /\ objects[o] \in Feed(Object)
                             /\ View(objects[o]) \in Object /\ Server(objects[o]) \in Object
         /\ run \in RunType /\ run.key \in Networks /\ run.copy \in Network /\ run.i \in 1..6
         /\ missed \subseteq Anvil /\ queue \subseteq Networks
         /\ writes \in 0..MaxWrites /\ events \in 0..MaxEvents
<1>1. network \in [Networks -> Feed(Network)] /\ objects \in [Names -> Feed(Object)]
  BY DEF TypeOK, Feed, Names
<1>2. ASSUME NEW n \in Networks
      PROVE  /\ network[n] \in Feed(Network)
             /\ View(network[n]) \in Network /\ Server(network[n]) \in Network
             /\ 1 \in 1..Len(network[n]) /\ Len(network[n]) \in 1..Len(network[n])
             /\ Len(network[n]) \in Nat
  <2>1. network[n] \in Feed(Network)
    BY <1>1
  <2> QED
    BY <2>1, FeedEntries DEF View, Server, First, Last
<1>3. ASSUME NEW o \in Names
      PROVE  /\ objects[o] \in Feed(Object)
             /\ View(objects[o]) \in Object /\ Server(objects[o]) \in Object
  <2>1. objects[o] \in Feed(Object)
    BY <1>1
  <2> QED
    BY <2>1, FeedEntries DEF View, Server, First, Last
<1>4. run \in RunType /\ run.key \in Networks /\ run.copy \in Network /\ run.i \in 1..6
  BY DEF TypeOK, RunType
<1> QED
  BY <1>1, <1>2, <1>3, <1>4 DEF TypeOK

LEMMA TypeFromParts ==
  ASSUME network' \in [Networks -> Feed(Network)], objects' \in [Names -> Feed(Object)],
         run' \in RunType, missed' \subseteq Anvil, queue' \subseteq Networks,
         writes' \in 0..MaxWrites, events' \in 0..MaxEvents
  PROVE  TypeOK'
<1>1. network' \in [Networks -> Seq(Network)] /\ \A n \in Networks : Len(network'[n]) > 0
  BY DEF Feed
<1>2. objects' \in [Names -> Seq(Object)] /\ \A o \in Names : Len(objects'[o]) > 0
  BY DEF Feed
<1> QED
  BY <1>1, <1>2 DEF TypeOK, RunType, Names

LEMMA IdleTyped ==
  Idle \in RunType /\ Idle.stage = "idle"
<1> DEFINE any == CHOOSE n \in Networks : TRUE
<1>1. any \in Networks
  BY NetworkAssumption
<1>2. Idle = [stage |-> "idle", key |-> any, copy |-> NoNetwork, fresh |-> FALSE, i |-> 1]
  BY DEF Idle
<1> HIDE DEF any
<1>3. 1 \in 1..6 /\ "idle" \in Stages
  BY DEF Stages
<1>4. FALSE \in BOOLEAN
  OBVIOUS
<1> QED
  BY <1>1, <1>2, <1>3, <1>4, NewNetworks DEF RunType

LEMMA TypeInit ==
  ASSUME Init
  PROVE  TypeOK
<1>1. network \in [Networks -> Seq(Network)] /\ \A n \in Networks : Len(network[n]) > 0
  <2>1. <<NoNetwork>> \in Feed(Network)
    BY NewNetworks, FeedList
  <2> QED
    BY <2>1 DEF Init, Feed
<1>2. objects \in [Names -> Seq(Object)] /\ \A o \in Names : Len(objects[o]) > 0
  <2>1. <<NoObject>> \in Feed(Object) /\ <<New>> \in Feed(Object)
    BY NewObjects, FeedList
  <2> QED
    BY <2>1 DEF Init, Feed, Names
<1>3. 0 \in 0..MaxWrites /\ 0 \in 0..MaxEvents
  <2>1. MaxWrites \in Nat /\ MaxEvents \in Nat
    BY NetworkAssumption
  <2> QED
    BY <2>1
<1> QED
  BY <1>1, <1>2, <1>3, IdleTyped DEF Init, TypeOK, Names, RunType

\* What the API server keeps after a write, and what the caches are about to show.
LEMMA NetworkWritten ==
  ASSUME TypeOK, NEW n \in Networks, NEW object \in Network, WriteNetwork(n, object)
  PROVE  /\ network' \in [Networks -> Feed(Network)]
         /\ Server(network'[n]) = object
         /\ \A m \in Networks \ {n} : network'[m] = network[m]
         /\ \A i \in 1..Len(network'[n]) :
              network'[n][i] = object \/ \E j \in 1..Len(network[n]) : network'[n][i] = network[n][j]
<1>1. network \in [Networks -> Feed(Network)] /\ network[n] \in Feed(Network)
  BY Typed
<1>2. network' = [network EXCEPT ![n] = Append(network[n], object)]
  BY DEF WriteNetwork
<1>3. /\ Append(network[n], object) \in Feed(Network)
      /\ Server(Append(network[n], object)) = object
      /\ Len(Append(network[n], object)) = Len(network[n]) + 1 /\ Len(network[n]) \in Nat
      /\ Append(network[n], object)[Len(network[n]) + 1] = object
      /\ \A i \in 1..Len(network[n]) : Append(network[n], object)[i] = network[n][i]
  BY <1>1, FeedAppend, FeedEntries DEF Server, Last
<1>4. network'[n] = Append(network[n], object) /\ \A m \in Networks \ {n} : network'[m] = network[m]
  BY <1>1, <1>2
<1>5. network' \in [Networks -> Feed(Network)]
  BY <1>1, <1>2, <1>3
<1>6. \A i \in 1..Len(network'[n]) : i = Len(network[n]) + 1 \/ i \in 1..Len(network[n])
  BY <1>3, <1>4
<1> QED
  BY <1>3, <1>4, <1>5, <1>6

LEMMA ObjectWritten ==
  ASSUME TypeOK, NEW o \in Names, NEW object \in Object, WriteObject(o, object)
  PROVE  /\ objects' \in [Names -> Feed(Object)]
         /\ Server(objects'[o]) = object
         /\ \A p \in Names \ {o} : objects'[p] = objects[p]
<1>1. objects \in [Names -> Feed(Object)] /\ objects[o] \in Feed(Object)
  BY Typed
<1>2. objects' = [objects EXCEPT ![o] = Append(objects[o], object)]
  BY DEF WriteObject
<1>3. Append(objects[o], object) \in Feed(Object) /\ Server(Append(objects[o], object)) = object
  BY <1>1, FeedAppend DEF Server, Last
<1> QED
  BY <1>1, <1>2, <1>3

\* The informers' events and a restart leave the API server's objects alone.
LEMMA NetworksKept ==
  ASSUME TypeOK, (\E n \in Networks : NetworkSync(n)) \/ Restart
  PROVE  /\ network' \in [Networks -> Feed(Network)]
         /\ \A n \in Networks :
              /\ Server(network'[n]) = Server(network[n])
              /\ \A i \in 1..Len(network'[n]) :
                   \E j \in 1..Len(network[n]) : network'[n][i] = network[n][j]
<1>1. /\ network \in [Networks -> Feed(Network)]
      /\ \A n \in Networks : /\ network[n] \in Feed(Network) /\ Server(network[n]) \in Network
                             /\ Len(network[n]) \in 1..Len(network[n])
  BY Typed
<1>2. ASSUME NEW n \in Networks, NetworkSync(n)
      PROVE  /\ network' \in [Networks -> Feed(Network)]
             /\ \A m \in Networks :
                  /\ Server(network'[m]) = Server(network[m])
                  /\ \A i \in 1..Len(network'[m]) :
                       \E j \in 1..Len(network[m]) : network'[m][i] = network[m][j]
  <2>1. /\ Len(network[n]) > 1 /\ network' = [network EXCEPT ![n] = Tail(network[n])]
    BY <1>2 DEF NetworkSync
  <2>2. /\ Tail(network[n]) \in Feed(Network) /\ Server(Tail(network[n])) = Server(network[n])
        /\ \A i \in 1..Len(Tail(network[n])) :
             \E j \in 1..Len(network[n]) : Tail(network[n])[i] = network[n][j]
    <3>1. /\ Tail(network[n]) \in Feed(Network) /\ Last(Tail(network[n])) = Last(network[n])
          /\ \A i \in 1..Len(Tail(network[n])) :
               i + 1 \in 1..Len(network[n]) /\ Tail(network[n])[i] = network[n][i + 1]
      BY <1>1, <2>1, FeedTail
    <3> QED
      BY <3>1 DEF Server, Last
  <2>3. network'[n] = Tail(network[n]) /\ \A m \in Networks \ {n} : network'[m] = network[m]
    BY <1>1, <2>1
  <2>4. network' \in [Networks -> Feed(Network)]
    BY <1>1, <2>1, <2>2
  <2>5. ASSUME NEW m \in Networks
        PROVE  /\ Server(network'[m]) = Server(network[m])
               /\ \A i \in 1..Len(network'[m]) :
                    \E j \in 1..Len(network[m]) : network'[m][i] = network[m][j]
    <3>1. CASE m = n
      <4> DEFINE tail == Tail(network[n])
      <4>1. network'[m] = tail /\ network[m] = network[n]
        BY <2>3, <3>1
      <4>2. /\ Server(tail) = Server(network[n])
            /\ \A i \in 1..Len(tail) : \E j \in 1..Len(network[n]) : tail[i] = network[n][j]
        BY <2>2
      <4> HIDE DEF tail
      <4> QED
        BY <4>1, <4>2
    <3>2. CASE m # n
      BY <2>3, <3>2
    <3> QED
      BY <3>1, <3>2
  <2> QED
    BY <2>4, <2>5
<1>3. CASE Restart
  <2>1. network' = [n \in Networks |-> <<Server(network[n])>>]
    BY <1>3 DEF Restart
  <2>2. \A n \in Networks :
          /\ <<Server(network[n])>> \in Feed(Network)
          /\ Server(<<Server(network[n])>>) = Server(network[n])
          /\ \A i \in 1..Len(<<Server(network[n])>>) : <<Server(network[n])>>[i] = Server(network[n])
    BY <1>1, FeedList DEF Server, Last
  <2>3. \A n \in Networks : Server(network[n]) = network[n][Len(network[n])]
    BY DEF Server
  <2> QED
    BY <1>1, <2>1, <2>2, <2>3
<1> QED
  BY <1>2, <1>3

LEMMA ObjectsKept ==
  ASSUME TypeOK, (\E o \in Names : ObjectSync(o)) \/ Restart
  PROVE  /\ objects' \in [Names -> Feed(Object)]
         /\ \A o \in Names : Server(objects'[o]) = Server(objects[o])
<1>1. /\ objects \in [Names -> Feed(Object)] /\ DOMAIN objects = Names
      /\ \A o \in Names : objects[o] \in Feed(Object) /\ Server(objects[o]) \in Object
  BY Typed
<1>2. ASSUME NEW o \in Names, ObjectSync(o)
      PROVE  /\ objects' \in [Names -> Feed(Object)]
             /\ \A p \in Names : Server(objects'[p]) = Server(objects[p])
  <2>1. /\ Len(objects[o]) > 1 /\ objects' = [objects EXCEPT ![o] = Tail(objects[o])]
    BY <1>2 DEF ObjectSync
  <2>2. Tail(objects[o]) \in Feed(Object) /\ Server(Tail(objects[o])) = Server(objects[o])
    BY <1>1, <2>1, FeedTail DEF Server, Last
  <2>3. objects'[o] = Tail(objects[o]) /\ \A p \in Names \ {o} : objects'[p] = objects[p]
    BY <1>1, <2>1
  <2>4. objects' \in [Names -> Feed(Object)]
    BY <1>1, <2>1, <2>2
  <2> QED
    BY <2>2, <2>3, <2>4
<1>3. CASE Restart
  <2>1. objects' = [o \in Names |-> <<Server(objects[o])>>]
    BY <1>1, <1>3 DEF Restart
  <2>2. \A o \in Names : /\ <<Server(objects[o])>> \in Feed(Object)
                         /\ Server(<<Server(objects[o])>>) = Server(objects[o])
    BY <1>1, FeedList DEF Server, Last
  <2> QED
    BY <2>1, <2>2
<1> QED
  BY <1>2, <1>3

\* What the handlers write to a Network.
LEMMA HandlersWrites ==
  ASSUME TypeOK
  PROVE  /\ \A n \in Networks :
              /\ Guarded(n) \in Network /\ Guarded(n).finalizer
              /\ Guarded(n).state = View(network[n]).state
         /\ Ready =>
              LET new == [run.copy EXCEPT !.status = StatusFrom(run.copy, Cached)]
              IN new \in Network /\ new.state = run.copy.state /\ new.finalizer = run.copy.finalizer
<1>1. ASSUME NEW n \in Networks
      PROVE  /\ Guarded(n) \in Network /\ Guarded(n).finalizer
             /\ Guarded(n).state = View(network[n]).state
  <2>1. View(network[n]) \in Network
    BY Typed
  <2> QED
    BY <2>1, NetworkEdits DEF Guarded
<1>2. StatusFrom(run.copy, Cached) \in Status
  <2> DEFINE spec == run.copy.spec
  <2>1. /\ run.copy \in Network /\ spec \in SpecType /\ run.copy.status \in Status
    BY Typed, NetworkFields
  <2>2. \A o \in Names : Cached[o] \in Object
    BY Typed DEF Cached
  <2>3. /\ spec.provider \in Names
        /\ spec.explorer # NoRef => spec.explorer \in Names
    BY <2>1, Orders DEF SpecType, Names, References
  <2>4. \A x \in Object : x.endpoint \in {"", "url"}
    BY DEF Object
  <2>5. run.copy.status.explorer \in {"", "url"}
    BY <2>1 DEF Status
  <2> HIDE DEF spec
  <2>6. /\ Cached[spec.provider].endpoint \in {"", "url"}
        /\ (IF spec.explorer = NoRef THEN run.copy.status.explorer
            ELSE Cached[spec.explorer].endpoint) \in {"", "url"}
    BY <2>2, <2>3, <2>4, <2>5
  <2>7. (\A o \in ReferencesOf(spec) : Cached[o].healthy) \in BOOLEAN
    OBVIOUS
  <2> QED
    BY <2>6, <2>7 DEF StatusFrom, Status, spec
<1>3. LET new == [run.copy EXCEPT !.status = StatusFrom(run.copy, Cached)]
      IN new \in Network /\ new.state = run.copy.state /\ new.finalizer = run.copy.finalizer
  BY <1>2, Typed, NetworkEdits
<1> QED
  BY <1>1, <1>3

\* What the stages of a reconcile do to its record.
LEMMA StepTyped ==
  ASSUME TypeOK, NEW stage \in Stages, Step(stage)
  PROVE  /\ run' \in RunType /\ queue' = queue
         /\ run'.key = run.key /\ run'.copy = run.copy /\ run'.fresh = run.fresh
         /\ \/ run.i = 6 /\ run'.stage = stage
            \/ run.i \in 1..5 /\ run'.stage = run.stage /\ run'.i = run.i + 1
<1>1. run \in RunType /\ run.i \in 1..6
  BY Typed
<1>2. CASE run.i = 6
  <2>1. run' = [run EXCEPT !.stage = stage, !.i = 1] /\ queue' = queue
    BY <1>2, Orders DEF Step, Proceed
  <2>2. 1 \in 1..6
    OBVIOUS
  <2>3. run' \in RunType
    BY <1>1, <2>1, <2>2 DEF RunType
  <2>4. run'.key = run.key /\ run'.copy = run.copy /\ run'.fresh = run.fresh /\ run'.stage = stage
    BY <1>1, <2>1 DEF RunType
  <2> QED
    BY <1>2, <2>1, <2>3, <2>4
<1>3. CASE run.i # 6
  <2>1. run' = [run EXCEPT !.i = run.i + 1] /\ queue' = queue
    BY <1>3, Orders DEF Step
  <2>2. run.i \in 1..5 /\ run.i + 1 \in 1..6
    BY <1>1, <1>3
  <2> QED
    BY <1>1, <2>1, <2>2 DEF RunType
<1> QED
  BY <1>2, <1>3

LEMMA BeginTyped ==
  ASSUME TypeOK, NEW n \in Networks, NEW stage \in Stages, NEW object \in Network,
         NEW fresh \in BOOLEAN, Begin(n, stage, object, fresh)
  PROVE  /\ run' \in RunType /\ run'.stage = stage /\ run'.key = n /\ run'.copy = object
         /\ run'.fresh = fresh /\ run'.i = 1
<1>1. run' = [stage |-> stage, key |-> n, copy |-> object, fresh |-> fresh, i |-> 1]
  BY DEF Begin
<1>2. 1 \in 1..6
  OBVIOUS
<1> QED
  BY <1>1, <1>2 DEF RunType

\* What a step leaves of the record of the reconcile in progress.
RunKept ==
  \/ run' = Idle
  \/ run' = run
  \/ run' = [run EXCEPT !.fresh = FALSE]

RunBegins(n) ==
  \/ /\ FetchGuarded(n)
     /\ Begin(n, AfterFinalizer(View(network[n])), View(network[n]), Len(network[n]) = 1)
     /\ View(network[n]).state = "live" /\ View(network[n]).finalizer /\ network' = network
  \/ /\ Begin(n, AfterFinalizer(Guarded(n)), Guarded(n), TRUE) /\ WriteNetwork(n, Guarded(n))
     /\ View(network[n]).state = "live" /\ Len(network[n]) = 1
  \/ /\ Begin(n, "delete", View(network[n]), Len(network[n]) = 1)
     /\ View(network[n]).state = "deleting" /\ network' = network

LEMMA RunStep ==
  ASSUME TypeOK, Next
  PROVE  \/ RunKept
         \/ \E n \in Networks : RunBegins(n)
         \/ run.stage = "create" /\ Step("status") /\ network' = network
         \/ run.stage = "delete" /\ Step("release") /\ network' = network /\ DeleteObject
<1>1. CASE \E n \in Networks : FetchMissing(n) \/ AddFinalizerFails(n) \/ NetworkSync(n) \/ Resync(n)
  BY <1>1 DEF FetchMissing, AddFinalizerFails, NetworkSync, Resync, RunKept
<1>2. CASE \E n \in Networks : FetchGuarded(n) \/ AddFinalizer(n) \/ FetchDeleting(n)
  BY <1>2 DEF FetchGuarded, AddFinalizer, FetchDeleting, Fetch, RunBegins, RunKept
<1>3. CASE CreateObject
  BY <1>3 DEF CreateObject, Retry, RunKept
<1>4. CASE DeleteObject
  BY <1>4 DEF DeleteObject, Retry, RunKept
<1>5. CASE UpdateStatus \/ RemoveFinalizer \/ CallFails \/ Restart \/ PodStops
  BY <1>5 DEF UpdateStatus, RemoveFinalizer, CallFails, Restart, PodStops, Retry, Done, RunKept
<1>6. CASE \E n \in Networks :
             DeleteNetwork(n) \/ \E spec \in Specs[n] : CreateNetwork(n, spec) \/ EditNetwork(n, spec)
  BY <1>6 DEF DeleteNetwork, CreateNetwork, EditNetwork, UserWrites, RunKept
<1>7. CASE \/ \E o \in DOMAIN objects : ObjectSync(o)
           \/ \E o \in {"anvil"} \cup References, endpoint \in {"", "url"}, healthy \in BOOLEAN :
                Report(o, endpoint, healthy)
           \/ \E o \in Anvil : LoseObject(o)
  BY <1>7 DEF ObjectSync, Report, LoseObject, RunKept
<1> QED
  BY <1>1, <1>2, <1>3, <1>4, <1>5, <1>6, <1>7 DEF Next, Handle, Reconcile

LEMMA AfterFinalizerStage ==
  ASSUME NEW object
  PROVE  AfterFinalizer(object) \in {"create", "status"} /\ AfterFinalizer(object) \in Stages
BY DEF AfterFinalizer, Stages

LEMMA RunTyped ==
  ASSUME TypeOK, Next
  PROVE  run' \in RunType
<1>1. CASE RunKept
  <2>1. run \in RunType
    BY Typed
  <2> QED
    BY <1>1, <2>1, IdleTyped DEF RunKept, RunType
<1>2. ASSUME NEW n \in Networks, RunBegins(n) PROVE run' \in RunType
  <2>1. /\ View(network[n]) \in Network /\ Guarded(n) \in Network
        /\ (Len(network[n]) = 1) \in BOOLEAN /\ TRUE \in BOOLEAN /\ "delete" \in Stages
    BY Typed, HandlersWrites DEF Stages
  <2> QED
    BY <1>2, <2>1, BeginTyped, AfterFinalizerStage DEF RunBegins
<1>3. CASE Step("status") \/ Step("release")
  BY <1>3, StepTyped DEF Stages
<1> QED
  BY <1>1, <1>2, <1>3, RunStep

\* Which steps write a Network.
NetworkWrites(n) ==
  \/ /\ run.stage = "idle" /\ Len(network[n]) = 1 /\ View(network[n]).state = "live"
     /\ WriteNetwork(n, Guarded(n))
  \/ /\ run.stage = "status" /\ n = run.key /\ Ready
     /\ WriteNetwork(n, [run.copy EXCEPT !.status = StatusFrom(run.copy, Cached)])
  \/ /\ run.stage = "release" /\ run.fresh /\ n = run.key
     /\ WriteNetwork(n, NoNetwork) /\ run' = Idle /\ objects' = objects /\ missed' = missed
  \/ \E spec \in Specs[n] : CreateNetwork(n, spec) \/ EditNetwork(n, spec)
  \/ DeleteNetwork(n)

LEMMA NetworkStep ==
  ASSUME TypeOK, Next
  PROVE  \/ network' = network
         \/ (\E n \in Networks : NetworkSync(n)) \/ Restart
         \/ \E n \in Networks : NetworkWrites(n)
<1>0. run.key \in Networks
  BY Typed
<1>1. CASE UpdateStatus
  BY <1>0, <1>1 DEF UpdateStatus, StatusWritten, NetworkWrites
<1>2. CASE RemoveFinalizer
  BY <1>0, <1>2 DEF RemoveFinalizer, Done, NetworkWrites
<1>3. CASE CallFails
  BY <1>0, <1>3 DEF CallFails, StatusWritten, Retry, NetworkWrites
<1>4. CASE \E n \in Networks : AddFinalizer(n) \/ AddFinalizerFails(n)
  BY <1>4 DEF AddFinalizer, AddFinalizerFails, NetworkWrites
<1>5. CASE \E n \in Networks :
             DeleteNetwork(n) \/ \E spec \in Specs[n] : CreateNetwork(n, spec) \/ EditNetwork(n, spec)
  BY <1>5 DEF NetworkWrites
<1>6. CASE \/ CreateObject \/ DeleteObject \/ PodStops
           \/ \E n \in Networks : FetchMissing(n) \/ FetchGuarded(n) \/ FetchDeleting(n) \/ Resync(n)
           \/ \E o \in DOMAIN objects : ObjectSync(o)
           \/ \E o \in {"anvil"} \cup References, endpoint \in {"", "url"}, healthy \in BOOLEAN :
                Report(o, endpoint, healthy)
           \/ \E o \in Anvil : LoseObject(o)
  BY <1>6 DEF CreateObject, DeleteObject, PodStops, FetchMissing, FetchGuarded, FetchDeleting, Fetch,
              Resync, ObjectSync, Report, LoseObject
<1> QED
  BY <1>1, <1>2, <1>3, <1>4, <1>5, <1>6 DEF Next, Handle, Reconcile

\* What each of these writes puts in the place of what the API server had.
LEMMA NetworkWrittenAs ==
  ASSUME TypeOK, NEW n \in Networks, NetworkWrites(n)
  PROVE  \E object \in Network :
           /\ WriteNetwork(n, object)
           /\ \/ /\ run.stage = "idle" /\ Len(network[n]) = 1 /\ View(network[n]).state = "live"
                 /\ object = Guarded(n) /\ object.finalizer /\ object.state = "live"
              \/ /\ run.stage = "status" /\ n = run.key
                 /\ object.state = run.copy.state /\ object.finalizer = run.copy.finalizer
              \/ /\ run.stage = "release" /\ run.fresh /\ n = run.key /\ object = NoNetwork
                 /\ run' = Idle /\ objects' = objects /\ missed' = missed
              \/ ~Exists(Server(network[n])) /\ object.finalizer = FALSE
              \/ Exists(Server(network[n])) /\ object.state = Server(network[n]).state
                 /\ object.finalizer = Server(network[n]).finalizer
              \/ object.state = "deleting" /\ object.finalizer = Server(network[n]).finalizer
              \/ object = NoNetwork /\ ~Server(network[n]).finalizer
<1>0. /\ Server(network[n]) \in Network /\ Specs[n] \subseteq SpecType
  BY Typed, NetworkAssumption
<1>1. CASE /\ run.stage = "idle" /\ Len(network[n]) = 1 /\ View(network[n]).state = "live"
           /\ WriteNetwork(n, Guarded(n))
  BY <1>1, HandlersWrites
<1>2. CASE /\ run.stage = "status" /\ n = run.key /\ Ready
           /\ WriteNetwork(n, [run.copy EXCEPT !.status = StatusFrom(run.copy, Cached)])
  BY <1>2, HandlersWrites
<1>3. CASE /\ run.stage = "release" /\ run.fresh /\ n = run.key
           /\ WriteNetwork(n, NoNetwork) /\ run' = Idle /\ objects' = objects /\ missed' = missed
  BY <1>3, NewNetworks
<1>4. ASSUME NEW spec \in Specs[n], CreateNetwork(n, spec)
      PROVE  \E object \in Network : /\ WriteNetwork(n, object)
                                     /\ ~Exists(Server(network[n])) /\ object.finalizer = FALSE
  <2>1. LET new == [NoNetwork EXCEPT !.state = "live", !.spec = spec]
        IN new \in Network /\ new.finalizer = FALSE
    BY <1>0, NewNetworks
  <2> QED
    BY <1>4, <2>1 DEF CreateNetwork, UserWrites
<1>5. ASSUME NEW spec \in Specs[n], EditNetwork(n, spec)
      PROVE  \E object \in Network :
               /\ WriteNetwork(n, object)
               /\ Exists(Server(network[n])) /\ object.state = Server(network[n]).state
               /\ object.finalizer = Server(network[n]).finalizer
  <2>1. LET new == [Server(network[n]) EXCEPT !.spec = spec]
        IN /\ new \in Network /\ new.state = Server(network[n]).state
           /\ new.finalizer = Server(network[n]).finalizer
    BY <1>0, NetworkEdits
  <2> QED
    BY <1>5, <2>1 DEF EditNetwork, UserWrites
<1>6. CASE DeleteNetwork(n)
  <2>1. LET new == [Server(network[n]) EXCEPT !.state = "deleting"]
        IN new \in Network /\ new.state = "deleting" /\ new.finalizer = Server(network[n]).finalizer
    BY <1>0, NetworkEdits
  <2>2. CASE Server(network[n]).finalizer
    BY <1>6, <2>1, <2>2 DEF DeleteNetwork, UserWrites
  <2>3. CASE ~Server(network[n]).finalizer
    BY <1>6, <2>3, NewNetworks DEF DeleteNetwork, UserWrites
  <2> QED
    BY <2>2, <2>3
<1> QED
  BY <1>1, <1>2, <1>3, <1>4, <1>5, <1>6, Zenon DEF NetworkWrites

\* Which steps write an object, what they put in its place, and which anvil
\* objects a deletion has looked for in vain since.
ObjectWrites(o) ==
  \E object \in Object :
    /\ WriteObject(o, object)
    /\ \/ run.stage = "create" /\ object = New /\ missed' = missed
       \/ object.state # "there" /\ o \in Anvil
       \/ o # "pod" /\ object.state = Server(objects[o]).state /\ missed' = missed

LEMMA DeletionWrites ==
  ASSUME TypeOK, NEW o \in Anvil, Deletion(o)
  PROVE  /\ missed' = missed \ {o}
         /\ \/ \E object \in Object : WriteObject(o, object) /\ object.state # "there"
            \/ o = "pod" /\ Server(objects[o]) # New /\ objects' = objects
<1>1. LET new == [New EXCEPT !.state = "leaving"] IN new \in Object /\ new.state = "leaving"
  BY NewObjects
<1>2. CASE o # "pod"
  BY <1>2, NewObjects DEF Deletion
<1>3. CASE o = "pod" /\ Server(objects[o]) = New
  BY <1>1, <1>3 DEF Deletion
<1>4. CASE o = "pod" /\ Server(objects[o]) # New
  BY <1>4 DEF Deletion
<1> QED
  BY <1>2, <1>3, <1>4 DEF Deletion

LEMMA ObjectStep ==
  ASSUME TypeOK, Next
  PROVE  \/ /\ objects' = objects
            /\ \/ missed \subseteq missed'
               \/ missed' = missed \ {"pod"} /\ Server(objects["pod"]) # New
         \/ ((\E o \in Names : ObjectSync(o)) \/ Restart) /\ missed' = missed
         \/ \E o \in Names : ObjectWrites(o) /\ missed' \in {missed, missed \ {o}}
<1>0. /\ run.i \in 1..6 /\ DOMAIN objects = Names /\ Anvil \subseteq Names /\ References \subseteq Names
      /\ CreateOrder[run.i] \in Anvil /\ DeleteOrder[run.i] \in Anvil /\ "pod" \in Anvil /\ "anvil" \in Anvil
  BY Typed, Orders DEF Names
<1>1. CASE CreateObject
  BY <1>0, <1>1, NewObjects DEF CreateObject, ObjectWrites
<1>2. ASSUME NEW o \in Anvil, Deletion(o)
      PROVE  \/ /\ objects' = objects
                /\ missed' = missed \ {"pod"} /\ Server(objects["pod"]) # New
             \/ ObjectWrites(o) /\ missed' \in {missed, missed \ {o}}
  <2>1. missed' = missed \ {o}
    BY <1>2, DeletionWrites
  <2>2. CASE \E object \in Object : WriteObject(o, object) /\ object.state # "there"
    BY <2>1, <2>2 DEF ObjectWrites
  <2>3. CASE o = "pod" /\ Server(objects[o]) # New /\ objects' = objects
    BY <2>1, <2>3
  <2> QED
    BY <1>2, <2>2, <2>3, DeletionWrites
<1>3. CASE DeleteObject
  BY <1>0, <1>2, <1>3 DEF DeleteObject
<1>4. CASE CallFails
  BY <1>0, <1>2, <1>4, NewObjects DEF CallFails, ObjectWrites
<1>5. CASE PodStops
  BY <1>0, <1>5, NewObjects DEF PodStops, ObjectWrites
<1>6. ASSUME NEW o \in Anvil, LoseObject(o)
      PROVE  ObjectWrites(o) /\ missed' \in {missed, missed \ {o}}
  BY <1>0, <1>6, NewObjects DEF LoseObject, ObjectWrites
<1>7. ASSUME NEW o \in {"anvil"} \cup References, NEW endpoint \in {"", "url"},
             NEW healthy \in BOOLEAN, Report(o, endpoint, healthy)
      PROVE  o \in Names /\ ObjectWrites(o) /\ missed' = missed
  <2>1. o # "pod" /\ o \in Names
    BY <1>0, NetworkAssumption
  <2>2. LET new == [Server(objects[o]) EXCEPT !.endpoint = endpoint, !.healthy = healthy]
        IN new \in Object /\ new.state = Server(objects[o]).state
    BY <2>1, Typed, NewObjects
  <2> QED
    BY <1>7, <2>1, <2>2 DEF Report, ObjectWrites
<1>8. CASE Restart \/ \E o \in DOMAIN objects : ObjectSync(o)
  BY <1>0, <1>8 DEF Restart, ObjectSync
<1>9. CASE \/ UpdateStatus \/ RemoveFinalizer
           \/ \E n \in Networks : Handle(n) \/ AddFinalizerFails(n) \/ NetworkSync(n) \/ Resync(n)
           \/ \E n \in Networks :
                DeleteNetwork(n) \/ \E spec \in Specs[n] : CreateNetwork(n, spec) \/ EditNetwork(n, spec)
  BY <1>9 DEF UpdateStatus, RemoveFinalizer, Handle, FetchMissing, FetchGuarded, AddFinalizer,
              FetchDeleting, AddFinalizerFails, NetworkSync, Resync, DeleteNetwork, CreateNetwork,
              EditNetwork, UserWrites
<1> QED
  BY <1>0, <1>1, <1>3, <1>4, <1>5, <1>6, <1>7, <1>8, <1>9 DEF Next, Reconcile

LEMMA RestTyped ==
  ASSUME TypeOK, Next
  PROVE  /\ missed' \subseteq Anvil /\ queue' \subseteq Networks
         /\ writes' \in 0..MaxWrites /\ events' \in 0..MaxEvents
<1>0. /\ missed \subseteq Anvil /\ queue \subseteq Networks /\ run.key \in Networks
      /\ run.i \in 1..6 /\ DeleteOrder[run.i] \in Anvil
  BY Typed, Orders
<1>1. missed' \subseteq Anvil
  <2>1. CASE DeleteObject \/ CallFails
    BY <1>0, <2>1 DEF DeleteObject, CallFails, Deletion
  <2>2. CASE ~(DeleteObject \/ CallFails)
    BY <1>0, <2>2 DEF Next, Handle, Reconcile, CreateObject, UpdateStatus, RemoveFinalizer, Restart,
           PodStops, FetchMissing, FetchGuarded, AddFinalizer, FetchDeleting, AddFinalizerFails,
           NetworkSync, Resync, DeleteNetwork, CreateNetwork, EditNetwork, UserWrites, ObjectSync,
           Report, LoseObject
  <2> QED
    BY <2>1, <2>2
<1>2. queue' \subseteq Networks
  <2>1. CASE CreateObject \/ DeleteObject
    <3>1. queue' = queue \/ Retry
      BY <2>1, StepTyped DEF CreateObject, DeleteObject, Stages
    <3> QED
      BY <1>0, <3>1 DEF Retry
  <2>2. CASE ~(CreateObject \/ DeleteObject)
    BY <1>0, <2>2 DEF Next, Handle, Reconcile, UpdateStatus, RemoveFinalizer, Restart, CallFails,
           PodStops, FetchMissing, FetchGuarded, AddFinalizer, FetchDeleting, AddFinalizerFails, Fetch,
           NetworkSync, Resync, DeleteNetwork, CreateNetwork, EditNetwork, UserWrites, ObjectSync,
           Report, LoseObject, Retry, Done
  <2> QED
    BY <2>1, <2>2
<1>3. writes' = writes \/ (writes < MaxWrites /\ writes' = writes + 1)
  BY DEF Next, Handle, Reconcile, CreateObject, UpdateStatus, DeleteObject, RemoveFinalizer, CallFails,
         Restart, PodStops, FetchMissing, FetchGuarded, AddFinalizer, FetchDeleting, AddFinalizerFails,
         NetworkSync, Resync, DeleteNetwork, CreateNetwork, EditNetwork, UserWrites, ObjectSync,
         Report, LoseObject
<1>4. events' = events \/ (events < MaxEvents /\ events' = events + 1)
  BY DEF Next, Handle, Reconcile, CreateObject, UpdateStatus, DeleteObject, RemoveFinalizer, CallFails,
         Restart, PodStops, FetchMissing, FetchGuarded, AddFinalizer, FetchDeleting, AddFinalizerFails,
         NetworkSync, Resync, DeleteNetwork, CreateNetwork, EditNetwork, UserWrites, ObjectSync,
         Report, LoseObject, Event
<1>5. /\ writes \in 0..MaxWrites /\ events \in 0..MaxEvents /\ MaxWrites \in Nat /\ MaxEvents \in Nat
  BY Typed, NetworkAssumption
<1>6. writes' \in 0..MaxWrites
  BY <1>3, <1>5
<1>7. events' \in 0..MaxEvents
  BY <1>4, <1>5
<1> QED
  BY <1>1, <1>2, <1>6, <1>7

LEMMA TypeInductive ==
  ASSUME TypeOK, [Next]_vars
  PROVE  TypeOK'
<1>1. CASE UNCHANGED vars
  BY <1>1 DEF vars, TypeOK
<1>2. CASE Next
  <2>1. network' \in [Networks -> Feed(Network)]
    BY <1>2, Typed, NetworkStep, NetworksKept, NetworkWrittenAs, NetworkWritten
  <2>2. objects' \in [Names -> Feed(Object)]
    BY <1>2, Typed, ObjectStep, ObjectsKept, ObjectWritten DEF ObjectWrites
  <2> QED
    BY <1>2, <2>1, <2>2, RunTyped, RestTyped, TypeFromParts
<1> QED
  BY <1>1, <1>2

\* Every variable keeps its type, for any Networks and references: a reconcile
\* never comes past the end of the orders, and every feed has a last entry.
THEOREM TypeCorrect == Spec => []TypeOK
<1>1. Init => TypeOK
  BY TypeInit
<1>2. TypeOK /\ [Next]_vars => TypeOK'
  BY TypeInductive
<1> QED
  BY <1>1, <1>2, PTL DEF Spec

-------------------------------------------------------------------------------
(* The inductive invariant *)

\* Nothing keeps an anvil object from having been cleaned up.
Gone(o) == o \in missed \/ Server(objects[o]).state # "there"

\* A Network that a cache shows alive with the finalizer still has it.
FinalizerKept ==
  \A n \in Networks :
    /\ Server(network[n]).finalizer => Exists(Server(network[n]))
    /\ \A i \in 1..Len(network[n]) :
         network[n][i].state = "live" /\ network[n][i].finalizer => Server(network[n]).finalizer

\* A reconcile that creates anvil objects works for a Network with the
\* finalizer; one that can still remove it works on all that the caches have.
RunSane ==
  /\ run.stage \in {"create", "status"} =>
       run.copy.state = "live" /\ run.copy.finalizer /\ Server(network[run.key]).finalizer
  /\ run.stage \in {"delete", "release"} /\ run.fresh =>
       Len(network[run.key]) = 1 /\ Server(network[run.key]).state = "deleting"

\* Nothing but its deletion changes the pod.
PodPlain == Server(objects["pod"]).state = "there" => Server(objects["pod"]) = New

\* What a deletion has passed is gone.
DeletionSane ==
  /\ run.stage = "delete" => \A j \in 1..(run.i - 1) : Gone(DeleteOrder[j])
  /\ run.stage = "release" => \A o \in Anvil : Gone(o)

NInv == TypeOK /\ FinalizerKept /\ RunSane /\ PodPlain /\ DeletionSane /\ ObjectsGuarded

LEMMA InvariantInit ==
  ASSUME Init
  PROVE  NInv
<1>1. \A n \in Networks : network[n] = <<NoNetwork>> /\ Server(network[n]) = NoNetwork
  BY DEF Init, Server
<1>2. \A o \in Anvil : Server(objects[o]) = NoObject
  BY DEF Init, Server
<1>3. FinalizerKept
  <2>1. \A i \in 1..Len(<<NoNetwork>>) : <<NoNetwork>>[i] = NoNetwork
    BY NewNetworks, FeedList
  <2>2. \A n \in Networks : \A i \in 1..Len(network[n]) : network[n][i] = NoNetwork
    BY <1>1, <2>1
  <2> QED
    BY <1>1, <2>2, NewNetworks DEF FinalizerKept
<1>4. RunSane /\ DeletionSane
  BY IdleTyped DEF Init, RunSane, DeletionSane
<1>5. PodPlain /\ ObjectsGuarded
  BY <1>2, Orders, NewObjects DEF PodPlain, ObjectsGuarded
<1> QED
  BY <1>3, <1>4, <1>5, TypeInit DEF NInv

\* The finalizer only goes when a deletion has come to its end.
LEMMA FinalizerStep ==
  ASSUME TypeOK, FinalizerKept, RunSane, Next, NEW n \in Networks
  PROVE  \/ Server(network[n]).finalizer => Server(network'[n]).finalizer
         \/ run.stage = "release" /\ objects' = objects /\ missed' = missed /\ run' = Idle
<1>1. CASE network' = network \/ (\E m \in Networks : NetworkSync(m)) \/ Restart
  BY <1>1, NetworksKept
<1>2. ASSUME NEW m \in Networks, NetworkWrites(m), m # n
      PROVE  Server(network'[n]) = Server(network[n])
  BY <1>2, NetworkWrittenAs, NetworkWritten
<1>3. CASE NetworkWrites(n)
  <2>1. PICK object \in Network :
          /\ WriteNetwork(n, object)
          /\ \/ /\ run.stage = "idle" /\ Len(network[n]) = 1 /\ View(network[n]).state = "live"
                /\ object = Guarded(n) /\ object.finalizer /\ object.state = "live"
             \/ /\ run.stage = "status" /\ n = run.key
                /\ object.state = run.copy.state /\ object.finalizer = run.copy.finalizer
             \/ /\ run.stage = "release" /\ run.fresh /\ n = run.key /\ object = NoNetwork
                /\ run' = Idle /\ objects' = objects /\ missed' = missed
             \/ ~Exists(Server(network[n])) /\ object.finalizer = FALSE
             \/ Exists(Server(network[n])) /\ object.state = Server(network[n]).state
                /\ object.finalizer = Server(network[n]).finalizer
             \/ object.state = "deleting" /\ object.finalizer = Server(network[n]).finalizer
             \/ object = NoNetwork /\ ~Server(network[n]).finalizer
    BY <1>3, NetworkWrittenAs
  <2>2. Server(network'[n]) = object
    BY <2>1, NetworkWritten
  <2>3. /\ run.stage = "status" => run.copy.finalizer
        /\ ~Exists(Server(network[n])) => ~Server(network[n]).finalizer
    BY DEF RunSane, FinalizerKept
  <2> QED
    BY <2>1, <2>2, <2>3
<1> QED
  BY <1>1, <1>2, <1>3, NetworkStep

\* A deletion's progress is only undone by a reconcile that creates.
LEMMA GoneStep ==
  ASSUME TypeOK, PodPlain, [Next]_vars, NEW o \in Anvil, Gone(o), run.stage # "create"
  PROVE  o \in missed' \/ Server(objects'[o]).state # "there"
<1>0. o \in Names
  BY DEF Names
<1>1. CASE /\ objects' = objects
           /\ \/ missed \subseteq missed'
              \/ missed' = missed \ {"pod"} /\ Server(objects["pod"]) # New
  BY <1>1 DEF Gone, PodPlain
<1>2. CASE ((\E p \in Names : ObjectSync(p)) \/ Restart) /\ missed' = missed
  BY <1>0, <1>2, ObjectsKept DEF Gone
<1>3. ASSUME NEW p \in Names, ObjectWrites(p), missed' \in {missed, missed \ {p}}
      PROVE  o \in missed' \/ Server(objects'[o]).state # "there"
  <2>1. PICK object \in Object :
          /\ WriteObject(p, object)
          /\ \/ run.stage = "create" /\ object = New /\ missed' = missed
             \/ object.state # "there" /\ p \in Anvil
             \/ p # "pod" /\ object.state = Server(objects[p]).state /\ missed' = missed
    BY <1>3 DEF ObjectWrites
  <2>2. Server(objects'[p]) = object /\ \A q \in Names \ {p} : objects'[q] = objects[q]
    BY <2>1, ObjectWritten
  <2> QED
    BY <1>0, <1>3, <2>1, <2>2 DEF Gone
<1>4. CASE UNCHANGED vars
  BY <1>4 DEF vars, Gone
<1> QED
  BY <1>1, <1>2, <1>3, <1>4, ObjectStep

LEMMA PodPlainStep ==
  ASSUME TypeOK, PodPlain, Next
  PROVE  PodPlain'
<1>0. "pod" \in Names
  BY Orders DEF Names
<1>1. CASE objects' = objects
  BY <1>1 DEF PodPlain
<1>2. CASE (\E p \in Names : ObjectSync(p)) \/ Restart
  <2>1. Server(objects'["pod"]) = Server(objects["pod"])
    BY <1>0, <1>2, ObjectsKept
  <2> QED
    BY <2>1 DEF PodPlain, Server
<1>3. ASSUME NEW p \in Names, ObjectWrites(p) PROVE PodPlain'
  <2>1. PICK object \in Object :
          /\ WriteObject(p, object)
          /\ \/ run.stage = "create" /\ object = New /\ missed' = missed
             \/ object.state # "there" /\ p \in Anvil
             \/ p # "pod" /\ object.state = Server(objects[p]).state /\ missed' = missed
    BY <1>3 DEF ObjectWrites
  <2>2. Server(objects'[p]) = object /\ \A q \in Names \ {p} : objects'[q] = objects[q]
    BY <2>1, ObjectWritten
  <2>3. \/ Server(objects'["pod"]) = Server(objects["pod"])
        \/ Server(objects'["pod"]) = New \/ Server(objects'["pod"]).state # "there"
    BY <1>0, <2>1, <2>2
  <2> QED
    BY <2>3 DEF PodPlain, Server
<1> QED
  BY <1>1, <1>2, <1>3, ObjectStep

LEMMA FinalizerKeptStep ==
  ASSUME TypeOK, FinalizerKept, RunSane, Next
  PROVE  FinalizerKept'
<1> SUFFICES ASSUME NEW n \in Networks
             PROVE  /\ Server(network'[n]).finalizer => Exists(Server(network'[n]))
                    /\ \A i \in 1..Len(network'[n]) :
                         network'[n][i].state = "live" /\ network'[n][i].finalizer =>
                           Server(network'[n]).finalizer
  BY DEF FinalizerKept, Server
<1>0. /\ Server(network[n]).finalizer => Exists(Server(network[n]))
      /\ \A i \in 1..Len(network[n]) :
           network[n][i].state = "live" /\ network[n][i].finalizer => Server(network[n]).finalizer
  BY DEF FinalizerKept
<1>1. CASE network'[n] = network[n]
  BY <1>0, <1>1
<1>2. CASE (\E m \in Networks : NetworkSync(m)) \/ Restart
  <2>1. /\ Server(network'[n]) = Server(network[n])
        /\ \A i \in 1..Len(network'[n]) :
             \E j \in 1..Len(network[n]) : network'[n][i] = network[n][j]
    BY <1>2, NetworksKept
  <2> QED
    BY <1>0, <2>1
<1>3. CASE NetworkWrites(n)
  <2>1. PICK object \in Network :
          /\ WriteNetwork(n, object)
          /\ \/ /\ run.stage = "idle" /\ Len(network[n]) = 1 /\ View(network[n]).state = "live"
                /\ object = Guarded(n) /\ object.finalizer /\ object.state = "live"
             \/ /\ run.stage = "status" /\ n = run.key
                /\ object.state = run.copy.state /\ object.finalizer = run.copy.finalizer
             \/ /\ run.stage = "release" /\ run.fresh /\ n = run.key /\ object = NoNetwork
                /\ run' = Idle /\ objects' = objects /\ missed' = missed
             \/ ~Exists(Server(network[n])) /\ object.finalizer = FALSE
             \/ Exists(Server(network[n])) /\ object.state = Server(network[n]).state
                /\ object.finalizer = Server(network[n]).finalizer
             \/ object.state = "deleting" /\ object.finalizer = Server(network[n]).finalizer
             \/ object = NoNetwork /\ ~Server(network[n]).finalizer
    BY <1>3, NetworkWrittenAs
  <2>2. /\ Server(network'[n]) = object
        /\ \A i \in 1..Len(network'[n]) :
             network'[n][i] = object \/ \E j \in 1..Len(network[n]) : network'[n][i] = network[n][j]
    BY <2>1, NetworkWritten
  <2>3. /\ run.stage = "status" => run.copy.state = "live" /\ run.copy.finalizer
        /\ run.stage = "release" /\ run.fresh =>
             Len(network[run.key]) = 1 /\ Server(network[run.key]).state = "deleting"
    BY DEF RunSane
  <2>4. object.finalizer => Exists(object)
    BY <1>0, <2>1, <2>3, NewNetworks DEF Exists
  <2>5. ASSUME NEW j \in 1..Len(network[n]), network[n][j].state = "live", network[n][j].finalizer
        PROVE  object.finalizer
    <3>1. Server(network[n]).finalizer /\ Exists(Server(network[n]))
      BY <1>0, <2>5
    <3>2. ~(run.stage = "release" /\ run.fresh /\ n = run.key)
      <4>1. CASE Len(network[n]) = 1
        <5>1. network[n][j] = Server(network[n])
          BY <2>5, <4>1 DEF Server
        <5> QED
          BY <2>3, <2>5, <5>1
      <4>2. CASE Len(network[n]) # 1
        BY <2>3, <4>2
      <4> QED
        BY <4>1, <4>2
    <3> QED
      BY <2>1, <2>3, <3>1, <3>2
  <2> QED
    BY <2>2, <2>4, <2>5
<1>4. ASSUME NEW m \in Networks, NetworkWrites(m), m # n
      PROVE  network'[n] = network[n]
  BY <1>4, NetworkWrittenAs, NetworkWritten
<1> QED
  BY <1>1, <1>2, <1>3, <1>4, NetworkStep

LEMMA RunSaneStep ==
  ASSUME TypeOK, FinalizerKept, RunSane, Next
  PROVE  RunSane'
<1> DEFINE Goal ==
      /\ run'.stage \in {"create", "status"} =>
           run'.copy.state = "live" /\ run'.copy.finalizer /\ Server(network'[run'.key]).finalizer
      /\ run'.stage \in {"delete", "release"} /\ run'.fresh =>
           Len(network'[run'.key]) = 1 /\ Server(network'[run'.key]).state = "deleting"
<1> SUFFICES Goal
  BY DEF RunSane, Server
<1>0. /\ run \in RunType /\ run.key \in Networks
      /\ network \in [Networks -> Feed(Network)]
  BY Typed
<1>1. CASE run' = Idle
  BY <1>1, IdleTyped
<1>2. CASE run' = run \/ run' = [run EXCEPT !.fresh = FALSE]
  <2>1. run'.stage = run.stage /\ run'.key = run.key /\ run'.copy = run.copy
    BY <1>0, <1>2 DEF RunType
  <2>2. ASSUME run.stage \in {"create", "status"}
        PROVE  run.copy.state = "live" /\ run.copy.finalizer /\ Server(network'[run.key]).finalizer
    BY <1>0, <2>2, FinalizerStep DEF RunSane
  <2>3. ASSUME run.stage \in {"delete", "release"}, run'.fresh
        PROVE  Len(network'[run.key]) = 1 /\ Server(network'[run.key]).state = "deleting"
    <3>1. run' = run /\ run.fresh /\ run' # Idle
      BY <1>0, <1>2, <2>3, IdleTyped DEF RunType
    <3>2. Len(network[run.key]) = 1 /\ Server(network[run.key]).state = "deleting"
      BY <2>3, <3>1 DEF RunSane
    <3>3. ASSUME NEW m \in Networks, NetworkSync(m) PROVE network'[run.key] = network[run.key]
      <4>1. Len(network[m]) > 1 /\ network' = [network EXCEPT ![m] = Tail(network[m])]
        BY <3>3 DEF NetworkSync
      <4>2. m # run.key
        <5>1. Len(network[run.key]) = 1 /\ Len(network[m]) # 1
          <6>1. \A x \in Nat : x > 1 => x # 1
            OBVIOUS
          <6> QED
            BY <3>2, <4>1, <6>1, Typed, Zenon
        <5> QED
          BY <5>1, Zenon
      <4> QED
        BY <1>0, <4>1, <4>2
    <3>4. ~Restart
      BY <3>1 DEF Restart
    <3>5. ASSUME NEW m \in Networks, NetworkWrites(m) PROVE network'[run.key] = network[run.key]
      <4>1. m # run.key
        <5>1. ASSUME m = run.key PROVE \/ DeleteNetwork(m)
                                       \/ \E spec \in Specs[m] : CreateNetwork(m, spec) \/ EditNetwork(m, spec)
          BY <2>3, <3>1, <3>5, <5>1 DEF NetworkWrites
        <5>2. ASSUME m = run.key PROVE run' = [run EXCEPT !.fresh = FALSE]
          BY <5>1, <5>2 DEF DeleteNetwork, CreateNetwork, EditNetwork, UserWrites
        <5>3. [run EXCEPT !.fresh = FALSE].fresh = FALSE
          BY <1>0 DEF RunType
        <5> QED
          BY <2>3, <5>2, <5>3
      <4> QED
        BY <1>0, <3>5, <4>1, NetworkWrittenAs, NetworkWritten
    <3>6. network'[run.key] = network[run.key]
      BY <3>3, <3>4, <3>5, NetworkStep
    <3> QED
      BY <3>2, <3>6
  <2> QED
    BY <2>1, <2>2, <2>3
<1>3. ASSUME NEW n \in Networks, RunBegins(n) PROVE Goal
  <2>0. /\ View(network[n]) \in Network /\ Guarded(n) \in Network
        /\ (Len(network[n]) = 1) \in BOOLEAN /\ TRUE \in BOOLEAN /\ "delete" \in Stages
        /\ 1 \in 1..Len(network[n]) /\ View(network[n]) = network[n][1]
        /\ Guarded(n).finalizer /\ Guarded(n).state = View(network[n]).state
    BY Typed, HandlersWrites DEF Stages, View
  <2>1. CASE /\ Begin(n, AfterFinalizer(View(network[n])), View(network[n]), Len(network[n]) = 1)
             /\ View(network[n]).state = "live" /\ View(network[n]).finalizer /\ network' = network
    <3>1. /\ run'.stage \in {"create", "status"} /\ run'.key = n /\ run'.copy = View(network[n])
      <4>1. AfterFinalizer(View(network[n])) \in {"create", "status"}
            /\ AfterFinalizer(View(network[n])) \in Stages
        BY AfterFinalizerStage
      <4> HIDE DEF Goal
      <4> QED
        BY <2>0, <2>1, <4>1, BeginTyped
    <3>2. Server(network[n]).finalizer
      BY <2>0, <2>1 DEF FinalizerKept
    <3> QED
      BY <2>1, <3>1, <3>2
  <2>2. CASE /\ Begin(n, AfterFinalizer(Guarded(n)), Guarded(n), TRUE) /\ WriteNetwork(n, Guarded(n))
             /\ View(network[n]).state = "live" /\ Len(network[n]) = 1
    <3>1. /\ run'.stage \in {"create", "status"} /\ run'.key = n /\ run'.copy = Guarded(n)
      <4>1. AfterFinalizer(Guarded(n)) \in {"create", "status"} /\ AfterFinalizer(Guarded(n)) \in Stages
        BY AfterFinalizerStage
      <4> HIDE DEF Goal
      <4> QED
        BY <2>0, <2>2, <4>1, BeginTyped
    <3>2. Server(network'[n]) = Guarded(n)
      BY <2>0, <2>2, NetworkWritten
    <3> QED
      BY <2>0, <2>2, <3>1, <3>2
  <2>3. CASE /\ Begin(n, "delete", View(network[n]), Len(network[n]) = 1)
             /\ View(network[n]).state = "deleting" /\ network' = network
    <3>1. run'.stage = "delete" /\ run'.key = n /\ (run'.fresh <=> Len(network[n]) = 1)
      BY <2>0, <2>3, BeginTyped
    <3>2. Len(network[n]) = 1 => Server(network[n]) = View(network[n])
      BY DEF Server, View
    <3> QED
      BY <2>3, <3>1, <3>2
  <2> QED
    BY <1>3, <2>1, <2>2, <2>3 DEF RunBegins
<1>4. CASE run.stage = "create" /\ Step("status") /\ network' = network
  <2>1. run'.stage \in {"create", "status"} /\ run'.key = run.key /\ run'.copy = run.copy
    BY <1>4, StepTyped DEF Stages
  <2> QED
    BY <1>4, <2>1 DEF RunSane
<1>5. CASE run.stage = "delete" /\ Step("release") /\ network' = network
  <2>1. run'.stage \in {"delete", "release"} /\ run'.key = run.key /\ run'.fresh = run.fresh
    BY <1>5, StepTyped DEF Stages
  <2> QED
    BY <1>5, <2>1 DEF RunSane
<1> QED
  BY <1>1, <1>2, <1>3, <1>4, <1>5, RunStep DEF RunKept

LEMMA DeletionSaneStep ==
  ASSUME TypeOK, PodPlain, DeletionSane, Next
  PROVE  DeletionSane'
<1> DEFINE GoneNext(o) == o \in missed' \/ Server(objects'[o]).state # "there"
           Goal == /\ run'.stage = "delete" => \A j \in 1..(run'.i - 1) : GoneNext(DeleteOrder[j])
                   /\ run'.stage = "release" => \A o \in Anvil : GoneNext(o)
<1> SUFFICES Goal
  BY DEF DeletionSane, Gone, Server
<1>0. /\ run \in RunType /\ run.i \in 1..6
      /\ \A i \in 1..6 : DeleteOrder[i] \in Anvil
      /\ \A o \in Anvil : \E i \in 1..6 : DeleteOrder[i] = o
  BY Typed, Orders
<1>1. \A o \in Anvil : Gone(o) /\ run.stage # "create" => GoneNext(o)
  BY GoneStep
<1> HIDE DEF GoneNext
<1>2. CASE run' = Idle
  BY <1>2, IdleTyped
<1>3. CASE run' = run \/ run' = [run EXCEPT !.fresh = FALSE]
  <2>1. run'.stage = run.stage /\ run'.i = run.i
    BY <1>0, <1>3 DEF RunType
  <2>2. ASSUME run.stage = "delete", NEW j \in 1..(run.i - 1) PROVE GoneNext(DeleteOrder[j])
    <3>1. DeleteOrder[j] \in Anvil
      BY <1>0
    <3> QED
      BY <1>1, <2>2, <3>1 DEF DeletionSane
  <2>3. ASSUME run.stage = "release", NEW o \in Anvil PROVE GoneNext(o)
    BY <1>1, <2>3 DEF DeletionSane
  <2> QED
    BY <2>1, <2>2, <2>3
<1>4. ASSUME NEW n \in Networks, RunBegins(n) PROVE Goal
  <2>1. /\ View(network[n]) \in Network /\ Guarded(n) \in Network
        /\ (Len(network[n]) = 1) \in BOOLEAN /\ TRUE \in BOOLEAN /\ "delete" \in Stages
        /\ \A object : AfterFinalizer(object) \in Stages
        /\ \A object : AfterFinalizer(object) \in {"create", "status"}
    BY Typed, HandlersWrites, AfterFinalizerStage DEF Stages
  <2>2. run'.stage \in {"create", "status"} \/ (run'.stage = "delete" /\ run'.i = 1)
    <3> HIDE DEF Goal
    <3>1. CASE Begin(n, AfterFinalizer(View(network[n])), View(network[n]), Len(network[n]) = 1)
      <4>1. /\ AfterFinalizer(View(network[n])) \in Stages
            /\ AfterFinalizer(View(network[n])) \in {"create", "status"}
            /\ View(network[n]) \in Network /\ (Len(network[n]) = 1) \in BOOLEAN
        BY <2>1
      <4> QED
        BY <3>1, <4>1, BeginTyped
    <3>2. CASE Begin(n, AfterFinalizer(Guarded(n)), Guarded(n), TRUE)
      BY <2>1, <3>2, BeginTyped
    <3>3. CASE Begin(n, "delete", View(network[n]), Len(network[n]) = 1)
      BY <2>1, <3>3, BeginTyped
    <3> QED
      BY <1>4, <3>1, <3>2, <3>3 DEF RunBegins
  <2>3. 1..(1 - 1) = {}
    OBVIOUS
  <2> QED
    BY <2>2, <2>3
<1>5. CASE run.stage = "create" /\ Step("status")
  <2>1. run'.stage \in {"create", "status"}
    BY <1>5, StepTyped DEF Stages
  <2> QED
    BY <2>1
<1>6. CASE run.stage = "delete" /\ Step("release") /\ DeleteObject /\ run' # Idle
  <2> DEFINE o == DeleteOrder[run.i]
  <2>0. o \in Anvil /\ o \in Names
    BY <1>0 DEF Names
  <2>1. GoneNext(o)
    <3>1. CASE ~Exists(View(objects[o]))
      <4>1. /\ objects' = objects
            /\ missed' = IF Exists(Server(objects[o])) THEN missed \cup {o} ELSE missed
        BY <1>6, <3>1 DEF DeleteObject
      <4> QED
        BY <4>1 DEF GoneNext, Exists
    <3>2. CASE Exists(View(objects[o]))
      <4>1. Deletion(o)
        BY <1>6, <3>2 DEF DeleteObject, Retry
      <4>2. CASE \E object \in Object : WriteObject(o, object) /\ object.state # "there"
        BY <2>0, <4>2, ObjectWritten DEF GoneNext
      <4>3. CASE o = "pod" /\ Server(objects[o]) # New /\ objects' = objects
        BY <4>3 DEF GoneNext, PodPlain
      <4> QED
        BY <2>0, <4>1, <4>2, <4>3, DeletionWrites
    <3> QED
      BY <3>1, <3>2
  <2>2. ASSUME NEW j \in 1..(run.i - 1) PROVE GoneNext(DeleteOrder[j])
    <3>1. DeleteOrder[j] \in Anvil
      BY <1>0
    <3> QED
      BY <1>1, <1>6, <3>1 DEF DeletionSane
  <2>3. \A j \in 1..run.i : GoneNext(DeleteOrder[j])
    <3>1. \A j \in 1..run.i : j = run.i \/ j \in 1..(run.i - 1)
      BY <1>0
    <3> QED
      BY <2>1, <2>2, <3>1
  <2>4. \/ run.i = 6 /\ run'.stage = "release"
        \/ run.i \in 1..5 /\ run'.stage = "delete" /\ run'.i = run.i + 1
    BY <1>6, StepTyped DEF Stages
  <2>5. CASE run.i = 6 /\ run'.stage = "release"
    BY <1>0, <2>3, <2>5
  <2>6. CASE run.i \in 1..5 /\ run'.stage = "delete" /\ run'.i = run.i + 1
    <3>1. 1..(run'.i - 1) = 1..run.i
      BY <2>6
    <3> QED
      BY <2>3, <2>6, <3>1
  <2> QED
    BY <2>4, <2>5, <2>6
<1> QED
  BY <1>2, <1>3, <1>4, <1>5, <1>6, RunStep DEF RunKept

LEMMA GuardedStep ==
  ASSUME NInv, Next
  PROVE  ObjectsGuarded'
<1> SUFFICES ASSUME NEW o \in Anvil, o \notin missed', Server(objects'[o]).state = "there"
             PROVE  \E n \in Networks : Server(network'[n]).finalizer
  BY DEF ObjectsGuarded, Server
<1>0. TypeOK /\ FinalizerKept /\ RunSane /\ PodPlain /\ DeletionSane /\ ObjectsGuarded
  BY DEF NInv
<1>1. CASE run.stage = "create"
  <2>1. run.key \in Networks /\ Server(network[run.key]).finalizer
    BY <1>0, <1>1, Typed DEF RunSane
  <2> QED
    BY <1>0, <1>1, <2>1, FinalizerStep
<1>2. CASE run.stage # "create"
  <2>1. ~Gone(o)
    BY <1>0, <1>2, GoneStep
  <2>2. PICK n \in Networks : Server(network[n]).finalizer
    BY <1>0, <2>1 DEF ObjectsGuarded, Gone
  <2>3. run.stage # "release"
    BY <1>0, <2>1 DEF DeletionSane
  <2> QED
    BY <1>0, <2>2, <2>3, FinalizerStep
<1> QED
  BY <1>1, <1>2

LEMMA InvariantInductive ==
  ASSUME NInv, [Next]_vars
  PROVE  NInv'
<1>1. CASE UNCHANGED vars
  BY <1>1 DEF vars, NInv, TypeOK, FinalizerKept, RunSane, PodPlain, DeletionSane, Gone, ObjectsGuarded
<1>2. CASE Next
  BY <1>2, TypeInductive, FinalizerKeptStep, RunSaneStep, PodPlainStep, DeletionSaneStep, GuardedStep
     DEF NInv
<1> QED
  BY <1>1, <1>2

LEMMA InvariantHolds == Spec => []NInv
<1>1. Init => NInv
  BY InvariantInit
<1>2. NInv /\ [Next]_vars => NInv'
  BY InvariantInductive
<1> QED
  BY <1>1, <1>2, PTL DEF Spec

-------------------------------------------------------------------------------
(* What the users may rely on *)

\* No anvil object is left without a Network to clean it up, of any number of
\* Networks that share the objects: the finalizer is there before the first
\* object is created, stale caches do not bring a reconcile to create without
\* it, and it goes only when the order of deletion has been gone through.
THEOREM AnvilObjectsGuarded == Spec => []ObjectsGuarded
<1>1. NInv => ObjectsGuarded
  BY DEF NInv
<1> QED
  BY <1>1, InvariantHolds, PTL
===============================================================================
