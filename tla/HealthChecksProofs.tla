-------------------------- MODULE HealthChecksProofs --------------------------
(****************************************************************************)
(* Theorems about HealthChecks, for any objects, Secrets and endpoints, and *)
(* for both kinds of objects.                                               *)
(****************************************************************************)
EXTENDS HealthChecks, FeedTheorems

Endpoints == Urls \cup {""}

RoundType == [copies : [Objects -> Object], todo : SUBSET Objects, fresh : SUBSET Objects,
              at : Objects, url : Endpoints]

\* What a check made of an object.
WithReport(o, endpoint, healthy) ==
  [round.copies[o] EXCEPT !.endpoint = endpoint, !.healthy = healthy]

-------------------------------------------------------------------------------
(* Type correctness *)

LEMMA ObjectFields ==
  ASSUME NEW x \in Object
  PROVE  /\ x.uid \in Nat /\ x.uid + 1 \in Nat /\ x.alive \in BOOLEAN
         /\ x.secret \in Secrets /\ x.endpoint \in Endpoints /\ x.healthy \in BOOLEAN
         /\ \A endpoint \in Endpoints, healthy \in BOOLEAN :
              LET new == [x EXCEPT !.endpoint = endpoint, !.healthy = healthy]
              IN /\ new \in Object /\ new.uid = x.uid /\ new.alive = x.alive
                 /\ new.endpoint = endpoint /\ new.healthy = healthy
         /\ \A s \in Secrets :
              LET new == [x EXCEPT !.secret = s]
              IN /\ new \in Object /\ new.uid = x.uid /\ new.alive = x.alive
                 /\ new.endpoint = x.endpoint /\ new.healthy = x.healthy
<1>1. /\ x.uid \in Nat /\ x.alive \in BOOLEAN
      /\ x.secret \in Secrets /\ x.endpoint \in Endpoints /\ x.healthy \in BOOLEAN
  BY DEF Object, Endpoints
<1>2. x.uid + 1 \in Nat
  <2>1. \A n \in Nat : n + 1 \in Nat
    OBVIOUS
  <2> QED
    BY <1>1, <2>1, Zenon
<1>3. ASSUME NEW endpoint \in Endpoints, NEW healthy \in BOOLEAN
      PROVE  LET new == [x EXCEPT !.endpoint = endpoint, !.healthy = healthy]
             IN /\ new \in Object /\ new.uid = x.uid /\ new.alive = x.alive
                /\ new.endpoint = endpoint /\ new.healthy = healthy
  BY DEF Object, Endpoints
<1>4. ASSUME NEW s \in Secrets
      PROVE  LET new == [x EXCEPT !.secret = s]
             IN /\ new \in Object /\ new.uid = x.uid /\ new.alive = x.alive
                /\ new.endpoint = x.endpoint /\ new.healthy = x.healthy
  BY DEF Object, Endpoints
<1> QED
  BY <1>1, <1>2, <1>3, <1>4, Zenon

LEMMA NewObjects ==
  /\ NoObject \in Object /\ ~NoObject.alive /\ ~NoObject.healthy /\ NoObject.endpoint = ""
  /\ \A uid \in Nat, s \in Secrets :
       /\ Created(uid, s) \in Object /\ Created(uid, s).alive
       /\ ~Created(uid, s).healthy /\ Created(uid, s).endpoint = ""
  /\ \A uid \in Nat :
       LET new == [NoObject EXCEPT !.uid = uid]
       IN new \in Object /\ ~new.alive /\ ~new.healthy /\ new.endpoint = ""
<1> DEFINE any == CHOOSE s \in Secrets : TRUE
<1>0. any \in Secrets
  BY HealthAssumption
<1>1. NoObject = [uid |-> 0, alive |-> FALSE, secret |-> any, endpoint |-> "", healthy |-> FALSE]
  BY DEF NoObject
<1> HIDE DEF any
<1>2. /\ NoObject \in Object /\ ~NoObject.alive /\ ~NoObject.healthy /\ NoObject.endpoint = ""
  <2>1. [uid |-> 0, alive |-> FALSE, secret |-> any, endpoint |-> "", healthy |-> FALSE] \in Object
    BY <1>0 DEF Object
  <2> QED
    BY <1>1, <2>1
<1>3. ASSUME NEW uid \in Nat, NEW s \in Secrets
      PROVE  /\ Created(uid, s) \in Object /\ Created(uid, s).alive
             /\ ~Created(uid, s).healthy /\ Created(uid, s).endpoint = ""
  BY <1>2 DEF Created, Object
<1>4. ASSUME NEW uid \in Nat
      PROVE  LET new == [NoObject EXCEPT !.uid = uid]
             IN new \in Object /\ ~new.alive /\ ~new.healthy /\ new.endpoint = ""
  BY <1>2 DEF Object
<1> QED
  BY <1>2, <1>3, <1>4

LEMMA WaitingTyped ==
  /\ Waiting \in RoundType /\ Waiting.fresh = {} /\ Waiting.at \in Objects /\ NoCopies \in [Objects -> Object]
<1>1. NoCopies \in [Objects -> Object]
  BY NewObjects DEF NoCopies
<1>2. (CHOOSE o \in Objects : TRUE) \in Objects
  BY HealthAssumption
<1> QED
  BY <1>1, <1>2 DEF Waiting, RoundType, Endpoints

\* The parts of TypeOK, for one object and one Secret.
LEMMA Typed ==
  ASSUME TypeOK
  PROVE  /\ round \in RoundType
         /\ \A o \in Objects : /\ object[o] \in Feed(Object) /\ View(object[o]) \in Object
                               /\ Server(object[o]) \in Object /\ round.copies[o] \in Object
         /\ \A s \in Secrets : /\ secret[s] \in Feed(SecretData) /\ View(secret[s]) \in SecretData
                               /\ Server(secret[s]) \in SecretData
         /\ object \in [Objects -> Feed(Object)] /\ secret \in [Secrets -> Feed(SecretData)]
<1>1. round \in RoundType
  BY DEF TypeOK, RoundType, Endpoints
<1>2. /\ \A o \in Objects : object[o] \in Feed(Object)
      /\ \A s \in Secrets : secret[s] \in Feed(SecretData)
  BY DEF TypeOK, Feed
<1>3. /\ \A o \in Objects : View(object[o]) \in Object /\ Server(object[o]) \in Object
      /\ \A s \in Secrets : View(secret[s]) \in SecretData /\ Server(secret[s]) \in SecretData
  BY <1>2, FeedEntries DEF View, Server, First, Last
<1>4. \A o \in Objects : round.copies[o] \in Object
  BY <1>1 DEF RoundType
<1>5. object \in [Objects -> Feed(Object)] /\ secret \in [Secrets -> Feed(SecretData)]
  BY <1>2 DEF TypeOK
<1> QED
  BY <1>1, <1>2, <1>3, <1>4, <1>5

LEMMA TypeFromParts ==
  ASSUME kind' \in {"RPCProvider", "BlockExplorer"},
         object' \in [Objects -> Feed(Object)], secret' \in [Secrets -> Feed(SecretData)],
         up' \subseteq Urls, tick' \in BOOLEAN, round' \in RoundType,
         answered' \in [Objects -> SUBSET Urls], events' \in 0..MaxEvents
  PROVE  TypeOK'
<1>1. /\ object' \in [Objects -> Seq(Object)] /\ \A o \in Objects : Len(object'[o]) > 0
  BY DEF Feed
<1>2. /\ secret' \in [Secrets -> Seq(SecretData)] /\ \A s \in Secrets : Len(secret'[s]) > 0
  BY DEF Feed
<1>3. round' \in [copies : [Objects -> Object], todo : SUBSET Objects, fresh : SUBSET Objects,
                  at : Objects, url : Urls \cup {""}]
  BY DEF RoundType, Endpoints
<1> QED
  BY <1>1, <1>2, <1>3 DEF TypeOK

LEMMA TypeInit ==
  ASSUME Init
  PROVE  TypeOK
<1>1. object \in [Objects -> Feed(Object)]
  <2>1. NoObject.secret \in Secrets /\ 1 \in Nat
    BY HealthAssumption DEF NoObject
  <2>2. <<Created(1, NoObject.secret)>> \in Feed(Object)
    BY <2>1, NewObjects, FeedList
  <2> QED
    BY <2>2 DEF Init
<1>2. secret \in [Secrets -> Feed(SecretData)]
  <2>1. PICK data \in [Secrets -> SecretData] : secret = [s \in Secrets |-> <<data[s]>>]
    BY DEF Init
  <2>2. \A s \in Secrets : <<data[s]>> \in Feed(SecretData)
    BY FeedList
  <2> QED
    BY <2>1, <2>2
<1>3. events \in 0..MaxEvents
  <2>1. events = 0 /\ MaxEvents \in Nat
    BY HealthAssumption DEF Init
  <2> QED
    BY <2>1
<1>4. /\ kind \in {"RPCProvider", "BlockExplorer"} /\ up \subseteq Urls /\ tick \in BOOLEAN
      /\ round \in RoundType /\ answered \in [Objects -> SUBSET Urls]
  BY WaitingTyped DEF Init
<1>5. /\ object \in [Objects -> Seq(Object)] /\ \A o \in Objects : Len(object[o]) > 0
  BY <1>1 DEF Feed
<1>6. /\ secret \in [Secrets -> Seq(SecretData)] /\ \A s \in Secrets : Len(secret[s]) > 0
  BY <1>2 DEF Feed
<1> QED
  BY <1>3, <1>4, <1>5, <1>6 DEF TypeOK, RoundType, Endpoints

LEMMA EventCounted ==
  ASSUME TypeOK, Event
  PROVE  events' \in 0..MaxEvents
<1>1. events \in 0..MaxEvents /\ MaxEvents \in Nat
  BY HealthAssumption DEF TypeOK
<1> QED
  BY <1>1 DEF Event

LEMMA ReportFields ==
  ASSUME TypeOK, NEW o \in Objects, NEW endpoint \in Endpoints, NEW healthy \in BOOLEAN
  PROVE  /\ WithReport(o, endpoint, healthy) \in Object
         /\ WithReport(o, endpoint, healthy).endpoint = endpoint
         /\ WithReport(o, endpoint, healthy).healthy = healthy
<1>1. round.copies[o] \in Object
  BY Typed
<1> QED
  BY <1>1 DEF WithReport, Object, Endpoints

\* What each handler writes has its type.
LEMMA RoundParts ==
  ASSUME TypeOK
  PROVE  /\ \A o \in Objects : Data(o) \in SecretData /\ Data(o).url \in Endpoints
         /\ round.url \in Endpoints /\ round.at \in Objects /\ Failure \in Endpoints
         /\ \A o \in Objects : NextAfter(o) =>
              /\ round' \in RoundType /\ round'.fresh = round.fresh \ {o}
              /\ \A p \in Objects \ {o} : round'.copies[p] = round.copies[p]
<1>1. round \in RoundType
  BY Typed
<1>2. ASSUME NEW o \in Objects PROVE Data(o) \in SecretData /\ Data(o).url \in Endpoints
  <2>1. round.copies[o].secret \in Secrets
    BY Typed, ObjectFields
  <2>2. Data(o) \in SecretData
    BY <2>1, Typed DEF Data
  <2>3. \A data \in SecretData : data.url \in Endpoints
    BY HealthAssumption DEF Endpoints
  <2> QED
    BY <2>2, <2>3
<1>3. round.url \in Endpoints /\ round.at \in Objects /\ Failure \in Endpoints
  BY <1>1 DEF RoundType, Failure, RPCProviderFailure, BlockExplorerFailure, Endpoints
<1>4. ASSUME NEW o \in Objects, NextAfter(o)
      PROVE  /\ round' \in RoundType /\ round'.fresh = round.fresh \ {o}
             /\ \A p \in Objects \ {o} : round'.copies[p] = round.copies[p]
  BY <1>1, <1>4, NewObjects, WaitingTyped DEF NextAfter, RoundType, Endpoints
<1> QED
  BY <1>2, <1>3, <1>4

\* A feed of one object is as it was, or a status of this round was appended.
LEMMA StatusWrittenTyped ==
  ASSUME TypeOK, NEW o \in Objects, NEW endpoint \in Endpoints, NEW healthy \in BOOLEAN
  PROVE  /\ WithReport(o, endpoint, healthy) \in Object
         /\ StatusWritten(o, endpoint, healthy) \in [Objects -> Feed(Object)]
         /\ \A p \in Objects \ {o} : StatusWritten(o, endpoint, healthy)[p] = object[p]
         /\ \/ StatusWritten(o, endpoint, healthy) = object
            \/ /\ o \in round.fresh
               /\ Server(StatusWritten(o, endpoint, healthy)[o]) = WithReport(o, endpoint, healthy)
<1> DEFINE new == WithReport(o, endpoint, healthy)
<1>1. new \in Object
  BY ReportFields
<1>2. \/ StatusWritten(o, endpoint, healthy) = object
      \/ /\ o \in round.fresh
         /\ StatusWritten(o, endpoint, healthy) = [object EXCEPT ![o] = Append(object[o], new)]
  BY DEF StatusWritten, WithReport
<1>3. object \in [Objects -> Feed(Object)] /\ object[o] \in Feed(Object)
  BY Typed
<1> HIDE DEF new
<1>4. Append(object[o], new) \in Feed(Object) /\ Server(Append(object[o], new)) = new
  BY <1>1, <1>3, FeedAppend DEF Server, Last
<1>5. CASE StatusWritten(o, endpoint, healthy) = object
  BY <1>1, <1>3, <1>5 DEF new
<1>6. CASE /\ o \in round.fresh
           /\ StatusWritten(o, endpoint, healthy) = [object EXCEPT ![o] = Append(object[o], new)]
  BY <1>1, <1>3, <1>4, <1>6 DEF new
<1> QED
  BY <1>2, <1>5, <1>6

LEMMA ObjectWriteTyped ==
  ASSUME TypeOK, NEW o \in Objects, NEW new \in Object, WriteObject(o, new)
  PROVE  /\ object' \in [Objects -> Feed(Object)] /\ Server(object'[o]) = new
         /\ \A p \in Objects \ {o} : object'[p] = object[p]
         /\ round' \in RoundType /\ round'.copies = round.copies /\ round'.fresh = round.fresh \ {o}
<1>1. object \in [Objects -> Feed(Object)] /\ object[o] \in Feed(Object) /\ round \in RoundType
  BY Typed
<1>2. Append(object[o], new) \in Feed(Object) /\ Server(Append(object[o], new)) = new
  BY <1>1, FeedAppend DEF Server, Last
<1>3. object' = [object EXCEPT ![o] = Append(object[o], new)]
  BY DEF WriteObject
<1>4. /\ object' \in [Objects -> Feed(Object)] /\ Server(object'[o]) = new
      /\ \A p \in Objects \ {o} : object'[p] = object[p]
  BY <1>1, <1>2, <1>3
<1>5. /\ round' \in RoundType /\ round'.copies = round.copies /\ round'.fresh = round.fresh \ {o}
  BY <1>1 DEF WriteObject, RoundType
<1> QED
  BY <1>4, <1>5

-------------------------------------------------------------------------------
(* The inductive invariant *)

\* What the check in progress may still write over is what the API server has,
\* and it lives.
RoundSane ==
  \A o \in round.fresh : round.copies[o].alive /\ round.copies[o] = Server(object[o])

HInv == TypeOK /\ RoundSane /\ ReportsMakeSense /\ HealthyWasAnswered

\* A report makes sense, and one that vouches for an endpoint had its answer.
MakesSense(endpoint, healthy) ==
  /\ healthy => endpoint # ""
  /\ kind = "BlockExplorer" /\ ~healthy => endpoint = ""

LEMMA InvariantInit ==
  ASSUME Init
  PROVE  HInv
<1>1. TypeOK
  BY TypeInit
<1>2. RoundSane
  BY WaitingTyped DEF Init, RoundSane
<1>3. \A o \in Objects : ~Server(object[o]).healthy /\ Server(object[o]).endpoint = ""
  <2>1. NoObject.secret \in Secrets /\ 1 \in Nat
    BY NewObjects DEF Object
  <2>2. \A o \in Objects : Server(object[o]) = Created(1, NoObject.secret)
    BY DEF Init, Server
  <2> QED
    BY <2>1, <2>2, NewObjects
<1> QED
  BY <1>1, <1>2, <1>3 DEF HInv, ReportsMakeSense, HealthyWasAnswered

\* Steps that leave every object of the API server as it is.
LEMMA ObjectsKept ==
  ASSUME HInv, TypeOK', RoundSane', kind' = kind, answered' = answered,
         \A o \in Objects : Server(object'[o]) = Server(object[o])
  PROVE  HInv'
<1>1. ReportsMakeSense' /\ HealthyWasAnswered'
  BY DEF HInv, ReportsMakeSense, HealthyWasAnswered, Server
<1> QED
  BY <1>1 DEF HInv

\* Steps that write, or would write, what a check of one object found.
LEMMA UpdateStatusStep ==
  ASSUME HInv, NEW o \in Objects, NEW endpoint \in Endpoints, NEW healthy \in BOOLEAN,
         UpdateStatus(o, endpoint, healthy), MakesSense(endpoint, healthy),
         kind' = kind, secret' = secret, up' = up, tick' = tick, events' \in 0..MaxEvents,
         \/ ~healthy /\ answered' = answered
         \/ healthy /\ answered' = IF Current(o) THEN [answered EXCEPT ![o] = @ \cup {endpoint}] ELSE answered,
         healthy => endpoint \in Urls
  PROVE  HInv'
<1> DEFINE new == WithReport(o, endpoint, healthy)
<1>0. TypeOK /\ RoundSane
  BY DEF HInv
<1>1. /\ object' \in [Objects -> Feed(Object)]
      /\ \A p \in Objects \ {o} : object'[p] = object[p]
      /\ object' = object \/ (o \in round.fresh /\ Server(object'[o]) = new)
  BY <1>0, StatusWrittenTyped DEF UpdateStatus
<1>2. /\ round' \in RoundType /\ round'.fresh = round.fresh \ {o}
      /\ \A p \in Objects \ {o} : round'.copies[p] = round.copies[p]
  BY <1>0, RoundParts DEF UpdateStatus
<1>3. /\ answered \in [Objects -> SUBSET Urls] /\ answered' \in [Objects -> SUBSET Urls]
      /\ \A p \in Objects : answered[p] \subseteq answered'[p]
      /\ healthy /\ Current(o) => endpoint \in answered'[o]
  <2>1. answered \in [Objects -> SUBSET Urls]
    BY <1>0 DEF TypeOK
  <2>2. CASE answered' = answered /\ ~healthy
    BY <2>1, <2>2
  <2>3. CASE answered' = answered /\ ~Current(o)
    BY <2>1, <2>3
  <2>4. CASE Current(o) /\ healthy /\ answered' = [answered EXCEPT ![o] = @ \cup {endpoint}]
    BY <2>1, <2>4
  <2> QED
    BY <2>1, <2>2, <2>3, <2>4, Zenon
<1>4. TypeOK'
  <2>1. kind \in {"RPCProvider", "BlockExplorer"} /\ up \subseteq Urls /\ tick \in BOOLEAN
    BY <1>0 DEF TypeOK
  <2>2. secret' \in [Secrets -> Feed(SecretData)]
    BY <1>0, Typed
  <2> QED
    BY <1>1, <1>2, <1>3, <2>1, <2>2, TypeFromParts
<1>5. RoundSane'
  <2>1. round.fresh \subseteq Objects
    BY <1>0, Typed DEF RoundType
  <2> QED
    BY <1>0, <1>1, <1>2, <2>1 DEF RoundSane
<1>6. ASSUME NEW p \in Objects
      PROVE  /\ Server(object'[p]).healthy => Server(object'[p]).endpoint # ""
             /\ kind = "BlockExplorer" /\ ~Server(object'[p]).healthy => Server(object'[p]).endpoint = ""
             /\ Server(object'[p]).alive /\ Server(object'[p]).healthy =>
                  Server(object'[p]).endpoint \in answered'[p]
  <2>1. CASE object'[p] = object[p]
    <3> DEFINE old == Server(object[p])
    <3>1. /\ old.healthy => old.endpoint # ""
          /\ kind = "BlockExplorer" /\ ~old.healthy => old.endpoint = ""
          /\ old.alive /\ old.healthy => old.endpoint \in answered[p]
      BY DEF HInv, ReportsMakeSense, HealthyWasAnswered
    <3>2. Server(object'[p]) = old
      BY <2>1
    <3> HIDE DEF old
    <3>3. old.endpoint \in answered[p] => old.endpoint \in answered'[p]
      BY <1>3
    <3> QED
      BY <3>1, <3>2, <3>3, Zenon
  <2>2. CASE p = o /\ o \in round.fresh /\ Server(object'[o]) = new
    <3>1. new.endpoint = endpoint /\ new.healthy = healthy
      BY <1>0, ReportFields
    <3>2. Current(o)
      BY <1>0, <2>2 DEF RoundSane, Current
    <3> HIDE DEF new
    <3> QED
      BY <1>3, <2>2, <3>1, <3>2 DEF MakesSense
  <2> QED
    BY <1>1, <2>1, <2>2
<1> QED
  BY <1>4, <1>5, <1>6 DEF HInv, ReportsMakeSense, HealthyWasAnswered

\* Steps of the users: an object is created, edited or deleted.
LEMMA WriteObjectStep ==
  ASSUME HInv, NEW o \in Objects, NEW new \in Object, WriteObject(o, new),
         new.healthy => new.endpoint # "",
         kind = "BlockExplorer" /\ ~new.healthy => new.endpoint = "",
         answered' = answered \/ (~new.alive /\ answered' = [answered EXCEPT ![o] = {}]),
         new.alive /\ new.healthy => new.endpoint \in answered[o]
  PROVE  HInv'
<1>0. TypeOK /\ RoundSane
  BY DEF HInv
<1>1. /\ object' \in [Objects -> Feed(Object)] /\ Server(object'[o]) = new
      /\ \A p \in Objects \ {o} : object'[p] = object[p]
      /\ round' \in RoundType /\ round'.copies = round.copies /\ round'.fresh = round.fresh \ {o}
  BY <1>0, ObjectWriteTyped
<1>2. /\ answered' \in [Objects -> SUBSET Urls]
      /\ \A p \in Objects \ {o} : answered'[p] = answered[p]
      /\ new.alive => answered'[o] = answered[o]
  BY <1>0 DEF TypeOK
<1>3. /\ kind' = kind /\ secret' = secret /\ up' = up /\ tick' = tick /\ events' \in 0..MaxEvents
  BY <1>0, EventCounted DEF WriteObject
<1>4. TypeOK'
  <2>1. kind \in {"RPCProvider", "BlockExplorer"} /\ up \subseteq Urls /\ tick \in BOOLEAN
    BY <1>0 DEF TypeOK
  <2>2. secret' \in [Secrets -> Feed(SecretData)]
    BY <1>0, <1>3, Typed
  <2> QED
    BY <1>1, <1>2, <1>3, <2>1, <2>2, TypeFromParts
<1>5. RoundSane'
  <2>1. round.fresh \subseteq Objects
    BY <1>0, Typed DEF RoundType
  <2> QED
    BY <1>0, <1>1, <2>1 DEF RoundSane
<1>6. ASSUME NEW p \in Objects
      PROVE  /\ Server(object'[p]).healthy => Server(object'[p]).endpoint # ""
             /\ kind = "BlockExplorer" /\ ~Server(object'[p]).healthy => Server(object'[p]).endpoint = ""
             /\ Server(object'[p]).alive /\ Server(object'[p]).healthy =>
                  Server(object'[p]).endpoint \in answered'[p]
  <2>1. CASE p # o
    BY <1>1, <1>2, <2>1 DEF HInv, ReportsMakeSense, HealthyWasAnswered
  <2>2. CASE p = o
    BY <1>1, <1>2, <2>2
  <2> QED
    BY <2>1, <2>2
<1> QED
  BY <1>3, <1>4, <1>5, <1>6 DEF HInv, ReportsMakeSense, HealthyWasAnswered

\* What only the informers and the process change.
LEMMA FeedsKept ==
  ASSUME TypeOK, Sync \/ Restart
  PROVE  /\ object' \in [Objects -> Feed(Object)] /\ secret' \in [Secrets -> Feed(SecretData)]
         /\ \A o \in Objects : Server(object'[o]) = Server(object[o])
<1>0. /\ object \in [Objects -> Feed(Object)] /\ secret \in [Secrets -> Feed(SecretData)]
      /\ \A o \in Objects : object[o] \in Feed(Object)
      /\ \A s \in Secrets : secret[s] \in Feed(SecretData)
  BY Typed
<1>1. ASSUME NEW o \in Objects, Len(object[o]) > 1
      PROVE  Tail(object[o]) \in Feed(Object) /\ Server(Tail(object[o])) = Server(object[o])
  BY <1>0, <1>1, FeedTail DEF Server, Last
<1>2. ASSUME NEW s \in Secrets, Len(secret[s]) > 1
      PROVE  Tail(secret[s]) \in Feed(SecretData)
  BY <1>0, <1>2, FeedTail
<1>3. ASSUME NEW o \in Objects, Len(object[o]) > 1, object' = [object EXCEPT ![o] = Tail(@)],
             UNCHANGED secret
      PROVE  /\ object' \in [Objects -> Feed(Object)] /\ secret' \in [Secrets -> Feed(SecretData)]
             /\ \A p \in Objects : Server(object'[p]) = Server(object[p])
  <2>1. \A p \in Objects : object'[p] = IF p = o THEN Tail(object[o]) ELSE object[p]
    BY <1>0, <1>3
  <2>2. object' \in [Objects -> Feed(Object)]
    BY <1>0, <1>1, <1>3
  <2> QED
    BY <1>0, <1>1, <1>3, <2>1, <2>2
<1>4. ASSUME NEW s \in Secrets, Len(secret[s]) > 1, secret' = [secret EXCEPT ![s] = Tail(@)],
             UNCHANGED object
      PROVE  /\ object' \in [Objects -> Feed(Object)] /\ secret' \in [Secrets -> Feed(SecretData)]
             /\ \A p \in Objects : Server(object'[p]) = Server(object[p])
  BY <1>0, <1>2, <1>4
<1>5. CASE Restart
  <2>1. \A o \in Objects : /\ <<Server(object[o])>> \in Feed(Object)
                           /\ Server(<<Server(object[o])>>) = Server(object[o])
    BY Typed, FeedList DEF Server
  <2>2. \A s \in Secrets : <<Server(secret[s])>> \in Feed(SecretData)
    BY Typed, FeedList
  <2>3. /\ object' = [o \in Objects |-> <<Server(object[o])>>]
        /\ secret' = [s \in Secrets |-> <<Server(secret[s])>>]
    BY <1>5 DEF Restart
  <2> QED
    BY <2>1, <2>2, <2>3
<1> QED
  BY <1>3, <1>4, <1>5 DEF Sync

LEMMA InvariantInductive ==
  ASSUME HInv, [Next]_vars
  PROVE  HInv'
<1>0. /\ TypeOK /\ RoundSane
      /\ kind \in {"RPCProvider", "BlockExplorer"} /\ up \subseteq Urls /\ tick \in BOOLEAN
      /\ answered \in [Objects -> SUBSET Urls] /\ events \in 0..MaxEvents
      /\ round \in RoundType
      /\ object \in [Objects -> Feed(Object)] /\ secret \in [Secrets -> Feed(SecretData)]
  BY Typed DEF HInv, TypeOK
<1>1. Event => events' \in 0..MaxEvents
  BY <1>0, EventCounted
<1>2. CASE \/ Tick \/ ListFails \/ UNCHANGED vars
           \/ \E s \in Secrets, data \in SecretData : WriteSecret(s, data)
           \/ \E url \in Urls : Switch(url)
  <2>1. /\ object' = object /\ round' = round /\ answered' = answered /\ kind' = kind
        /\ tick' \in BOOLEAN /\ (events' = events \/ Event)
    BY <1>0, <1>2 DEF Tick, ListFails, WriteSecret, Switch, vars, world
  <2>2. secret' \in [Secrets -> Feed(SecretData)]
    <3>1. ASSUME NEW s \in Secrets, NEW data \in SecretData, WriteSecret(s, data)
          PROVE  secret' \in [Secrets -> Feed(SecretData)]
      <4>1. Append(secret[s], data) \in Feed(SecretData)
        BY <1>0, FeedAppend
      <4> QED
        BY <1>0, <3>1, <4>1 DEF WriteSecret
    <3> QED
      BY <1>0, <1>2, <3>1 DEF Tick, ListFails, Switch, vars, world
  <2>3. up' \subseteq Urls
    BY <1>0, <1>2 DEF Tick, ListFails, WriteSecret, Switch, vars, world
  <2>4. TypeOK'
    BY <1>0, <1>1, <2>1, <2>2, <2>3, TypeFromParts
  <2>5. RoundSane'
    BY <1>0, <2>1 DEF RoundSane
  <2> QED
    BY <2>1, <2>4, <2>5, ObjectsKept
<1>3. CASE List
  <2> DEFINE living == {o \in Objects : View(object[o]).alive}
             lists == [o \in Objects |-> IF o \in living THEN View(object[o]) ELSE NoObject]
  <2>1. /\ round' = [Waiting EXCEPT !.todo = living, !.copies = lists,
                                    !.fresh = {o \in living : Len(object[o]) = 1}]
        /\ object' = object /\ answered' = answered /\ kind' = kind /\ secret' = secret
        /\ up' = up /\ tick' = FALSE /\ events' = events
    BY <1>3 DEF List, world
  <2>2. lists \in [Objects -> Object]
    BY <1>0, Typed, NewObjects
  <2> HIDE DEF lists
  <2>3. /\ round' \in RoundType /\ round'.copies = lists
        /\ round'.fresh = {o \in living : Len(object[o]) = 1}
    BY <2>1, <2>2, WaitingTyped DEF RoundType
  <2>4. TypeOK'
    BY <1>0, <2>1, <2>3, TypeFromParts
  <2>5. RoundSane'
    <3>1. ASSUME NEW o \in round'.fresh
          PROVE  round'.copies[o].alive /\ round'.copies[o] = Server(object[o])
      <4>1. /\ o \in Objects /\ View(object[o]).alive /\ Len(object[o]) = 1
            /\ round'.copies[o] = View(object[o])
        BY <2>3 DEF lists
      <4> QED
        BY <4>1 DEF View, Server
    <3> QED
      BY <2>1, <3>1 DEF RoundSane
  <2> QED
    BY <2>1, <2>4, <2>5, ObjectsKept
<1>4. ASSUME NEW o \in Objects, Ask(o) PROVE HInv'
  <2>1. /\ round' = [round EXCEPT !.at = o, !.url = Data(o).url]
        /\ object' = object /\ answered' = answered /\ kind' = kind /\ secret' = secret
        /\ up' = up /\ tick' = tick /\ events' = events
    BY <1>4 DEF Ask, world
  <2>2. Data(o).url \in Endpoints
    BY <1>0, RoundParts
  <2>3. round' \in RoundType /\ round'.copies = round.copies /\ round'.fresh = round.fresh
    BY <1>0, <2>1, <2>2 DEF RoundType
  <2>4. TypeOK'
    BY <1>0, <2>1, <2>3, TypeFromParts
  <2>5. RoundSane'
    BY <1>0, <2>1, <2>3 DEF RoundSane
  <2> QED
    BY <2>1, <2>4, <2>5, ObjectsKept
<1>5. CASE UpdateStatusFails
  <2>1. /\ object' = object /\ answered' = answered /\ kind' = kind /\ secret' = secret
        /\ up' = up /\ tick' = tick /\ Event
    BY <1>5 DEF UpdateStatusFails, world
  <2>2. PICK o \in Objects : NextAfter(o)
    BY <1>0, <1>5 DEF UpdateStatusFails, RoundType
  <2>3. /\ round' \in RoundType /\ round'.fresh = round.fresh \ {o} /\ round.fresh \subseteq Objects
        /\ \A p \in Objects \ {o} : round'.copies[p] = round.copies[p]
    BY <1>0, <2>2, RoundParts DEF RoundType
  <2>4. TypeOK'
    BY <1>0, <1>1, <2>1, <2>3, TypeFromParts
  <2>5. RoundSane'
    BY <1>0, <2>1, <2>3 DEF RoundSane
  <2> QED
    BY <2>1, <2>4, <2>5, ObjectsKept
<1>6. CASE Sync
  <2>1. /\ answered' = answered /\ kind' = kind /\ up' = up /\ tick' = tick
        /\ events' = events /\ round' = round
    BY <1>6 DEF Sync
  <2>2. /\ object' \in [Objects -> Feed(Object)] /\ secret' \in [Secrets -> Feed(SecretData)]
        /\ \A o \in Objects : Server(object'[o]) = Server(object[o])
    BY <1>0, <1>6, FeedsKept
  <2>3. TypeOK'
    BY <1>0, <2>1, <2>2, TypeFromParts
  <2>4. RoundSane'
    BY <1>0, <2>1, <2>2 DEF RoundSane, RoundType
  <2> QED
    BY <2>1, <2>2, <2>3, <2>4, ObjectsKept
<1>7. CASE Restart
  <2>1. /\ answered' = answered /\ kind' = kind /\ up' = up /\ tick' = FALSE
        /\ Event /\ round' = Waiting
    BY <1>7 DEF Restart
  <2>2. /\ object' \in [Objects -> Feed(Object)] /\ secret' \in [Secrets -> Feed(SecretData)]
        /\ \A o \in Objects : Server(object'[o]) = Server(object[o])
    BY <1>0, <1>7, FeedsKept
  <2>3. TypeOK'
    BY <1>0, <1>1, <2>1, <2>2, WaitingTyped, TypeFromParts
  <2>4. RoundSane'
    BY <2>1, WaitingTyped DEF RoundSane
  <2> QED
    BY <2>1, <2>2, <2>3, <2>4, ObjectsKept
<1>8. CASE (\E o \in Objects : SecretUnusable(o)) \/ AnswerGood \/ AnswerBad \/ AnswerLate
  <2>1. /\ kind' = kind /\ secret' = secret /\ up' = up /\ tick' = tick /\ events' \in 0..MaxEvents
    BY <1>0, <1>1, <1>8 DEF SecretUnusable, AnswerGood, AnswerBad, AnswerLate, world
  <2>2. ASSUME NEW o \in Objects, SecretUnusable(o) PROVE HInv'
    <3>1. UpdateStatus(o, "", FALSE) /\ answered' = answered
      BY <2>2 DEF SecretUnusable
    <3> QED
      BY <2>1, <3>1, UpdateStatusStep DEF Endpoints, MakesSense
  <2>3. round.at \in Objects /\ round.url \in Endpoints /\ Failure \in Endpoints
    BY <1>0, RoundParts
  <2>4. CASE AnswerGood
    <3>1. /\ UpdateStatus(round.at, round.url, TRUE) /\ round.url # ""
          /\ answered' = IF Current(round.at)
                         THEN [answered EXCEPT ![round.at] = @ \cup {round.url}] ELSE answered
      BY <2>4 DEF AnswerGood
    <3>2. round.url \in Urls
      BY <2>3, <3>1 DEF Endpoints
    <3> QED
      BY <2>1, <2>3, <3>1, <3>2, UpdateStatusStep DEF MakesSense
  <2>5. CASE AnswerBad \/ AnswerLate
    <3>1. UpdateStatus(round.at, Failure, FALSE) /\ answered' = answered
      BY <2>5 DEF AnswerBad, AnswerLate
    <3>2. MakesSense(Failure, FALSE)
      BY DEF MakesSense, Failure, BlockExplorerFailure
    <3> QED
      BY <2>1, <2>3, <3>1, <3>2, UpdateStatusStep
  <2> QED
    BY <1>8, <2>2, <2>4, <2>5
<1>9. ASSUME NEW o \in Objects, NEW s \in Secrets, CreateObject(o, s) PROVE HInv'
  <2> DEFINE uid == Server(object[o]).uid + 1
  <2>1. WriteObject(o, Created(uid, s)) /\ answered' = answered
    BY <1>9 DEF CreateObject
  <2>2. uid \in Nat
    BY <1>0, Typed, ObjectFields
  <2> HIDE DEF uid
  <2>3. /\ Created(uid, s) \in Object
        /\ ~Created(uid, s).healthy /\ Created(uid, s).endpoint = ""
    BY <2>2, NewObjects
  <2> QED
    BY <2>1, <2>3, WriteObjectStep
<1>10. ASSUME NEW o \in Objects, NEW s \in Secrets, EditObject(o, s) PROVE HInv'
  <2> DEFINE new == [Server(object[o]) EXCEPT !.secret = s]
  <2>1. WriteObject(o, new) /\ answered' = answered
    BY <1>10 DEF EditObject
  <2>2. /\ new \in Object /\ new.alive = Server(object[o]).alive
        /\ new.endpoint = Server(object[o]).endpoint /\ new.healthy = Server(object[o]).healthy
    <3>1. Server(object[o]) \in Object
      BY <1>0, Typed
    <3> QED
      BY <3>1 DEF Object
  <2> HIDE DEF new
  <2>3. /\ new.healthy => new.endpoint # ""
        /\ kind = "BlockExplorer" /\ ~new.healthy => new.endpoint = ""
        /\ new.alive /\ new.healthy => new.endpoint \in answered[o]
    BY <2>2 DEF HInv, ReportsMakeSense, HealthyWasAnswered
  <2> QED
    BY <2>1, <2>2, <2>3, WriteObjectStep
<1>11. ASSUME NEW o \in Objects, DeleteObject(o) PROVE HInv'
  <2> DEFINE new == [NoObject EXCEPT !.uid = Server(object[o]).uid]
  <2>1. WriteObject(o, new) /\ answered' = [answered EXCEPT ![o] = {}]
    BY <1>11 DEF DeleteObject
  <2>2. Server(object[o]).uid \in Nat
    BY <1>0, Typed, ObjectFields
  <2>3. new \in Object /\ ~new.alive /\ ~new.healthy /\ new.endpoint = ""
    BY <2>2, NewObjects
  <2> HIDE DEF new
  <2> QED
    BY <2>1, <2>3, WriteObjectStep
<1> QED
  BY <1>2, <1>3, <1>4, <1>5, <1>6, <1>7, <1>8, <1>9, <1>10, <1>11 DEF Next, Check

LEMMA InvariantHolds == Spec => []HInv
<1>1. Init => HInv
  BY InvariantInit
<1>2. HInv /\ [Next]_vars => HInv'
  BY InvariantInductive
<1> QED
  BY <1>1, <1>2, PTL DEF Spec

-------------------------------------------------------------------------------
(* What the users and the Network reconciler may rely on *)

\* Every variable keeps its type, for any number of objects that share Secrets.
THEOREM TypeCorrect == Spec => []TypeOK
<1>1. HInv => TypeOK
  BY DEF HInv
<1> QED
  BY <1>1, InvariantHolds, PTL

\* A status never vouches for an endpoint that did not answer a check of this
\* incarnation of the object: the status that a slow check of a former object
\* finds is refused, since the copy it goes into is no longer the API server's.
THEOREM HealthyStatusesWereAnswered == Spec => []HealthyWasAnswered
<1>1. HInv => HealthyWasAnswered
  BY DEF HInv
<1> QED
  BY <1>1, InvariantHolds, PTL

\* What NetworkController takes for granted of the statuses that it reads: a
\* healthy one has an endpoint, and a BlockExplorer that is not healthy has none.
THEOREM StatusesMakeSense == Spec => []ReportsMakeSense
<1>1. HInv => ReportsMakeSense
  BY DEF HInv
<1> QED
  BY <1>1, InvariantHolds, PTL
===============================================================================
