----------------------- MODULE ContractControllerProofs -----------------------
(****************************************************************************)
(* Theorems about ContractController, for every set of Contracts, Networks, *)
(* specs and ConfigMaps and every bound.                                    *)
(****************************************************************************)
EXTENDS ContractController, SequenceTheorems, TLAPS

-------------------------------------------------------------------------------
(* Histories *)

\* The history of c is written: one entry is appended, the others stay.
Written(c, object) == contract' = [contract EXCEPT ![c] = Append(@, object)]

\* What an appended entry does to a history.
LEMMA HistoryGrows ==
  ASSUME contract \in [Contracts -> Seq(Object)], NEW c \in Contracts, NEW object \in Object,
         Written(c, object)
  PROVE  /\ contract' \in [Contracts -> Seq(Object)]
         /\ Len(contract'[c]) = Len(contract[c]) + 1
         /\ contract'[c][Len(contract[c]) + 1] = object
         /\ \A i \in 1..Len(contract[c]) : contract'[c][i] = contract[c][i]
         /\ \A d \in Contracts \ {c} : contract'[d] = contract[d]
<1>1. contract[c] \in Seq(Object)
  OBVIOUS
<1>2. contract'[c] = Append(contract[c], object)
  BY DEF Written
<1>3. /\ Append(contract[c], object) \in Seq(Object)
      /\ Len(Append(contract[c], object)) = Len(contract[c]) + 1
      /\ \A i \in 1..Len(contract[c]) : Append(contract[c], object)[i] = contract[c][i]
      /\ Append(contract[c], object)[Len(contract[c]) + 1] = object
  BY <1>1, AppendProperties
<1>4. \A d \in Contracts \ {c} : contract'[d] = contract[d]
  BY DEF Written
<1>5. contract' \in [Contracts -> Seq(Object)]
  BY <1>2, <1>3 DEF Written
<1> QED
  BY <1>2, <1>3, <1>4, <1>5

\* The entries that TypeOK says are read.
LEMMA EntriesTyped ==
  ASSUME TypeOK
  PROVE  /\ Copy \in Object
         /\ Copy.spec \in SpecType
         /\ \A c \in Contracts : Live(c) \in Object /\ Len(contract[c]) \in Nat \ {0}
<1>1. \A c \in Contracts : contract[c] \in Seq(Object)
  BY DEF TypeOK
<1>2. \A c \in Contracts : Len(contract[c]) \in Nat \ {0} /\ Len(contract[c]) \in 1..Len(contract[c])
  BY <1>1 DEF TypeOK
<1>3. \A c \in Contracts, i \in Nat : i \in 1..Len(contract[c]) => contract[c][i] \in Object
  BY <1>1, ElementOfSeq
<1>4. run.key \in Contracts /\ run.at \in 1..Len(contract[run.key]) /\ run.at \in Nat
  BY DEF TypeOK
<1>5. Copy \in Object
  BY <1>3, <1>4 DEF Copy
<1>6. Copy.spec \in SpecType
  BY <1>5, ContractAssumption DEF Object
<1> QED
  BY <1>2, <1>3, <1>5, <1>6 DEF Live

LEMMA LiveTyped == TypeOK => \A c \in Contracts : Live(c) \in Object
BY EntriesTyped

LEMMA LiveTypedNext == TypeOK' => (\A c \in Contracts : Live(c) \in Object)'
BY LiveTyped, PTL

\* The i-th network of the fetched spec is a network.
LEMMA NetworkTyped ==
  ASSUME TypeOK, run.i <= Len(Copy.spec.nets)
  PROVE  /\ Copy.spec.nets[run.i] \in Networks
         /\ NextVersion \in Version
<1>1. Copy \in Object /\ Copy.spec.nets \in Seq(Networks) /\ Copy.spec.wallet \in STRING
  BY EntriesTyped DEF SpecType
<1>2. run.i \in Nat \ {0} /\ run.key \in Contracts /\ run.text \in [Parts -> Texts]
  BY DEF TypeOK
<1>3. Copy.spec.nets[run.i] \in Networks
  BY <1>1, <1>2, ElementOfSeq
<1>4. run.key \o Copy.spec.nets[run.i] \in Seq(STRING)
  BY <1>2, <1>3, ContractAssumption, ConcatProperties
<1> QED
  BY <1>1, <1>2, <1>3, <1>4 DEF NextVersion, Version, VersionName, Object

\* A text that could be resolved is a text.
LEMMA ResolvedTyped ==
  ASSUME TypeOK, NEW p \in Parts, Resolved(p) # Missing
  PROVE  Resolved(p) \in Texts
<1>1. Copy.spec.inline[p] \in Texts /\ Copy.spec.ref[p] \in Keys \cup {NoRef}
  BY EntriesTyped DEF SpecType
<1>2. config[configSeen] \in [Keys -> Texts \cup {Missing}]
  BY ElementOfSeq, ContractAssumption DEF TypeOK
<1> QED
  BY <1>1, <1>2 DEF Resolved

-------------------------------------------------------------------------------
(* Type correctness *)

LEMMA TypeInit == Init => TypeOK
<1> SUFFICES ASSUME Init PROVE TypeOK
  OBVIOUS
<1>1. NeverCreated \in Object
  BY ContractAssumption DEF NeverCreated, Object
<1>2. <<NeverCreated>> \in Seq(Object) /\ Len(<<NeverCreated>>) = 1
  BY <1>1
<1>3. PICK data \in ConfigMaps : config = <<data>>
  BY DEF Init
<1>4. config \in Seq(ConfigMaps) /\ configSeen \in 1..Len(config)
  BY <1>3 DEF Init
<1>5. /\ Idle \in [pc : Stages, key : Contracts, at : Nat, text : [Parts -> Texts], i : Nat \ {0}]
      /\ Idle.at = 1
  BY ContractAssumption DEF Idle, Stages
<1> QED
  BY <1>2, <1>4, <1>5, ContractAssumption DEF Init, TypeOK

\* What TypeOK says of the reconcile, and what ends one.
RunTyped ==
  /\ run \in [pc : Stages, key : Contracts, at : Nat, text : [Parts -> Texts], i : Nat \ {0}]
  /\ run.at \in 1..Len(contract[run.key])

LEMMA IdleTyped ==
  ASSUME contract \in [Contracts -> Seq(Object)], \A c \in Contracts : Len(contract[c]) > 0
  PROVE  /\ Idle \in [pc : Stages, key : Contracts, at : Nat, text : [Parts -> Texts], i : Nat \ {0}]
         /\ Idle.at \in 1..Len(contract[Idle.key])
<1>1. Idle.key \in Contracts /\ Idle.at = 1
  BY ContractAssumption DEF Idle
<1>2. Len(contract[Idle.key]) \in Nat
  BY <1>1
<1> QED
  BY <1>1, <1>2, ContractAssumption DEF Idle, Stages

\* A write of a Contract keeps what TypeOK says of the variables that index it.
LEMMA WriteTyped ==
  ASSUME TypeOK, NEW c \in Contracts, NEW object \in Object, Written(c, object),
         seen' = seen, UNCHANGED <<config, configSeen>>,
         versions' \subseteq Version, queue' \subseteq Contracts, faults' \in 0..MaxFaults,
         run' = run \/ run' = Idle
  PROVE  TypeOK'
<1>1. /\ contract' \in [Contracts -> Seq(Object)]
      /\ \A d \in Contracts : Len(contract'[d]) \in Nat /\ Len(contract[d]) <= Len(contract'[d])
  <2>1. contract \in [Contracts -> Seq(Object)]
    BY DEF TypeOK
  <2>2. \A d \in Contracts : Len(contract[d]) \in Nat
    BY <2>1
  <2>3. /\ contract' \in [Contracts -> Seq(Object)]
        /\ Len(contract'[c]) = Len(contract[c]) + 1
        /\ \A d \in Contracts \ {c} : contract'[d] = contract[d]
    BY <2>1, HistoryGrows
  <2> QED
    BY <2>2, <2>3
<1>2. \A d \in Contracts : seen[d] \in 1..Len(contract[d]) /\ seen[d] \in Nat /\ Len(contract[d]) \in Nat
  BY DEF TypeOK
<1>3. \A d \in Contracts : seen'[d] \in 1..Len(contract'[d])
  BY <1>1, <1>2
<1>4. RunTyped'
  <2>1. CASE run' = run
    BY <2>1, <1>1 DEF TypeOK, RunTyped
  <2>2. CASE run' = Idle
    <3>1. Idle.key \in Contracts /\ Idle.at = 1
      BY ContractAssumption DEF Idle
    <3>2. Idle \in [pc : Stages, key : Contracts, at : Nat, text : [Parts -> Texts], i : Nat \ {0}]
      BY ContractAssumption DEF Idle, Stages
    <3> QED
      BY <2>2, <3>1, <3>2, <1>1, <1>2 DEF RunTyped
  <2> QED
    BY <2>1, <2>2
<1> QED
  BY <1>1, <1>3, <1>4 DEF TypeOK, RunTyped

LEMMA TypeInductive == TypeOK /\ [Next]_vars => TypeOK'
<1> SUFFICES ASSUME TypeOK, [Next]_vars PROVE TypeOK'
  OBVIOUS
<1> USE ContractAssumption
<1>a. /\ Idle \in [pc : Stages, key : Contracts, at : Nat, text : [Parts -> Texts], i : Nat \ {0}]
      /\ Idle.at \in 1..Len(contract[Idle.key])
  <2>1. \A c \in Contracts : Len(contract[c]) > 0
    BY EntriesTyped
  <2> QED
    BY <2>1, IdleTyped DEF TypeOK
<1>1. ASSUME NEW c \in Contracts, Fetch(c) PROVE TypeOK'
  <2>1. CASE FetchMissing(c)
    BY <2>1 DEF FetchMissing, TypeOK
  <2>2. CASE FetchFound(c)
    <3>1. run' \in [pc : Stages, key : Contracts, at : Nat, text : [Parts -> Texts], i : Nat \ {0}]
      BY <2>2, <1>a DEF FetchFound, TypeOK, Stages, Parts
    <3>2. run'.key = c /\ run'.at = seen[c]
      BY <2>2 DEF FetchFound, Idle
    <3> QED
      BY <2>2, <3>1, <3>2 DEF FetchFound, TypeOK
  <2> QED
    BY <1>1, <2>1, <2>2 DEF Fetch
<1>2. ASSUME NEW p \in Parts, ResolveText(p) PROVE TypeOK'
  <2> DEFINE text == [run.text EXCEPT ![p] = Resolved(p)]
  <2>1. text \in [Parts -> Texts]
    BY <1>2, ResolvedTyped DEF ResolveText, TypeOK
  <2>2. After(p) \in Stages
    BY DEF After, Stages, Parts
  <2>3. CASE NothingToDeploy(p, text)
    BY <1>2, <1>a, <2>3 DEF ResolveText, Done, TypeOK
  <2>4. CASE ~NothingToDeploy(p, text)
    <3>1. run' = [run EXCEPT !.pc = After(p), !.text = text] /\ UNCHANGED queue
      BY <1>2, <2>4 DEF ResolveText
    <3>2. /\ run' \in [pc : Stages, key : Contracts, at : Nat, text : [Parts -> Texts], i : Nat \ {0}]
          /\ run'.key = run.key /\ run'.at = run.at
      BY <3>1, <2>1, <2>2 DEF TypeOK
    <3> QED
      BY <1>2, <3>1, <3>2 DEF ResolveText, TypeOK
  <2> QED
    BY <2>3, <2>4
<1>3. ASSUME NEW p \in Parts, ResolveFails(p) PROVE TypeOK'
  BY <1>3, <1>a DEF ResolveFails, Retry, TypeOK
<1>4. CASE CreateVersion
  <2>1. versions' \subseteq Version
    BY <1>4, NetworkTyped DEF CreateVersion, Created, TypeOK
  <2>2. run.i + 1 \in Nat \ {0}
    BY DEF TypeOK
  <2>3. /\ run' \in [pc : Stages, key : Contracts, at : Nat, text : [Parts -> Texts], i : Nat \ {0}]
        /\ run'.key = run.key /\ run'.at = run.at
    BY <1>4, <2>2 DEF CreateVersion, TypeOK
  <2> QED
    BY <1>4, <2>1, <2>3 DEF CreateVersion, TypeOK
<1>5. CASE CreateFails
  <2>1. versions' \subseteq Version
    BY <1>5, NetworkTyped DEF CreateFails, Created, TypeOK
  <2> QED
    BY <1>5, <1>a, <2>1 DEF CreateFails, Fail, Retry, TypeOK
<1>6. CASE UpdateStatus \/ UpdateStatusFails
  <2>1. [Copy EXCEPT !.current = Copy.gen] \in Object
    BY EntriesTyped DEF Object
  <2>2. run.key \in Contracts
    BY DEF TypeOK
  <2>3. /\ run' = Idle
        /\ queue' \subseteq Contracts
        /\ UNCHANGED <<seen, config, configSeen, versions>>
        /\ faults' \in 0..MaxFaults
        /\ contract' \in {contract, StatusWritten}
    BY <1>6 DEF UpdateStatus, UpdateStatusFails, Done, Retry, Fail, TypeOK
  <2>4. CASE contract' = contract
    BY <1>a, <2>3, <2>4 DEF TypeOK
  <2>5. CASE contract' # contract
    <3>1. Written(run.key, [Copy EXCEPT !.current = Copy.gen])
      BY <2>3, <2>5 DEF StatusWritten, Written
    <3>2. versions' \subseteq Version
      BY <2>3 DEF TypeOK
    <3> QED
      BY <2>1, <2>2, <2>3, <3>1, <3>2, WriteTyped
  <2> QED
    BY <2>4, <2>5
<1>7. CASE UpdateStatusConflict
  BY <1>7, <1>a DEF UpdateStatusConflict, Retry, TypeOK
<1>8. ASSUME NEW c \in Contracts, CacheSync(c) PROVE TypeOK'
  <2>1. Len(contract[c]) \in Nat
    BY EntriesTyped
  <2> QED
    BY <1>8, <2>1 DEF CacheSync, TypeOK
<1>9. CASE ConfigSync
  <2>1. Len(config) \in Nat
    BY DEF TypeOK
  <2> QED
    BY <1>9, <2>1 DEF ConfigSync, TypeOK
<1>10. CASE Restart
  <2>1. \A c \in Contracts : Len(contract[c]) \in 1..Len(contract[c]) /\ Len(contract[c]) \in Nat
    BY EntriesTyped
  <2>2. Len(config) \in 1..Len(config)
    BY DEF TypeOK
  <2> QED
    BY <1>10, <1>a, <2>1, <2>2 DEF Restart, Fail, TypeOK
<1>11. ASSUME NEW v \in versions, GarbageCollect(v) PROVE TypeOK'
  BY <1>11 DEF GarbageCollect, TypeOK
<1>12. ASSUME NEW c \in Contracts, NEW spec \in Specs, CreateContract(c, spec) PROVE TypeOK'
  <2>1. [uid |-> Live(c).uid + 1, alive |-> TRUE, gen |-> 1, spec |-> spec, current |-> 0] \in Object
    BY EntriesTyped DEF Object
  <2> QED
    BY <1>12, <2>1, WriteTyped DEF CreateContract, Write, Written, TypeOK
<1>13. ASSUME NEW c \in Contracts, NEW spec \in Specs, EditSpec(c, spec) PROVE TypeOK'
  <2>1. Live(c) \in Object /\ Live(c).gen + 1 \in Nat
    BY EntriesTyped DEF Object
  <2>2. [Live(c) EXCEPT !.spec = spec, !.gen = Live(c).gen + 1] \in Object
    BY <2>1 DEF Object
  <2> QED
    BY <1>13, <2>2, WriteTyped DEF EditSpec, Write, Written, TypeOK
<1>14. ASSUME NEW c \in Contracts, DeleteContract(c) PROVE TypeOK'
  <2>1. [Live(c) EXCEPT !.alive = FALSE] \in Object
    BY EntriesTyped DEF Object
  <2> QED
    BY <1>14, <2>1, WriteTyped DEF DeleteContract, Write, Written, TypeOK
<1>15. ASSUME NEW data \in ConfigMaps, EditConfig(data) PROVE TypeOK'
  <2>1. /\ config' \in Seq(ConfigMaps)
        /\ Len(config') = Len(config) + 1 /\ Len(config) \in Nat
    BY <1>15, AppendProperties DEF EditConfig, TypeOK
  <2> QED
    BY <1>15, <2>1 DEF EditConfig, TypeOK
<1>16. CASE UNCHANGED vars
  BY <1>16 DEF vars, TypeOK
<1>17. ASSUME NEW c \in Contracts, Resync(c) PROVE TypeOK'
  BY <1>17 DEF Resync, TypeOK
<1> QED
  BY <1>1, <1>2, <1>3, <1>4, <1>5, <1>6, <1>7, <1>8, <1>9, <1>10, <1>11, <1>12, <1>13,
     <1>14, <1>15, <1>16, <1>17 DEF Next, Reconcile

\* Every variable keeps its type; caches and the reconcile in progress always
\* point at an entry the API server has had.
THEOREM TypeCorrect == Spec => []TypeOK
<1>1. Init => TypeOK
  BY TypeInit
<1>2. TypeOK /\ [Next]_vars => TypeOK'
  BY TypeInductive
<1> QED
  BY <1>1, <1>2, PTL DEF Spec

-------------------------------------------------------------------------------
(* The inductive invariant *)

\* What a later entry of a history may change: a new incarnation, or a spec or
\* status of the same one that moves forward and does not come back to life.
Follows(old, new) ==
  /\ old.uid <= new.uid
  /\ old.uid = new.uid =>
       /\ new.alive => old.alive
       /\ old.gen <= new.gen
       /\ old.current <= new.current
       /\ old.gen = new.gen => old.spec = new.spec

Sane(o) ==
  /\ o.current <= o.gen
  /\ o.alive => o.uid > 0 /\ o.gen > 0

\* The history of every name moves forward.
HistoryForward ==
  \A c \in Contracts :
    \A i \in 1..Len(contract[c]) :
      /\ Sane(contract[c][i])
      /\ \A j \in i..Len(contract[c]) : Follows(contract[c][i], contract[c][j])

\* A version carries its parts in its name and belongs to an incarnation.
VersionsOwned ==
  \A v \in versions :
    /\ v.name = VersionName(v.owner, v.net, v.gen)
    /\ v.uid \in 1..Live(v.owner).uid

\* The incarnation that the reconcile works for is the first and still lives,
\* under a name that clashes with none.
Current(o, c) == NoClash(c) /\ Live(c).alive /\ Live(c).uid = 1 /\ o.uid = 1

\* The loop has left a version behind for every network it has passed.
LoopProgress ==
  /\ run.pc # "idle" => Copy.alive
  /\ run.pc # "create" => run.i = 1
  /\ Current(Copy, run.key) =>
       \A j \in 1..Len(Copy.spec.nets) :
         j < run.i => Deployed(run.key, Copy.uid, Copy.gen, Copy.spec.nets[j])

\* CurrentVersionComplete, entry by entry.
StatusComplete ==
  \A c \in Contracts :
    NoClash(c) /\ Live(c).alive /\ Live(c).uid = 1 /\ Live(c).current # 0 =>
      \A i \in 1..Len(contract[c]) :
        contract[c][i].uid = 1 /\ contract[c][i].gen = Live(c).current =>
          \A j \in 1..Len(contract[c][i].spec.nets) :
            Deployed(c, 1, Live(c).current, contract[c][i].spec.nets[j])

IInv == TypeOK /\ HistoryForward /\ VersionsOwned /\ LoopProgress /\ StatusComplete

-------------------------------------------------------------------------------
(* What every step does to a history *)

LEMMA FollowsTransitive ==
  ASSUME NEW a \in Object, NEW b \in Object, NEW o \in Object, Follows(a, b), Follows(b, o)
  PROVE  Follows(a, o)
<1>1. a.uid \in Nat /\ b.uid \in Nat /\ o.uid \in Nat /\ a.gen \in Nat /\ b.gen \in Nat
      /\ o.gen \in Nat /\ a.current \in Nat /\ b.current \in Nat /\ o.current \in Nat
  BY DEF Object
<1>2. a.uid <= o.uid
  BY <1>1 DEF Follows
<1>3. ASSUME a.uid = o.uid
      PROVE  /\ a.uid = b.uid /\ b.uid = o.uid
             /\ o.alive => a.alive
             /\ a.gen <= o.gen
             /\ a.current <= o.current
  BY <1>1, <1>3 DEF Follows
<1>4. ASSUME a.uid = o.uid, a.gen = o.gen PROVE a.spec = o.spec
  BY <1>1, <1>3, <1>4 DEF Follows
<1> QED
  BY <1>2, <1>3, <1>4 DEF Follows

\* The last entry of a history, and the reconcile's copy, as entries.
LEMMA LastEntry ==
  ASSUME TypeOK, HistoryForward
  PROVE  /\ \A c \in Contracts :
              /\ Sane(Live(c))
              /\ \A i \in 1..Len(contract[c]) : Follows(contract[c][i], Live(c))
         /\ Sane(Copy) /\ Follows(Copy, Live(run.key))
<1>1. \A c \in Contracts : Len(contract[c]) \in Nat \ {0}
  BY EntriesTyped
<1>2. \A c \in Contracts :
        /\ Sane(Live(c))
        /\ \A i \in 1..Len(contract[c]) : Follows(contract[c][i], Live(c))
  <2> SUFFICES ASSUME NEW c \in Contracts
               PROVE  /\ Sane(Live(c))
                      /\ \A i \in 1..Len(contract[c]) : Follows(contract[c][i], Live(c))
    OBVIOUS
  <2>1. /\ Len(contract[c]) \in 1..Len(contract[c])
        /\ \A i \in 1..Len(contract[c]) : Len(contract[c]) \in i..Len(contract[c])
    BY <1>1
  <2> QED
    BY <2>1 DEF HistoryForward, Live
<1>3. run.key \in Contracts /\ run.at \in 1..Len(contract[run.key])
  BY DEF TypeOK
<1>4. Sane(Copy)
  BY <1>3 DEF HistoryForward, Copy
<1> QED
  BY <1>2, <1>3, <1>4 DEF Copy

\* One entry may be appended to one history, and it follows the last.
Advances ==
  \/ contract' = contract
  \/ \E c \in Contracts, object \in Object :
       Written(c, object) /\ Sane(object) /\ Follows(Live(c), object)

LEMMA EveryStepAdvances ==
  ASSUME TypeOK, HistoryForward, LoopProgress, [Next]_vars
  PROVE  Advances
<1> USE ContractAssumption
<1>0. /\ \A c \in Contracts : Live(c) \in Object /\ Sane(Live(c))
      /\ Copy \in Object /\ Sane(Copy)
  BY EntriesTyped, LastEntry
<1>1. CASE UpdateStatus \/ UpdateStatusFails
  <2> DEFINE object == [Copy EXCEPT !.current = Copy.gen]
  <2>1. CASE contract' = contract
    BY <2>1 DEF Advances
  <2>2. CASE contract' # contract
    <3>1. Written(run.key, object) /\ run.key \in Contracts
      BY <1>1, <2>2 DEF UpdateStatus, UpdateStatusFails, StatusWritten, Written, TypeOK
    <3>2. Live(run.key) = Copy /\ Copy.alive
      BY <1>1 DEF UpdateStatus, UpdateStatusFails, Live, Copy, LoopProgress
    <3>3. /\ object \in Object
          /\ object.uid = Copy.uid /\ object.alive = Copy.alive /\ object.gen = Copy.gen
          /\ object.spec = Copy.spec /\ object.current = Copy.gen
      BY <1>0 DEF Object
    <3>4. Copy.uid \in Nat /\ Copy.gen \in Nat /\ Copy.current \in Nat
      BY <1>0 DEF Object
    <3>5. Sane(object)
      BY <1>0, <3>3, <3>4 DEF Sane
    <3>6. Follows(Live(run.key), object)
      BY <1>0, <3>2, <3>3, <3>4 DEF Follows, Sane
    <3> QED
      BY <3>1, <3>3, <3>5, <3>6 DEF Advances
  <2> QED
    BY <2>1, <2>2
<1>2. ASSUME NEW c \in Contracts, NEW spec \in Specs, CreateContract(c, spec) PROVE Advances
  <2> DEFINE object ==
        [uid |-> Live(c).uid + 1, alive |-> TRUE, gen |-> 1, spec |-> spec, current |-> 0]
  <2>1. Live(c).uid \in Nat
    BY <1>0 DEF Object
  <2>2. object \in Object /\ Sane(object) /\ Follows(Live(c), object)
    BY <2>1 DEF Object, Sane, Follows
  <2> QED
    BY <1>2, <2>2 DEF CreateContract, Write, Written, Advances
<1>3. ASSUME NEW c \in Contracts, NEW spec \in Specs, EditSpec(c, spec) PROVE Advances
  <2> DEFINE object == [Live(c) EXCEPT !.spec = spec, !.gen = Live(c).gen + 1]
  <2>1. Live(c).uid \in Nat /\ Live(c).gen \in Nat /\ Live(c).current \in Nat /\ Live(c).gen + 1 \in Nat
    BY <1>0 DEF Object
  <2>2. /\ object \in Object
        /\ object.uid = Live(c).uid /\ object.alive = Live(c).alive
        /\ object.gen = Live(c).gen + 1 /\ object.current = Live(c).current
    BY <1>0, <2>1 DEF Object
  <2>3. Sane(object)
    BY <1>0, <2>1, <2>2 DEF Sane
  <2>4. Follows(Live(c), object)
    BY <2>1, <2>2 DEF Follows
  <2> QED
    BY <1>3, <2>2, <2>3, <2>4 DEF EditSpec, Write, Written, Advances
<1>4. ASSUME NEW c \in Contracts, DeleteContract(c) PROVE Advances
  <2> DEFINE object == [Live(c) EXCEPT !.alive = FALSE]
  <2>1. Live(c).uid \in Nat /\ Live(c).gen \in Nat /\ Live(c).current \in Nat
    BY <1>0 DEF Object
  <2>2. /\ object \in Object
        /\ object.uid = Live(c).uid /\ ~object.alive /\ object.spec = Live(c).spec
        /\ object.gen = Live(c).gen /\ object.current = Live(c).current
    BY <1>0 DEF Object
  <2>3. Sane(object) /\ Follows(Live(c), object)
    BY <1>0, <2>1, <2>2 DEF Sane, Follows
  <2> QED
    BY <1>4, <2>2, <2>3 DEF DeleteContract, Write, Written, Advances
<1>5. CASE UNCHANGED contract
  BY <1>5 DEF Advances
<1>6. \/ UNCHANGED contract
      \/ UpdateStatus \/ UpdateStatusFails
      \/ \E c \in Contracts, spec \in Specs : CreateContract(c, spec) \/ EditSpec(c, spec)
      \/ \E c \in Contracts : DeleteContract(c)
  BY DEF Next, Reconcile, Fetch, FetchMissing, FetchFound, ResolveText, ResolveFails,
         CreateVersion, CreateFails, UpdateStatusConflict, CacheSync, Resync, ConfigSync, Restart,
         GarbageCollect, EditConfig, vars
<1> QED
  BY <1>1, <1>2, <1>3, <1>4, <1>5, <1>6

\* Entries stay what they are and the last one of a name only moves forward.
LEMMA HistoryStep ==
  ASSUME TypeOK, TypeOK', HistoryForward, Advances
  PROVE  /\ HistoryForward'
         /\ \A c \in Contracts :
              /\ Follows(Live(c), Live(c)')
              /\ Len(contract[c]) <= Len(contract'[c])
              /\ \A i \in 1..Len(contract[c]) : contract'[c][i] = contract[c][i]
<1>0. \A c \in Contracts : Live(c) \in Object /\ Len(contract[c]) \in Nat \ {0}
  BY EntriesTyped
<1>1. CASE contract' = contract
  <2>1. \A c \in Contracts : Live(c).uid \in Nat /\ Live(c).gen \in Nat /\ Live(c).current \in Nat
    BY <1>0 DEF Object
  <2>2. \A c \in Contracts : Live(c)' = Live(c)
    BY <1>1 DEF Live
  <2>3. \A c \in Contracts : Follows(Live(c), Live(c)')
    BY <2>1, <2>2 DEF Follows
  <2> QED
    BY <1>0, <1>1, <2>3 DEF HistoryForward
<1>2. CASE \E c \in Contracts, object \in Object :
             Written(c, object) /\ Sane(object) /\ Follows(Live(c), object)
  <2>1. PICK c \in Contracts, object \in Object :
          Written(c, object) /\ Sane(object) /\ Follows(Live(c), object)
    BY <1>2
  <2> DEFINE n == Len(contract[c])
  <2>2. /\ Len(contract'[c]) = n + 1
        /\ contract'[c][n + 1] = object
        /\ \A i \in 1..n : contract'[c][i] = contract[c][i]
        /\ \A d \in Contracts \ {c} : contract'[d] = contract[d]
    BY <2>1, HistoryGrows DEF TypeOK
  <2>3. n \in Nat \ {0}
    BY <1>0
  <2>4. Live(c)' = object /\ \A d \in Contracts \ {c} : Live(d)' = Live(d)
    BY <2>2 DEF Live
  <2>5. \A d \in Contracts : Follows(Live(d), Live(d)')
    <3>1. \A d \in Contracts : Live(d).uid \in Nat /\ Live(d).gen \in Nat /\ Live(d).current \in Nat
      BY <1>0 DEF Object
    <3>2. \A d \in Contracts : Follows(Live(d), Live(d))
      BY <3>1 DEF Follows
    <3> QED
      BY <2>1, <2>4, <3>2
  <2>6. \A d \in Contracts :
          /\ Len(contract[d]) <= Len(contract'[d])
          /\ \A i \in 1..Len(contract[d]) : contract'[d][i] = contract[d][i]
    BY <1>0, <2>2, <2>3
  <2>7. ASSUME NEW i \in 1..(n + 1)
        PROVE  /\ Sane(contract'[c][i])
               /\ \A j \in i..(n + 1) : Follows(contract'[c][i], contract'[c][j])
    <3>1. CASE i = n + 1
      <4>1. object.uid \in Nat /\ object.gen \in Nat /\ object.current \in Nat
        BY DEF Object
      <4>2. Follows(object, object)
        BY <4>1 DEF Follows
      <4>3. \A j \in i..(n + 1) : j = n + 1
        BY <2>3, <3>1
      <4> QED
        BY <2>1, <2>2, <3>1, <4>2, <4>3
    <3>2. CASE i # n + 1
      <4>1. i \in 1..n /\ contract'[c][i] = contract[c][i]
        BY <2>2, <2>3, <3>2
      <4>2. Sane(contract[c][i]) /\ \A j \in i..n : Follows(contract[c][i], contract[c][j])
        BY <4>1 DEF HistoryForward
      <4>3. Follows(contract[c][i], Live(c)) /\ contract[c][i] \in Object
        BY <4>1, LastEntry, ElementOfSeq DEF TypeOK
      <4>4. Follows(contract[c][i], object)
        BY <1>0, <2>1, <4>3, FollowsTransitive
      <4>5. ASSUME NEW j \in i..(n + 1) PROVE Follows(contract'[c][i], contract'[c][j])
        <5>1. CASE j = n + 1
          BY <2>2, <4>1, <4>4, <5>1
        <5>2. CASE j # n + 1
          <6>1. j \in i..n /\ j \in 1..n
            BY <2>3, <4>1, <5>2
          <6> QED
            BY <2>2, <4>1, <4>2, <6>1
        <5> QED
          BY <5>1, <5>2
      <4> QED
        BY <4>1, <4>2, <4>5
    <3> QED
      BY <3>1, <3>2
  <2>8. HistoryForward'
    <3>1. ASSUME NEW d \in Contracts, NEW i \in 1..Len(contract'[d])
          PROVE  /\ Sane(contract'[d][i])
                 /\ \A j \in i..Len(contract'[d]) : Follows(contract'[d][i], contract'[d][j])
      <4>1. CASE d = c
        BY <2>2, <2>7, <3>1, <4>1
      <4>2. CASE d # c
        BY <2>2, <3>1, <4>2 DEF HistoryForward
      <4> QED
        BY <4>1, <4>2
    <3> QED
      BY <3>1 DEF HistoryForward
  <2> QED
    BY <2>5, <2>6, <2>8
<1> QED
  BY <1>1, <1>2 DEF Advances

-------------------------------------------------------------------------------
(* What every step does to the versions *)

\* Deployed, of a set of versions.
Has(set, c, uid, gen, net) ==
  \E v \in set : v.owner = c /\ v.uid = uid /\ v.gen = gen /\ v.net = net

LEMMA DeployedHas ==
  \A c, uid, gen, net : Deployed(c, uid, gen, net) <=> Has(versions, c, uid, gen, net)
BY DEF Deployed, Has

\* A version of an incarnation that lives stays: only the garbage collector
\* removes one, and only when its owner is gone.
LEMMA DeployedStays ==
  ASSUME TypeOK, [Next]_vars, NEW c \in Contracts, NEW uid, NEW gen, NEW net,
         Has(versions, c, uid, gen, net), Live(c).alive, Live(c).uid = uid
  PROVE  Has(versions', c, uid, gen, net)
<1>1. ASSUME NEW v \in versions, GarbageCollect(v) PROVE Has(versions', c, uid, gen, net)
  BY <1>1 DEF GarbageCollect, OwnerGone, Has
<1>2. ASSUME versions \subseteq versions' PROVE Has(versions', c, uid, gen, net)
  BY <1>2 DEF Has
<1>3. \/ \E v \in versions : GarbageCollect(v)
      \/ versions \subseteq versions'
  BY DEF Next, Reconcile, Fetch, FetchMissing, FetchFound, ResolveText, ResolveFails,
         CreateVersion, CreateFails, UpdateStatus, UpdateStatusFails, UpdateStatusConflict,
         CacheSync, Resync, ConfigSync, Restart, CreateContract, EditSpec, DeleteContract, Write,
         EditConfig, Created, vars
<1> QED
  BY <1>1, <1>2, <1>3

\* What the creation of a version leaves behind, by creating it or by finding
\* its name taken: in a first incarnation whose name clashes with no other, the
\* version that was meant.
LEMMA CreatedDeploys ==
  ASSUME TypeOK, HistoryForward, VersionsOwned, run.i <= Len(Copy.spec.nets),
         versions' = Created(NextVersion), Current(Copy, run.key)
  PROVE  Has(versions', run.key, Copy.uid, Copy.gen, Copy.spec.nets[run.i])
<1> DEFINE net == Copy.spec.nets[run.i]
<1>1. net \in Networks /\ run.key \in Contracts
  BY NetworkTyped DEF TypeOK
<1>2. CASE \E w \in versions : w.name = NextVersion.name
  <2>1. PICK w \in versions : w.name = NextVersion.name
    BY <1>2
  <2>2. w.name = VersionName(w.owner, w.net, w.gen) /\ w.uid \in 1..Live(w.owner).uid
    BY DEF VersionsOwned
  <2>3. w.owner \in Contracts /\ w.net \in Networks /\ w.uid \in Nat
    BY DEF TypeOK, Version
  <2>4. run.key \o net = w.owner \o w.net /\ w.gen = Copy.gen
    <3>1. NextVersion.name = <<run.key \o net, Copy.gen>>
      BY DEF NextVersion, VersionName
    <3>2. w.name = <<w.owner \o w.net, w.gen>>
      BY <2>2 DEF VersionName
    <3>3. \A p, q, r, t : <<p, q>> = <<r, t>> => p = r /\ q = t
      OBVIOUS
    <3>4. <<run.key \o net, Copy.gen>> = <<w.owner \o w.net, w.gen>>
      BY <2>1, <3>1, <3>2, Zenon
    <3> QED
      BY <3>3, <3>4, Zenon
  <2>5. w.owner = run.key /\ w.net = net
    BY <1>1, <2>3, <2>4 DEF Current, NoClash
  <2>6. w.uid = Copy.uid
    BY <2>2, <2>3, <2>5 DEF Current
  <2>7. w \in versions'
    BY <1>2 DEF Created
  <2> QED
    BY <2>4, <2>5, <2>6, <2>7 DEF Has
<1>3. CASE ~\E w \in versions : w.name = NextVersion.name
  <2>1. NextVersion \in versions'
    BY <1>3 DEF Created
  <2>2. /\ NextVersion.owner = run.key /\ NextVersion.uid = Copy.uid
        /\ NextVersion.gen = Copy.gen /\ NextVersion.net = net
    BY DEF NextVersion
  <2> QED
    BY <2>1, <2>2 DEF Has
<1> QED
  BY <1>2, <1>3

LEMMA VersionsOwnedStep ==
  ASSUME TypeOK, HistoryForward, VersionsOwned, LoopProgress, [Next]_vars,
         \A c \in Contracts : Follows(Live(c), Live(c)') /\ Live(c) \in Object /\ Live(c)' \in Object
  PROVE  VersionsOwned'
<1>1. \A v \in versions : v.owner \in Contracts
  BY DEF TypeOK, Version
<1>2. \A c \in Contracts : /\ Live(c).uid \in Nat /\ Live(c)'.uid \in Nat
                           /\ Live(c).uid <= Live(c)'.uid
  BY DEF Follows, Object
<1>3. ASSUME NEW v \in versions
      PROVE  v.name = VersionName(v.owner, v.net, v.gen) /\ v.uid \in 1..Live(v.owner)'.uid
  BY <1>1, <1>2 DEF VersionsOwned
<1>4. \/ versions' \subseteq versions
      \/ run.pc = "create" /\ versions' \subseteq versions \cup {NextVersion}
  BY DEF Next, Reconcile, Fetch, FetchMissing, FetchFound, ResolveText, ResolveFails,
         CreateVersion, CreateFails, UpdateStatus, UpdateStatusFails, UpdateStatusConflict,
         CacheSync, Resync, ConfigSync, Restart, CreateContract, EditSpec, DeleteContract, Write,
         EditConfig, GarbageCollect, Created, vars
<1>5. CASE versions' \subseteq versions
  BY <1>3, <1>5 DEF VersionsOwned, VersionName
<1>6. CASE run.pc = "create" /\ versions' \subseteq versions \cup {NextVersion}
  <2>1. /\ NextVersion.owner = run.key /\ NextVersion.uid = Copy.uid
        /\ NextVersion.name = VersionName(NextVersion.owner, NextVersion.net, NextVersion.gen)
    BY DEF NextVersion
  <2>2. Copy.uid \in Nat /\ run.key \in Contracts
    BY EntriesTyped DEF Object, TypeOK
  <2>3. Copy.uid > 0 /\ Copy.uid <= Live(run.key).uid
    BY <1>6, LastEntry DEF LoopProgress, Sane, Follows
  <2>4. ASSUME NEW v, v = NextVersion
        PROVE  v.name = VersionName(v.owner, v.net, v.gen) /\ v.uid \in 1..Live(v.owner)'.uid
    <3>1. v.owner \in Contracts /\ v.uid \in Nat /\ v.uid > 0 /\ v.uid <= Live(v.owner).uid
      BY <2>1, <2>2, <2>3, <2>4
    <3> QED
      BY <1>2, <2>1, <2>4, <3>1
  <2> QED
    BY <1>3, <1>6, <2>4 DEF VersionsOwned, VersionName
<1> QED
  BY <1>4, <1>5, <1>6

-------------------------------------------------------------------------------
(* The invariant is inductive *)

LEMMA IdleProgress == ASSUME run' = Idle PROVE LoopProgress'
<1>1. run'.pc = "idle" /\ run'.i = 1
  BY DEF Idle
<1>2. \A j \in 1..Len(Copy'.spec.nets) : ~(j < run'.i)
  BY <1>1
<1> QED
  BY <1>1, <1>2 DEF LoopProgress

\* A reconcile that keeps its place keeps what it has left behind.
LEMMA ProgressKept ==
  ASSUME TypeOK, HistoryForward, LoopProgress, [Next]_vars,
         \A c \in Contracts :
              /\ Follows(Live(c), Live(c)')
              /\ \A i \in 1..Len(contract[c]) : contract'[c][i] = contract[c][i],
         \A c \in Contracts : Live(c) \in Object /\ Live(c)' \in Object,
         run'.key = run.key, run'.at = run.at
  PROVE  /\ Copy' = Copy
         /\ Current(Copy, run.key)' => Current(Copy, run.key)
         /\ Current(Copy, run.key)' =>
              \A j \in 1..Len(Copy.spec.nets) :
                j < run.i => Has(versions', run.key, Copy.uid, Copy.gen, Copy.spec.nets[j])
<1>1. run.key \in Contracts /\ run.at \in 1..Len(contract[run.key])
  BY DEF TypeOK
<1>2. Copy' = Copy
  BY <1>1 DEF Copy
<1>3. ASSUME Current(Copy, run.key)' PROVE Current(Copy, run.key)
  <2>1. /\ Copy.uid = 1 /\ Live(run.key)'.alive /\ Live(run.key)'.uid = 1 /\ NoClash(run.key)
    BY <1>2, <1>3 DEF Current
  <2>2. Copy.uid <= Live(run.key).uid /\ Live(run.key).uid <= Live(run.key)'.uid
    BY <1>1, LastEntry DEF Follows
  <2>3. Live(run.key).uid \in Nat
    BY <1>1 DEF Object
  <2>4. Live(run.key).uid = 1
    BY <2>1, <2>2, <2>3
  <2>5. Live(run.key).alive
    BY <1>1, <2>1, <2>4 DEF Follows
  <2> QED
    BY <2>1, <2>4, <2>5 DEF Current
<1>4. ASSUME Current(Copy, run.key)', NEW j \in 1..Len(Copy.spec.nets), j < run.i
      PROVE  Has(versions', run.key, Copy.uid, Copy.gen, Copy.spec.nets[j])
  <2>1. Deployed(run.key, Copy.uid, Copy.gen, Copy.spec.nets[j])
    BY <1>3, <1>4 DEF LoopProgress
  <2>2. Live(run.key).alive /\ Live(run.key).uid = Copy.uid
    BY <1>3, <1>4 DEF Current
  <2>3. Has(versions, run.key, Copy.uid, Copy.gen, Copy.spec.nets[j])
    BY <2>1, DeployedHas
  <2> QED
    BY <1>1, <2>2, <2>3, DeployedStays
<1> QED
  BY <1>2, <1>3, <1>4

\* What holds of a step from a state of the invariant.
Stepping ==
  /\ TypeOK /\ TypeOK' /\ [Next]_vars
  /\ HistoryForward /\ VersionsOwned /\ LoopProgress
  /\ \A c \in Contracts :
       /\ Live(c) \in Object /\ Live(c)' \in Object
       /\ Follows(Live(c), Live(c)')
       /\ Len(contract[c]) <= Len(contract'[c])
       /\ \A i \in 1..Len(contract[c]) : contract'[c][i] = contract[c][i]

LEMMA LoopProgressStep == Stepping => LoopProgress'
<1> SUFFICES ASSUME Stepping PROVE LoopProgress'
  OBVIOUS
<1>0. /\ TypeOK /\ [Next]_vars /\ HistoryForward /\ VersionsOwned /\ LoopProgress
      /\ run.i \in Nat \ {0} /\ run.key \in Contracts
  BY DEF Stepping, TypeOK
<1>1. ASSUME run'.key = run.key, run'.at = run.at
      PROVE  /\ Copy' = Copy
             /\ Current(Copy, run.key)' => Current(Copy, run.key)
             /\ Current(Copy, run.key)' =>
                  \A j \in 1..Len(Copy.spec.nets) :
                    j < run.i => Has(versions', run.key, Copy.uid, Copy.gen, Copy.spec.nets[j])
  BY <1>1, ProgressKept DEF Stepping
<1>2. CASE UNCHANGED run
  <2>1. Copy' = Copy
    BY <1>1, <1>2
  <2>2. Current(Copy, run.key)' =>
          \A j \in 1..Len(Copy.spec.nets) :
            j < run.i => Deployed(run.key, Copy.uid, Copy.gen, Copy.spec.nets[j])'
    BY <1>1, <1>2, <2>1 DEF Has, Deployed
  <2> QED
    BY <1>0, <1>2, <2>1, <2>2 DEF LoopProgress
<1>3. CASE run' = Idle
  BY <1>3, IdleProgress
<1>4. ASSUME NEW c \in Contracts, FetchFound(c) PROVE LoopProgress'
  <2>1. run'.pc = "code" /\ run'.key = c /\ run'.at = seen[c] /\ run'.i = 1
    BY <1>4 DEF FetchFound, Idle
  <2>2. Copy'.alive
    BY <1>4, <2>1 DEF FetchFound, Cached, Copy
  <2>3. \A j \in 1..Len(Copy'.spec.nets) : ~(j < run'.i)
    BY <2>1
  <2> QED
    BY <2>1, <2>2, <2>3 DEF LoopProgress
<1>5. ASSUME NEW p \in Parts, ResolveText(p), run' # Idle PROVE LoopProgress'
  <2>1. /\ run'.key = run.key /\ run'.at = run.at /\ run'.i = run.i
        /\ run.pc \notin {"idle", "create"}
    BY <1>5 DEF ResolveText, Done, Parts, TypeOK, Stepping
  <2>2. Copy' = Copy /\ Copy.alive /\ run.i = 1
    BY <1>0, <1>1, <2>1 DEF LoopProgress
  <2>3. \A j \in 1..Len(Copy'.spec.nets) : ~(j < run'.i)
    BY <2>1, <2>2
  <2> QED
    BY <2>1, <2>2, <2>3 DEF LoopProgress
<1>6. CASE CreateVersion
  <2>1. /\ run'.key = run.key /\ run'.at = run.at /\ run'.i = run.i + 1
        /\ run.pc = "create" /\ run'.pc = "create" /\ run.i <= Len(Copy.spec.nets)
        /\ versions' = Created(NextVersion)
    BY <1>6 DEF CreateVersion, TypeOK, Stepping
  <2>2. Copy' = Copy /\ Copy.alive
    BY <1>0, <1>1, <2>1 DEF LoopProgress
  <2>3. ASSUME Current(Copy, run.key)', NEW j \in 1..Len(Copy.spec.nets), j < run'.i
        PROVE  Has(versions', run.key, Copy.uid, Copy.gen, Copy.spec.nets[j])
    <3>1. CASE j < run.i
      BY <1>1, <2>1, <2>3, <3>1
    <3>2. CASE j = run.i
      <4>1. Current(Copy, run.key)
        BY <1>1, <2>1, <2>3
      <4> QED
        BY <1>0, <2>1, <3>2, <4>1, CreatedDeploys
    <3> QED
      BY <1>0, <2>1, <2>3, <3>1, <3>2
  <2>4. Current(Copy, run.key)' =>
          \A j \in 1..Len(Copy'.spec.nets) :
            j < run'.i => Deployed(run.key, Copy.uid, Copy.gen, Copy.spec.nets[j])'
    BY <2>1, <2>2, <2>3 DEF Has, Deployed
  <2> QED
    BY <2>1, <2>2, <2>4 DEF LoopProgress
<1>7. \/ UNCHANGED run
      \/ run' = Idle
      \/ \E c \in Contracts : FetchFound(c)
      \/ \E p \in Parts : ResolveText(p) /\ run' # Idle
      \/ CreateVersion
  BY <1>0 DEF Next, Reconcile, Fetch, FetchMissing, ResolveText, ResolveFails,
         CreateFails, UpdateStatus, UpdateStatusFails, UpdateStatusConflict,
         CacheSync, Resync, ConfigSync, Restart, CreateContract, EditSpec, DeleteContract, Write,
         EditConfig, GarbageCollect, Done, Retry, vars
<1> QED
  BY <1>2, <1>3, <1>4, <1>5, <1>6, <1>7

\* A history that is not written keeps its status complete.
LEMMA StatusCompleteKept ==
  ASSUME Stepping, NEW c \in Contracts, NoClash(c), Live(c).alive, Live(c).uid = 1,
         NEW gen, NEW i \in 1..Len(contract[c]), NEW j \in 1..Len(contract[c][i].spec.nets),
         Deployed(c, 1, gen, contract[c][i].spec.nets[j])
  PROVE  Has(versions', c, 1, gen, contract[c][i].spec.nets[j])
<1> DEFINE net == contract[c][i].spec.nets[j]
<1>1. Has(versions, c, 1, gen, net)
  BY DeployedHas
<1> HIDE DEF net
<1>2. Has(versions', c, 1, gen, net)
  BY <1>1, DeployedStays DEF Stepping
<1> QED
  BY <1>2 DEF net

\* A status update names a generation whose networks the loop has passed.
LEMMA StatusWrittenComplete ==
  ASSUME Stepping, UpdateStatus \/ UpdateStatusFails, Current(Copy, run.key),
         NEW i \in 1..Len(contract[run.key]),
         contract[run.key][i].uid = 1, contract[run.key][i].gen = Copy.gen,
         NEW j \in 1..Len(contract[run.key][i].spec.nets)
  PROVE  Has(versions', run.key, 1, Copy.gen, contract[run.key][i].spec.nets[j])
<1>1. /\ TypeOK /\ HistoryForward /\ LoopProgress
      /\ run.key \in Contracts /\ run.i \in Nat
  BY DEF Stepping, TypeOK
<1>2. /\ run.i > Len(Copy.spec.nets) /\ run.at = Len(contract[run.key])
      /\ UNCHANGED versions
  BY DEF UpdateStatus, UpdateStatusFails
<1>3. Live(run.key) = Copy /\ Copy.uid = 1
  BY <1>2 DEF Live, Copy, Current
<1>4. contract[run.key][i].spec = Copy.spec
  <2>1. Follows(contract[run.key][i], Live(run.key))
    BY <1>1, LastEntry
  <2> QED
    BY <1>3, <2>1 DEF Follows
<1>5. Len(Copy.spec.nets) \in Nat
  BY <1>1, EntriesTyped DEF SpecType
<1>6. j < run.i /\ j \in 1..Len(Copy.spec.nets)
  BY <1>1, <1>2, <1>4, <1>5
<1>7. Deployed(run.key, Copy.uid, Copy.gen, Copy.spec.nets[j])
  BY <1>1, <1>6 DEF LoopProgress
<1> QED
  BY <1>2, <1>3, <1>4, <1>7, DeployedHas

\* StatusComplete after a step, at one network.
LEMMA StatusCompleteAt ==
  ASSUME Stepping, StatusComplete,
         NEW c \in Contracts,
         NoClash(c), Live(c)'.alive, Live(c)'.uid = 1, Live(c)'.current # 0,
         NEW i \in 1..Len(contract'[c]),
         contract'[c][i].uid = 1, contract'[c][i].gen = Live(c)'.current,
         NEW j \in 1..Len(contract'[c][i].spec.nets)
  PROVE  Has(versions', c, 1, Live(c)'.current, contract'[c][i].spec.nets[j])
<1>0. /\ TypeOK /\ HistoryForward /\ LoopProgress /\ [Next]_vars
      /\ Live(c) \in Object /\ Sane(Live(c)) /\ Len(contract[c]) \in Nat \ {0}
      /\ run.key \in Contracts
  BY EntriesTyped, LastEntry DEF Stepping, TypeOK
<1>1. CASE contract'[c] = contract[c]
  <2>1. Live(c)' = Live(c)
    BY <1>1 DEF Live
  <2>2. Deployed(c, 1, Live(c).current, contract[c][i].spec.nets[j])
    BY <1>1, <2>1 DEF StatusComplete
  <2> QED
    BY <1>1, <2>1, <2>2, StatusCompleteKept
<1>2. ASSUME NEW object \in Object, Written(c, object), contract'[c] # contract[c]
      PROVE  /\ Live(c)' = object
             /\ Len(contract'[c]) = Len(contract[c]) + 1
             /\ i \in 1..Len(contract[c]) => contract'[c][i] = contract[c][i]
             /\ i \notin 1..Len(contract[c]) => contract'[c][i] = object
  <2>1. /\ Len(contract'[c]) = Len(contract[c]) + 1
        /\ contract'[c][Len(contract[c]) + 1] = object
        /\ \A k \in 1..Len(contract[c]) : contract'[c][k] = contract[c][k]
    BY <1>0, <1>2, HistoryGrows DEF TypeOK
  <2>2. i \notin 1..Len(contract[c]) => i = Len(contract[c]) + 1
    BY <1>0, <2>1
  <2> QED
    BY <2>1, <2>2 DEF Live
<1>3. CASE contract'[c] # contract[c] /\ (UpdateStatus \/ UpdateStatusFails)
  <2> DEFINE object == [Copy EXCEPT !.current = Copy.gen]
  <2>1. run.key = c /\ Written(c, object) /\ Live(c) = Copy
    BY <1>3 DEF UpdateStatus, UpdateStatusFails, StatusWritten, Written, TypeOK, Live, Copy, Stepping
  <2>2. /\ object \in Object /\ object.current = Copy.gen /\ object.alive = Copy.alive
        /\ object.uid = Copy.uid /\ object.spec = Copy.spec /\ object.gen = Copy.gen
    BY <1>0, <2>1 DEF Object
  <2> HIDE DEF object
  <2>3. Current(Copy, run.key) /\ Live(c)'.current = Copy.gen
    <3>1. Live(c)' = object
      BY <1>2, <1>3, <2>1, <2>2
    <3>2. Copy.alive /\ Copy.uid = 1 /\ Live(c)'.current = Copy.gen
      BY <2>2, <3>1
    <3> QED
      BY <2>1, <3>2 DEF Current
  <2>4. PICK k \in 1..Len(contract[c]) :
          /\ contract[c][k].uid = 1 /\ contract[c][k].gen = Copy.gen
          /\ contract[c][k].spec = contract'[c][i].spec
    <3>1. CASE i \in 1..Len(contract[c])
      BY <1>2, <1>3, <2>1, <2>2, <2>3, <3>1
    <3>2. CASE i \notin 1..Len(contract[c])
      <4>1. contract'[c][i] = object
        BY <1>2, <1>3, <2>1, <2>2, <3>2
      <4>2. contract[c][Len(contract[c])] = Copy /\ Len(contract[c]) \in 1..Len(contract[c])
        BY <1>0, <2>1 DEF Live
      <4> QED
        BY <2>2, <2>3, <4>1, <4>2 DEF Current
    <3> QED
      BY <3>1, <3>2
  <2>5. Has(versions', run.key, 1, Copy.gen, contract[run.key][k].spec.nets[j])
    BY <1>3, <2>1, <2>3, <2>4, StatusWrittenComplete
  <2> QED
    BY <2>1, <2>3, <2>4, <2>5
<1>4. ASSUME NEW spec \in Specs, CreateContract(c, spec) PROVE FALSE
  <2> DEFINE object ==
        [uid |-> Live(c).uid + 1, alive |-> TRUE, gen |-> 1, spec |-> spec, current |-> 0]
  <2>1. object \in Object /\ Written(c, object)
    BY <1>0, <1>4 DEF CreateContract, Write, Written, Object
  <2>2. Live(c)' = object
    <3>1. /\ Len(contract'[c]) = Len(contract[c]) + 1
          /\ contract'[c][Len(contract[c]) + 1] = object
      BY <1>0, <2>1, HistoryGrows DEF TypeOK
    <3> QED
      BY <3>1 DEF Live
  <2> QED
    BY <2>2
<1>5. ASSUME NEW spec \in Specs, EditSpec(c, spec)
      PROVE  Has(versions', c, 1, Live(c)'.current, contract'[c][i].spec.nets[j])
  <2> DEFINE object == [Live(c) EXCEPT !.spec = spec, !.gen = Live(c).gen + 1]
  <2>1. Live(c).gen \in Nat /\ Live(c).current \in Nat /\ Live(c).gen + 1 \in Nat
    BY <1>0 DEF Object
  <2>2. /\ object \in Object /\ Written(c, object)
        /\ object.uid = Live(c).uid /\ object.alive = Live(c).alive
        /\ object.gen = Live(c).gen + 1 /\ object.current = Live(c).current
    BY <1>0, <1>5, <2>1 DEF EditSpec, Write, Written, Object
  <2> HIDE DEF object
  <2>3. /\ Len(contract'[c]) = Len(contract[c]) + 1
        /\ contract'[c][Len(contract[c]) + 1] = object
        /\ \A k \in 1..Len(contract[c]) : contract'[c][k] = contract[c][k]
    BY <1>0, <2>2, HistoryGrows DEF TypeOK
  <2>4. Live(c)' = object
    BY <2>3 DEF Live
  <2>5. i \in 1..Len(contract[c])
    <3>1. ASSUME i = Len(contract[c]) + 1 PROVE FALSE
      <4>1. contract'[c][i].gen = Live(c).gen + 1 /\ Live(c)'.current = Live(c).current
        BY <2>2, <2>3, <2>4, <3>1
      <4>2. Live(c).current = Live(c).gen + 1
        BY <4>1
      <4>3. Live(c).current <= Live(c).gen
        BY <1>0 DEF Sane
      <4> QED
        BY <2>1, <4>2, <4>3
    <3> QED
      BY <1>0, <2>3, <3>1
  <2>6. /\ Live(c).alive /\ Live(c).uid = 1 /\ Live(c).current # 0
        /\ Live(c)'.current = Live(c).current
        /\ contract'[c][i] = contract[c][i]
    BY <2>2, <2>3, <2>4, <2>5
  <2>7. Deployed(c, 1, Live(c).current, contract[c][i].spec.nets[j])
    BY <2>5, <2>6 DEF StatusComplete
  <2>8. Has(versions', c, 1, Live(c).current, contract[c][i].spec.nets[j])
    BY <2>5, <2>6, <2>7, StatusCompleteKept
  <2> QED
    BY <2>6, <2>8
<1>6. ASSUME DeleteContract(c) PROVE FALSE
  <2> DEFINE object == [Live(c) EXCEPT !.alive = FALSE]
  <2>1. object \in Object /\ ~object.alive /\ Written(c, object)
    BY <1>0, <1>6 DEF DeleteContract, Write, Written, Object
  <2>2. /\ Len(contract'[c]) = Len(contract[c]) + 1
        /\ contract'[c][Len(contract[c]) + 1] = object
    BY <1>0, <2>1, HistoryGrows DEF TypeOK
  <2>3. Live(c)' = object
    BY <2>2 DEF Live
  <2> QED
    BY <2>1, <2>3
<1>7. \/ contract'[c] = contract[c]
      \/ contract'[c] # contract[c] /\ (UpdateStatus \/ UpdateStatusFails)
      \/ \E spec \in Specs : CreateContract(c, spec)
      \/ \E spec \in Specs : EditSpec(c, spec)
      \/ DeleteContract(c)
  <2>1. \/ UNCHANGED contract
        \/ UpdateStatus \/ UpdateStatusFails
        \/ \E d \in Contracts, spec \in Specs : CreateContract(d, spec) \/ EditSpec(d, spec)
        \/ \E d \in Contracts : DeleteContract(d)
    BY <1>0 DEF Next, Reconcile, Fetch, FetchMissing, FetchFound, ResolveText, ResolveFails,
           CreateVersion, CreateFails, UpdateStatusConflict, CacheSync, Resync, ConfigSync, Restart,
           GarbageCollect, EditConfig, vars
  <2>2. ASSUME NEW d \in Contracts, NEW object, d # c,
               contract' = [contract EXCEPT ![d] = Append(@, object)]
        PROVE  contract'[c] = contract[c]
    BY <2>2 DEF Stepping, TypeOK
  <2> QED
    BY <2>1, <2>2 DEF CreateContract, EditSpec, DeleteContract, Write
<1> QED
  BY <1>1, <1>3, <1>4, <1>5, <1>6, <1>7

LEMMA StatusCompleteStep == Stepping /\ StatusComplete => StatusComplete'
<1> SUFFICES ASSUME Stepping, StatusComplete,
                    NEW c \in Contracts,
                    (NoClash(c) /\ Live(c).alive /\ Live(c).uid = 1 /\ Live(c).current # 0)',
                    NEW i \in 1..Len(contract'[c]),
                    (contract[c][i].uid = 1 /\ contract[c][i].gen = Live(c).current)',
                    NEW j \in 1..Len(contract'[c][i].spec.nets)
             PROVE  Deployed(c, 1, Live(c).current, contract[c][i].spec.nets[j])'
  BY DEF StatusComplete
<1>1. NoClash(c)
  BY DEF NoClash
<1>2. Has(versions', c, 1, Live(c)'.current, contract'[c][i].spec.nets[j])
  BY <1>1, StatusCompleteAt
<1> QED
  BY <1>2 DEF Has, Deployed

LEMMA InvariantInit == Init => IInv
<1> SUFFICES ASSUME Init PROVE IInv
  OBVIOUS
<1>1. TypeOK
  BY TypeInit
<1>2. \A c \in Contracts : contract[c] = <<NeverCreated>> /\ Len(contract[c]) = 1
  BY DEF Init
<1>3. Sane(NeverCreated) /\ Follows(NeverCreated, NeverCreated)
  BY DEF Sane, Follows, NeverCreated
<1>4. HistoryForward
  <2>1. ASSUME NEW c \in Contracts, NEW k \in 1..Len(contract[c])
        PROVE  k = 1 /\ contract[c][k] = NeverCreated
    <3>1. contract[c] = <<NeverCreated>> /\ Len(contract[c]) = 1
      BY <1>2
    <3>2. k = 1
      BY <3>1
    <3> QED
      BY <3>1, <3>2
  <2>2. \A c \in Contracts : \A k \in 1..Len(contract[c]) :
          \A m \in k..Len(contract[c]) : m \in 1..Len(contract[c])
    BY <1>2
  <2> QED
    BY <1>3, <2>1, <2>2 DEF HistoryForward
<1>5. VersionsOwned
  BY DEF Init, VersionsOwned
<1>6. LoopProgress
  <2>1. run.pc = "idle" /\ run.i = 1
    BY DEF Init, Idle
  <2>2. \A j \in 1..Len(Copy.spec.nets) : ~(j < run.i)
    BY <2>1
  <2> QED
    BY <2>1, <2>2 DEF LoopProgress
<1>7. StatusComplete
  <2>1. \A c \in Contracts : contract[c][1] = NeverCreated
    BY <1>2
  <2>2. \A c \in Contracts : Live(c) = NeverCreated
    BY <1>2, <2>1 DEF Live
  <2>3. ~NeverCreated.alive
    BY DEF NeverCreated
  <2> QED
    BY <2>2, <2>3 DEF StatusComplete
<1> QED
  BY <1>1, <1>4, <1>5, <1>6, <1>7 DEF IInv

LEMMA InvariantStep == IInv /\ [Next]_vars => IInv' /\ Stepping
<1> SUFFICES ASSUME IInv, [Next]_vars PROVE IInv' /\ Stepping
  OBVIOUS
<1>1. TypeOK' /\ TypeOK
  BY TypeInductive DEF IInv
<1>2. Advances
  BY EveryStepAdvances DEF IInv
<1>3. /\ HistoryForward'
      /\ \A c \in Contracts :
           /\ Follows(Live(c), Live(c)')
           /\ Len(contract[c]) <= Len(contract'[c])
           /\ \A i \in 1..Len(contract[c]) : contract'[c][i] = contract[c][i]
  BY <1>1, <1>2, HistoryStep DEF IInv
<1>4. \A c \in Contracts : Live(c) \in Object /\ Live(c)' \in Object
  <2>1. \A c \in Contracts : Live(c) \in Object
    BY <1>1, EntriesTyped
  <2>2. (\A c \in Contracts : Live(c) \in Object)'
    BY <1>1, LiveTypedNext
  <2> QED
    BY <2>1, <2>2
<1>5. Stepping
  BY <1>1, <1>3, <1>4 DEF Stepping, IInv
<1>6. VersionsOwned'
  BY <1>3, <1>4, VersionsOwnedStep DEF IInv
<1>7. LoopProgress'
  BY <1>5, LoopProgressStep
<1>8. StatusComplete'
  BY <1>5, StatusCompleteStep DEF IInv
<1> QED
  BY <1>1, <1>3, <1>5, <1>6, <1>7, <1>8 DEF IInv

\* The invariant says what CurrentVersionComplete says.
LEMMA InvariantImplies == IInv => CurrentVersionComplete
<1> SUFFICES ASSUME IInv,
                    NEW c \in Contracts, NoClash(c), ~NameReused(c),
                    Live(c).alive, Live(c).current # 0,
                    NEW spec \in SpecsAt(c, Live(c).uid, Live(c).current),
                    NEW net \in Range(spec.nets)
             PROVE  Deployed(c, Live(c).uid, Live(c).current, net)
  BY DEF CurrentVersionComplete, Complete
<1>1. TypeOK /\ HistoryForward /\ StatusComplete /\ contract[c] \in Seq(Object)
  BY DEF IInv, TypeOK
<1>2. Live(c).uid = 1
  <2>1. Live(c).uid \in Nat /\ Sane(Live(c))
    BY <1>1, EntriesTyped, LastEntry DEF Object
  <2> QED
    BY <2>1 DEF Sane, NameReused
<1>3. PICK object \in Range(contract[c]) :
        object.uid = 1 /\ object.gen = Live(c).current /\ spec = object.spec
  BY <1>2 DEF SpecsAt
<1>4. PICK i \in 1..Len(contract[c]) : contract[c][i] = object
  BY <1>1, <1>3 DEF Range
<1>5. spec.nets \in Seq(Networks)
  <2>1. contract[c][i] \in Object
    BY <1>1, ElementOfSeq
  <2> QED
    BY <1>3, <1>4, <2>1, ContractAssumption DEF Object, SpecType
<1>6. PICK j \in 1..Len(spec.nets) : spec.nets[j] = net
  BY <1>5 DEF Range
<1>7. Deployed(c, 1, Live(c).current, contract[c][i].spec.nets[j])
  BY <1>1, <1>2, <1>3, <1>4, <1>6 DEF StatusComplete
<1> QED
  BY <1>2, <1>3, <1>4, <1>6, <1>7

LEMMA InvariantHolds == Spec => []IInv
<1>1. Init => IInv
  BY InvariantInit
<1>2. IInv /\ [Next]_vars => IInv'
  BY InvariantStep
<1> QED
  BY <1>1, <1>2, PTL DEF Spec

\* Whatever fails, is retried, is stale or is edited: a status that names a
\* generation stands for a ContractVersion on each of its networks, for every
\* name in its first incarnation that clashes with no other.
THEOREM CurrentVersionIsComplete == Spec => []CurrentVersionComplete
BY InvariantHolds, InvariantImplies, PTL

\* No reconcile of a stale copy sets a status back.
THEOREM StatusMovesForward == Spec => CurrentVersionNeverRegresses
<1>1. IInv /\ [Next]_vars =>
        [\A c \in Contracts :
           Live(c)'.alive /\ Live(c)'.uid = Live(c).uid => Live(c)'.current >= Live(c).current]_vars
  <2> SUFFICES ASSUME IInv, [Next]_vars, NEW c \in Contracts, Live(c)'.uid = Live(c).uid
               PROVE  Live(c)'.current >= Live(c).current
    OBVIOUS
  <2>1. Follows(Live(c), Live(c)') /\ Live(c) \in Object /\ Live(c)' \in Object
    BY InvariantStep DEF Stepping
  <2> QED
    BY <2>1 DEF Follows, Object
<1> QED
  BY <1>1, InvariantHolds, PTL DEF Spec, CurrentVersionNeverRegresses
===============================================================================
