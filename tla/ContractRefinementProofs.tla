----------------------- MODULE ContractRefinementProofs -----------------------
(****************************************************************************)
(* ContractController implements Rollout, for every value of the constants  *)
(* under which some Contract name clashes with no other: the initial states *)
(* map to an initial state, every step to a step of Rollout or to none.     *)
(****************************************************************************)
EXTENDS ContractRefinement, ContractControllerProofs

\* Any names a Contract.
Unclashed == \E c \in Contracts : NoClash(c)

LEMMA AnyTyped == ASSUME Unclashed PROVE Any \in Contracts /\ NoClash(Any)
BY DEF Any, Unclashed

-------------------------------------------------------------------------------
(* The inductive invariant *)

\* Every generation up to that of a living Contract has its entry.
GenerationsKept ==
  \A c \in Contracts :
    Live(c).alive =>
      \A gen \in 1..Live(c).gen :
        \E i \in 1..Len(contract[c]) :
          contract[c][i].alive /\ contract[c][i].uid = Live(c).uid /\ contract[c][i].gen = gen

RInv == IInv /\ GenerationsKept

\* The entries that a step can append: the last one at its generation or at the
\* next, a new incarnation at its first, or one that is deleted.
LEMMA StepAppends ==
  ASSUME Stepping
  PROVE  \/ contract' = contract
         \/ \E c \in Contracts, object \in Object :
              /\ Written(c, object)
              /\ \/ ~object.alive
                 \/ object.gen = 1
                 \/ /\ Live(c).alive /\ object.uid = Live(c).uid
                    /\ object.gen \in {Live(c).gen, Live(c).gen + 1}
<1> USE ContractAssumption
<1> DEFINE Goal ==
      \/ contract' = contract
      \/ \E c \in Contracts, object \in Object :
           /\ Written(c, object)
           /\ \/ ~object.alive
              \/ object.gen = 1
              \/ /\ Live(c).alive /\ object.uid = Live(c).uid
                 /\ object.gen \in {Live(c).gen, Live(c).gen + 1}
<1>0. /\ TypeOK /\ [Next]_vars /\ LoopProgress
      /\ \A c \in Contracts : Live(c) \in Object
      /\ Copy \in Object
  BY EntriesTyped DEF Stepping
<1>1. CASE UpdateStatus \/ UpdateStatusFails
  <2> DEFINE object == [Copy EXCEPT !.current = Copy.gen]
  <2>1. /\ contract' = contract \/ Written(run.key, object)
        /\ run.key \in Contracts /\ Live(run.key) = Copy /\ Copy.alive
    BY <1>0, <1>1 DEF UpdateStatus, UpdateStatusFails, StatusWritten, Written, Live, Copy,
                      TypeOK, LoopProgress
  <2>2. object \in Object /\ object.uid = Copy.uid /\ object.gen = Copy.gen
    BY <1>0 DEF Object
  <2> QED
    BY <2>1, <2>2
<1>2. ASSUME NEW c \in Contracts, NEW spec \in Specs, CreateContract(c, spec) PROVE Goal
  <2> DEFINE object ==
        [uid |-> Live(c).uid + 1, alive |-> TRUE, gen |-> 1, spec |-> spec, current |-> 0]
  <2>1. object \in Object /\ object.gen = 1
    BY <1>0 DEF Object
  <2> QED
    BY <1>2, <2>1 DEF CreateContract, Write, Written
<1>3. ASSUME NEW c \in Contracts, NEW spec \in Specs, EditSpec(c, spec) PROVE Goal
  <2> DEFINE object == [Live(c) EXCEPT !.spec = spec, !.gen = Live(c).gen + 1]
  <2>1. Live(c).gen + 1 \in Nat
    BY <1>0 DEF Object
  <2>2. object \in Object /\ object.uid = Live(c).uid /\ object.gen = Live(c).gen + 1
    BY <1>0, <2>1 DEF Object
  <2> QED
    BY <1>3, <2>2 DEF EditSpec, Write, Written
<1>4. ASSUME NEW c \in Contracts, DeleteContract(c) PROVE Goal
  <2> DEFINE object == [Live(c) EXCEPT !.alive = FALSE]
  <2>1. object \in Object /\ ~object.alive
    BY <1>0 DEF Object
  <2> QED
    BY <1>4, <2>1 DEF DeleteContract, Write, Written
<1>5. \/ UNCHANGED contract
      \/ UpdateStatus \/ UpdateStatusFails
      \/ \E c \in Contracts, spec \in Specs : CreateContract(c, spec) \/ EditSpec(c, spec)
      \/ \E c \in Contracts : DeleteContract(c)
  BY <1>0 DEF Next, Reconcile, Fetch, FetchMissing, FetchFound, ResolveText, ResolveFails,
         CreateVersion, CreateFails, UpdateStatusConflict, CacheSync, Resync, ConfigSync, Restart,
         GarbageCollect, EditConfig, vars
<1> QED
  BY <1>1, <1>2, <1>3, <1>4, <1>5

LEMMA GenerationsKeptStep ==
  ASSUME Stepping, GenerationsKept
  PROVE  GenerationsKept'
<1>0. TypeOK /\ \A c \in Contracts : Live(c) \in Object /\ Len(contract[c]) \in Nat \ {0}
  BY EntriesTyped DEF Stepping
<1>1. CASE contract' = contract
  BY <1>1 DEF GenerationsKept, Live
<1>2. ASSUME NEW c \in Contracts, NEW object \in Object, Written(c, object),
             \/ ~object.alive
             \/ object.gen = 1
             \/ /\ Live(c).alive /\ object.uid = Live(c).uid
                /\ object.gen \in {Live(c).gen, Live(c).gen + 1}
      PROVE  GenerationsKept'
  <2> DEFINE n == Len(contract[c])
  <2>1. /\ Len(contract'[c]) = n + 1 /\ contract'[c][n + 1] = object
        /\ \A i \in 1..n : contract'[c][i] = contract[c][i]
        /\ \A d \in Contracts \ {c} : contract'[d] = contract[d]
    BY <1>0, <1>2, HistoryGrows DEF TypeOK
  <2>2. n \in Nat /\ n + 1 \in 1..Len(contract'[c]) /\ Live(c)' = object
    BY <1>0, <2>1 DEF Live
  <2>3. ASSUME object.alive, NEW gen \in 1..object.gen
        PROVE  \E i \in 1..(n + 1) :
                 /\ contract'[c][i].alive /\ contract'[c][i].uid = object.uid
                 /\ contract'[c][i].gen = gen
    <3>1. object.gen \in Nat /\ Live(c).gen \in Nat
      BY <1>0 DEF Object
    <3>2. CASE gen = object.gen
      BY <2>1, <2>2, <2>3, <3>2
    <3>3. CASE gen # object.gen
      <4>1. Live(c).alive /\ object.uid = Live(c).uid /\ gen \in 1..Live(c).gen
        BY <1>2, <2>3, <3>1, <3>3
      <4>2. PICK i \in 1..n :
              contract[c][i].alive /\ contract[c][i].uid = Live(c).uid /\ contract[c][i].gen = gen
        BY <4>1 DEF GenerationsKept
      <4>3. i \in 1..(n + 1) /\ contract'[c][i] = contract[c][i]
        BY <2>1, <2>2
      <4> QED
        BY <4>1, <4>2, <4>3
    <3> QED
      BY <3>2, <3>3
  <2>4. ASSUME NEW d \in Contracts, Live(d)'.alive, NEW gen \in 1..Live(d)'.gen
        PROVE  \E i \in 1..Len(contract'[d]) :
                 /\ contract'[d][i].alive /\ contract'[d][i].uid = Live(d)'.uid
                 /\ contract'[d][i].gen = gen
    <3>1. CASE d = c
      BY <2>1, <2>2, <2>3, <2>4, <3>1
    <3>2. CASE d # c
      <4>1. contract'[d] = contract[d] /\ Live(d)' = Live(d)
        BY <2>1, <3>2 DEF Live
      <4> QED
        BY <2>4, <4>1 DEF GenerationsKept
    <3> QED
      BY <3>1, <3>2
  <2> QED
    BY <2>4 DEF GenerationsKept
<1> QED
  BY <1>1, <1>2, StepAppends

LEMMA GenerationsInit == Init => GenerationsKept
<1> SUFFICES ASSUME Init PROVE GenerationsKept
  OBVIOUS
<1>1. \A c \in Contracts : contract[c] = <<NeverCreated>>
  BY DEF Init
<1>2. \A c \in Contracts : Live(c) = NeverCreated
  BY <1>1 DEF Live
<1> QED
  BY <1>2 DEF NeverCreated, GenerationsKept

-------------------------------------------------------------------------------
(* The mapping *)

\* The variables of Rollout, as ContractRefinement maps them.
Wanted   == IF Alive THEN [gen \in 1..Live(Any).gen |-> AskedFor(gen)] ELSE <<>>
Ordered  == IF Alive THEN {<<v.gen, v.net>> : v \in {w \in versions : w.owner = Any}} ELSE {}
Recorded == IF Alive THEN Live(Any).current ELSE 0
Ended    == Live(Any).uid # 0 /\ ~Alive

\* Which of the entries of one generation AskedFor looks at does not matter.
Asked ==
  \A i \in 1..Len(contract[Any]) :
    contract[Any][i].alive =>
      AskedFor(contract[Any][i].gen) = Range(contract[Any][i].spec.nets)

LEMMA AskedHolds ==
  ASSUME Unclashed
  PROVE  TypeOK /\ HistoryForward /\ Alive => Asked
<1> SUFFICES ASSUME TypeOK, HistoryForward, Alive,
                    NEW i \in 1..Len(contract[Any]), contract[Any][i].alive
             PROVE  AskedFor(contract[Any][i].gen) = Range(contract[Any][i].spec.nets)
  BY DEF Asked
<1> DEFINE history == contract[Any]
           gen == history[i].gen
           j == CHOOSE k \in DOMAIN history : history[k].alive /\ history[k].gen = gen
<1>1. Any \in Contracts /\ history \in Seq(Object) /\ DOMAIN history = 1..Len(history)
  BY AnyTyped DEF TypeOK
<1>2. j \in 1..Len(history) /\ history[j].alive /\ history[j].gen = gen
  BY <1>1
<1>3. AskedFor(gen) = Range(history[j].spec.nets)
  BY DEF AskedFor
<1> HIDE DEF j
<1>4. /\ \A k \in 1..Len(history) : history[k].alive => history[k].uid = 1
      /\ history[i] \in Object /\ history[j] \in Object
  <2>1. \A k \in 1..Len(history) : history[k] \in Object
    BY <1>1, ElementOfSeq
  <2>2. ASSUME NEW k \in 1..Len(history), history[k].alive PROVE history[k].uid = 1
    <3>1. Sane(history[k]) /\ Follows(history[k], Live(Any)) /\ Live(Any).uid = 1
      BY <1>1, LastEntry DEF HistoryForward, Alive
    <3>2. history[k].uid \in Nat
      BY <2>1 DEF Object
    <3> QED
      BY <2>2, <3>1, <3>2 DEF Sane, Follows
  <2> QED
    BY <1>2, <2>1, <2>2
<1>5. history[i].spec = history[j].spec
  <2>1. history[i].uid = history[j].uid /\ history[i].gen = history[j].gen
    BY <1>2, <1>4
  <2>2. j \in i..Len(history) \/ i \in j..Len(history)
    BY <1>1, <1>2
  <2>3. Follows(history[i], history[j]) \/ Follows(history[j], history[i])
    BY <1>1, <1>2, <2>2 DEF HistoryForward
  <2> QED
    BY <2>1, <2>3 DEF Follows
<1> QED
  BY <1>3, <1>5

LEMMA AskedNext ==
  ASSUME Unclashed
  PROVE  TypeOK' /\ HistoryForward' /\ Alive' => Asked'
BY AskedHolds, PTL

\* What a step keeps of what the generations ask for, while the Contract lives.
LEMMA AskedKept ==
  ASSUME Unclashed, Stepping, GenerationsKept, Alive, Alive'
  PROVE  /\ Asked /\ Asked'
         /\ Live(Any).gen \in Nat
         /\ \A gen \in 1..Live(Any).gen : AskedFor(gen)' = AskedFor(gen)
<1>1. /\ Any \in Contracts /\ TypeOK /\ TypeOK' /\ HistoryForward /\ HistoryForward'
      /\ Live(Any) \in Object
  BY AnyTyped, EveryStepAdvances, HistoryStep DEF Stepping
<1>2. Asked /\ Asked'
  BY <1>1, AskedHolds, AskedNext
<1>3. /\ Len(contract[Any]) \in Nat /\ Len(contract'[Any]) \in Nat
      /\ Len(contract[Any]) <= Len(contract'[Any])
      /\ \A i \in 1..Len(contract[Any]) : contract'[Any][i] = contract[Any][i]
  <2>1. contract[Any] \in Seq(Object) /\ contract'[Any] \in Seq(Object)
    BY <1>1 DEF TypeOK
  <2> QED
    BY <1>1, <2>1 DEF Stepping
<1>4. ASSUME NEW gen \in 1..Live(Any).gen PROVE AskedFor(gen)' = AskedFor(gen)
  <2>1. PICK i \in 1..Len(contract[Any]) : contract[Any][i].alive /\ contract[Any][i].gen = gen
    BY <1>1 DEF GenerationsKept, Alive
  <2>2. AskedFor(gen) = Range(contract[Any][i].spec.nets)
    BY <1>2, <2>1 DEF Asked
  <2>3. i \in 1..Len(contract'[Any]) /\ contract'[Any][i] = contract[Any][i]
    BY <1>3
  <2>4. AskedFor(gen)' = Range(contract'[Any][i].spec.nets)
    BY <1>2, <2>1, <2>3 DEF Asked
  <2> QED
    BY <2>2, <2>3, <2>4
<1> QED
  BY <1>1, <1>2, <1>4 DEF Object

\* Every version of the living Contract is of its incarnation and stays.
LEMMA OrderedKept ==
  ASSUME Unclashed, Stepping, Alive, Alive', UNCHANGED Live(Any),
         \/ UNCHANGED versions
         \/ \E v \in versions : GarbageCollect(v)
  PROVE  Ordered' = Ordered
<1>1. Any \in Contracts /\ VersionsOwned
  BY AnyTyped DEF Stepping
<1>2. CASE UNCHANGED versions
  BY <1>2 DEF Ordered
<1>3. ASSUME NEW v \in versions, GarbageCollect(v) PROVE Ordered' = Ordered
  <2>1. v.owner # Any
    <3>1. SUFFICES ASSUME v.owner = Any PROVE FALSE
      OBVIOUS
    <3>2. v.uid \in 1..1
      BY <3>1 DEF VersionsOwned, Stepping, Alive
    <3> QED
      BY <1>3, <3>1, <3>2 DEF GarbageCollect, OwnerGone, Alive
  <2>2. {w \in versions' : w.owner = Any} = {w \in versions : w.owner = Any}
    BY <1>3, <2>1 DEF GarbageCollect
  <2> QED
    BY <2>2 DEF Ordered
<1> QED
  BY <1>2, <1>3

\* A step that leaves the Contract's history and its versions alone.
LEMMA StutterStep ==
  ASSUME Unclashed, Stepping, contract'[Any] = contract[Any],
         \/ UNCHANGED versions
         \/ \E v \in versions : GarbageCollect(v)
  PROVE  UNCHANGED <<Wanted, Ordered, Recorded, Ended>>
<1>1. Live(Any)' = Live(Any) /\ (Alive' <=> Alive)
  BY DEF Live, Alive
<1>2. \A gen : AskedFor(gen)' = AskedFor(gen)
  BY DEF AskedFor
<1>3. UNCHANGED <<Wanted, Recorded, Ended>>
  BY <1>1, <1>2 DEF Wanted, Recorded, Ended
<1>4. CASE Alive
  BY <1>1, <1>3, <1>4, OrderedKept
<1>5. CASE ~Alive
  BY <1>1, <1>3, <1>5 DEF Ordered
<1> QED
  BY <1>4, <1>5

-------------------------------------------------------------------------------
(* The steps of Rollout *)

LEMMA CreateStep ==
  ASSUME Unclashed, Stepping, LoopProgress, run.pc = "create", run.i <= Len(Copy.spec.nets),
         versions' \in {versions, Created(NextVersion)}, UNCHANGED contract
  PROVE  Promise!Next \/ UNCHANGED <<Wanted, Ordered, Recorded, Ended>>
<1>0. /\ Any \in Contracts /\ TypeOK /\ HistoryForward /\ run.key \in Contracts
      /\ Live(Any) \in Object /\ Copy \in Object /\ Copy.alive
  BY AnyTyped, EntriesTyped DEF Stepping, TypeOK, LoopProgress
<1>1. Live(Any)' = Live(Any) /\ (Alive' <=> Alive)
  BY DEF Live, Alive
<1>2. \A gen : AskedFor(gen)' = AskedFor(gen)
  BY DEF AskedFor
<1>3. UNCHANGED <<Wanted, Recorded, Ended>>
  BY <1>1, <1>2 DEF Wanted, Recorded, Ended
<1>4. CASE versions' = versions
  BY <1>4, StutterStep
<1>5. CASE ~Alive
  BY <1>1, <1>3, <1>5 DEF Ordered
<1>6. CASE Alive /\ versions' = versions \cup {NextVersion}
  <2>0. PICK net \in Networks : net = Copy.spec.nets[run.i]
    BY <1>0, NetworkTyped
  <2>1. NextVersion.owner = run.key /\ NextVersion.gen = Copy.gen /\ NextVersion.net = net
    BY <2>0 DEF NextVersion
  <2>2. CASE run.key # Any
    <3>1. {w \in versions' : w.owner = Any} = {w \in versions : w.owner = Any}
      BY <1>6, <2>1, <2>2
    <3> QED
      BY <1>1, <1>3, <3>1 DEF Ordered
  <2>3. CASE run.key = Any
    <3>1. {w \in versions' : w.owner = Any} = {w \in versions : w.owner = Any} \cup {NextVersion}
      BY <1>6, <2>1, <2>3
    <3>2. Ordered' = Ordered \cup {<<Copy.gen, net>>}
      BY <1>1, <1>6, <2>1, <3>1 DEF Ordered
    <3>3. Copy.gen \in 1..Live(Any).gen
      <4>1. Sane(Copy) /\ Follows(Copy, Live(Any)) /\ Live(Any).uid = 1
        BY <1>0, <1>6, <2>3, LastEntry DEF Alive
      <4>2. Copy.uid \in Nat /\ Copy.gen \in Nat /\ Live(Any).gen \in Nat
        BY <1>0 DEF Object
      <4>3. Copy.uid = 1
        BY <1>0, <4>1, <4>2 DEF Sane, Follows
      <4> QED
        BY <1>0, <4>1, <4>2, <4>3 DEF Sane, Follows
    <3>4. AskedFor(Copy.gen) = Range(Copy.spec.nets)
      BY <1>0, <1>6, <2>3, AskedHolds DEF Asked, Copy, TypeOK
    <3>5. net \in Range(Copy.spec.nets)
      <4>1. Copy.spec.nets \in Seq(Networks) /\ run.i \in Nat \ {0}
        BY <1>0, EntriesTyped DEF SpecType, TypeOK
      <4>2. DOMAIN Copy.spec.nets = 1..Len(Copy.spec.nets) /\ run.i \in 1..Len(Copy.spec.nets)
        BY <4>1
      <4> QED
        BY <2>0, <4>2 DEF Range
    <3>6. ~Ended
      BY <1>6 DEF Ended
    <3>7. DOMAIN Wanted = 1..Live(Any).gen /\ Wanted[Copy.gen] = Range(Copy.spec.nets)
      BY <1>6, <3>3, <3>4 DEF Wanted
    <3>8. Promise!Order(Copy.gen, net)
      BY <1>3, <3>2, <3>5, <3>6, <3>7 DEF Promise!Order, Wanted, Ordered, Recorded, Ended
    <3>9. Copy.gen \in DOMAIN Wanted
      BY <3>3, <3>7
    <3>10. \E gen \in DOMAIN Wanted : \E n \in Networks : Promise!Order(gen, n)
      BY <3>8, <3>9, Zenon
    <3> QED
      BY <3>10, Zenon DEF Promise!Next, Wanted
  <2> QED
    BY <2>2, <2>3
<1> QED
  BY <1>4, <1>5, <1>6 DEF Created

LEMMA RecordStep ==
  ASSUME Unclashed, Stepping, GenerationsKept, LoopProgress, UpdateStatus \/ UpdateStatusFails
  PROVE  Promise!Next \/ UNCHANGED <<Wanted, Ordered, Recorded, Ended>>
<1>0. /\ Any \in Contracts /\ NoClash(Any) /\ TypeOK /\ HistoryForward /\ run.key \in Contracts
      /\ Live(Any) \in Object /\ Copy \in Object
  BY AnyTyped, EntriesTyped DEF Stepping, TypeOK
<1>1. UNCHANGED versions
  BY DEF UpdateStatus, UpdateStatusFails
<1>2. /\ run.pc = "create" /\ run.i > Len(Copy.spec.nets) /\ Copy.alive
      /\ Live(run.key) = Copy
      /\ contract' = contract \/ (contract' = StatusWritten /\ contract' # contract)
  BY <1>0 DEF UpdateStatus, UpdateStatusFails, LoopProgress, Copy, Live
<1>3. CASE contract'[Any] = contract[Any]
  BY <1>1, <1>3, StutterStep
<1>4. CASE contract'[Any] # contract[Any]
  <2> DEFINE object == [Copy EXCEPT !.current = Copy.gen]
  <2>1. Written(run.key, object) /\ Copy.current # Copy.gen
    BY <1>2, <1>4 DEF StatusWritten, Written
  <2>2. /\ object \in Object /\ object.uid = Copy.uid /\ object.alive = Copy.alive
        /\ object.gen = Copy.gen /\ object.current = Copy.gen
    BY <1>0 DEF Object
  <2> HIDE DEF object
  <2>3. run.key = Any
    BY <1>0, <1>4, <2>1 DEF Written, TypeOK
  <2>4. Live(Any)' = object
    BY <1>0, <2>1, <2>2, <2>3, HistoryGrows DEF Live, TypeOK
  <2>5. Live(Any) = Copy
    BY <1>2, <2>3
  <2>6. (Alive' <=> Alive) /\ (Ended' <=> Ended)
    BY <2>2, <2>4, <2>5 DEF Alive, Ended
  <2>7. CASE ~Alive
    BY <2>6, <2>7 DEF Wanted, Ordered, Recorded, Ended
  <2>8. CASE Alive
    <3>1. /\ Asked /\ Copy.gen \in Nat
          /\ \A gen \in 1..Copy.gen : AskedFor(gen)' = AskedFor(gen)
      BY <2>5, <2>6, <2>8, AskedKept
    <3>2. Wanted' = Wanted
      BY <2>2, <2>4, <2>5, <2>6, <2>8, <3>1 DEF Wanted
    <3>3. Ordered' = Ordered
      BY <1>1, <2>6 DEF Ordered
    <3>4. Recorded = Copy.current /\ Recorded' = Copy.gen
      BY <2>2, <2>4, <2>5, <2>6, <2>8 DEF Recorded
    <3>5. ~Ended /\ ~Ended'
      BY <2>6, <2>8 DEF Ended
    <3>6. Copy.gen > Copy.current /\ Copy.gen \in 1..Live(Any).gen
      <4>1. Sane(Copy) /\ Copy.current \in Nat
        BY <1>0, LastEntry DEF Object
      <4> QED
        BY <1>2, <2>1, <2>5, <3>1, <4>1 DEF Sane
    <3>7. Wanted[Copy.gen] = Range(Copy.spec.nets) /\ DOMAIN Wanted = 1..Live(Any).gen
      <4>1. AskedFor(Copy.gen) = Range(Copy.spec.nets)
        BY <1>0, <1>2, <2>3, <3>1 DEF Asked, Copy, TypeOK
      <4> QED
        BY <2>8, <3>6, <4>1 DEF Wanted
    <3>8. {Copy.gen} \X Range(Copy.spec.nets) \subseteq Ordered
      <4>1. ASSUME NEW net \in Range(Copy.spec.nets) PROVE <<Copy.gen, net>> \in Ordered
        <5>1. Copy.spec.nets \in Seq(Networks) /\ run.i \in Nat
          BY <1>0, EntriesTyped DEF SpecType, TypeOK
        <5>2. PICK j \in 1..Len(Copy.spec.nets) : Copy.spec.nets[j] = net
          BY <5>1 DEF Range
        <5>3. Current(Copy, run.key) /\ j < run.i
          BY <1>0, <1>2, <2>3, <2>5, <2>8, <5>1 DEF Current, Alive
        <5>4. Deployed(Any, Copy.uid, Copy.gen, net)
          BY <2>3, <5>2, <5>3 DEF LoopProgress
        <5> QED
          BY <2>8, <5>4 DEF Deployed, Ordered
      <4> QED
        BY <4>1
    <3>9. Promise!Record(Copy.gen)
      BY <3>2, <3>3, <3>4, <3>5, <3>6, <3>7, <3>8
         DEF Promise!Record, Wanted, Ordered, Recorded, Ended
    <3>10. \E gen \in DOMAIN Wanted : Promise!Record(gen)
      BY <3>6, <3>7, <3>9, Zenon
    <3> QED
      BY <3>10, Zenon DEF Promise!Next, Wanted
  <2> QED
    BY <2>7, <2>8
<1> QED
  BY <1>3, <1>4

\* A generation is added to what is wanted.
LEMMA WantStep ==
  ASSUME NEW nets \in SUBSET Networks, Wanted' = Append(Wanted, nets), Ordered' = Ordered,
         Recorded' = Recorded, ~Ended, ~Ended'
  PROVE  Promise!Next
<1>1. Ended' = Ended
  BY DEF Ended
<1>2. Promise!Want(nets)
  BY <1>1, Zenon DEF Promise!Want, Wanted, Ordered, Recorded, Ended
<1> QED
  BY <1>2, Zenon DEF Promise!Next

LEMMA NewContractStep ==
  ASSUME Unclashed, Stepping, NEW spec \in Specs, CreateContract(Any, spec)
  PROVE  Promise!Next \/ UNCHANGED <<Wanted, Ordered, Recorded, Ended>>
<1> USE ContractAssumption
<1> DEFINE object ==
      [uid |-> Live(Any).uid + 1, alive |-> TRUE, gen |-> 1, spec |-> spec, current |-> 0]
<1>0. /\ Any \in Contracts /\ TypeOK /\ TypeOK' /\ Live(Any) \in Object
      /\ HistoryForward /\ HistoryForward'
  BY AnyTyped, EveryStepAdvances, HistoryStep DEF Stepping
<1>1. Written(Any, object) /\ ~Live(Any).alive /\ UNCHANGED versions
  BY DEF CreateContract, Write, Written
<1>2. object \in Object /\ Live(Any).uid \in Nat
  BY <1>0 DEF Object
<1>3. /\ Len(contract'[Any]) = Len(contract[Any]) + 1
      /\ contract'[Any][Len(contract[Any]) + 1] = object
      /\ Live(Any)' = object
  <2>1. contract \in [Contracts -> Seq(Object)]
    BY <1>0 DEF TypeOK
  <2> HIDE DEF object
  <2>2. /\ Len(contract'[Any]) = Len(contract[Any]) + 1
        /\ contract'[Any][Len(contract[Any]) + 1] = object
    BY <1>0, <1>1, <1>2, <2>1, HistoryGrows
  <2> QED
    BY <2>2 DEF Live
<1>4. ~Alive
  BY <1>1 DEF Alive
<1>5. CASE Live(Any).uid = 0
  <2>1. Alive'
    BY <1>3, <1>5 DEF Alive
  <2>2. AskedFor(1)' = Range(spec.nets)
    <3>1. Asked'
      BY <1>0, <2>1, AskedNext
    <3>2. Len(contract[Any]) + 1 \in 1..Len(contract'[Any])
      BY <1>0, <1>3 DEF TypeOK
    <3> QED
      BY <1>3, <3>1, <3>2 DEF Asked
  <2>3. Wanted' = Append(Wanted, Range(spec.nets))
    <3>1. Wanted = <<>>
      BY <1>4 DEF Wanted
    <3>2. Wanted' = [gen \in 1..1 |-> AskedFor(gen)']
      BY <1>3, <2>1 DEF Wanted
    <3>3. Append(<<>>, Range(spec.nets)) = [gen \in 1..1 |-> Range(spec.nets)]
      OBVIOUS
    <3>4. \A gen \in 1..1 : AskedFor(gen)' = Range(spec.nets)
      <4>1. \A gen \in 1..1 : gen = 1
        OBVIOUS
      <4> QED
        BY <2>2, <4>1
    <3> QED
      BY <3>1, <3>2, <3>3, <3>4
  <2>4. Ordered' = Ordered
    <3>1. \A v \in versions : v.owner # Any
      <4>1. \A v \in versions : v.uid \in 1..Live(v.owner).uid
        BY DEF Stepping, VersionsOwned
      <4> QED
        BY <1>5, <4>1
    <3> QED
      BY <1>1, <1>4, <3>1 DEF Ordered
  <2>5. Recorded' = Recorded /\ ~Ended /\ ~Ended'
    BY <1>3, <1>4, <1>5, <2>1 DEF Recorded, Ended
  <2>6. Range(spec.nets) \in SUBSET Networks
    BY DEF SpecType, Range
  <2> QED
    BY <2>3, <2>4, <2>5, <2>6, WantStep
<1>6. CASE Live(Any).uid # 0
  <2>1. ~Alive' /\ Ended /\ Ended'
    BY <1>2, <1>3, <1>4, <1>6 DEF Alive, Ended
  <2> QED
    BY <1>4, <2>1 DEF Wanted, Ordered, Recorded, Ended
<1> QED
  BY <1>5, <1>6

LEMMA NewGenerationStep ==
  ASSUME Unclashed, Stepping, GenerationsKept, NEW spec \in Specs, EditSpec(Any, spec)
  PROVE  Promise!Next \/ UNCHANGED <<Wanted, Ordered, Recorded, Ended>>
<1> USE ContractAssumption
<1> DEFINE object == [Live(Any) EXCEPT !.spec = spec, !.gen = Live(Any).gen + 1]
           n == Live(Any).gen
<1>0. /\ Any \in Contracts /\ TypeOK /\ TypeOK' /\ Live(Any) \in Object
      /\ contract \in [Contracts -> Seq(Object)] /\ Len(contract[Any]) \in Nat
  BY AnyTyped, EntriesTyped DEF Stepping, TypeOK
<1>1. Written(Any, object) /\ Live(Any).alive /\ UNCHANGED versions
  BY DEF EditSpec, Write, Written
<1>2. /\ n \in Nat /\ n + 1 \in Nat
      /\ object \in Object /\ object.uid = Live(Any).uid /\ object.alive = Live(Any).alive
      /\ object.gen = n + 1 /\ object.spec = spec /\ object.current = Live(Any).current
  <2>1. n \in Nat /\ n + 1 \in Nat
    BY <1>0 DEF Object
  <2> QED
    BY <1>0, <2>1 DEF Object
<1> HIDE DEF object
<1>3. /\ Len(contract'[Any]) = Len(contract[Any]) + 1
      /\ contract'[Any][Len(contract[Any]) + 1] = object
  BY <1>0, <1>1, <1>2, HistoryGrows
<1>4. Live(Any)' = object
  BY <1>3 DEF Live
<1>5. (Alive' <=> Alive) /\ (Ended' <=> Ended)
  BY <1>2, <1>4 DEF Alive, Ended
<1>6. CASE ~Alive
  BY <1>5, <1>6 DEF Wanted, Ordered, Recorded, Ended
<1>7. CASE Alive
  <2>1. Asked' /\ \A gen \in 1..n : AskedFor(gen)' = AskedFor(gen)
    BY <1>5, <1>7, AskedKept
  <2>2. ASSUME NEW gen, gen = n + 1 PROVE AskedFor(gen)' = Range(spec.nets)
    <3>1. Len(contract[Any]) + 1 \in 1..Len(contract'[Any])
      BY <1>0, <1>3
    <3> QED
      BY <1>1, <1>2, <1>3, <2>1, <2>2, <3>1 DEF Asked
  <2>3. Wanted' = Append(Wanted, Range(spec.nets))
    <3> DEFINE old == [gen \in 1..n |-> AskedFor(gen)]
               new == [gen \in 1..(n + 1) |-> AskedFor(gen)']
    <3>1. Wanted = old
      BY <1>7 DEF Wanted
    <3>2. Wanted' = new
      BY <1>2, <1>4, <1>5, <1>7 DEF Wanted
    <3>3. \A gen \in 1..n : new[gen] = old[gen]
      BY <1>2, <2>1
    <3>4. \A gen \in 1..(n + 1) : gen = n + 1 => new[gen] = Range(spec.nets)
      BY <2>2
    <3>5. Append(old, Range(spec.nets)) =
            [gen \in 1..(n + 1) |-> IF gen = n + 1 THEN Range(spec.nets) ELSE old[gen]]
      <4> DEFINE sets == {AskedFor(gen) : gen \in 1..n} \cup {Range(spec.nets)}
      <4>1. old \in Seq(sets) /\ Len(old) = n
        BY <1>2
      <4> QED
        BY <1>2, <4>1
    <3>6. \A gen \in 1..(n + 1) :
            new[gen] = IF gen = n + 1 THEN Range(spec.nets) ELSE old[gen]
      <4>1. \A gen \in 1..(n + 1) : gen # n + 1 => gen \in 1..n
        BY <1>2
      <4> HIDE DEF old, new
      <4> QED
        BY <3>3, <3>4, <4>1
    <3> HIDE DEF old
    <3> QED
      BY <3>1, <3>2, <3>5, <3>6
  <2>4. Ordered' = Ordered
    BY <1>1, <1>5, <1>7 DEF Ordered
  <2>5. Recorded' = Recorded /\ ~Ended /\ ~Ended'
    BY <1>2, <1>4, <1>5, <1>7 DEF Recorded, Ended
  <2>6. Range(spec.nets) \in SUBSET Networks
    BY DEF SpecType, Range
  <2> QED
    BY <2>3, <2>4, <2>5, <2>6, WantStep
<1> QED
  BY <1>6, <1>7

LEMMA EndStep ==
  ASSUME Unclashed, Stepping, DeleteContract(Any)
  PROVE  Promise!Next \/ UNCHANGED <<Wanted, Ordered, Recorded, Ended>>
<1> DEFINE object == [Live(Any) EXCEPT !.alive = FALSE]
<1>0. /\ Any \in Contracts /\ TypeOK /\ Live(Any) \in Object /\ Sane(Live(Any))
      /\ contract \in [Contracts -> Seq(Object)]
  BY AnyTyped, EntriesTyped, LastEntry DEF Stepping, TypeOK
<1>1. Written(Any, object) /\ Live(Any).alive
  BY DEF DeleteContract, Write, Written
<1>2. object \in Object /\ object.uid = Live(Any).uid /\ ~object.alive
  BY <1>0 DEF Object
<1> HIDE DEF object
<1>3. /\ Len(contract'[Any]) = Len(contract[Any]) + 1
      /\ contract'[Any][Len(contract[Any]) + 1] = object
  BY <1>0, <1>1, <1>2, HistoryGrows
<1>4. Live(Any)' = object
  BY <1>3 DEF Live
<1>5. ~Alive' /\ Live(Any)'.uid # 0
  BY <1>0, <1>1, <1>2, <1>4 DEF Alive, Sane, Object
<1>6. Ended' = TRUE
  BY <1>5 DEF Ended
<1>7. CASE Alive
  <2>1. Promise!End
    BY <1>5, <1>6, <1>7 DEF Promise!End, Wanted, Ordered, Recorded, Ended
  <2> QED
    BY <2>1, Zenon DEF Promise!Next
<1>8. CASE ~Alive
  <2>1. Ended = TRUE
    BY <1>2, <1>4, <1>5, <1>8 DEF Ended
  <2> QED
    BY <1>5, <1>6, <1>8, <2>1 DEF Wanted, Ordered, Recorded
<1> QED
  BY <1>7, <1>8

-------------------------------------------------------------------------------
(* The refinement *)

LEMMA RefinementInit == ASSUME Unclashed PROVE Init => Promise!Init
<1> SUFFICES ASSUME Init PROVE Promise!Init
  OBVIOUS
<1>1. Any \in Contracts
  BY AnyTyped
<1>2. Live(Any) = NeverCreated
  BY <1>1 DEF Init, Live
<1>3. ~Alive /\ Live(Any).uid = 0
  BY <1>2 DEF NeverCreated, Alive
<1> QED
  BY <1>3 DEF Promise!Init

LEMMA RefinementStep ==
  ASSUME Unclashed, Stepping, GenerationsKept
  PROVE  Promise!Next \/ UNCHANGED <<Wanted, Ordered, Recorded, Ended>>
<1> DEFINE Goal == Promise!Next \/ UNCHANGED <<Wanted, Ordered, Recorded, Ended>>
<1>0. TypeOK /\ [Next]_vars /\ LoopProgress /\ Any \in Contracts
  BY AnyTyped DEF Stepping
<1>1. CASE CreateVersion \/ CreateFails
  <2>1. /\ run.pc = "create" /\ run.i <= Len(Copy.spec.nets)
        /\ versions' \in {versions, Created(NextVersion)} /\ UNCHANGED contract
    BY <1>1 DEF CreateVersion, CreateFails
  <2> QED
    BY <1>0, <2>1, CreateStep
<1>2. CASE UpdateStatus \/ UpdateStatusFails
  BY <1>0, <1>2, RecordStep
<1>3. ASSUME NEW c \in Contracts, NEW spec \in Specs, CreateContract(c, spec) PROVE Goal
  <2>1. CASE c = Any
    BY <1>3, <2>1, NewContractStep
  <2>2. CASE c # Any
    <3>1. contract'[Any] = contract[Any] /\ UNCHANGED versions
      BY <1>0, <1>3, <2>2 DEF CreateContract, Write, TypeOK
    <3> QED
      BY <3>1, StutterStep
  <2> QED
    BY <2>1, <2>2
<1>4. ASSUME NEW c \in Contracts, NEW spec \in Specs, EditSpec(c, spec) PROVE Goal
  <2>1. CASE c = Any
    BY <1>4, <2>1, NewGenerationStep
  <2>2. CASE c # Any
    <3>1. contract'[Any] = contract[Any] /\ UNCHANGED versions
      BY <1>0, <1>4, <2>2 DEF EditSpec, Write, TypeOK
    <3> QED
      BY <3>1, StutterStep
  <2> QED
    BY <2>1, <2>2
<1>5. ASSUME NEW c \in Contracts, DeleteContract(c) PROVE Goal
  <2>1. CASE c = Any
    BY <1>5, <2>1, EndStep
  <2>2. CASE c # Any
    <3>1. contract'[Any] = contract[Any] /\ UNCHANGED versions
      BY <1>0, <1>5, <2>2 DEF DeleteContract, Write, TypeOK
    <3> QED
      BY <3>1, StutterStep
  <2> QED
    BY <2>1, <2>2
<1>6. CASE UNCHANGED contract /\ (UNCHANGED versions \/ \E v \in versions : GarbageCollect(v))
  BY <1>6, StutterStep
<1>7. \/ UNCHANGED contract /\ (UNCHANGED versions \/ \E v \in versions : GarbageCollect(v))
      \/ CreateVersion \/ CreateFails
      \/ UpdateStatus \/ UpdateStatusFails
      \/ \E c \in Contracts, spec \in Specs : CreateContract(c, spec) \/ EditSpec(c, spec)
      \/ \E c \in Contracts : DeleteContract(c)
  BY <1>0 DEF Next, Reconcile, Fetch, FetchMissing, FetchFound, ResolveText, ResolveFails,
         UpdateStatusConflict, CacheSync, Resync, ConfigSync, Restart, GarbageCollect,
         EditConfig, vars
<1> QED
  BY <1>1, <1>2, <1>3, <1>4, <1>5, <1>6, <1>7

\* Whatever fails, is retried, is lost or is edited, of a Contract whose name
\* clashes with no other the reconciler does only what Rollout allows: it orders
\* what a generation asks for, and records a generation once all of it is ordered.
THEOREM RolloutImplemented == ASSUME Unclashed PROVE Spec => ImplementsRollout
<1>1. Init => Promise!Init /\ RInv
  BY RefinementInit, InvariantInit, GenerationsInit DEF RInv
<1>2. RInv /\ [Next]_vars => RInv' /\ [Promise!Next]_Promise!vars
  <2> SUFFICES ASSUME RInv, [Next]_vars PROVE RInv' /\ [Promise!Next]_Promise!vars
    OBVIOUS
  <2>1. IInv' /\ Stepping /\ GenerationsKept
    BY InvariantStep DEF RInv
  <2>2. GenerationsKept'
    BY <2>1, GenerationsKeptStep
  <2>3. Promise!Next \/ UNCHANGED <<Wanted, Ordered, Recorded, Ended>>
    BY <2>1, RefinementStep
  <2>4. Promise!Next \/ UNCHANGED Promise!vars
    BY <2>3, Zenon DEF Promise!vars, Wanted, Ordered, Recorded, Ended
  <2> QED
    BY <2>1, <2>2, <2>4 DEF RInv
<1> QED
  BY <1>1, <1>2, PTL DEF Spec, ImplementsRollout, Promise!Spec
===============================================================================
