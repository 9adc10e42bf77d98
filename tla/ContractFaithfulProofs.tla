------------------------ MODULE ContractFaithfulProofs ------------------------
(****************************************************************************)
(* VersionFaithful of ContractController, for every value of the constants: *)
(* no retry, restart, edit or stale cache mixes the generations of a        *)
(* Contract or the revisions of the ConfigMaps in one ContractVersion.      *)
(****************************************************************************)
EXTENDS ContractControllerProofs

-------------------------------------------------------------------------------
(* Texts read from a history of the ConfigMaps *)

\* TextAt, of a history that is not the state's.
TextFrom(maps, spec, p, revision) ==
  IF spec.inline[p] # Empty \/ spec.ref[p] = NoRef
  THEN spec.inline[p] ELSE maps[revision][spec.ref[p]]

InOrder(rev) ==
  rev["code"] <= rev["script"] /\ rev["script"] <= rev["test"] /\ rev["test"] <= rev["foundryConfig"]

\* The texts of these parts were read one after the other from the first
\* revisions of the ConfigMaps, up to limit, never an older after a newer one.
ReadFrom(maps, limit, spec, text, parts) ==
  \E rev \in [Parts -> 1..limit] :
    InOrder(rev) /\ \A p \in parts : text[p] = TextFrom(maps, spec, p, rev[p])

\* The parts a reconcile has read when it is about to do pc.
Read(pc) ==
  CASE pc = "create"        -> Parts
    [] pc = "foundryConfig" -> {"code", "script", "test"}
    [] pc = "test"          -> {"code", "script"}
    [] pc = "script"        -> {"code"}
    [] OTHER                -> {}

\* What was read stays readable when revisions are added.
LEMMA ReadFromGrows ==
  ASSUME NEW maps, NEW more, NEW n \in Nat, NEW m \in Nat, n <= m,
         \A i \in 1..n : more[i] = maps[i],
         NEW spec, NEW text, NEW parts, parts \subseteq Parts, ReadFrom(maps, n, spec, text, parts)
  PROVE  ReadFrom(more, m, spec, text, parts)
<1>1. PICK rev \in [Parts -> 1..n] :
        InOrder(rev) /\ \A p \in parts : text[p] = TextFrom(maps, spec, p, rev[p])
  BY DEF ReadFrom
<1>2. rev \in [Parts -> 1..m]
  OBVIOUS
<1>3. ASSUME NEW p \in parts PROVE text[p] = TextFrom(more, spec, p, rev[p])
  <2>1. more[rev[p]] = maps[rev[p]]
    OBVIOUS
  <2> QED
    BY <1>1, <2>1 DEF TextFrom
<1> QED
  BY <1>1, <1>2, <1>3 DEF ReadFrom

\* Nothing read yet.
LEMMA ReadNothing ==
  ASSUME NEW maps, NEW n \in Nat \ {0}, NEW spec, NEW text
  PROVE  ReadFrom(maps, n, spec, text, {})
<1> DEFINE rev == [p \in Parts |-> 1]
<1>1. rev \in [Parts -> 1..n] /\ InOrder(rev)
  BY DEF InOrder, Parts
<1> HIDE DEF rev
<1> QED
  BY <1>1 DEF ReadFrom

\* One part more is read, from the newest revision.
LEMMA ReadOneMore ==
  ASSUME NEW maps, NEW n \in Nat \ {0}, NEW spec, NEW text \in [Parts -> Texts], NEW p \in Parts,
         ReadFrom(maps, n, spec, text, Read(p))
  PROVE  ReadFrom(maps, n, spec, [text EXCEPT ![p] = TextFrom(maps, spec, p, n)], Read(After(p)))
<1> DEFINE next == [text EXCEPT ![p] = TextFrom(maps, spec, p, n)]
<1>1. PICK rev \in [Parts -> 1..n] :
        InOrder(rev) /\ \A q \in Read(p) : text[q] = TextFrom(maps, spec, q, rev[q])
  BY DEF ReadFrom
<1> DEFINE new == [q \in Parts |-> IF q \in Read(p) THEN rev[q] ELSE n]
<1>2. new \in [Parts -> 1..n]
  OBVIOUS
<1>3. /\ Read(After(p)) = Read(p) \cup {p}
      /\ p \notin Read(p) /\ Read(p) \subseteq Parts
  BY DEF Read, After, Parts
<1>4. InOrder(new)
  BY <1>1 DEF InOrder, Read, Parts
<1>5. ASSUME NEW q \in Read(p) \cup {p} PROVE next[q] = TextFrom(maps, spec, q, new[q])
  <2>1. CASE q = p
    <3>1. next[p] = TextFrom(maps, spec, p, n) /\ new[p] = n
      BY <1>3
    <3> QED
      BY <2>1, <3>1
  <2>2. CASE q # p
    <3>1. next[q] = text[q] /\ new[q] = rev[q] /\ q \in Read(p)
      BY <1>3, <2>2
    <3> QED
      BY <1>1, <3>1
  <2> QED
    BY <2>1, <2>2
<1> HIDE DEF new, next
<1>6. ReadFrom(maps, n, spec, next, Read(p) \cup {p})
  BY <1>2, <1>4, <1>5 DEF ReadFrom
<1> QED
  BY <1>3, <1>6 DEF next

-------------------------------------------------------------------------------
(* The inductive invariant *)

\* The texts of the reconcile in progress come from the entry it fetched, read
\* one after the other from what its cache has shown so far, and it has gone
\* past the script only with something to deploy.
TextsFaithful ==
  /\ ReadFrom(config, configSeen, Copy.spec, run.text, Read(run.pc))
  /\ run.pc \in {"test", "foundryConfig", "create"} =>
       run.text["code"] # Empty \/ run.text["script"] # Empty

\* VersionFaithful, of one version, by the place of the entry in the history.
CopyOf(history, maps, v) ==
  /\ v.text["code"] # Empty \/ v.text["script"] # Empty
  /\ \E i \in 1..Len(history) :
       /\ history[i].alive /\ history[i].uid = v.uid /\ history[i].gen = v.gen
       /\ v.net \in Range(history[i].spec.nets) /\ v.wallet = history[i].spec.wallet
       /\ ReadFrom(maps, Len(maps), history[i].spec, v.text, Parts)

VersionsFaithful == \A v \in versions : CopyOf(contract[v.owner], config, v)

FInv == IInv /\ TextsFaithful /\ VersionsFaithful

\* The history of the ConfigMaps and what the cache shows of it only grow.
LEMMA ConfigGrows ==
  ASSUME TypeOK, TypeOK', [Next]_vars
  PROVE  /\ configSeen \in Nat \ {0} /\ configSeen <= Len(config) /\ Len(config) \in Nat
         /\ configSeen' \in Nat \ {0} /\ configSeen' <= Len(config') /\ Len(config') \in Nat
         /\ configSeen <= configSeen' /\ Len(config) <= Len(config')
         /\ \A i \in 1..Len(config) : config'[i] = config[i]
<1>1. /\ config \in Seq(ConfigMaps) /\ configSeen \in 1..Len(config)
      /\ config' \in Seq(ConfigMaps) /\ configSeen' \in 1..Len(config')
  BY DEF TypeOK
<1>2. CASE UNCHANGED <<config, configSeen>>
  BY <1>1, <1>2
<1>3. CASE ConfigSync
  BY <1>1, <1>3 DEF ConfigSync
<1>4. CASE Restart
  BY <1>1, <1>4 DEF Restart
<1>5. ASSUME NEW data \in ConfigMaps, EditConfig(data)
      PROVE  /\ configSeen' = configSeen /\ Len(config') = Len(config) + 1
             /\ \A i \in 1..Len(config) : config'[i] = config[i]
  BY <1>1, <1>5, AppendProperties DEF EditConfig
<1>6. \/ UNCHANGED <<config, configSeen>>
      \/ ConfigSync \/ Restart
      \/ \E data \in ConfigMaps : EditConfig(data)
  BY DEF Next, Reconcile, Fetch, FetchMissing, FetchFound, ResolveText, ResolveFails,
         CreateVersion, CreateFails, UpdateStatus, UpdateStatusFails, UpdateStatusConflict,
         CacheSync, Resync, CreateContract, EditSpec, DeleteContract, Write, GarbageCollect, vars
<1>7. CASE \E data \in ConfigMaps : EditConfig(data)
  BY <1>1, <1>5, <1>7
<1> QED
  BY <1>2, <1>3, <1>4, <1>6, <1>7

-------------------------------------------------------------------------------
(* The invariant is inductive *)

LEMMA FaithfulInit == Init => TextsFaithful /\ VersionsFaithful
<1> SUFFICES ASSUME Init PROVE TextsFaithful /\ VersionsFaithful
  OBVIOUS
<1>1. run.pc = "idle" /\ versions = {} /\ configSeen = 1
  BY DEF Init, Idle
<1>2. Read(run.pc) = {}
  BY <1>1 DEF Read
<1>3. ReadFrom(config, configSeen, Copy.spec, run.text, {})
  BY <1>1, ReadNothing
<1> QED
  BY <1>1, <1>2, <1>3 DEF TextsFaithful, VersionsFaithful

\* A reconcile that has not read anything.
LEMMA TextsFresh ==
  ASSUME TypeOK', run'.pc \in {"idle", "code"}
  PROVE  TextsFaithful'
<1>1. configSeen' \in Nat \ {0}
  BY DEF TypeOK
<1>2. Read(run'.pc) = {}
  BY DEF Read
<1>3. ReadFrom(config', configSeen', Copy'.spec, run'.text, {})
  BY <1>1, ReadNothing
<1> QED
  BY <1>2, <1>3 DEF TextsFaithful

LEMMA TextsFaithfulStep ==
  ASSUME Stepping, TextsFaithful
  PROVE  TextsFaithful'
<1>0. TypeOK /\ TypeOK' /\ [Next]_vars
  BY DEF Stepping
<1>1. /\ configSeen \in Nat \ {0} /\ configSeen' \in Nat /\ configSeen <= configSeen'
      /\ \A i \in 1..configSeen : config'[i] = config[i]
  BY <1>0, ConfigGrows
<1>2. ASSUME run'.key = run.key, run'.at = run.at PROVE Copy' = Copy
  BY <1>2, ProgressKept DEF Stepping
<1>3. CASE UNCHANGED run \/ CreateVersion
  <2>1. run'.key = run.key /\ run'.at = run.at /\ run'.pc = run.pc /\ run'.text = run.text
    BY <1>0, <1>3 DEF CreateVersion, TypeOK
  <2>2. Copy' = Copy
    BY <1>2, <2>1
  <2>3. Read(run.pc) \subseteq Parts
    BY DEF Read, Parts
  <2>4. ReadFrom(config', configSeen', Copy.spec, run.text, Read(run.pc))
    BY <1>1, <2>3, ReadFromGrows DEF TextsFaithful
  <2> QED
    BY <2>1, <2>2, <2>4 DEF TextsFaithful
<1>4. CASE run' = Idle
  <2>1. run'.pc = "idle"
    BY <1>4 DEF Idle
  <2> QED
    BY <1>0, <2>1, TextsFresh
<1>5. ASSUME NEW c \in Contracts, FetchFound(c) PROVE TextsFaithful'
  <2>1. run'.pc = "code"
    BY <1>5 DEF FetchFound, Idle
  <2> QED
    BY <1>0, <2>1, TextsFresh
<1>6. ASSUME NEW p \in Parts, ResolveText(p), run' # Idle PROVE TextsFaithful'
  <2> DEFINE text == [run.text EXCEPT ![p] = Resolved(p)]
  <2>1. /\ run.pc = p /\ ~NothingToDeploy(p, text)
        /\ run' = [run EXCEPT !.pc = After(p), !.text = text]
        /\ config' = config /\ configSeen' = configSeen
    BY <1>6 DEF ResolveText, Done
  <2>2. /\ run'.key = run.key /\ run'.at = run.at /\ run'.pc = After(p) /\ run'.text = text
        /\ run.text \in [Parts -> Texts]
    BY <1>0, <2>1 DEF TypeOK
  <2>3. Copy' = Copy
    BY <1>2, <2>2
  <2>4. Resolved(p) = TextFrom(config, Copy.spec, p, configSeen)
    BY DEF Resolved, TextFrom
  <2>5. ReadFrom(config, configSeen, Copy.spec, run.text, Read(p))
    BY <2>1 DEF TextsFaithful
  <2>6. ReadFrom(config, configSeen, Copy.spec, text, Read(After(p)))
    BY <1>1, <2>2, <2>4, <2>5, ReadOneMore
  <2>7. ASSUME After(p) \in {"test", "foundryConfig", "create"}
        PROVE  text["code"] # Empty \/ text["script"] # Empty
    <3>1. p \in {"script", "test", "foundryConfig"}
      BY <2>7 DEF After, Parts
    <3>2. CASE p = "script"
      BY <2>1, <3>2 DEF NothingToDeploy
    <3>3. CASE p # "script"
      <4>1. p # "code" /\ run.pc \in {"test", "foundryConfig", "create"}
        BY <2>1, <3>1, <3>3
      <4>2. text["code"] = run.text["code"] /\ text["script"] = run.text["script"]
        BY <2>2, <3>3, <4>1 DEF Parts
      <4> QED
        BY <4>1, <4>2 DEF TextsFaithful
    <3> QED
      BY <3>2, <3>3
  <2> HIDE DEF text
  <2> QED
    BY <2>1, <2>2, <2>3, <2>6, <2>7 DEF TextsFaithful
<1>7. \/ UNCHANGED run
      \/ run' = Idle
      \/ \E c \in Contracts : FetchFound(c)
      \/ \E p \in Parts : ResolveText(p) /\ run' # Idle
      \/ CreateVersion
  BY <1>0 DEF Next, Reconcile, Fetch, FetchMissing, ResolveText, ResolveFails,
         CreateFails, UpdateStatus, UpdateStatusFails, UpdateStatusConflict,
         CacheSync, Resync, ConfigSync, Restart, CreateContract, EditSpec, DeleteContract, Write,
         EditConfig, GarbageCollect, Done, Retry, vars
<1> QED
  BY <1>3, <1>4, <1>5, <1>6, <1>7

\* A faithful version stays faithful: histories only grow.
LEMMA CopyOfGrows ==
  ASSUME NEW history, NEW longer, NEW maps, NEW more, NEW v,
         Len(history) \in Nat, Len(longer) \in Nat, Len(history) <= Len(longer),
         \A i \in 1..Len(history) : longer[i] = history[i],
         Len(maps) \in Nat, Len(more) \in Nat, Len(maps) <= Len(more),
         \A i \in 1..Len(maps) : more[i] = maps[i],
         CopyOf(history, maps, v)
  PROVE  CopyOf(longer, more, v)
<1>1. PICK i \in 1..Len(history) :
        /\ history[i].alive /\ history[i].uid = v.uid /\ history[i].gen = v.gen
        /\ v.net \in Range(history[i].spec.nets) /\ v.wallet = history[i].spec.wallet
        /\ ReadFrom(maps, Len(maps), history[i].spec, v.text, Parts)
  BY DEF CopyOf
<1>2. i \in 1..Len(longer) /\ longer[i] = history[i]
  OBVIOUS
<1>3. ReadFrom(more, Len(more), history[i].spec, v.text, Parts)
  BY <1>1, ReadFromGrows
<1> QED
  BY <1>1, <1>2, <1>3 DEF CopyOf

\* What a reconcile that has read everything creates is faithful.
LEMMA NextVersionFaithful ==
  ASSUME Stepping, TextsFaithful, run.pc = "create", run.i <= Len(Copy.spec.nets)
  PROVE  CopyOf(contract[run.key], config, NextVersion)
<1>0. TypeOK /\ TypeOK' /\ [Next]_vars /\ Copy.alive
  BY DEF Stepping, LoopProgress
<1>1. /\ NextVersion.uid = Copy.uid /\ NextVersion.gen = Copy.gen
      /\ NextVersion.net = Copy.spec.nets[run.i]
      /\ NextVersion.wallet = Copy.spec.wallet /\ NextVersion.text = run.text
  BY DEF NextVersion
<1>2. run.at \in 1..Len(contract[run.key]) /\ contract[run.key][run.at] = Copy
  BY <1>0 DEF TypeOK, Copy
<1>3. Copy.spec.nets[run.i] \in Range(Copy.spec.nets)
  <2>1. Copy.spec.nets \in Seq(Networks) /\ run.i \in Nat \ {0}
    BY <1>0, EntriesTyped DEF SpecType, TypeOK
  <2>2. DOMAIN Copy.spec.nets = 1..Len(Copy.spec.nets) /\ run.i \in 1..Len(Copy.spec.nets)
    BY <2>1
  <2> QED
    BY <2>2 DEF Range
<1>4. ReadFrom(config, Len(config), Copy.spec, run.text, Parts)
  <2>1. ReadFrom(config, configSeen, Copy.spec, run.text, Parts)
    BY DEF TextsFaithful, Read
  <2>2. configSeen \in Nat /\ Len(config) \in Nat /\ configSeen <= Len(config)
    BY <1>0, ConfigGrows
  <2> QED
    BY <2>1, <2>2, ReadFromGrows
<1>5. run.text["code"] # Empty \/ run.text["script"] # Empty
  BY DEF TextsFaithful
<1> QED
  BY <1>0, <1>1, <1>2, <1>3, <1>4, <1>5 DEF CopyOf

LEMMA VersionsFaithfulStep ==
  ASSUME Stepping, TextsFaithful, VersionsFaithful
  PROVE  VersionsFaithful'
<1>0. TypeOK /\ TypeOK' /\ [Next]_vars
  BY DEF Stepping
<1>1. /\ Len(config) \in Nat /\ Len(config') \in Nat /\ Len(config) <= Len(config')
      /\ \A i \in 1..Len(config) : config'[i] = config[i]
  BY <1>0, ConfigGrows
<1>2. \A c \in Contracts :
        /\ Len(contract[c]) \in Nat /\ Len(contract'[c]) \in Nat
        /\ Len(contract[c]) <= Len(contract'[c])
        /\ \A i \in 1..Len(contract[c]) : contract'[c][i] = contract[c][i]
  <2>1. contract \in [Contracts -> Seq(Object)] /\ contract' \in [Contracts -> Seq(Object)]
    BY <1>0 DEF TypeOK
  <2> QED
    BY <2>1 DEF Stepping
<1>3. ASSUME NEW c \in Contracts, NEW v, CopyOf(contract[c], config, v)
      PROVE  CopyOf(contract'[c], config', v)
  BY <1>1, <1>2, <1>3, CopyOfGrows
<1>4. \A v \in versions : v.owner \in Contracts
  BY <1>0 DEF TypeOK, Version
<1>5. \/ versions' \subseteq versions
      \/ /\ run.pc = "create" /\ run.i <= Len(Copy.spec.nets)
         /\ versions' \subseteq versions \cup {NextVersion}
  BY <1>0 DEF Next, Reconcile, Fetch, FetchMissing, FetchFound, ResolveText, ResolveFails,
         CreateVersion, CreateFails, UpdateStatus, UpdateStatusFails, UpdateStatusConflict,
         CacheSync, Resync, ConfigSync, Restart, CreateContract, EditSpec, DeleteContract, Write,
         EditConfig, GarbageCollect, Created, vars
<1>6. ASSUME NEW v \in versions PROVE CopyOf(contract'[v.owner], config', v)
  BY <1>3, <1>4 DEF VersionsFaithful
<1>7. CASE versions' \subseteq versions
  BY <1>6, <1>7 DEF VersionsFaithful
<1>8. CASE /\ run.pc = "create" /\ run.i <= Len(Copy.spec.nets)
           /\ versions' \subseteq versions \cup {NextVersion}
  <2>1. NextVersion.owner = run.key /\ run.key \in Contracts
    BY <1>0 DEF NextVersion, TypeOK
  <2>2. CopyOf(contract'[run.key], config', NextVersion)
    BY <1>3, <1>8, <2>1, NextVersionFaithful
  <2> QED
    BY <1>6, <1>8, <2>1, <2>2 DEF VersionsFaithful
<1> QED
  BY <1>5, <1>7, <1>8

\* The invariant says what VersionFaithful says.
LEMMA FaithfulImplies == FInv => VersionFaithful
<1> SUFFICES ASSUME FInv, NEW v \in versions
             PROVE  /\ v.text["code"] # Empty \/ v.text["script"] # Empty
                    /\ \E object \in Range(contract[v.owner]) :
                         /\ object.alive /\ object.uid = v.uid /\ object.gen = v.gen
                         /\ v.net \in Range(object.spec.nets) /\ v.wallet = object.spec.wallet
                         /\ \E rev \in ReadOrders :
                              \A p \in Parts : v.text[p] = TextAt(object.spec, p, rev[p])
  BY DEF VersionFaithful
<1>0. TypeOK /\ v.owner \in Contracts /\ CopyOf(contract[v.owner], config, v)
  BY DEF FInv, IInv, TypeOK, Version, VersionsFaithful
<1> DEFINE history == contract[v.owner]
<1>1. PICK i \in 1..Len(history) :
        /\ history[i].alive /\ history[i].uid = v.uid /\ history[i].gen = v.gen
        /\ v.net \in Range(history[i].spec.nets) /\ v.wallet = history[i].spec.wallet
        /\ ReadFrom(config, Len(config), history[i].spec, v.text, Parts)
  BY <1>0 DEF CopyOf
<1>2. history[i] \in Range(history)
  <2>1. history \in Seq(Object)
    BY <1>0 DEF TypeOK
  <2> QED
    BY <2>1 DEF Range
<1> DEFINE spec == history[i].spec
<1>3. PICK rev \in [Parts -> 1..Len(config)] :
        InOrder(rev) /\ \A p \in Parts : v.text[p] = TextFrom(config, spec, p, rev[p])
  BY <1>1 DEF ReadFrom
<1>4. rev \in ReadOrders
  <2>1. DOMAIN config = 1..Len(config)
    BY <1>0 DEF TypeOK
  <2> QED
    BY <1>3, <2>1 DEF ReadOrders, InOrder
<1>5. \A p \in Parts : v.text[p] = TextAt(spec, p, rev[p])
  BY <1>3 DEF TextAt, TextFrom
<1> QED
  BY <1>0, <1>1, <1>2, <1>4, <1>5 DEF CopyOf

\* No retry, restart or stale cache mixes generations: every ContractVersion is
\* a copy of one entry that its owner's history has, with texts that one
\* reconcile read in order, and it has something to deploy.
THEOREM VersionsAreFaithful == Spec => []VersionFaithful
<1>1. Init => FInv
  BY InvariantInit, FaithfulInit DEF FInv
<1>2. FInv /\ [Next]_vars => FInv'
  BY InvariantStep, TextsFaithfulStep, VersionsFaithfulStep DEF FInv
<1> QED
  BY <1>1, <1>2, FaithfulImplies, PTL DEF Spec
===============================================================================
