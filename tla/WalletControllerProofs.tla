------------------------ MODULE WalletControllerProofs ------------------------
(****************************************************************************)
(* Theorems about WalletController, for every imported key and every bound. *)
(****************************************************************************)
EXTENDS WalletController, FeedTheorems

-------------------------------------------------------------------------------
(* Keys *)

\* The keys that the entries of a feed hold.
KeysOf(feed) == {entry.key : entry \in Range(feed)}

LEMMA KeysFinite ==
  ASSUME NEW S, NEW feed \in Seq(S)
  PROVE  IsFiniteSet(KeysOf(feed))
<1> DEFINE keyOf == [entry \in Range(feed) |-> entry.key]
<1>1. IsFiniteSet(Range(feed))
  BY RangeFinite
<1>2. KeysOf(feed) = {keyOf[entry] : entry \in Range(feed)}
  BY DEF KeysOf
<1> HIDE DEF keyOf
<1>3. IsFiniteSet({keyOf[entry] : entry \in Range(feed)})
  BY <1>1, ImageFinite
<1> QED
  BY <1>2, <1>3

\* A generated key is a key, and none that is in use.
LEMMA NewKeyUnused ==
  ASSUME TypeOK
  PROVE  NewKey \in Nat \ {0} /\ NewKey \notin UsedKeys
<1>1. IsFiniteSet({0, UserKey})
  <2>1. IsFiniteSet({0}) /\ IsFiniteSet({0} \cup {UserKey})
    BY FS_Singleton, FS_AddElement
  <2>2. {0, UserKey} = {0} \cup {UserKey}
    OBVIOUS
  <2> QED
    BY <2>1, <2>2
<1>2. IsFiniteSet(KeysOf(wallet)) /\ IsFiniteSet(KeysOf(secret))
  BY KeysFinite DEF TypeOK
<1>3. IsFiniteSet(UsedKeys)
  <2>1. UsedKeys = ({0, UserKey} \cup KeysOf(wallet)) \cup KeysOf(secret)
    BY DEF UsedKeys, KeysOf
  <2>2. IsFiniteSet({0, UserKey} \cup KeysOf(wallet))
    BY <1>1, <1>2, FS_Union
  <2> QED
    BY <1>2, <2>1, <2>2, FS_Union
<1>4. Cardinality(UsedKeys) \in Nat
  BY <1>3, FS_CardinalityType
<1>5. \E key \in 1..(Cardinality(UsedKeys) + 1) : key \notin UsedKeys
  BY <1>3, SomeUnused
<1>6. NewKey \in 1..(Cardinality(UsedKeys) + 1) /\ NewKey \notin UsedKeys
  BY <1>5, Zenon DEF NewKey
<1> QED
  BY <1>4, <1>6

-------------------------------------------------------------------------------
(* Type correctness *)

RunType == [stage : Stages, copy : Wallet, fresh : BOOLEAN, key : Nat]

LEMMA WalletFields ==
  ASSUME NEW w \in Wallet
  PROVE  /\ w.uid \in Nat /\ w.alive \in BOOLEAN /\ w.edits \in Nat /\ w.import \in BOOLEAN
         /\ w.key \in Nat /\ w.secretRef \in {"", "own", "user"}
         /\ w.uid + 1 \in Nat /\ w.edits + 1 \in Nat /\ (~w.import) \in BOOLEAN
<1>1. /\ w.uid \in Nat /\ w.edits \in Nat /\ w.key \in Nat
      /\ w.secretRef \in {"", "own", "user"}
  BY DEF Wallet
<1>2. w.alive \in BOOLEAN /\ w.import \in BOOLEAN
  BY DEF Wallet
<1>3. \A n \in Nat : n + 1 \in Nat
  OBVIOUS
<1>4. w.uid + 1 \in Nat /\ w.edits + 1 \in Nat
  BY <1>1, <1>3, Zenon
<1>5. (~w.import) \in BOOLEAN
  OBVIOUS
<1> QED
  BY <1>1, <1>2, <1>4, <1>5, Zenon

LEMMA ObjectsTyped ==
  ASSUME TypeOK
  PROVE  /\ wallet \in Feed(Wallet) /\ secret \in Feed(Secret)
         /\ View(wallet) \in Wallet /\ Server(wallet) \in Wallet
         /\ View(secret) \in Secret /\ Server(secret) \in Secret
         /\ run \in RunType /\ run.copy \in Wallet
         /\ NoWallet \in Wallet /\ NoSecret \in Secret /\ Idle \in RunType
         /\ StatusWritten \in Wallet
<1>1. wallet \in Feed(Wallet) /\ secret \in Feed(Secret) /\ run \in RunType /\ run.copy \in Wallet
  BY DEF TypeOK, Feed, RunType
<1>2. /\ View(wallet) \in Wallet /\ Server(wallet) \in Wallet
      /\ View(secret) \in Secret /\ Server(secret) \in Secret
  BY <1>1, FeedEntries DEF View, Server, First, Last
<1>3. NoWallet \in Wallet /\ NoSecret \in Secret
  BY DEF NoWallet, Wallet, NoSecret, Secret
<1>4. Idle \in RunType
  BY <1>3 DEF Idle, RunType, Stages
<1>5. StatusWritten \in Wallet
  BY <1>1 DEF StatusWritten, RunType, Wallet
<1> QED
  BY <1>1, <1>2, <1>3, <1>4, <1>5

LEMMA TypeInit == Init => TypeOK
<1> SUFFICES ASSUME Init PROVE TypeOK
  OBVIOUS
<1>1. /\ <<NoWallet>> \in Seq(Wallet) /\ Len(<<NoWallet>>) = 1
      /\ <<NoSecret>> \in Seq(Secret) /\ Len(<<NoSecret>>) = 1
  BY DEF NoWallet, Wallet, NoSecret, Secret
<1>2. Idle \in [stage : Stages, copy : Wallet, fresh : BOOLEAN, key : Nat]
  BY DEF Idle, Stages, NoWallet, Wallet
<1>3. 0 \in 0..MaxFaults /\ FALSE \in BOOLEAN
  BY WalletAssumption
<1>4. wallet \in Seq(Wallet) /\ secret \in Seq(Secret) /\ Len(wallet) > 0 /\ Len(secret) > 0
  BY <1>1 DEF Init
<1> QED
  BY <1>2, <1>3, <1>4 DEF Init, TypeOK

\* What a step does to every variable, action by action.
LEMMA StepTyped ==
  ASSUME TypeOK, Next
  PROVE  /\ FeedStep(wallet, wallet', Wallet) /\ FeedStep(secret, secret', Secret)
         /\ imported' \in {NoPublicKey, 0, UserKey} /\ queued' \in BOOLEAN /\ run' \in RunType
         /\ faults' \in 0..MaxFaults
<1> USE WalletAssumption
<1> DEFINE Goal ==
      /\ FeedStep(wallet, wallet', Wallet) /\ FeedStep(secret, secret', Secret)
      /\ imported' \in {NoPublicKey, 0, UserKey} /\ queued' \in BOOLEAN /\ run' \in RunType
      /\ faults' \in 0..MaxFaults
<1>0. /\ imported \in {NoPublicKey, 0, UserKey} /\ queued \in BOOLEAN /\ run \in RunType
      /\ faults \in 0..MaxFaults
      /\ Server(wallet) \in Wallet /\ View(wallet) \in Wallet /\ Idle \in RunType
      /\ StatusWritten \in Wallet /\ NoSecret \in Secret /\ NoWallet \in Wallet
      /\ FeedStep(wallet, wallet, Wallet) /\ FeedStep(secret, secret, Secret)
  BY ObjectsTyped DEF TypeOK, FeedStep
<1>1. NewKey \in Nat /\ NewSecret \in Secret
  BY <1>0, NewKeyUnused DEF NewSecret, Secret, RunType, Wallet
<1>2. ASSUME NEW object \in Wallet, wallet' = Append(wallet, object)
      PROVE  FeedStep(wallet, wallet', Wallet)
  BY <1>2 DEF FeedStep
<1>3. ASSUME NEW object \in Secret, secret' = Append(secret, object)
      PROVE  FeedStep(secret, secret', Secret)
  BY <1>3 DEF FeedStep
<1>4. CASE FetchDone
  BY <1>0, <1>4 DEF FetchDone
<1>5. CASE FetchFound
  <2>1. run' \in RunType
    BY <1>0, <1>5 DEF FetchFound, RunType, Stages
  <2> QED
    BY <1>0, <1>5, <2>1 DEF FetchFound
<1>6. CASE ReadImported
  <2>1. run' \in RunType
    <3>1. imported \in Nat
      BY <1>0, <1>6 DEF ReadImported
    <3> QED
      BY <1>0, <1>6, <3>1 DEF ReadImported, RunType, Stages
  <2> QED
    BY <1>0, <1>6, <2>1 DEF ReadImported
<1>7. CASE ImportMissing
  BY <1>0, <1>7 DEF ImportMissing, Return
<1>8. CASE GenerateSecret
  <2>1. run' \in RunType
    BY <1>0, <1>1, <1>8 DEF GenerateSecret, Return, RunType, Stages
  <2>2. FeedStep(secret, secret', Secret)
    BY <1>0, <1>1, <1>3, <1>8 DEF GenerateSecret
  <2> QED
    BY <1>0, <1>8, <2>1, <2>2 DEF GenerateSecret, Return
<1>9. CASE UpdateStatus
  BY <1>0, <1>2, <1>9 DEF UpdateStatus, WalletWritten, Return
<1>10. CASE CallFails
  <2>1. FeedStep(wallet, wallet', Wallet) /\ FeedStep(secret, secret', Secret)
    BY <1>0, <1>1, <1>2, <1>3, <1>10 DEF CallFails, WalletWritten
  <2> QED
    BY <1>0, <1>10, <2>1 DEF CallFails, Fail, Return
<1>11. CASE WalletSync
  BY <1>0, <1>11 DEF WalletSync, FeedStep
<1>12. CASE SecretSync
  BY <1>0, <1>12 DEF SecretSync, FeedStep
<1>13. CASE Resync
  BY <1>0, <1>13 DEF Resync
<1>14. CASE Restart
  <2>1. FeedStep(wallet, wallet', Wallet) /\ FeedStep(secret, secret', Secret)
    BY <1>14 DEF Restart, FeedStep, Server, Last
  <2>2. queued' \in BOOLEAN
    BY <1>0, <1>14 DEF Restart, Wallet
  <2>3. faults' \in 0..MaxFaults
    BY <1>0, <1>14 DEF Restart, Fail
  <2> QED
    BY <1>0, <1>14, <2>1, <2>2, <2>3 DEF Restart
<1>15. ASSUME NEW object \in Wallet, WriteWallet(object) PROVE Goal
  <2>1. run' \in RunType
    BY <1>0, <1>15 DEF WriteWallet, RunType
  <2> QED
    BY <1>0, <1>2, <1>15, <2>1 DEF WriteWallet
<1>16. ASSUME NEW import \in BOOLEAN, CreateWallet(import) PROVE Goal
  <2>0. Server(wallet).uid + 1 \in Nat
    BY <1>0, WalletFields
  <2>1. [NoWallet EXCEPT !.uid = Server(wallet).uid + 1, !.alive = TRUE, !.import = import]
          \in Wallet
    BY <1>0, <2>0 DEF Wallet
  <2> QED
    BY <1>15, <1>16, <2>1 DEF CreateWallet
<1>17. CASE EditWallet
  <2>0. Server(wallet).edits + 1 \in Nat /\ (~Server(wallet).import) \in BOOLEAN
    BY <1>0, WalletFields
  <2>1. [Server(wallet) EXCEPT !.import = ~@, !.edits = @ + 1] \in Wallet
    BY <1>0, <2>0 DEF Wallet
  <2> QED
    BY <1>15, <1>17, <2>1 DEF EditWallet
<1>18. CASE DeleteWallet
  <2>1. [Server(wallet) EXCEPT !.alive = FALSE] \in Wallet
    BY <1>0 DEF Wallet
  <2> QED
    BY <1>15, <1>18, <2>1 DEF DeleteWallet
<1>19. ASSUME NEW key \in {0, UserKey}, ProvideImported(key) PROVE Goal
  BY <1>0, <1>19 DEF ProvideImported
<1>20. CASE WithdrawImported
  BY <1>0, <1>20 DEF WithdrawImported, Fail
<1>21. CASE CollectSecret
  BY <1>0, <1>3, <1>21 DEF CollectSecret
<1> QED
  BY <1>4, <1>5, <1>6, <1>7, <1>8, <1>9, <1>10, <1>11, <1>12, <1>13, <1>14, <1>16, <1>17,
     <1>18, <1>19, <1>20, <1>21 DEF Next, Fetch, Reconcile

LEMMA TypeInductive == TypeOK /\ [Next]_vars => TypeOK'
<1>1. ASSUME TypeOK, Next PROVE TypeOK'
  <2>1. wallet' \in Feed(Wallet) /\ secret' \in Feed(Secret)
    BY <1>1, StepTyped, ObjectsTyped, FeedStepTyped
  <2> QED
    BY <1>1, <2>1, StepTyped DEF TypeOK, Feed, RunType
<1>2. TypeOK /\ UNCHANGED vars => TypeOK'
  BY DEF vars, TypeOK
<1> QED
  BY <1>1, <1>2

\* Every variable keeps its type: the feeds of the Wallet and of its Secret are
\* never empty, and every key that is generated is a key.
THEOREM TypeCorrect == Spec => []TypeOK
<1>1. Init => TypeOK
  BY TypeInit
<1>2. TypeOK /\ [Next]_vars => TypeOK'
  BY TypeInductive
<1> QED
  BY <1>1, <1>2, PTL DEF Spec

-------------------------------------------------------------------------------
(* The inductive invariant *)

\* What the cache shows is the Wallet that the API server has or an earlier one.
FeedForward ==
  \A i \in 1..Len(wallet) :
    wallet[i].uid <= Server(wallet).uid /\ (wallet[i].alive => wallet[i].uid > 0)

\* A reconcile works for an incarnation that was not recorded when it was
\* fetched, and its copy is fresh only while the API server has the same.
RunSane ==
  /\ run.stage # "idle" =>
       /\ run.copy.alive /\ run.copy.uid \in 1..Server(wallet).uid
       /\ ~AlreadyCreated(run.copy)
  /\ run.stage = "import" => run.copy.import
  /\ run.stage = "generate" => ~run.copy.import
  /\ run.fresh => run.copy = Server(wallet)

\* The Wallet lives, for the first time.
FirstLives == Server(wallet).alive /\ Server(wallet).uid = 1

\* While the first incarnation lives, a Secret that any cache has shown is still
\* there, and a reconcile that has come past its Secret's creation left one.
SecretsOwned ==
  /\ \A i \in 1..Len(secret) :
       /\ secret[i].owner <= Server(wallet).uid
       /\ FirstLives /\ secret[i].owner # 0 => Server(secret).owner = 1
  /\ FirstLives /\ run.stage = "status" /\ ~run.copy.import => Server(secret).owner = 1

WInv == TypeOK /\ FeedForward /\ RunSane /\ SecretsOwned /\ SecretExists

\* The API server's Wallet moves forward: its incarnations count up, none comes
\* back to life, one that is recorded keeps its key and Secret, and its status
\* names a Secret of its own only when a reconcile has come past creating it.
WalletAdvances ==
  LET old == Server(wallet)
      new == Server(wallet)'
  IN /\ old.uid <= new.uid
     /\ new.alive => new.uid > 0
     /\ new.uid = old.uid /\ new.alive => old.alive
     /\ new.uid = old.uid /\ Recorded(old) => new.key = old.key /\ new.secretRef = old.secretRef
     /\ Recorded(new) /\ new.secretRef = "own" =>
          /\ new.uid = old.uid
          /\ \/ Recorded(old) /\ old.secretRef = "own"
             \/ run.stage = "status" /\ ~run.copy.import

\* The API server's Secret stays while the first incarnation lives.
SecretAdvances ==
  \/ Server(secret)' = Server(secret)
  \/ /\ Server(secret)'.owner <= Server(wallet)'.uid
     /\ FirstLives' => Server(secret)'.owner = 1

\* What the invariant says of the API server's objects and of the views.
LEMMA ServerSane ==
  ASSUME TypeOK, FeedForward
  PROVE  /\ Server(wallet).alive => Server(wallet).uid > 0
         /\ View(wallet).uid <= Server(wallet).uid /\ (View(wallet).alive => View(wallet).uid > 0)
<1>1. 1 \in 1..Len(wallet) /\ Len(wallet) \in 1..Len(wallet)
  BY ObjectsTyped, FeedEntries
<1> QED
  BY <1>1 DEF FeedForward, Server, View

\* What each step leaves of a feed.
LEMMA FeedsStep ==
  ASSUME TypeOK, [Next]_vars
  PROVE  /\ FeedStep(wallet, wallet', Wallet) /\ FeedStep(secret, secret', Secret)
         /\ \A i \in 1..Len(wallet') :
              \/ wallet'[i] = Server(wallet)'
              \/ \E j \in 1..Len(wallet) : wallet'[i] = wallet[j]
         /\ \A i \in 1..Len(secret') :
              \/ secret'[i] = Server(secret)'
              \/ \E j \in 1..Len(secret) : secret'[i] = secret[j]
         /\ \/ Server(wallet)' = Server(wallet)
            \/ \E object \in Wallet : wallet' = Append(wallet, object) /\ Server(wallet)' = object
         /\ \/ Server(secret)' = Server(secret)
            \/ \E object \in Secret : secret' = Append(secret, object) /\ Server(secret)' = object
<1>1. FeedStep(wallet, wallet', Wallet) /\ FeedStep(secret, secret', Secret)
  <2>1. CASE Next
    BY <2>1, StepTyped
  <2>2. CASE UNCHANGED vars
    BY <2>2 DEF vars, FeedStep
  <2> QED
    BY <2>1, <2>2
<1>2. wallet \in Feed(Wallet) /\ secret \in Feed(Secret)
  BY ObjectsTyped
<1>3. /\ Server(wallet)' = Last(wallet') /\ Server(secret)' = Last(secret')
      /\ Server(wallet) = Last(wallet) /\ Server(secret) = Last(secret)
  BY DEF Server, Last
<1>4. /\ \A i \in 1..Len(wallet') :
           wallet'[i] = Last(wallet') \/ \E j \in 1..Len(wallet) : wallet'[i] = wallet[j]
      /\ \/ Last(wallet') = Last(wallet)
         \/ \E object \in Wallet : wallet' = Append(wallet, object) /\ Last(wallet') = object
  BY <1>1, <1>2, FeedStepEntries
<1>5. /\ \A i \in 1..Len(secret') :
           secret'[i] = Last(secret') \/ \E j \in 1..Len(secret) : secret'[i] = secret[j]
      /\ \/ Last(secret') = Last(secret)
         \/ \E object \in Secret : secret' = Append(secret, object) /\ Last(secret') = object
  BY <1>1, <1>2, FeedStepEntries
<1> QED
  BY <1>1, <1>3, <1>4, <1>5

\* What an append and the other steps leave at the API server.
LEMMA ServerAfter ==
  ASSUME TypeOK
  PROVE  /\ \A object \in Wallet : Server(Append(wallet, object)) = object
         /\ \A object \in Secret : Server(Append(secret, object)) = object
         /\ Len(wallet) > 1 => Server(Tail(wallet)) = Server(wallet)
         /\ Len(secret) > 1 => Server(Tail(secret)) = Server(secret)
         /\ Server(<<Server(wallet)>>) = Server(wallet)
         /\ Server(<<Server(secret)>>) = Server(secret)
<1>1. wallet \in Feed(Wallet) /\ secret \in Feed(Secret)
  BY ObjectsTyped
<1>2. \A feed : Server(feed) = Last(feed)
  BY DEF Server, Last
<1>3. \A object : Last(<<object>>) = object
  BY DEF Last
<1> QED
  BY <1>1, <1>2, <1>3, FeedAppend, FeedTail

LEMMA WalletStep ==
  ASSUME TypeOK, FeedForward, RunSane, [Next]_vars
  PROVE  WalletAdvances
<1> DEFINE old == Server(wallet)
<1>0. /\ old \in Wallet /\ old.uid \in Nat /\ old.edits + 1 \in Nat /\ old.uid + 1 \in Nat
      /\ (~old.import) \in BOOLEAN
      /\ old.alive => old.uid > 0
      /\ NoWallet \in Wallet /\ StatusWritten \in Wallet /\ run.copy \in Wallet
  BY ObjectsTyped, WalletFields, ServerSane
<1>1. CASE Server(wallet)' = old
  <2>1. old.uid <= old.uid
    BY <1>0
  <2> QED
    BY <1>0, <1>1, <2>1, Zenon DEF WalletAdvances
<1>2. ASSUME run.stage = "status", run.fresh, wallet' = Append(wallet, StatusWritten)
      PROVE  WalletAdvances
  <2>1. Server(wallet)' = StatusWritten
    BY <1>0, <1>2, ServerAfter
  <2>2. /\ StatusWritten.uid = run.copy.uid /\ StatusWritten.alive = run.copy.alive
        /\ StatusWritten.secretRef = IF run.copy.import THEN "user" ELSE "own"
    BY <1>0 DEF StatusWritten, Wallet
  <2>3. run.copy = old /\ old.alive /\ ~AlreadyCreated(old)
    BY <1>2 DEF RunSane
  <2>4. StatusWritten.uid = old.uid /\ StatusWritten.alive
    BY <2>2, <2>3
  <2>5. StatusWritten.secretRef = "own" => ~run.copy.import
    BY <2>2
  <2>6. ~Recorded(old)
    BY <2>3 DEF Recorded
  <2> QED
    BY <1>0, <1>2, <2>1, <2>3, <2>4, <2>5, <2>6 DEF WalletAdvances
<1>3. ASSUME NEW import \in BOOLEAN, CreateWallet(import) PROVE WalletAdvances
  <2> DEFINE new == [NoWallet EXCEPT !.uid = old.uid + 1, !.alive = TRUE, !.import = import]
  <2>1. new \in Wallet /\ new.uid = old.uid + 1 /\ new.key = 0
    BY <1>0 DEF Wallet, NoWallet
  <2> HIDE DEF new
  <2>2. Server(wallet)' = new
    BY <1>3, <2>1, ServerAfter DEF CreateWallet, WriteWallet, new
  <2>3. ~Recorded(new)
    BY <2>1 DEF Recorded, AlreadyCreated
  <2>4. old.uid <= new.uid /\ new.uid > 0 /\ new.uid # old.uid
    BY <1>0, <2>1
  <2> QED
    BY <2>2, <2>3, <2>4 DEF WalletAdvances
<1>4. CASE EditWallet
  <2> DEFINE new == [old EXCEPT !.import = ~@, !.edits = @ + 1]
  <2>1. /\ new \in Wallet /\ new.uid = old.uid /\ new.alive = old.alive
        /\ new.key = old.key /\ new.secretRef = old.secretRef
    BY <1>0 DEF Wallet
  <2> HIDE DEF new
  <2>2. Server(wallet)' = new
    BY <1>4, <2>1, ServerAfter DEF EditWallet, WriteWallet, new
  <2>3. Recorded(new) => Recorded(old)
    BY <2>1 DEF Recorded, AlreadyCreated
  <2> QED
    BY <1>0, <2>1, <2>2, <2>3 DEF WalletAdvances
<1>5. CASE DeleteWallet
  <2> DEFINE new == [old EXCEPT !.alive = FALSE]
  <2>1. /\ new \in Wallet /\ new.uid = old.uid /\ ~new.alive
        /\ new.key = old.key /\ new.secretRef = old.secretRef
    BY <1>0 DEF Wallet
  <2> HIDE DEF new
  <2>2. Server(wallet)' = new
    BY <1>5, <2>1, ServerAfter DEF DeleteWallet, WriteWallet, new
  <2>3. ~Recorded(new)
    BY <2>1 DEF Recorded
  <2> QED
    BY <1>0, <2>1, <2>2, <2>3 DEF WalletAdvances
<1>6. \/ wallet' = wallet
      \/ Len(wallet) > 1 /\ wallet' = Tail(wallet)
      \/ wallet' = <<Server(wallet)>>
      \/ run.stage = "status" /\ run.fresh /\ wallet' = Append(wallet, StatusWritten)
      \/ \E import \in BOOLEAN : CreateWallet(import)
      \/ EditWallet \/ DeleteWallet
  BY DEF Next, Fetch, FetchDone, FetchFound, Reconcile, ReadImported, ImportMissing, GenerateSecret,
         UpdateStatus, WalletWritten, CallFails, WalletSync, SecretSync, Resync, Restart,
         ProvideImported, WithdrawImported, CollectSecret, vars
<1>7. CASE \/ wallet' = wallet
           \/ Len(wallet) > 1 /\ wallet' = Tail(wallet)
           \/ wallet' = <<Server(wallet)>>
  BY <1>1, <1>7, ServerAfter DEF Server
<1> QED
  BY <1>2, <1>3, <1>4, <1>5, <1>6, <1>7

LEMMA SecretStep ==
  ASSUME TypeOK, FeedForward, RunSane, SecretsOwned, WalletAdvances, [Next]_vars
  PROVE  SecretAdvances
<1>0. /\ NewSecret \in Secret /\ NoSecret \in Secret /\ Server(secret) \in Secret
      /\ run.copy.uid \in Nat /\ Server(wallet).uid \in Nat
  BY ObjectsTyped, NewKeyUnused, WalletFields DEF NewSecret, Secret
<1>1. Len(secret) \in 1..Len(secret) /\ secret[Len(secret)] = Server(secret)
  BY ObjectsTyped, FeedEntries DEF Server
<1>2. CASE Server(secret)' = Server(secret)
  BY <1>2 DEF SecretAdvances
<1>3. ASSUME run.stage = "generate", secret' = Append(secret, NewSecret), UNCHANGED wallet
      PROVE  SecretAdvances
  <2>1. Server(secret)' = NewSecret /\ NewSecret.owner = run.copy.uid
    BY <1>0, <1>3, ServerAfter DEF NewSecret
  <2>2. run.copy.uid \in 1..Server(wallet).uid
    BY <1>3 DEF RunSane
  <2>3. Server(wallet)' = Server(wallet) /\ (FirstLives' => Server(wallet).uid = 1)
    BY <1>3 DEF FirstLives, Server
  <2> QED
    BY <1>0, <2>1, <2>2, <2>3 DEF SecretAdvances
<1>4. CASE CollectSecret
  <2>1. Server(secret)' = NoSecret /\ NoSecret.owner = 0
    BY <1>0, <1>4, ServerAfter DEF CollectSecret, NoSecret
  <2>2. Server(wallet)' = Server(wallet)
    BY <1>4 DEF CollectSecret, Server
  <2>3. ~FirstLives
    BY <1>1, <1>4 DEF CollectSecret, SecretsOwned, FirstLives
  <2>4. ~FirstLives'
    BY <2>2, <2>3 DEF FirstLives
  <2> QED
    BY <1>0, <2>1, <2>2, <2>4 DEF SecretAdvances
<1>5. \/ secret' = secret
      \/ Len(secret) > 1 /\ secret' = Tail(secret)
      \/ secret' = <<Server(secret)>>
      \/ run.stage = "generate" /\ secret' = Append(secret, NewSecret) /\ UNCHANGED wallet
      \/ CollectSecret
  BY DEF Next, Fetch, FetchDone, FetchFound, Reconcile, ReadImported, ImportMissing, GenerateSecret,
         UpdateStatus, CallFails, WalletSync, SecretSync, Resync, Restart, CreateWallet, EditWallet,
         DeleteWallet, WriteWallet, ProvideImported, WithdrawImported, vars
<1>6. CASE \/ secret' = secret
           \/ Len(secret) > 1 /\ secret' = Tail(secret)
           \/ secret' = <<Server(secret)>>
  BY <1>2, <1>6, ServerAfter DEF Server
<1> QED
  BY <1>3, <1>4, <1>5, <1>6

\* A new life of the first incarnation is its first step.
LEMMA FirstLivesOn ==
  ASSUME TypeOK, WalletAdvances, FirstLives'
  PROVE  FirstLives \/ Server(wallet).uid = 0
<1>1. Server(wallet).uid \in Nat
  BY ObjectsTyped, WalletFields
<1> QED
  BY <1>1 DEF WalletAdvances, FirstLives

-------------------------------------------------------------------------------
(* The invariant is inductive *)

LEMMA FeedForwardStep ==
  ASSUME TypeOK, FeedForward, WalletAdvances, TypeOK', [Next]_vars
  PROVE  FeedForward'
<1>1. \A i \in 1..Len(wallet) : wallet[i].uid \in Nat
  BY ObjectsTyped, FeedEntries, WalletFields
<1>2. Server(wallet).uid \in Nat /\ Server(wallet)'.uid \in Nat
  <2>1. wallet \in Feed(Wallet) /\ wallet' \in Feed(Wallet)
    BY DEF TypeOK, Feed
  <2> QED
    BY <2>1, FeedEntries, WalletFields DEF Server, Last
<1>3. /\ Server(wallet).uid <= Server(wallet)'.uid
      /\ Server(wallet)'.alive => Server(wallet)'.uid > 0
  BY DEF WalletAdvances
<1>4. ASSUME NEW i \in 1..Len(wallet')
      PROVE  wallet'[i].uid <= Server(wallet)'.uid /\ (wallet'[i].alive => wallet'[i].uid > 0)
  <2>1. CASE wallet'[i] = Server(wallet)'
    BY <1>2, <1>3, <2>1
  <2>2. ASSUME NEW j \in 1..Len(wallet), wallet'[i] = wallet[j]
        PROVE  wallet'[i].uid <= Server(wallet)'.uid /\ (wallet'[i].alive => wallet'[i].uid > 0)
    BY <1>1, <1>2, <1>3, <2>2 DEF FeedForward
  <2> QED
    BY <2>1, <2>2, FeedsStep
<1> QED
  BY <1>4 DEF FeedForward

LEMMA RunSaneStep ==
  ASSUME TypeOK, FeedForward, RunSane, WalletAdvances, TypeOK', [Next]_vars
  PROVE  RunSane'
<1> USE DEF RunSane
<1>0. /\ run \in RunType /\ run.copy.uid \in Nat /\ Server(wallet).uid \in Nat
      /\ Server(wallet)'.uid \in Nat /\ Server(wallet).uid <= Server(wallet)'.uid
  <2>1. wallet' \in Feed(Wallet)
    BY DEF TypeOK, Feed
  <2>2. Server(wallet)'.uid \in Nat
    BY <2>1, FeedEntries, WalletFields DEF Server, Last
  <2> QED
    BY <2>2, ObjectsTyped, WalletFields DEF WalletAdvances
<1>1. run.stage # "idle" => run.copy.uid \in 1..Server(wallet)'.uid
  BY <1>0
<1>2. CASE run' = Idle
  BY <1>2 DEF Idle
<1>3. CASE run' = run /\ Server(wallet)' = Server(wallet)
  BY <1>1, <1>3
<1>4. CASE FetchFound
  <2>1. /\ run'.copy = View(wallet) /\ (run'.fresh <=> Len(wallet) = 1)
        /\ run'.stage = (IF View(wallet).import THEN "import" ELSE "generate")
        /\ View(wallet).alive /\ ~AlreadyCreated(View(wallet))
        /\ wallet' = wallet
    BY <1>4 DEF FetchFound, Idle
  <2>2. Server(wallet)' = Server(wallet)
    BY <2>1 DEF Server
  <2>3. View(wallet).uid \in 1..Server(wallet)'.uid
    <3>1. View(wallet).uid \in Nat
      BY ObjectsTyped, WalletFields
    <3> QED
      BY <1>0, <2>1, <2>2, <3>1, ServerSane
  <2>4. Len(wallet) = 1 => View(wallet) = Server(wallet)
    BY DEF View, Server
  <2> QED
    BY <2>1, <2>2, <2>3, <2>4
<1>5. CASE \/ ReadImported
           \/ GenerateSecret /\ run' # Idle
  <2>1. /\ run'.stage = "status" /\ run.stage # "idle" /\ wallet' = wallet
        /\ run'.copy = run.copy /\ run'.fresh = run.fresh
    BY <1>0, <1>5 DEF ReadImported, GenerateSecret, Return, RunType
  <2>2. Server(wallet)' = Server(wallet)
    BY <2>1 DEF Server
  <2> QED
    BY <1>1, <2>1, <2>2
<1>6. CASE run' = [run EXCEPT !.fresh = FALSE]
  <2>1. ~run'.fresh /\ run'.stage = run.stage /\ run'.copy = run.copy
    BY <1>0, <1>6 DEF RunType
  <2> QED
    BY <1>1, <2>1
<1>7. \/ run' = Idle
      \/ /\ run' = run
         /\ \/ wallet' = wallet
            \/ Len(wallet) > 1 /\ wallet' = Tail(wallet)
      \/ FetchFound \/ ReadImported
      \/ GenerateSecret /\ run' # Idle
      \/ run' = [run EXCEPT !.fresh = FALSE]
  BY DEF Next, Fetch, FetchDone, Reconcile, ImportMissing, UpdateStatus, CallFails,
         WalletSync, SecretSync, Resync, Restart, CreateWallet, EditWallet, DeleteWallet, WriteWallet,
         ProvideImported, WithdrawImported, CollectSecret, Return, vars
<1>8. CASE /\ run' = run
           /\ \/ wallet' = wallet
              \/ Len(wallet) > 1 /\ wallet' = Tail(wallet)
  <2>1. Server(wallet)' = Server(wallet)
    BY <1>8, ServerAfter DEF Server
  <2> QED
    BY <1>3, <1>8, <2>1
<1> QED
  BY <1>2, <1>4, <1>5, <1>6, <1>7, <1>8

LEMMA SecretsOwnedStep ==
  ASSUME TypeOK, FeedForward, RunSane, SecretsOwned, WalletAdvances, SecretAdvances, TypeOK',
         [Next]_vars
  PROVE  SecretsOwned'
<1>0. /\ run \in RunType /\ run.copy.uid \in Nat /\ Server(wallet).uid \in Nat
      /\ Server(wallet)'.uid \in Nat /\ Server(wallet).uid <= Server(wallet)'.uid
      /\ \A i \in 1..Len(secret) : secret[i].owner \in Nat
  <2>1. wallet' \in Feed(Wallet) /\ secret \in Feed(Secret)
    BY DEF TypeOK, Feed
  <2>2. Server(wallet)'.uid \in Nat
    BY <2>1, FeedEntries, WalletFields DEF Server, Last
  <2>3. \A i \in 1..Len(secret) : secret[i].owner \in Nat
    <3>1. \A i \in 1..Len(secret) : secret[i] \in Secret
      BY <2>1, FeedEntries
    <3>2. \A object \in Secret : object.owner \in Nat
      BY DEF Secret
    <3> QED
      BY <3>1, <3>2
  <2> QED
    BY <2>2, <2>3, ObjectsTyped, WalletFields DEF WalletAdvances
<1>1. /\ 1 \in 1..Len(secret) /\ secret[1] = View(secret)
      /\ Len(secret) \in 1..Len(secret) /\ secret[Len(secret)] = Server(secret)
  BY ObjectsTyped, FeedEntries DEF View, Server
<1>2. ASSUME FirstLives, FirstLives', Server(secret).owner = 1 PROVE Server(secret)'.owner = 1
  BY <1>2 DEF SecretAdvances
<1>3. /\ Server(secret)'.owner <= Server(wallet)'.uid
      /\ FirstLives' /\ Server(secret)'.owner # 0 => Server(secret)'.owner = 1
  <2>1. CASE Server(secret)' = Server(secret)
    <3>1. /\ Server(secret).owner \in Nat /\ Server(secret).owner <= Server(wallet).uid
          /\ FirstLives /\ Server(secret).owner # 0 => Server(secret).owner = 1
      BY <1>0, <1>1 DEF SecretsOwned
    <3>2. FirstLives' /\ Server(wallet).uid = 0 => Server(secret).owner = 0
      BY <1>0, <3>1
    <3> QED
      BY <1>0, <2>1, <3>1, <3>2, FirstLivesOn
  <2>2. CASE Server(secret)' # Server(secret)
    BY <2>2 DEF SecretAdvances
  <2> QED
    BY <2>1, <2>2
<1>4. ASSUME NEW i \in 1..Len(secret')
      PROVE  /\ secret'[i].owner <= Server(wallet)'.uid
             /\ FirstLives' /\ secret'[i].owner # 0 => Server(secret)'.owner = 1
  <2>1. CASE secret'[i] = Server(secret)'
    BY <1>3, <2>1
  <2>2. ASSUME NEW j \in 1..Len(secret), secret'[i] = secret[j]
        PROVE  /\ secret'[i].owner <= Server(wallet)'.uid
               /\ FirstLives' /\ secret'[i].owner # 0 => Server(secret)'.owner = 1
    <3>1. /\ secret[j].owner \in Nat /\ secret[j].owner <= Server(wallet).uid
          /\ FirstLives /\ secret[j].owner # 0 => Server(secret).owner = 1
      BY <1>0 DEF SecretsOwned
    <3>2. secret'[i].owner <= Server(wallet)'.uid
      BY <1>0, <2>2, <3>1
    <3>3. ASSUME FirstLives', secret'[i].owner # 0 PROVE Server(secret)'.owner = 1
      <4>1. FirstLives
        <5>1. Server(wallet).uid # 0
          BY <1>0, <2>2, <3>1, <3>3
        <5> QED
          BY <3>3, <5>1, FirstLivesOn
      <4> QED
        BY <1>2, <2>2, <3>1, <3>3, <4>1
    <3> QED
      BY <3>2, <3>3
  <2> QED
    BY <2>1, <2>2, FeedsStep
<1>5. ASSUME FirstLives', run'.stage = "status", ~run'.copy.import
      PROVE  Server(secret)'.owner = 1
  <2>1. CASE GenerateSecret
    <3>1. /\ run.stage = "generate" /\ wallet' = wallet
          /\ \/ View(secret).owner = 0 /\ secret' = Append(secret, NewSecret)
             \/ View(secret).owner # 0 /\ secret' = secret
      BY <1>5, <2>1 DEF GenerateSecret, Return, Idle
    <3>2. FirstLives /\ run.copy.uid = 1
      <4>1. FirstLives
        BY <1>5, <3>1 DEF FirstLives, Server
      <4> QED
        BY <1>0, <3>1, <4>1 DEF RunSane, FirstLives
    <3>3. CASE secret' = Append(secret, NewSecret)
      <4>1. NewSecret \in Secret
        BY ObjectsTyped, NewKeyUnused, WalletFields DEF NewSecret, Secret
      <4>2. Server(secret)' = NewSecret
        BY <3>3, <4>1, ServerAfter
      <4> QED
        BY <3>2, <4>2 DEF NewSecret
    <3>4. CASE View(secret).owner # 0 /\ secret' = secret
      <4>1. Server(secret).owner = 1
        BY <1>1, <3>2, <3>4 DEF SecretsOwned
      <4> QED
        BY <1>2, <1>5, <3>2, <4>1
    <3> QED
      BY <3>1, <3>3, <3>4
  <2>2. CASE run'.stage = run.stage /\ run'.copy = run.copy
    <3>1. FirstLives
      <4>1. Server(wallet).uid # 0
        BY <1>0, <1>5, <2>2 DEF RunSane
      <4> QED
        BY <1>5, <4>1, FirstLivesOn
    <3>2. Server(secret).owner = 1
      BY <1>5, <2>2, <3>1 DEF SecretsOwned
    <3> QED
      BY <1>2, <1>5, <3>1, <3>2
  <2>3. CASE ReadImported
    <3>1. run.copy.import /\ run'.copy = run.copy
      BY <1>0, <2>3 DEF ReadImported, RunSane, RunType
    <3> QED
      BY <1>5, <3>1
  <2>4. \/ run' = Idle
        \/ run' = run
        \/ FetchFound \/ ReadImported \/ GenerateSecret
        \/ run' = [run EXCEPT !.fresh = FALSE]
    BY DEF Next, Fetch, FetchDone, Reconcile, ImportMissing, UpdateStatus, CallFails,
           WalletSync, SecretSync, Resync, Restart, CreateWallet, EditWallet, DeleteWallet,
           WriteWallet, ProvideImported, WithdrawImported, CollectSecret, Return, vars
  <2>5. run' # Idle
    BY <1>5 DEF Idle
  <2>7. ASSUME FetchFound PROVE FALSE
    <3>1. run'.stage = (IF View(wallet).import THEN "import" ELSE "generate")
      BY <2>7 DEF FetchFound, Idle
    <3> QED
      BY <1>5, <3>1
  <2>6. run' = [run EXCEPT !.fresh = FALSE] => run'.stage = run.stage /\ run'.copy = run.copy
    BY <1>0 DEF RunType
  <2> QED
    BY <2>1, <2>2, <2>3, <2>4, <2>5, <2>6, <2>7
<1> QED
  BY <1>4, <1>5 DEF SecretsOwned

LEMMA SecretExistsStep ==
  ASSUME TypeOK, RunSane, SecretsOwned, SecretExists, WalletAdvances, SecretAdvances
  PROVE  SecretExists'
<1> SUFFICES ASSUME Recorded(Server(wallet)'), Server(wallet)'.uid = 1,
                    Server(wallet)'.secretRef = "own"
             PROVE  Server(secret)'.owner = 1
  BY DEF SecretExists
<1>1. /\ Server(wallet).uid = 1
      /\ \/ Recorded(Server(wallet)) /\ Server(wallet).secretRef = "own"
         \/ run.stage = "status" /\ ~run.copy.import
  BY DEF WalletAdvances
<1>2. FirstLives /\ FirstLives'
  BY <1>1 DEF WalletAdvances, Recorded, FirstLives
<1>3. Server(secret).owner = 1
  BY <1>1, <1>2 DEF SecretExists, SecretsOwned
<1> QED
  BY <1>2, <1>3 DEF SecretAdvances

LEMMA InvariantInit ==
  ASSUME Init
  PROVE  WInv
<1>1. TypeOK
  BY TypeInit
<1>2. /\ Len(wallet) = 1 /\ wallet[1] = NoWallet /\ Server(wallet) = NoWallet
      /\ Len(secret) = 1 /\ secret[1] = NoSecret /\ Server(secret) = NoSecret
  BY DEF Init, Server
<1>3. NoWallet.uid = 0 /\ ~NoWallet.alive /\ NoSecret.owner = 0
  BY DEF NoWallet, NoSecret
<1>4. FeedForward
  BY <1>2, <1>3 DEF FeedForward
<1>5. RunSane
  BY DEF Init, Idle, RunSane
<1>6. SecretsOwned
  BY <1>2, <1>3 DEF SecretsOwned, FirstLives
<1>7. SecretExists
  BY <1>2, <1>3 DEF SecretExists, Recorded
<1> QED
  BY <1>1, <1>4, <1>5, <1>6, <1>7 DEF WInv

LEMMA InvariantInductive ==
  ASSUME WInv, [Next]_vars
  PROVE  WInv'
<1>1. TypeOK' /\ WalletAdvances
  BY TypeInductive, WalletStep DEF WInv
<1>2. SecretAdvances
  BY <1>1, SecretStep DEF WInv
<1>3. FeedForward' /\ RunSane'
  BY <1>1, FeedForwardStep, RunSaneStep DEF WInv
<1>4. SecretsOwned' /\ SecretExists'
  BY <1>1, <1>2, SecretsOwnedStep, SecretExistsStep DEF WInv
<1> QED
  BY <1>1, <1>3, <1>4 DEF WInv

LEMMA InvariantHolds == Spec => []WInv
<1>1. Init => WInv
  BY InvariantInit
<1>2. WInv /\ [Next]_vars => WInv'
  BY InvariantInductive
<1> QED
  BY <1>1, <1>2, PTL DEF Spec

-------------------------------------------------------------------------------
(* What the users may rely on *)

\* The Secret that a status names is there, of a name that is created once,
\* whatever calls fail, whatever the caches show, and whenever the process ends:
\* a reconcile only comes to the status past a Secret that it made or saw, and
\* the collector takes no Secret whose Wallet lives.
THEOREM SecretStaysWhileNamed == Spec => []SecretExists
<1>1. WInv => SecretExists
  BY DEF WInv
<1> QED
  BY <1>1, InvariantHolds, PTL

\* No step of anybody gives a recorded incarnation another key or Secret: a
\* reconcile that began with an unrecorded copy is refused once the API server's
\* Wallet is another, and no other step writes the status.
THEOREM RecordedKeyStays == Spec => KeyNeverChanges
<1>1. ASSUME WInv, [Next]_vars,
             Recorded(Server(wallet)), Server(wallet)'.uid = Server(wallet).uid
      PROVE  /\ Server(wallet)'.key = Server(wallet).key
             /\ Server(wallet)'.secretRef = Server(wallet).secretRef
  BY <1>1, WalletStep DEF WInv, WalletAdvances
<1>2. WInv /\ [Next]_vars =>
        [Recorded(Server(wallet)) /\ Server(wallet)'.uid = Server(wallet).uid =>
           /\ Server(wallet)'.key = Server(wallet).key
           /\ Server(wallet)'.secretRef = Server(wallet).secretRef]_vars
  BY <1>1
<1> QED
  BY <1>2, InvariantHolds, PTL DEF Spec, KeyNeverChanges
===============================================================================
