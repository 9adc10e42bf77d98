--------------------------- MODULE WalletController ---------------------------
(****************************************************************************)
(* The Wallet reconciler: one Wallet name and the Secret that the           *)
(* reconciler makes for it, or the Secret that a user imports.              *)
(*                                                                          *)
(* The Wallet and its Secret are feeds: the entries the informer cache has  *)
(* yet to show.  The first one is what the cache shows, the last one is     *)
(* what the API server has.  A key stands for a private key and for the     *)
(* public key that belongs to it.                                           *)
(****************************************************************************)
EXTENDS Naturals, Sequences, FiniteSets, Functions

CONSTANTS
  UserKey,     \* the key in the Secret that users import
  NoPublicKey, \* what that Secret gives without a publicKey, or when it is missing
  MaxUid,      \* bound: how often the name is created
  MaxEdits,    \* bound: edits of one Wallet's spec
  MaxLag,      \* bound: what the Secret's cache lags behind when it is collected
  MaxFaults    \* bound: failed calls, restarts and withdrawn Secrets

ASSUME WalletAssumption ==
  /\ UserKey \in Nat \ {0} /\ NoPublicKey \notin Nat
  /\ MaxUid \in Nat /\ MaxEdits \in Nat /\ MaxLag \in Nat /\ MaxFaults \in Nat

VARIABLES
  wallet,    \* feed of the Wallet
  secret,    \* feed of the Secret "<wallet>-wallet-secret"
  imported,  \* the publicKey in the user's Secret: a key, 0 when it is empty, or NoPublicKey
  queued,    \* the name is in the work queue
  run,       \* the reconcile in progress: its local variables
  faults

vars == <<wallet, secret, imported, queued, run, faults>>

\* key and secretRef are the status; key 0 is the empty public key.
Wallet == [uid : Nat, alive : BOOLEAN, edits : Nat, import : BOOLEAN,
           key : Nat, secretRef : {"", "own", "user"}]
\* owner: the incarnation that the owner reference names; uid 0 is no object.
Secret == [owner : Nat, key : Nat]

NoWallet == [uid |-> 0, alive |-> FALSE, edits |-> 0, import |-> FALSE, key |-> 0, secretRef |-> ""]
NoSecret == [owner |-> 0, key |-> 0]

View(feed)   == feed[1]
Server(feed) == feed[Len(feed)]

Stages == {"idle", "import", "generate", "status"}

\* key: the public key the status will get; fresh: the fetched copy is still
\* what the API server has.
Idle == [stage |-> "idle", copy |-> NoWallet, fresh |-> FALSE, key |-> 0]

TypeOK ==
  /\ wallet \in Seq(Wallet) /\ secret \in Seq(Secret)
  /\ Len(wallet) > 0 /\ Len(secret) > 0
  /\ imported \in {NoPublicKey, 0, UserKey}
  /\ queued \in BOOLEAN
  /\ run \in [stage : Stages, copy : Wallet, fresh : BOOLEAN, key : Nat]
  /\ faults \in 0..MaxFaults

Init ==
  /\ wallet = <<NoWallet>> /\ secret = <<NoSecret>>
  /\ imported = NoPublicKey
  /\ queued = FALSE
  /\ run = Idle
  /\ faults = 0

-------------------------------------------------------------------------------
(* The reconciler *)

Fail == faults < MaxFaults /\ faults' = faults + 1

Return(again) == run' = Idle /\ queued' = (queued \/ again)

\* Mutant: the reference alone decides.
AlreadyReferenced(w) == w.secretRef # ""

AlreadyCreated(w) == w.key # 0 /\ w.secretRef # ""

\* Not found, or already created: nothing to do.
FetchDone ==
  /\ run.stage = "idle" /\ queued
  /\ ~View(wallet).alive \/ AlreadyCreated(View(wallet))
  /\ queued' = FALSE
  /\ UNCHANGED <<wallet, secret, imported, run, faults>>

\* Mutant: a wallet that has its Secret is not left alone.
FetchAgain ==
  /\ run.stage = "idle" /\ queued
  /\ View(wallet).alive
  /\ queued' = FALSE
  /\ run' = [Idle EXCEPT !.stage = IF View(wallet).import THEN "import" ELSE "generate",
                         !.copy = View(wallet), !.fresh = Len(wallet) = 1]
  /\ UNCHANGED <<wallet, secret, imported, faults>>

FetchFound ==
  /\ run.stage = "idle" /\ queued
  /\ View(wallet).alive /\ ~AlreadyCreated(View(wallet))
  /\ queued' = FALSE
  /\ run' = [Idle EXCEPT !.stage = IF View(wallet).import THEN "import" ELSE "generate",
                         !.copy = View(wallet), !.fresh = Len(wallet) = 1]
  /\ UNCHANGED <<wallet, secret, imported, faults>>

\* Mutant: whether the Secret has a publicKey is not looked at.
ReadImportedUnchecked ==
  /\ run.stage = "import"
  /\ run' = [run EXCEPT !.stage = "status", !.key = imported]
  /\ UNCHANGED <<wallet, secret, imported, queued, faults>>

\* The Secret has a publicKey: an empty one is as good as any.
ReadImported ==
  /\ run.stage = "import" /\ imported # NoPublicKey
  /\ run' = [run EXCEPT !.stage = "status", !.key = imported]
  /\ UNCHANGED <<wallet, secret, imported, queued, faults>>

\* Mutant: the error is logged and not returned.
ImportMissingDropped ==
  /\ run.stage = "import" /\ imported = NoPublicKey
  /\ Return(FALSE)
  /\ UNCHANGED <<wallet, secret, imported, faults>>

\* The user's Secret or its publicKey is missing.
ImportMissing ==
  /\ run.stage = "import" /\ imported = NoPublicKey
  /\ Return(TRUE)
  /\ UNCHANGED <<wallet, secret, imported, faults>>

UsedKeys ==
  {0, UserKey} \cup {w.key : w \in Range(wallet)} \cup {s.key : s \in Range(secret)}

\* A generated key is unlike any other.
NewKey == CHOOSE key \in 1..(Cardinality(UsedKeys) + 1) : key \notin UsedKeys

NewSecret == [owner |-> run.copy.uid, key |-> NewKey]

\* The cache shows no Secret: it is created, or the API server has one already.
\* The cache shows one: it is kept, and its data is not looked at.
GenerateSecret ==
  /\ run.stage = "generate"
  /\ IF View(secret).owner = 0 /\ Server(secret).owner # 0
     THEN Return(TRUE) /\ UNCHANGED secret
     ELSE /\ run' = [run EXCEPT !.stage = "status", !.key = NewKey]
          /\ secret' = IF View(secret).owner = 0 THEN Append(secret, NewSecret) ELSE secret
          /\ UNCHANGED queued
  /\ UNCHANGED <<wallet, imported, faults>>

StatusWritten ==
  [run.copy EXCEPT !.key = run.key, !.secretRef = IF run.copy.import THEN "user" ELSE "own"]

\* A write that changes nothing, of an empty key once more, is no entry.
WalletWritten ==
  IF StatusWritten = run.copy THEN wallet ELSE Append(wallet, StatusWritten)

\* A stale copy is refused.
UpdateStatus ==
  /\ run.stage = "status"
  /\ IF run.fresh
     THEN wallet' = WalletWritten /\ Return(FALSE)
     ELSE UNCHANGED wallet /\ Return(TRUE)
  /\ UNCHANGED <<secret, imported, faults>>

\* Mutant: the status is written although the creation failed.
CallFailsGoesOn ==
  /\ run.stage = "generate"
  /\ Fail
  /\ run' = [run EXCEPT !.stage = "status", !.key = NewKey]
  /\ secret' \in {secret, IF Server(secret).owner = 0 THEN Append(secret, NewSecret) ELSE secret}
  /\ UNCHANGED <<wallet, imported, queued>>

\* A call fails on its way there or back: what it writes is written or not.
CallFails ==
  /\ run.stage # "idle"
  /\ Fail
  /\ Return(TRUE)
  /\ \/ UNCHANGED <<wallet, secret>>
     \/ /\ run.stage = "generate" /\ View(secret).owner = 0 /\ Server(secret).owner = 0
        /\ secret' = Append(secret, NewSecret) /\ UNCHANGED wallet
     \/ /\ run.stage = "status" /\ run.fresh
        /\ wallet' = WalletWritten /\ UNCHANGED secret
  /\ UNCHANGED imported

-------------------------------------------------------------------------------
(* The informers and the manager's process *)

WalletSync ==
  /\ Len(wallet) > 1
  /\ wallet' = Tail(wallet) /\ queued' = TRUE
  /\ UNCHANGED <<secret, imported, run, faults>>

\* The controller watches Wallets only.
SecretSync ==
  /\ Len(secret) > 1
  /\ secret' = Tail(secret)
  /\ UNCHANGED <<wallet, imported, queued, run, faults>>

\* The informer hands out every object anew from time to time.
Resync ==
  /\ run.stage = "idle" /\ View(wallet).alive
  /\ queued' = TRUE
  /\ UNCHANGED <<wallet, secret, imported, run, faults>>

Restart ==
  /\ Fail
  /\ wallet' = <<Server(wallet)>> /\ secret' = <<Server(secret)>>
  /\ queued' = Server(wallet).alive
  /\ run' = Idle
  /\ UNCHANGED imported

-------------------------------------------------------------------------------
(* Users and the garbage collector *)

WriteWallet(object) ==
  /\ wallet' = Append(wallet, object)
  /\ run' = [run EXCEPT !.fresh = FALSE]
  /\ UNCHANGED <<secret, imported, queued, faults>>

CreateWallet(import) ==
  /\ ~Server(wallet).alive /\ Server(wallet).uid < MaxUid
  /\ WriteWallet([NoWallet EXCEPT !.uid = Server(wallet).uid + 1, !.alive = TRUE, !.import = import])

EditWallet ==
  /\ Server(wallet).alive /\ Server(wallet).edits < MaxEdits
  /\ WriteWallet([Server(wallet) EXCEPT !.import = ~@, !.edits = @ + 1])

DeleteWallet ==
  /\ Server(wallet).alive
  /\ WriteWallet([Server(wallet) EXCEPT !.alive = FALSE])

\* Users provide the Secret that they import, late or early, with its publicKey
\* or with an empty one that they may fill in later, or remove it.
ProvideImported(key) ==
  /\ imported' = key
  /\ UNCHANGED <<wallet, secret, queued, run, faults>>

WithdrawImported ==
  /\ imported # NoPublicKey /\ Fail
  /\ imported' = NoPublicKey
  /\ UNCHANGED <<wallet, secret, queued, run>>

CollectSecret ==
  /\ Server(secret).owner # 0
  /\ ~(Server(wallet).alive /\ Server(wallet).uid = Server(secret).owner)
  /\ Len(secret) <= MaxLag
  /\ secret' = Append(secret, NoSecret)
  /\ UNCHANGED <<wallet, imported, queued, run, faults>>

-------------------------------------------------------------------------------
Fetch == FetchDone \/ FetchFound

Reconcile == ReadImported \/ ImportMissing \/ GenerateSecret \/ UpdateStatus

Next ==
  \/ Fetch \/ Reconcile \/ CallFails
  \/ WalletSync \/ SecretSync \/ Resync \/ Restart
  \/ \E import \in BOOLEAN : CreateWallet(import)
  \/ EditWallet \/ DeleteWallet
  \/ \E key \in {0, UserKey} : ProvideImported(key)
  \/ WithdrawImported
  \/ CollectSecret

Fairness ==
  /\ WF_vars(Fetch) /\ WF_vars(Reconcile)
  /\ WF_vars(WalletSync) /\ WF_vars(SecretSync)
  /\ WF_vars(CollectSecret)

Spec == Init /\ [][Next]_vars /\ Fairness
-------------------------------------------------------------------------------
(* What the users may rely on *)

Recorded(w) == w.alive /\ AlreadyCreated(w)

\* A wallet that has its key keeps it: reconciles of stale copies, retries and
\* edits of the spec never give an incarnation another key or Secret.
KeyNeverChanges ==
  [][Recorded(Server(wallet)) /\ Server(wallet)'.uid = Server(wallet).uid =>
       /\ Server(wallet)'.key = Server(wallet).key
       /\ Server(wallet)'.secretRef = Server(wallet).secretRef]_vars

\* The Secret that the status names exists and holds the key of the status.
SecretHoldsKey ==
  Recorded(Server(wallet)) /\ Server(wallet).secretRef = "own" =>
    /\ Server(secret).owner # 0
    /\ Server(secret).key = Server(wallet).key

\* The Secret that the status names exists, whatever its key: the status is only
\* written after a Secret of this incarnation was created or seen.  Of a name
\* that is created once: a later incarnation takes a Secret that is collected.
SecretExists ==
  LET w == Server(wallet)
  IN Recorded(w) /\ w.uid = 1 /\ w.secretRef = "own" => Server(secret).owner = w.uid

\* A Wallet gets its status in the end, through failures, conflicts, a Secret
\* left by its former incarnation, and a user's Secret that comes late or
\* without publicKey.  An empty publicKey is recorded as it is, and nothing but
\* a resync looks again: then the status names the user's Secret and no key.
WalletReady ==
  <>[](LET w == Server(wallet)
       IN w.alive => \/ AlreadyCreated(w)
                     \/ w.import /\ (imported = NoPublicKey \/ w.secretRef = "user"))

\* With resyncs, a publicKey that users fill in after an empty one was recorded
\* comes to the status: a wallet without a key does not pass for a created one.
LateKeyRecorded ==
  SF_vars(Resync) /\ <>[](imported = UserKey) =>
    <>[](Server(wallet).alive => Server(wallet).key # 0)
===============================================================================
