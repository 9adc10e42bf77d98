----------------------------- MODULE HealthChecks -----------------------------
(****************************************************************************)
(* The periodic health checks of RPCProviders and of BlockExplorers.  Each  *)
(* of the two runs in a goroutine of its own over the objects of its kind;  *)
(* they are one program but for what a Secret must hold and what a failed   *)
(* check reports, so a behaviour is that of one of them.                    *)
(*                                                                          *)
(* Objects and Secrets are feeds as in ContractVersionController: first     *)
(* what the cache shows, last what the API server has.                      *)
(****************************************************************************)
EXTENDS Naturals, Sequences, Functions

CONSTANTS
  Objects,      \* names of RPCProviders, or of BlockExplorers
  Secrets,      \* names of Secrets
  Urls,         \* endpoints
  SecretData,   \* what users put into a Secret
  MaxEvents     \* bound: writes of users, endpoints that go up or down, failed
                \* calls, timeouts and restarts

\* token: the key for the API token is there.  A Secret that does not exist is
\* reported like one without a URL.
NoSecret == [url |-> "", token |-> FALSE]

ASSUME HealthAssumption ==
  /\ Objects # {} /\ Secrets # {}
  /\ "" \notin Urls /\ NoSecret \in SecretData
  /\ SecretData \subseteq [url : Urls \cup {""}, token : BOOLEAN]
  /\ MaxEvents \in Nat

VARIABLES
  kind,      \* "RPCProvider" or "BlockExplorer"
  object,    \* feed of each object
  secret,    \* feed of each Secret
  up,        \* the endpoints that answer as they should
  tick,      \* the ticker's channel holds a tick
  round,     \* the check in progress
  answered,  \* history: the endpoints that answered checks of each object's incarnation
  events     \* how many of these there were

vars == <<kind, object, secret, up, tick, round, answered, events>>

Object == [uid : Nat, alive : BOOLEAN, secret : Secrets,
           endpoint : Urls \cup {""}, healthy : BOOLEAN]
NoObject == [uid |-> 0, alive |-> FALSE, secret |-> CHOOSE s \in Secrets : TRUE,
             endpoint |-> "", healthy |-> FALSE]
Created(uid, s) == [NoObject EXCEPT !.uid = uid, !.alive = TRUE, !.secret = s]

View(feed)   == feed[1]
Server(feed) == feed[Len(feed)]

\* copies: the list that the round works on; todo: those it has not checked
\* yet; fresh: those the API server has not changed since; url: where the
\* object at is being checked, "" for none.
NoCopies == [o \in Objects |-> NoObject]
Waiting == [copies |-> NoCopies, todo |-> {}, fresh |-> {}, at |-> CHOOSE o \in Objects : TRUE, url |-> ""]

TypeOK ==
  /\ kind \in {"RPCProvider", "BlockExplorer"}
  /\ object \in [Objects -> Seq(Object)] /\ secret \in [Secrets -> Seq(SecretData)]
  /\ \A o \in Objects : Len(object[o]) > 0
  /\ \A s \in Secrets : Len(secret[s]) > 0
  /\ up \subseteq Urls /\ tick \in BOOLEAN
  /\ round \in [copies : [Objects -> Object], todo : SUBSET Objects, fresh : SUBSET Objects,
                at : Objects, url : Urls \cup {""}]
  /\ answered \in [Objects -> SUBSET Urls]
  /\ events \in 0..MaxEvents

Init ==
  /\ kind \in {"RPCProvider", "BlockExplorer"}
  /\ object = [o \in Objects |-> <<Created(1, NoObject.secret)>>]
  /\ \E data \in [Secrets -> SecretData] : secret = [s \in Secrets |-> <<data[s]>>]
  /\ up = Urls /\ tick = FALSE /\ round = Waiting /\ answered = [o \in Objects |-> {}]
  /\ events = 0

-------------------------------------------------------------------------------
(* The goroutine *)

Event == events < MaxEvents /\ events' = events + 1
world == <<kind, secret, up>>

\* The ticker's channel holds one tick: others that come meanwhile are dropped.
Tick ==
  /\ ~tick /\ tick' = TRUE
  /\ UNCHANGED <<object, round, answered, world, events>>

\* A round works on what the cache lists.
List ==
  /\ round.todo = {} /\ tick /\ tick' = FALSE
  /\ LET alive == {o \in Objects : View(object[o]).alive}
     IN round' = [Waiting EXCEPT !.todo = alive,
                    !.copies = [o \in Objects |-> IF o \in alive THEN View(object[o]) ELSE NoObject],
                    !.fresh = {o \in alive : Len(object[o]) = 1}]
  /\ UNCHANGED <<object, answered, world, events>>

ListFails ==
  /\ round.todo = {} /\ tick /\ tick' = FALSE
  /\ Event
  /\ UNCHANGED <<object, round, answered, world>>

NextAfter(o) ==
  round' = [round EXCEPT !.todo = round.todo \ {o}, !.fresh = round.fresh \ {o},
                         !.copies[o] = NoObject, !.url = "", !.at = Waiting.at]

\* Mutant: a patch of the status, which no resourceVersion guards.
StatusPatched(o, endpoint, healthy) ==
  LET new == [Server(object[o]) EXCEPT !.endpoint = endpoint, !.healthy = healthy]
  IN IF new # Server(object[o]) /\ new.alive
     THEN [object EXCEPT ![o] = Append(@, new)] ELSE object

\* The copy, with its new status, replaces the object it was listed from: a
\* copy that is stale by now is refused, and one that says nothing new is no entry.
StatusWritten(o, endpoint, healthy) ==
  LET new == [round.copies[o] EXCEPT !.endpoint = endpoint, !.healthy = healthy]
  IN IF o \in round.fresh /\ new # round.copies[o]
     THEN [object EXCEPT ![o] = Append(@, new)] ELSE object

\* updateStatus: an error is logged, and the round goes on with the next object.
UpdateStatus(o, endpoint, healthy) ==
  object' = StatusWritten(o, endpoint, healthy) /\ NextAfter(o)

Data(o) == View(secret[round.copies[o].secret])
RPCProviderUsable(data)   == data.url # ""
BlockExplorerUsable(data) == data.url # "" /\ data.token
Usable(data) == IF kind = "RPCProvider" THEN RPCProviderUsable(data) ELSE BlockExplorerUsable(data)

\* Mutant: an object that cannot be checked ends the round.
SecretUnusableReturns(o) ==
  /\ o \in round.todo /\ round.url = "" /\ ~Usable(Data(o))
  /\ object' = StatusWritten(o, "", FALSE) /\ round' = Waiting
  /\ UNCHANGED <<tick, answered, world, events>>

SecretUnusable(o) ==
  /\ o \in round.todo /\ round.url = "" /\ ~Usable(Data(o))
  /\ UpdateStatus(o, "", FALSE)
  /\ UNCHANGED <<tick, answered, world, events>>

Ask(o) ==
  /\ o \in round.todo /\ round.url = "" /\ Usable(Data(o))
  /\ round' = [round EXCEPT !.at = o, !.url = Data(o).url]
  /\ UNCHANGED <<object, tick, answered, world, events>>

\* Mutant: a failed check of a BlockExplorer reports its endpoint too.
BlockExplorerFailureNamed == round.url

\* The endpoint that a failed check reports.
RPCProviderFailure   == round.url
BlockExplorerFailure == ""
Failure == IF kind = "RPCProvider" THEN RPCProviderFailure ELSE BlockExplorerFailure

Current(o) == Server(object[o]).alive /\ Server(object[o]).uid = round.copies[o].uid

\* Mutant: the URL that was asked is reported, which ends in the token.
AnswerGoodWithToken ==
  /\ round.url # "" /\ round.url \in up
  /\ UpdateStatus(round.at, round.url \o "/token", TRUE)
  /\ answered' = IF Current(round.at)
                 THEN [answered EXCEPT ![round.at] = @ \cup {round.url}] ELSE answered
  /\ UNCHANGED <<tick, world, events>>

AnswerGood ==
  /\ round.url # "" /\ round.url \in up
  /\ UpdateStatus(round.at, round.url, TRUE)
  /\ answered' = IF Current(round.at)
                 THEN [answered EXCEPT ![round.at] = @ \cup {round.url}] ELSE answered
  /\ UNCHANGED <<tick, world, events>>

AnswerBad ==
  /\ round.url # "" /\ round.url \notin up
  /\ UpdateStatus(round.at, Failure, FALSE)
  /\ UNCHANGED <<tick, answered, world, events>>

\* No answer within ten seconds, of an endpoint that is up.
AnswerLate ==
  /\ round.url # "" /\ Event
  /\ UpdateStatus(round.at, Failure, FALSE)
  /\ UNCHANGED <<tick, answered, world>>

\* The status update does not reach the API server.
UpdateStatusFails ==
  /\ \E o \in round.todo : /\ IF round.url = "" THEN ~Usable(Data(o)) ELSE o = round.at
                          /\ NextAfter(o)
  /\ Event
  /\ UNCHANGED <<object, tick, answered, world>>

-------------------------------------------------------------------------------
(* The informers, the manager's process and the users *)

Sync ==
  /\ \/ \E o \in Objects : Len(object[o]) > 1 /\ object' = [object EXCEPT ![o] = Tail(@)] /\ UNCHANGED secret
     \/ \E s \in Secrets : Len(secret[s]) > 1 /\ secret' = [secret EXCEPT ![s] = Tail(@)] /\ UNCHANGED object
  /\ UNCHANGED <<kind, up, tick, round, answered, events>>

Restart ==
  /\ Event
  /\ object' = [o \in Objects |-> <<Server(object[o])>>]
  /\ secret' = [s \in Secrets |-> <<Server(secret[s])>>]
  /\ tick' = FALSE /\ round' = Waiting
  /\ UNCHANGED <<kind, up, answered>>

WriteObject(o, new) ==
  /\ Event
  /\ object' = [object EXCEPT ![o] = Append(@, new)]
  /\ round' = [round EXCEPT !.fresh = round.fresh \ {o}]
  /\ UNCHANGED <<kind, secret, up, tick>>

CreateObject(o, s) ==
  /\ ~Server(object[o]).alive
  /\ WriteObject(o, Created(Server(object[o]).uid + 1, s))
  /\ UNCHANGED answered

EditObject(o, s) ==
  /\ Server(object[o]).alive /\ Server(object[o]).secret # s
  /\ WriteObject(o, [Server(object[o]) EXCEPT !.secret = s])
  /\ UNCHANGED answered

DeleteObject(o) ==
  /\ Server(object[o]).alive
  /\ WriteObject(o, [NoObject EXCEPT !.uid = Server(object[o]).uid])
  /\ answered' = [answered EXCEPT ![o] = {}]

WriteSecret(s, data) ==
  /\ Event /\ data # Server(secret[s])
  /\ secret' = [secret EXCEPT ![s] = Append(@, data)]
  /\ UNCHANGED <<kind, object, up, tick, round, answered>>

\* An endpoint goes down, or comes back.
Switch(url) ==
  /\ Event
  /\ up' = IF url \in up THEN up \ {url} ELSE up \cup {url}
  /\ UNCHANGED <<kind, object, secret, tick, round, answered>>

-------------------------------------------------------------------------------
Check ==
  \/ List \/ AnswerGood \/ AnswerBad
  \/ \E o \in Objects : SecretUnusable(o) \/ Ask(o)

Next ==
  \/ Tick \/ Check \/ ListFails \/ AnswerLate \/ UpdateStatusFails
  \/ Sync \/ Restart
  \/ \E o \in Objects, s \in Secrets : CreateObject(o, s) \/ EditObject(o, s)
  \/ \E o \in Objects : DeleteObject(o)
  \/ \E s \in Secrets, data \in SecretData : WriteSecret(s, data)
  \/ \E url \in Urls : Switch(url)

\* The ticker ticks, a round goes on (every request ends, at the latest with its
\* timeout), the watches go on.
Fairness == WF_vars(Tick) /\ WF_vars(Check) /\ WF_vars(Sync)

Spec == Init /\ [][Next]_vars /\ Fairness
-------------------------------------------------------------------------------
(* What the users and the Network reconciler may rely on *)

\* A status never vouches for an endpoint that did not answer for this very
\* object: not for that of a former object of the name, whose check was still
\* waiting for its answer, and not for one that the Secret got since.
HealthyWasAnswered ==
  \A o \in Objects :
    Server(object[o]).alive /\ Server(object[o]).healthy =>
      Server(object[o]).endpoint \in answered[o]

\* NetworkController takes it that an RPCProvider or BlockExplorer that is healthy
\* has an endpoint, and that a BlockExplorer that is not healthy has none.
ReportsMakeSense ==
  \A o \in Objects :
    /\ Server(object[o]).healthy => Server(object[o]).endpoint # ""
    /\ kind = "BlockExplorer" /\ ~Server(object[o]).healthy => Server(object[o]).endpoint = ""

\* In the end the status of every object says whether its endpoint answers, from
\* its Secret as it is then: although rounds work on stale lists, refused status
\* updates are not retried, ticks are dropped and other objects are broken.
HealthConverges ==
  <>[](\A o \in Objects :
         LET new  == Server(object[o])
             data == Server(secret[new.secret])
         IN new.alive =>
              /\ new.healthy = (Usable(data) /\ data.url \in up)
              /\ new.healthy => new.endpoint = data.url)
===============================================================================
