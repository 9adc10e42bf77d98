-------------------------- MODULE ContractRefinement --------------------------
(****************************************************************************)
(* ContractController implements Rollout: the mapping for the first         *)
(* incarnation of a Contract whose name clashes with no other.  What comes  *)
(* after its deletion is not seen.                                          *)
(****************************************************************************)
EXTENDS ContractController

Any == CHOOSE c \in Contracts : NoClash(c)
Alive == Live(Any).alive /\ Live(Any).uid = 1

\* The networks of the entry of the history with which a generation began.
AskedFor(gen) ==
  LET i == CHOOSE j \in DOMAIN contract[Any] : contract[Any][j].alive /\ contract[Any][j].gen = gen
  IN Range(contract[Any][i].spec.nets)

Promise == INSTANCE Rollout WITH
  wanted   <- IF Alive THEN [gen \in 1..Live(Any).gen |-> AskedFor(gen)] ELSE <<>>,
  ordered  <- IF Alive THEN {<<v.gen, v.net>> : v \in {w \in versions : w.owner = Any}} ELSE {},
  recorded <- IF Alive THEN Live(Any).current ELSE 0,
  ended    <- Live(Any).uid # 0 /\ ~Alive

\* Step by step, the reconciler does what Rollout allows: it orders only what a
\* generation asks for, one at a time and for good, and records a generation
\* once all of it is ordered, never an earlier one after a later one; failed
\* calls, conflicts, restarts and stale caches change nothing of that.
ImplementsRollout == Promise!Spec
===============================================================================
