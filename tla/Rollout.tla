-------------------------------- MODULE Rollout --------------------------------
(****************************************************************************)
(* What the Contract reconciler promises of one Contract, in terms of what  *)
(* users see: the networks that each generation asks for, the deployments   *)
(* that were ordered (ContractVersions), and the generation that the status *)
(* names.                                                                   *)
(****************************************************************************)
EXTENDS Naturals, Sequences

CONSTANT Networks  \* Network names

VARIABLES
  wanted,    \* the networks that each generation asks for
  ordered,   \* pairs of a generation and a network that have a ContractVersion
  recorded,  \* the generation that the status names, 0 for none
  ended      \* the Contract was deleted

vars == <<wanted, ordered, recorded, ended>>

Init == wanted = <<>> /\ ordered = {} /\ recorded = 0 /\ ended = FALSE

\* A user writes the next generation.
Want(nets) ==
  /\ ~ended
  /\ wanted' = Append(wanted, nets)
  /\ UNCHANGED <<ordered, recorded, ended>>

\* One more deployment is ordered, of any generation that was asked for.
Order(gen, net) ==
  /\ ~ended /\ net \in wanted[gen]
  /\ ordered' = ordered \cup {<<gen, net>>}
  /\ UNCHANGED <<wanted, recorded, ended>>

\* A later generation is recorded, all of whose deployments were ordered.
Record(gen) ==
  /\ ~ended /\ gen > recorded
  /\ {gen} \X wanted[gen] \subseteq ordered
  /\ recorded' = gen
  /\ UNCHANGED <<wanted, ordered, ended>>

End == ~ended /\ ended' = TRUE /\ wanted' = <<>> /\ ordered' = {} /\ recorded' = 0

Next ==
  \/ \E nets \in SUBSET Networks : Want(nets)
  \/ \E gen \in DOMAIN wanted : Record(gen) \/ \E net \in Networks : Order(gen, net)
  \/ End

Spec == Init /\ [][Next]_vars
================================================================================
