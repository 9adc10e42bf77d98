-------------------------- MODULE MCNetworkController --------------------------
(* Instances of NetworkController for TLC. *)
EXTENDS NetworkController

\* An anvil Network, and a Network of any kind that uses the same RPCProvider.
TwoNetworks == {"local", "test"}
AnvilSpec  == [anvil |-> TRUE, provider |-> "anvil", explorer |-> NoRef]
RemoteSpec == [anvil |-> FALSE, provider |-> "anvil", explorer |-> "scan"]
SharedSpecs == [n \in TwoNetworks |-> IF n = "local" THEN {AnvilSpec} ELSE {AnvilSpec, RemoteSpec}]
================================================================================
