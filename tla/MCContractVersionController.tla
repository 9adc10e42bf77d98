--------------------- MODULE MCContractVersionController ---------------------
(* Instances of ContractVersionController for TLC. *)
EXTENDS ContractVersionController

OneCode  == <<{"v1"}>>

\* The first incarnation has one code, the second the same or another one.
TwoCodes == <<{"v1"}, {"v1", "v2"}>>

Wallet   == {"wallet"}
Module   == {"module"}
None     == {}
===============================================================================
