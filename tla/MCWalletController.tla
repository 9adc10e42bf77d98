-------------------------- MODULE MCWalletController --------------------------
(* Instances of WalletController for TLC. *)
EXTENDS WalletController
===============================================================================
