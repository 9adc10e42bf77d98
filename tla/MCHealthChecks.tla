---------------------------- MODULE MCHealthChecks ----------------------------
(* Instances of HealthChecks for TLC. *)
EXTENDS HealthChecks

\* No Secret, one with a URL only, and one with a URL and a token.
SomeData == {NoSecret, [url |-> "u", token |-> FALSE], [url |-> "v", token |-> TRUE]}
===============================================================================
