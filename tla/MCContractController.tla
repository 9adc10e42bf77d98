------------------------- MODULE MCContractController -------------------------
(* Instances of ContractController for TLC. *)
EXTENDS ContractRefinement

token == <<"token">>
dev   == <<"dev">>
prod  == <<"prod">>

OneContract == {token}
TwoNetworks == {dev, prod}

NoText == [p \in Parts |-> Empty]
Refs(f) == [p \in Parts |-> IF p \in DOMAIN f THEN f[p] ELSE NoRef]
Written(nets, wallet, code) ==
  [nets |-> nets, wallet |-> wallet, inline |-> [NoText EXCEPT !["code"] = code], ref |-> Refs(<<>>)]

SomeTexts == {"", "v1", "v2"}

\* Specs with inline code: a network more, another code, another wallet.
InlineSpecs == { Written(<<dev>>, "w1", "v1"), Written(<<dev, prod>>, "w2", "v2") }
NoKeys == {}
NoConfigMaps == {<<>>}

\* Specs that take the code, or the script and a test, from ConfigMaps.
CodeKey == {"code.sol"}
TwoKeys == {"code.sol", "test.sol"}
FromConfigMap(nets, refs) == [nets |-> nets, wallet |-> "w1", inline |-> NoText, ref |-> Refs(refs)]
CodeRefSpecs == { FromConfigMap(<<dev>>, [p \in {"code"} |-> "code.sol"]) }
RefSpecs ==
  { FromConfigMap(<<dev, prod>>, [p \in {"code", "test"} |->
                                    IF p = "code" THEN "code.sol" ELSE "test.sol"]),
    FromConfigMap(<<dev>>, [p \in {"script"} |-> "test.sol"]) }

\* What the ConfigMaps hold: absent, empty, and two revisions of code and test.
CodeMaps == [CodeKey -> {"v1", "v2"}]
CodeAndTestMaps == {
  [k \in TwoKeys |-> Missing],
  [k \in TwoKeys |-> ""],
  [k \in TwoKeys |-> IF k = "code.sol" THEN "v1" ELSE Missing],
  [k \in TwoKeys |-> "v1"],
  [k \in TwoKeys |-> "v2"] }
===============================================================================
