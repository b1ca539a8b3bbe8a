-------------------------- MODULE MCStrategyBroker --------------------------
(* Instances of StrategyBroker for TLC.                                    *)
EXTENDS StrategyBroker, TLC

Interchangeable == Permutations(Ids) \union Permutations(Sides)

NoGroups == {}
Reducing == {[name |-> "group", type |-> "reduce"]}
Cancelling == {[name |-> "group", type |-> "cancel"]}
WithGroup == Ids \union {"group"}
=============================================================================
