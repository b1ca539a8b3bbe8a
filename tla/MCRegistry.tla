---------------------------- MODULE MCRegistry ----------------------------
(* Instances of Registry for TLC.                                          *)
EXTENDS Registry, TLC

Interchangeable == Permutations(Clients) \union Permutations(Scripts)
=============================================================================
