------------------------- MODULE MCProviderGateway --------------------------
(* Two calls at once on an owner's connections and keys.                   *)
EXTENDS ProviderGateway, TLC

Symmetry ==
    Permutations(Calls) \cup Permutations(Connections) \cup Permutations(Keys)
=============================================================================
