------------------------- MODULE MCRoutePolicyStore -------------------------
(* Small instances of RoutePolicyStore for TLC. *)
EXTENDS RoutePolicyStore, TLC

Symmetry == Permutations(Client) \cup Permutations(Main)

=============================================================================
