--------------------------- MODULE MCManagementApi ---------------------------
(* A small instance of ManagementApi for TLC. *)
EXTENDS ManagementApi, TLC

Symmetry == Permutations(Client) \cup Permutations(Main)

==============================================================================
