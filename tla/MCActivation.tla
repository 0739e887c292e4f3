---------------------------- MODULE MCActivation ----------------------------
(* Small instances of Activation for TLC. *)
EXTENDS Activation, TLC

CONSTANTS u1, u2, d1, d2

MCCandidates == {[url |-> u1, domain |-> d1], [url |-> u2, domain |-> d2]}

Symmetry == Permutations(Generations) \cup Permutations(SetupRequests)

=============================================================================
