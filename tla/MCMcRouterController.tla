----------------------- MODULE MCMcRouterController -----------------------
(* Small instances of McRouterController for TLC. *)
EXTENDS McRouterController

CONSTANTS b1, b2

R(h, b) == [hostname |-> h, backend |-> b]

\* Hostnames 1 and 3 are managed, 2 is not: a policy may name any hostname.
MCPlans ==
    { <<R(1, b1)>>,
      <<R(3, b1), R(1, b2)>>,
      <<R(3, b2), R(2, b1)>>,
      <<R(1, Invalid), R(1, b2)>> }

=============================================================================
