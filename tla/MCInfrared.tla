----------------------------- MODULE MCInfrared -----------------------------
(* Small instances of Infrared for TLC. *)
EXTENDS Infrared

CONSTANTS c1, c2

R(s, c) == [server |-> s, content |-> c]

MCPlans ==
    { <<>>,
      <<R(1, c1)>>,
      <<R(2, c1), R(1, c2)>>,
      <<R(1, c1), R(2, c2)>>,
      <<R(1, c1), R(1, c2)>>,
      <<R(2, c1), R(1, Invalid)>> }

=============================================================================
