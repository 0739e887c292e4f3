----------------------------- MODULE MCDiscovery -----------------------------
(* A small instance of Discovery for TLC. *)
EXTENDS Discovery

CONSTANTS n1, n2, any, empty, host

\* Allocations 1 and 2 are on one node, the others on the other.
MCNodeOf == [a \in Alloc |-> IF a <= 2 THEN n1 ELSE n2]

\* Allocation 2 is on an unspecified address, and the last one of four has none.
MCAddressOf == [a \in Alloc |-> IF a = 2 THEN any ELSE IF a = 4 THEN empty ELSE host]

=============================================================================
