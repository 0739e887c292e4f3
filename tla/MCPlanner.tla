----------------------------- MODULE MCPlanner -----------------------------
(* Small instances of Planner for TLC. *)
EXTENDS Planner

\* Names with separators, capitals, foreign characters, nothing usable, or too long.
Names == {<<"a">>, <<"A", "_">>, <<"!", "-", "_">>, <<"_", "a", "-", "_", "b">>, <<"a", "b", "b", "a">>}

S(u, x, b, n) == [uuid |-> u, suspended |-> x, backend |-> b, name |-> n, identifier |-> <<"b">>]

First == {S(1, x, TRUE, n) : x \in BOOLEAN, n \in Names}
Second == {S(2, FALSE, b, n) : b \in BOOLEAN, n \in Names} \cup {S(Blank, FALSE, TRUE, <<"a">>)}

MCInventories == {<<>>} \cup {<<s, t>> : s \in First, t \in Second} \cup {<<t, s>> : s \in First, t \in Second}

P(x, p, as) == [excluded |-> x, primary |-> p, aliases |-> as]

Policies ==
    { None, P(TRUE, <<>>, <<>>), P(TRUE, <<"a">>, <<>>), P(FALSE, <<"A">>, <<>>),
      P(FALSE, <<>>, <<<<"b">>>>), P(FALSE, <<"-", "a">>, <<>>), P(FALSE, <<"b">>, <<<<"a">>, <<"A">>>>) }

MCBooks == [Uuid -> Policies]

=============================================================================
