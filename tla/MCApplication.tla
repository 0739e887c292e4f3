--------------------------- MODULE MCApplication ----------------------------
(* A small instance of Application for TLC. *)
EXTENDS Application

CONSTANTS m1, m2, m3, x2

\* The last release is the second one with an edited migration.
MCReleases == {<<m1, m2>>, <<m1, m2, m3>>, <<m1, x2>>}

MCLegacy == {<<m1>>}

=============================================================================
