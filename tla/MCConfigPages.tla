--------------------------- MODULE MCConfigPages ----------------------------
(* Two schemas that disagree on two documents; one file exists.            *)
EXTENDS ConfigPages, TLC

CONSTANTS d1, d2, s1, s2, n1, n2

MCValid == (s1 :> {Empty, Default, d1}) @@ (s2 :> {d1, d2})
MCInitialOut == (n1 :> d1) @@ (n2 :> Absent)

\* The browsers are alike.
MCSymmetry == Permutations(Clients)
=============================================================================
