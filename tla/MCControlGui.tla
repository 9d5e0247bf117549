---------------------------- MODULE MCControlGui ----------------------------
(* Two pages: of two users, or both of the user of a server without SSO.   *)
(* Two configurations: a tree with a node below the root and a tree        *)
(* without; the name of the root is the same in both.                      *)
EXTENDS ControlGui, TLC

CONSTANTS c1, c2, u1, u2, f1, f2

MCAssignments == {(c1 :> u1) @@ (c2 :> u2), (c1 :> local_user) @@ (c2 :> local_user)}
MCTree == (f1 :> <<"root", "readout">>) @@ (f2 :> <<"root">>)
MCStateSets == {{"booted"}, {"booted", "running"}}
MCInitialState == {"booted"}
MCRules == [booted |-> {"configure"}, running |-> {"stop"}, not_added |-> {}]
MCNotAdded == {"not_added"}

\* The pages change places together with their users.
MCSymmetry ==
    {p \in Permutations({c1, c2, u1, u2}) :
        <<p[c1], p[c2], p[u1]>> \in {<<c1, c2, u1>>, <<c2, c1, u2>>}}
=============================================================================
