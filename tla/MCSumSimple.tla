---------------------------- MODULE MCSumSimple ----------------------------
(***************************************************************************)
(* SumServerSimple on small instances.                                     *)
(***************************************************************************)
EXTENDS SumServerSimple, TLC

CONSTANTS c1, c2, c3

OneClient    == {c1}
TwoClients   == {c1, c2}
ThreeClients == {c1, c2, c3}

One       == {1}
OneAndTwo == {1, 2}

ClientSymmetry == Permutations(Clients)
=============================================================================
