------------------------------- MODULE MCSum -------------------------------
(***************************************************************************)
(* SumServer on small instances.                                           *)
(***************************************************************************)
EXTENDS SumServer, TLC

CONSTANTS c1, c2, c3

OneClient    == {c1}
TwoClients   == {c1, c2}
ThreeClients == {c1, c2, c3}

None     == {}

One       == {1}
OneAndTwo == {1, 2}

ClientSymmetry == Permutations(Clients)
=============================================================================
