-------------------------------- MODULE MCRtm --------------------------------
(***************************************************************************)
(* Rtm on small instances: two destination addresses, one mask, and enough *)
(* gateways and interfaces to see an update.                               *)
(***************************************************************************)
EXTENDS RtmRefinement, TLC

CONSTANTS c1, c2, c3, d1, d2, m1, g1, g2, uninit

OneClient    == {c1}
TwoClients   == {c1, c2}
ThreeClients == {c1, c2, c3}

OneDestination  == {d1}
TwoDestinations == {d1, d2}
OneMask     == {m1}
OneGateway  == {g1}
TwoGateways == {g1, g2}
EmptyOif    == {""}

\* Clients differ only by name, and so do addresses.
ClientSymmetry == Permutations(Clients)
DataSymmetry   == Permutations(Clients) \cup Permutations(Destinations) \cup Permutations(Gateways)
=============================================================================
