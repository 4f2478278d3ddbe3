--------------------------- MODULE MCMessageQueue ---------------------------
(***************************************************************************)
(* MessageQueue on small instances.                                        *)
(***************************************************************************)
EXTENDS MessageQueue, TLC

CONSTANTS s1, s2, c1, c2, short, long, other

TwoServers == {s1, s2}
TwoClients == {c1, c2}
OneServer  == {s2}

ThreeLines == {short, long, other}
TwoNumbers == {short, long}

\* "123456789" is the longest number that fits ten bytes with its NUL.
Sizes == (short :> 10) @@ (long :> 11) @@ (other :> 12)
=============================================================================
