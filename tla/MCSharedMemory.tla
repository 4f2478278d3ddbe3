--------------------------- MODULE MCSharedMemory ---------------------------
(***************************************************************************)
(* SharedMemory on small instances.                                        *)
(***************************************************************************)
EXTENDS SharedMemory

CONSTANTS w1, w2, r1, r2, s1, h1, h2, m2, t1, t2

TwoWriters == {w1, w2}
TwoReaders == {r1, r2}

\* Numbers of one, two and three cells.
ThreeNumbers == {<<s1>>, <<h1, t1>>, <<h2, m2, t2>>}
=============================================================================
