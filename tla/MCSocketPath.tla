---------------------------- MODULE MCSocketPath ----------------------------
(***************************************************************************)
(* SocketPath on a small instance.                                         *)
(***************************************************************************)
EXTENDS SocketPath

CONSTANTS s1, s2, s3

ThreeServers == {s1, s2, s3}
OneServer    == {s1}
=============================================================================
