--------------------------- MODULE RtmRefinement ---------------------------
(***************************************************************************)
(* Rtm implements RtmService.  The tables ahead of a client are the ones   *)
(* it goes through while it applies the messages in its socket and those   *)
(* the server has not written yet.                                         *)
(***************************************************************************)
EXTENDS Rtm

Subscribers ==
    IF ServerUp THEN {c \in Clients : Monitored(c) /\ Connected(c)} ELSE {}

Ahead(c) ==
    IF Connected(c)
    THEN [i \in 1 .. (Len(InFlight(c)) + 1) |-> Views(crtm[c], InFlight(c))[i - 1]]
    ELSE << << >> >>

Service == INSTANCE RtmService WITH
    Records <- Record,
    table   <- rtm,
    subs    <- Subscribers,
    views   <- [c \in Clients |-> Ahead(c)]

\* Every client is shown the table record by record when it joins, and then
\* every change, whole and in order, for as long as the server monitors it.
ServiceSpec == Service!Spec
=============================================================================
