----------------------------- MODULE RtmService -----------------------------
(***************************************************************************)
(* What the routing table manager promises, without sockets, descriptors   *)
(* or loops.  There is one table.  A client that joins is shown the table  *)
(* record by record; afterwards it is shown the table after every change,  *)
(* every change in one piece, in order, none skipped.                      *)
(*                                                                         *)
(* views[c] is the list of tables still ahead of client c.  The first is   *)
(* the one it holds now.  A commit reaches all subscribers at once: that   *)
(* the server really writes to one socket after another, blocks in the     *)
(* middle and accepts newcomers in between cannot be seen by a client.     *)
(***************************************************************************)
EXTENDS RoutingTable

CONSTANTS
    Clients,
    Records     \* what a record can be

VARIABLES table, subs, views
vars == <<table, subs, views>>

OnlyEmpty == << << >> >>

\* The tables seen while t is inserted record by record into an empty one.
Serving(t) == [i \in 1 .. (Len(t) + 1) |-> SubSeq(t, 1, i - 1)]

Init ==
    /\ table = << >>
    /\ subs = {}
    /\ views = [c \in Clients |-> OnlyEmpty]

\* The client is served the table.  It is subscribed only if the server has
\* room for it: a newcomer that finds none is served once and then forgotten.
Join(c) ==
    /\ c \notin subs
    /\ views[c] = OnlyEmpty
    /\ views' = [views EXCEPT ![c] = Serving(table)]
    /\ subs' \in {subs, subs \cup {c}}
    /\ UNCHANGED table

\* Create what is absent, update or delete what is present.
Commit(m) ==
    /\ Applies(table, m)
    /\ table' = synchronize_with_server(table, m)
    /\ views' = [c \in Clients |->
                    IF c \in subs THEN Append(views[c], table') ELSE views[c]]
    /\ UNCHANGED subs

Show(c) ==
    /\ Len(views[c]) > 1
    /\ views' = [views EXCEPT ![c] = Tail(@)]
    /\ UNCHANGED <<table, subs>>

Leave(c) ==
    /\ subs' = subs \ {c}
    /\ views' = [views EXCEPT ![c] = OnlyEmpty]
    /\ UNCHANGED table

\* The server ends.  A client is still shown what has reached it.
Stop ==
    /\ table' = << >>
    /\ subs' = {}
    /\ DOMAIN views' = Clients
    /\ \A c \in Clients :
        \E n \in 1 .. Len(views[c]) : views'[c] = SubSeq(views[c], 1, n)

Next ==
    \/ \E c \in Clients : Join(c) \/ Show(c) \/ Leave(c)
    \/ \E m \in [op_code : OP_CODE, msg_body : Records] : Commit(m)
    \/ Stop

Spec == Init /\ [][Next]_vars
=============================================================================
