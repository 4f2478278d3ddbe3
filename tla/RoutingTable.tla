---------------------------- MODULE RoutingTable ----------------------------
(***************************************************************************)
(* The routing table of routing_table_manager/src/rtm.c: a list of records *)
(* in insertion order, and what a synchronization message does to it.      *)
(* The server and every client keep such a list and change it with the     *)
(* same functions; `rt' is the list before the call, the value the list    *)
(* after it.  The return codes are not carried: no caller does more with   *)
(* them than print a message.                                              *)
(***************************************************************************)
EXTENDS Integers, Sequences, SequencesExt

OP_CODE == {"CREATE", "UPDATE", "DELETE"}

SameSubnet(r, destination, mask) ==
    r.destination = destination /\ r.mask = mask

\* Mutant: the walk stops when node->next is NULL and misses the last node.
ContainsSkipsLast(rt, destination, mask) ==
    \E i \in 1 .. (Len(rt) - 1) : SameSubnet(rt[i], destination, mask)

routing_table_contains_dst_subnet(rt, destination, mask) ==
    \E i \in 1 .. Len(rt) : SameSubnet(rt[i], destination, mask)

\* The node at which a walk from the head stops; the walks of update and
\* delete compare destination and mask.
IsFirstNode(rt, record, i) ==
    /\ SameSubnet(rt[i], record.destination, record.mask)
    /\ \A j \in 1 .. (i - 1) : ~ SameSubnet(rt[j], record.destination, record.mask)

FirstNode(rt, record) == CHOOSE i \in 1 .. Len(rt) : IsFirstNode(rt, record, i)

\* No test for an equal subnet here: the callers are expected to have made it.
routing_table_insert(rt, record) == Append(rt, record)

routing_table_update(rt, record) ==
    IF routing_table_contains_dst_subnet(rt, record.destination, record.mask)
    THEN [rt EXCEPT ![FirstNode(rt, record)].gateway_ip = record.gateway_ip,
                    ![FirstNode(rt, record)].oif = record.oif]
    ELSE rt

(***************************************************************************)
(* The walk that looks for the record counts nodes and stops at a match.   *)
(* Without a match it ends with the index of the LAST node, and only an    *)
(* empty list is recognised as "not found": a delete of an absent subnet   *)
(* removes the last record.                                                *)
(***************************************************************************)
routing_table_delete(rt, record) ==
    IF rt = << >>
    THEN rt
    ELSE IF routing_table_contains_dst_subnet(rt, record.destination, record.mask)
         THEN RemoveAt(rt, FirstNode(rt, record))
         ELSE RemoveAt(rt, Len(rt))

\* Mutant: no break after the UPDATE case.
SynchronizeFallsThrough(rt, sync_msg) ==
    CASE sync_msg.op_code = "CREATE" -> routing_table_insert(rt, sync_msg.msg_body)
      [] sync_msg.op_code = "UPDATE" ->
            routing_table_delete(routing_table_update(rt, sync_msg.msg_body), sync_msg.msg_body)
      [] sync_msg.op_code = "DELETE" -> routing_table_delete(rt, sync_msg.msg_body)

\* A client applies a message to its own list.
synchronize_with_server(rt, sync_msg) ==
    CASE sync_msg.op_code = "CREATE" -> routing_table_insert(rt, sync_msg.msg_body)
      [] sync_msg.op_code = "UPDATE" -> routing_table_update(rt, sync_msg.msg_body)
      [] sync_msg.op_code = "DELETE" -> routing_table_delete(rt, sync_msg.msg_body)

prepare_synchronization_message(op_code, record) ==
    [op_code |-> op_code, msg_body |-> record]

\* dump_rtm_contents: one CREATE for each node, in list order.
CreateMessages(rt) ==
    [i \in 1 .. Len(rt) |-> prepare_synchronization_message("CREATE", rt[i])]

-----------------------------------------------------------------------------
(***************************************************************************)
(* Vocabulary for the properties.                                          *)
(***************************************************************************)

\* No two records have the same destination and mask.
UniqueSubnets(rt) ==
    \A i, j \in 1 .. Len(rt) :
        SameSubnet(rt[i], rt[j].destination, rt[j].mask) => i = j

\* The message means what its op code says: a CREATE finds the subnet absent,
\* an UPDATE or a DELETE finds it present.
Applies(rt, sync_msg) ==
    (sync_msg.op_code = "CREATE") #
    routing_table_contains_dst_subnet(rt, sync_msg.msg_body.destination,
                                          sync_msg.msg_body.mask)

\* The lists a client holds while it applies the messages s to the list rt:
\* Views(rt, s)[i] is its list after i messages.
Views(rt, s) ==
    LET v[i \in 0 .. Len(s)] ==
            IF i = 0 THEN rt ELSE synchronize_with_server(v[i - 1], s[i])
    IN  v

Replay(rt, s) == Views(rt, s)[Len(s)]
=============================================================================
