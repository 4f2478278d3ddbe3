----------------------------- MODULE RtmProofs -----------------------------
(***************************************************************************)
(* Theorems about Rtm, for any number of clients and slots and any data,   *)
(* in three parts: control points and types; the slots and who is in them; *)
(* the tables, up to the refinement of RtmService.                         *)
(***************************************************************************)
EXTENDS Rtm, RtmRefinement, TableLemmas

\* What the handlers rely on when they are entered: accept is called with a
\* connection pending, the loops are inside their bounds.
PcInv ==
    /\ spc = "accept" => backlog # << >>
    /\ spc = "dump" => pos \in 1 .. Len(rtm)
    /\ spc = "sync" => pos \in Slots

TypeInv == TypeOK /\ PcInv

\* Record types.
LEMMA DraftIsRecordsOf ==
  Draft = RecordsOf(Destinations \cup {Uninit}, Masks \cup {Uninit},
                    Gateways \cup {Uninit}, Oifs \cup {Uninit})
BY DEF Draft, RecordsOf

\* The operations of rtm.c return lists of records.
LEMMA TableOperations ==
  ASSUME NEW rt \in Seq(Draft), NEW r \in Draft
  PROVE  /\ routing_table_insert(rt, r) \in Seq(Draft)
         /\ routing_table_update(rt, r) \in Seq(Draft)
         /\ routing_table_delete(rt, r) \in Seq(Draft)
BY DraftIsRecordsOf, TableType

\* So does a client that applies a message.
LEMMA SynchronizeType ==
  ASSUME NEW rt \in Seq(Draft), NEW m \in Message
  PROVE  synchronize_with_server(rt, m) \in Seq(Draft)
<1>1. m.msg_body \in Draft /\ m.op_code \in {"CREATE", "UPDATE", "DELETE"}
  BY DEF Message, OP_CODE
<1> QED  BY <1>1, TableOperations DEF synchronize_with_server

\* The message before the first is one.
LEMMA NoMessageType == NoMessage \in Message
BY DEF NoMessage, Message, Draft, OP_CODE

\* A rejected or accepted subnet line leaves a record of the right type.
LEMMA DraftUpdates ==
  ASSUME record \in Draft
  PROVE  /\ RejectedSubnets \subseteq Draft
         /\ \A d \in Destinations, m \in Masks : SubnetRead(d, m) \in Draft
         /\ \A g \in Gateways : [record EXCEPT !.gateway_ip = g] \in Draft
         /\ \A o \in Oifs : [record EXCEPT !.oif = o] \in Draft
<1>1. \A d \in Destinations : [record EXCEPT !.destination = d] \in Draft
  BY DEF Draft
<1>2. \A d \in Destinations, m \in Masks : SubnetRead(d, m) \in Draft
  BY DEF SubnetRead, Draft
<1>3. \A g \in Gateways : [record EXCEPT !.gateway_ip = g] \in Draft
  BY DEF Draft
<1>4. \A o \in Oifs : [record EXCEPT !.oif = o] \in Draft
  BY DEF Draft
<1>5. RejectedSubnets \subseteq Draft
  BY <1>1, <1>2 DEF RejectedSubnets
<1> QED  BY <1>2, <1>3, <1>4, <1>5

\* One write: it touches the channel of one client, or frees a slot.
LEMMA SendType ==
  ASSUME TypeOK, NEW m \in Message, NEW fd \in Int,
         _send_synchronization_message(m, fd)
  PROVE  mon' \in [Slots -> Int] /\ chan' \in [Clients -> Seq(Message)]
<1> USE DEF TypeOK
<1>1. PICK c \in Clients :
        \/ /\ chan' = [chan EXCEPT ![c] = Append(@, m)]
           /\ UNCHANGED mon
        \/ /\ mon' = remove_from_monitored_fd_set(mon, fd)
           /\ UNCHANGED chan
  BY DEF _send_synchronization_message
<1>2. CASE chan' = [chan EXCEPT ![c] = Append(@, m)] /\ UNCHANGED mon
  <2>1. Append(chan[c], m) \in Seq(Message)
    BY AppendProperties
  <2> QED  BY <1>2, <2>1
<1>3. CASE mon' = remove_from_monitored_fd_set(mon, fd) /\ UNCHANGED chan
  BY <1>3, MonitorType
<1> QED  BY <1>1, <1>2, <1>3

\* A loop goes on inside its bounds, or returns to select.
LEMMA AdvanceType ==
  ASSUME TypeOK, NEW last \in Nat, Advance(last), spc \in {"dump", "sync"}
  PROVE  /\ spc' \in {spc, "select"}
         /\ spc' = spc => pos' = pos + 1 /\ pos' <= last
         /\ pos' \in Nat /\ sync_msg' \in Message /\ data_socket' \in Int
BY NoMessageType DEF Advance, TypeOK, NoFd, ServerStates

\* The types hold initially.
LEMMA InitType == Init => TypeInv
<1> SUFFICES ASSUME Init PROVE TypeInv
  OBVIOUS
<1>1. mon \in [Slots -> Int]
  <2>1. initialize_monitor_fd_set \in [Slots -> Int]
    BY DEF initialize_monitor_fd_set, Free
  <2>2. add_to_monitored_fd_set(initialize_monitor_fd_set, STDIN) \in [Slots -> Int]
    BY <2>1, MonitorType DEF STDIN
  <2> QED  BY <2>2, MonitorType DEF Init, initialize_server, connection_socket
<1>2. record \in Draft /\ sync_msg \in Message
  BY NoMessageType DEF Init, Message
<1>3. /\ rtm \in Seq(Draft) /\ backlog \in Seq(Clients)
      /\ chan \in [Clients -> Seq(Message)] /\ crtm \in [Clients -> Seq(Draft)]
  BY EmptySeq DEF Init
<1> QED
  BY <1>1, <1>2, <1>3
  DEF Init, TypeInv, TypeOK, PcInv, ServerStates, Ended, INPUT_STATE, ClientStates, NoFd

\* The server's loop and its handlers keep the types.
LEMMA ServerLoopType ==
  ASSUME TypeInv,
         Startup \/ SelectConnection \/ SelectConsole \/ AcceptFails
           \/ NoNewline \/ FlushAtEof \/ Quit \/ ServerSigint
  PROVE  TypeInv'
<1> USE DEF TypeInv, TypeOK, PcInv, ServerStates, Ended
<1>1. CASE Startup
  BY <1>1 DEF Startup, dialogue, sending, sockets, clients
<1>2. CASE SelectConnection
  BY <1>2 DEF SelectConnection, dialogue, sending, sockets, clients
<1>3. CASE SelectConsole
  BY <1>3 DEF SelectConsole, dialogue, sending, sockets, clients
<1>4. CASE AcceptFails
  BY <1>4, EmptySeq DEF AcceptFails, dialogue, sending, sockets, clients
<1>5. CASE NoNewline
  BY <1>5 DEF NoNewline, dialogue, sending, sockets, clients
<1>6. CASE FlushAtEof
  BY <1>6 DEF FlushAtEof, dialogue, sending, sockets, clients
<1>7. CASE shutdown_server
  <2>1. connection_socket \in Int
    BY DEF connection_socket
  <2>2. remove_from_monitored_fd_set(mon, connection_socket) \in [Slots -> Int]
    BY <2>1, MonitorType
  <2>3. mon' \in [Slots -> Int]
    BY <1>7, <2>2 DEF shutdown_server
  <2> QED
    BY <1>7, <2>3, EmptySeq DEF shutdown_server, dialogue, sending, sockets, clients
<1>8. CASE Quit
  BY <1>7, <1>8 DEF Quit
<1>9. CASE ServerSigint
  BY <1>7, <1>9, EmptySeq DEF ServerSigint, dialogue, sending, sockets, clients
<1> QED
  BY <1>1, <1>2, <1>3, <1>4, <1>5, <1>6, <1>8, <1>9

\* A new connection keeps the types.
LEMMA AcceptType ==
  ASSUME TypeInv, handle_connection_initiation_request
  PROVE  TypeInv'
<1>1. PICK fd \in 0 .. (FD_LIMIT - 1) :
        /\ fdOf' = [fdOf EXCEPT ![Head(backlog)] = fd]
        /\ mon' = add_to_monitored_fd_set(mon, fd)
        /\ backlog' = Tail(backlog)
        /\ IF rtm = << >>
           THEN spc' = "select" /\ UNCHANGED <<data_socket, pos>>
           ELSE spc' = "dump" /\ data_socket' = fd /\ pos' = 1
  BY DEF handle_connection_initiation_request
<1>2. /\ UNCHANGED <<rtm, state, entry, record, sync_msg, chan, cpc, crtm>>
      /\ backlog # << >>
  BY DEF handle_connection_initiation_request, TypeInv, PcInv, dialogue, clients
<1>3. fd \in Int
  BY RtmAssumption
<1>4. mon' \in [Slots -> Int]
  BY <1>1, <1>3, MonitorType DEF TypeInv, TypeOK
<1>5. fdOf' \in [Clients -> Int]
  BY <1>1, <1>3 DEF TypeInv, TypeOK
<1>6. backlog' \in Seq(Clients)
  BY <1>1, <1>2, HeadTailProperties DEF TypeInv, TypeOK
<1>7. rtm # << >> => 1 \in 1 .. Len(rtm)
  BY EmptySeq, LenProperties DEF TypeInv, TypeOK
<1>8. data_socket' \in Int /\ pos' \in Nat /\ spc' \in ServerStates
  BY <1>1, <1>3 DEF TypeInv, TypeOK, ServerStates
<1>9. PcInv'
  BY <1>1, <1>2, <1>7 DEF PcInv
<1> QED
  BY <1>2, <1>4, <1>5, <1>6, <1>8, <1>9 DEF TypeInv, TypeOK

\* A turn of a writing loop keeps the types.
LEMMA WriteType ==
  ASSUME TypeInv, dump_rtm_contents \/ send_synchronization_message
  PROVE  TypeInv'
<1> USE DEF TypeInv
<1>1. CASE dump_rtm_contents
  <2> DEFINE m == prepare_synchronization_message("CREATE", rtm[pos])
  <2>1. pos \in 1 .. Len(rtm) /\ spc = "dump"
    BY <1>1 DEF dump_rtm_contents, PcInv
  <2>2. m \in Message
    BY <2>1, ElementOfSeq DEF prepare_synchronization_message, Message, OP_CODE, TypeOK
  <2>3. mon' \in [Slots -> Int] /\ chan' \in [Clients -> Seq(Message)]
    BY <1>1, <2>2, SendType DEF dump_rtm_contents, TypeOK
  <2>4. Len(rtm) \in Nat
    BY LenProperties DEF TypeOK
  <2>5. Advance(Len(rtm))
    BY <1>1 DEF dump_rtm_contents
  <2>6. /\ spc' \in {"dump", "select"}
        /\ spc' = "dump" => pos' \in 1 .. Len(rtm)
        /\ pos' \in Nat /\ sync_msg' \in Message /\ data_socket' \in Int
    BY <2>1, <2>4, <2>5, AdvanceType
  <2> QED
    BY <1>1, <2>3, <2>6
    DEF dump_rtm_contents, TypeOK, PcInv, ServerStates, dialogue, clients
<1>2. CASE send_synchronization_message
  <2>1. pos \in Slots /\ spc = "sync" /\ MAX_CLIENTS - 1 \in Nat
    BY <1>2, MaxClientsAssumption DEF send_synchronization_message, PcInv
  <2>2. mon' \in [Slots -> Int] /\ chan' \in [Clients -> Seq(Message)]
    <3>1. CASE UNCHANGED <<mon, chan>>
      BY <3>1 DEF TypeOK
    <3>2. CASE _send_synchronization_message(sync_msg, mon[pos])
      BY <2>1, <3>2, SendType DEF TypeOK
    <3> QED  BY <1>2, <3>1, <3>2 DEF send_synchronization_message
  <2>3. Advance(MAX_CLIENTS - 1)
    BY <1>2 DEF send_synchronization_message
  <2>4. /\ spc' \in {"sync", "select"}
        /\ spc' = "sync" => pos' \in Slots
        /\ pos' \in Nat /\ sync_msg' \in Message /\ data_socket' \in Int
    BY <2>1, <2>3, AdvanceType DEF Slots
  <2> QED
    BY <1>2, <2>2, <2>4
    DEF send_synchronization_message, TypeOK, PcInv, ServerStates, dialogue, clients
<1> QED  BY <1>1, <1>2

\* A line of the dialogue.
LEMMA DialogueType ==
  ASSUME TypeInv, handle_admin_input
  PROVE  TypeInv'
<1>1. TypeOK /\ PcInv
  BY DEF TypeInv
<1>2. SUFFICES /\ spc' \in {"select", "quit", "sync"}
               /\ rtm' \in Seq(Draft) /\ record' \in Draft
               /\ state' \in INPUT_STATE /\ entry' \in ENTRY_TYPE
               /\ sync_msg' \in Message /\ pos' \in Nat
               /\ spc' = "sync" => pos' = 0
               /\ UNCHANGED <<mon, data_socket, fdOf, backlog, chan, cpc, crtm>>
  <2>1. 0 \in Slots
    BY MaxClientsAssumption DEF Slots
  <2> QED  BY <1>1, <2>1 DEF TypeInv, TypeOK, PcInv, ServerStates
<1>3. ASSUME NEW op \in OP_CODE, Broadcast(op), record' \in Draft
      PROVE  /\ spc' = "sync" /\ pos' = 0 /\ state' \in INPUT_STATE
             /\ sync_msg' \in Message
             /\ UNCHANGED <<mon, data_socket, fdOf, backlog, chan, cpc, crtm>>
  BY <1>3 DEF Broadcast, prepare_synchronization_message, Message, INPUT_STATE,
              sockets, clients
<1>4. CASE IdleInput
  BY <1>1, <1>4
  DEF IdleInput, StateAfter, INPUT_STATE, ENTRY_TYPE, TypeOK, sending, sockets, clients
<1>5. CASE SubnetRejected
  BY <1>1, <1>5, DraftUpdates DEF SubnetRejected, TypeOK, sending, sockets, clients
<1>6. ASSUME NEW present \in BOOLEAN, SubnetEntry(present)
      PROVE  /\ spc' = "select" /\ record' \in Draft /\ entry' \in ENTRY_TYPE
             /\ UNCHANGED <<rtm, state, mon, sending, sockets, clients>>
  BY <1>1, <1>6, DraftUpdates DEF SubnetEntry, SubnetRejected, ENTRY_TYPE, TypeOK
<1>7. ASSUME GatewayEntry
      PROVE  /\ spc' = "select" /\ record' \in Draft /\ entry' \in ENTRY_TYPE
             /\ UNCHANGED <<rtm, state, mon, sending, sockets, clients>>
  BY <1>1, <1>7, DraftUpdates DEF GatewayEntry, ENTRY_TYPE, TypeOK
<1>8. ASSUME NEW op \in {"CREATE", "UPDATE"}, OifEntry(op)
      PROVE  /\ spc' \in {"select", "sync"} /\ rtm' \in Seq(Draft) /\ record' \in Draft
             /\ state' \in INPUT_STATE /\ entry' \in ENTRY_TYPE
             /\ sync_msg' \in Message /\ pos' \in Nat /\ (spc' = "sync" => pos' = 0)
             /\ UNCHANGED <<mon, data_socket, fdOf, backlog, chan, cpc, crtm>>
  <2>1. CASE /\ spc' = "select"
             /\ UNCHANGED <<rtm, dialogue, mon, sending, sockets, clients>>
    BY <1>1, <2>1 DEF TypeOK, dialogue, sending, sockets, clients
  <2>2. CASE \E o \in Oifs :
                /\ record' = [record EXCEPT !.oif = o]
                /\ rtm' = IF op = "CREATE"
                          THEN routing_table_insert(rtm, record')
                          ELSE routing_table_update(rtm, record')
                /\ entry' = "SUBNET"
                /\ Broadcast(op)
    <3>1. record' \in Draft
      BY <1>1, <2>2, DraftUpdates DEF TypeOK
    <3>2. rtm' \in Seq(Draft)
      BY <1>1, <2>2, <3>1, TableOperations DEF TypeOK
    <3>3. Broadcast(op) /\ op \in OP_CODE
      BY <2>2 DEF OP_CODE
    <3> QED  BY <1>3, <2>2, <3>1, <3>2, <3>3 DEF ENTRY_TYPE
  <2> QED  BY <1>8, <2>1, <2>2 DEF OifEntry
<1>9. CASE create_record
  BY <1>1, <1>6, <1>7, <1>8, <1>9
  DEF create_record, TypeOK, sending, sockets, clients
<1>10. CASE update_record
  BY <1>1, <1>6, <1>7, <1>8, <1>10
  DEF update_record, TypeOK, sending, sockets, clients
<1>11. CASE delete_record
  <2>1. CASE SubnetRejected
    BY <1>1, <1>5, <2>1, DraftUpdates DEF SubnetRejected, TypeOK, sending, sockets, clients
  <2>2. CASE \E d \in Destinations, m \in Masks :
                /\ record' = SubnetRead(d, m)
                /\ UNCHANGED entry
                /\ IF SubnetKnown(d, m)
                   THEN rtm' = routing_table_delete(rtm, record') /\ Broadcast("DELETE")
                   ELSE /\ spc' = "select"
                        /\ UNCHANGED <<rtm, state, mon, sending, sockets, clients>>
    <3>1. record' \in Draft /\ entry' \in ENTRY_TYPE
      BY <1>1, <2>2, DraftUpdates DEF TypeOK
    <3>2. routing_table_delete(rtm, record') \in Seq(Draft)
      BY <1>1, <3>1, TableOperations DEF TypeOK
    <3>3. CASE rtm' = routing_table_delete(rtm, record') /\ Broadcast("DELETE")
      BY <1>3, <3>1, <3>2, <3>3 DEF OP_CODE
    <3>4. CASE spc' = "select" /\ UNCHANGED <<rtm, state, mon, sending, sockets, clients>>
      BY <1>1, <3>1, <3>4 DEF TypeOK, sending, sockets, clients
    <3> QED  BY <2>2, <3>3, <3>4
  <2> QED  BY <1>11, <2>1, <2>2 DEF delete_record
<1> QED  BY <1>4, <1>9, <1>10, <1>11 DEF handle_admin_input

\* The clients keep the types.
LEMMA ClientType ==
  ASSUME TypeInv, NEW c \in Clients,
         Connect(c) \/ ConnectRefused(c) \/ ClientSigint(c) \/ ClientStep(c)
  PROVE  TypeInv'
<1>1. TypeOK /\ PcInv
  BY DEF TypeInv
<1>2. SUFFICES /\ UNCHANGED unchangedServer
               /\ backlog' \in Seq(Clients) /\ (backlog = << >> \/ backlog' # << >>)
               /\ chan' \in [Clients -> Seq(Message)]
               /\ cpc' \in [Clients -> ClientStates]
               /\ crtm' \in [Clients -> Seq(Draft)]
  BY <1>1 DEF TypeInv, TypeOK, PcInv, unchangedServer, dialogue, sending
<1>3. ASSUME NEW how \in Ended, ClientEnds(c, how)
      PROVE  /\ UNCHANGED <<unchangedServer, backlog>>
             /\ chan' \in [Clients -> Seq(Message)]
             /\ cpc' \in [Clients -> ClientStates]
             /\ crtm' \in [Clients -> Seq(Draft)]
  <2>1. << >> \in Seq(Message) /\ << >> \in Seq(Draft) /\ how \in ClientStates
    BY EmptySeq DEF ClientStates
  <2> QED  BY <1>1, <1>3, <2>1 DEF ClientEnds, TypeOK
<1>4. CASE Connect(c)
  <2>1. backlog' \in Seq(Clients) /\ backlog' # << >>
    <3>1. backlog' = Append(backlog, c) /\ backlog \in Seq(Clients)
      BY <1>1, <1>4 DEF Connect, TypeOK
    <3>2. Append(backlog, c) \in Seq(Clients) /\ Append(backlog, c) # << >>
      BY <3>1, AppendProperties
    <3> QED  BY <3>1, <3>2
  <2> QED  BY <1>1, <1>4, <2>1 DEF Connect, TypeOK, ClientStates
<1>5. CASE ConnectRefused(c)
  BY <1>1, <1>3, <1>5 DEF ConnectRefused, Ended, TypeOK
<1>6. CASE ClientSigint(c)
  BY <1>1, <1>3, <1>6 DEF ClientSigint, Ended, TypeOK
<1>7. CASE ClientStart(c)
  BY <1>1, <1>7 DEF ClientStart, TypeOK, ClientStates
<1>8. CASE ClientSync(c)
  <2>1. chan[c] # << >> /\ chan[c] \in Seq(Message)
    BY <1>1, <1>8 DEF ClientSync, TypeOK
  <2>2. Head(chan[c]) \in Message /\ Tail(chan[c]) \in Seq(Message)
    BY <2>1, HeadTailProperties
  <2>3. synchronize_with_server(crtm[c], Head(chan[c])) \in Seq(Draft)
    BY <1>1, <2>2, SynchronizeType DEF TypeOK
  <2> QED  BY <1>1, <1>8, <2>2, <2>3 DEF ClientSync, TypeOK
<1>9. CASE ClientEof(c)
  BY <1>1, <1>9 DEF ClientEof, TypeOK, ClientStates
<1>10. CASE ClientReset(c)
  BY <1>1, <1>3, <1>10 DEF ClientReset, Ended, TypeOK
<1>11. CASE shutdown_client(c)
  BY <1>1, <1>3, <1>11 DEF shutdown_client, Ended, TypeOK
<1> QED
  BY <1>4, <1>5, <1>6, <1>7, <1>8, <1>9, <1>10, <1>11 DEF ClientStep

\* Every step keeps the types.
LEMMA StepType == TypeInv /\ [Next]_vars => TypeInv'
<1> SUFFICES ASSUME TypeInv, [Next]_vars PROVE TypeInv'
  OBVIOUS
<1>1. CASE UNCHANGED vars
  BY <1>1
  DEF vars, dialogue, sending, sockets, clients, TypeInv, TypeOK, PcInv, Slots
<1>2. CASE ServerStep
  BY <1>2, ServerLoopType, AcceptType, WriteType, DialogueType DEF ServerStep
<1>3. CASE \E c \in Clients : ClientStep(c)
  BY <1>3, ClientType
<1>4. CASE Environment
  BY <1>4, ServerLoopType, DialogueType, ClientType DEF Environment
<1> QED  BY <1>1, <1>2, <1>3, <1>4 DEF Next

\* Every variable always has its type, and every handler is entered in a state
\* it can handle.
THEOREM TypeCorrect == Spec => []TypeOK
<1>1. Spec => []TypeInv
  BY InitType, StepType, PTL DEF Spec
<1>2. TypeInv => TypeOK
  BY DEF TypeInv
<1> QED  BY <1>1, <1>2, PTL

-----------------------------------------------------------------------------
(***************************************************************************)
(* The descriptor table of Rtm: it stays sound whatever clients come, die  *)
(* and are dropped, and no live client ever loses its slot.                *)
(***************************************************************************)
\* Accepted connections have descriptors of their own, above the listening one.
FdInv ==
    /\ \A c \in Clients : fdOf[c] # NoFd => fdOf[c] > connection_socket
    /\ \A c, e \in Clients : fdOf[c] = fdOf[e] /\ fdOf[c] # NoFd => c = e

\* A client waits in the backlog once, before it is accepted.
BacklogInv ==
    /\ \A i \in 1 .. Len(backlog) : fdOf[backlog[i]] = NoFd /\ cpc[backlog[i]] # "off"
    /\ \A i, j \in 1 .. Len(backlog) : backlog[i] = backlog[j] => i = j
    /\ \A c \in Clients : cpc[c] = "off" => fdOf[c] = NoFd

SlotInv ==
    /\ \A i, j \in Slots : mon[i] = mon[j] /\ mon[i] # Free => i = j
    /\ \A i \in Slots :
        mon[i] \in {Free, STDIN, connection_socket} \cup {fdOf[c] : c \in Clients}
    /\ ServerUp => \E i, j \in Slots : mon[i] = STDIN /\ mon[j] = connection_socket

\* The descriptor that is dumped to is a client's.
DumpInv == spc = "dump" => data_socket > connection_socket

SlotsInv == TypeInv /\ FdInv /\ BacklogInv /\ SlotInv /\ DumpInv

-----------------------------------------------------------------------------
\* The slots are sound initially.
LEMMA SlotsInit == Init => SlotsInv
<1> SUFFICES ASSUME Init PROVE SlotsInv
  OBVIOUS
<1>1. TypeInv
  BY InitType
<1>2. FdInv /\ BacklogInv /\ DumpInv
  BY EmptySeq DEF Init, FdInv, BacklogInv, DumpInv
<1>3. SlotInv
  <2> DEFINE m0 == initialize_monitor_fd_set
             m1 == add_to_monitored_fd_set(m0, STDIN)
  <2>1. /\ m0 \in [Slots -> Int] /\ \A i \in Slots : m0[i] = Free
        /\ STDIN \in Int /\ connection_socket \in Int
    BY DEF initialize_monitor_fd_set, Free, STDIN, connection_socket
  <2>2. 0 \in Slots /\ 1 \in Slots
    BY MaxClientsAssumption DEF Slots
  <2> HIDE DEF m0
  <2>3. PICK k \in Slots : m1 = [m0 EXCEPT ![k] = STDIN]
    BY <2>1, <2>2, AddFillsOneSlot, Zenon
  <2>4. m1 \in [Slots -> Int]
    BY <2>1, MonitorType
  <2>5. \E i \in Slots : m1[i] = Free
    BY <2>1, <2>2, <2>3
  <2>6. mon = add_to_monitored_fd_set(m1, connection_socket)
    BY DEF Init, initialize_server, m0
  <2> HIDE DEF m1
  <2>7. PICK l \in Slots : m1[l] = Free /\ mon = [m1 EXCEPT ![l] = connection_socket]
    BY <2>1, <2>4, <2>5, <2>6, AddFillsOneSlot
  <2>8. k # l
    BY <2>1, <2>3, <2>7 DEF STDIN, Free
  <2> QED
    BY <2>1, <2>3, <2>4, <2>7, <2>8 DEF SlotInv, Free, STDIN, connection_socket
<1> QED  BY <1>1, <1>2, <1>3 DEF SlotsInv

\* Steps that leave descriptors, slots and backlog alone.
LEMMA SlotsFrame ==
  ASSUME SlotsInv, TypeInv', UNCHANGED <<mon, fdOf, backlog>>,
         ServerUp' => ServerUp,
         spc' = "dump" => spc = "dump" /\ UNCHANGED data_socket,
         \A c \in Clients : cpc[c] # "off" => cpc'[c] # "off"
  PROVE  SlotsInv'
<1>1. FdInv' /\ SlotInv' /\ DumpInv'
  BY DEF SlotsInv, FdInv, SlotInv, DumpInv
<1>2. BacklogInv'
  <2>1. \A i \in 1 .. Len(backlog) : backlog[i] \in Clients
    BY DEF SlotsInv, TypeInv, TypeOK
  <2> QED  BY <2>1 DEF SlotsInv, BacklogInv
<1> QED  BY <1>1, <1>2 DEF SlotsInv

\* A newcomer gets a new descriptor, in a free slot if there is one.
LEMMA SlotsAccept ==
  ASSUME SlotsInv, handle_connection_initiation_request
  PROVE  SlotsInv'
<1>1. TypeInv'
  BY AcceptType DEF SlotsInv
<1>2. TypeOK /\ FdInv /\ BacklogInv /\ SlotInv /\ backlog # << >> /\ spc = "accept"
  BY DEF SlotsInv, TypeInv, PcInv, handle_connection_initiation_request
<1>3. PICK fd \in 0 .. (FD_LIMIT - 1) :
        /\ IsNewFd(fd)
        /\ fdOf' = [fdOf EXCEPT ![Head(backlog)] = fd]
        /\ mon' = add_to_monitored_fd_set(mon, fd)
        /\ backlog' = Tail(backlog)
        /\ spc' \in {"select", "dump"}
        /\ spc' = "dump" => data_socket' = fd
  BY DEF handle_connection_initiation_request
<1>4. cpc' = cpc
  BY DEF handle_connection_initiation_request, clients
<1> DEFINE h == Head(backlog)
<1>5. h = backlog[1] /\ h \in Clients /\ Len(backlog) \in Nat /\ Len(backlog) >= 1
  BY <1>2, EmptySeq, HeadTailProperties DEF TypeOK
<1>6. fdOf[h] = NoFd /\ cpc[h] # "off"
  BY <1>2, <1>5 DEF BacklogInv
<1>7. /\ fd \in Int /\ fd > connection_socket
      /\ \A c \in Clients : fdOf[c] # fd
  <2>1. fd \in Int /\ fd >= 0
    BY RtmAssumption
  <2>2. fd \notin 0 .. connection_socket
    BY <1>3 DEF IsNewFd, OpenFds
  <2>3. \A c \in Clients : fdOf[c] # fd
    BY <1>3, <2>1 DEF IsNewFd, OpenFds, NoFd
  <2> QED  BY <2>1, <2>2, <2>3 DEF connection_socket
<1> HIDE DEF h
<1>8. fdOf' = [fdOf EXCEPT ![h] = fd] /\ fdOf \in [Clients -> Int]
  BY <1>2, <1>3 DEF h, TypeOK
<1>9. FdInv'
  BY <1>2, <1>5, <1>7, <1>8 DEF FdInv
<1>10. BacklogInv'
  <2>1. /\ Len(backlog') = Len(backlog) - 1
        /\ \A i \in 1 .. Len(backlog') : backlog'[i] = backlog[i + 1]
    BY <1>2, <1>3, HeadTailProperties DEF TypeOK
  <2>2. \A i \in 1 .. Len(backlog') :
            i + 1 \in 1 .. Len(backlog) /\ backlog'[i] # h /\ backlog'[i] \in Clients
    <3> SUFFICES ASSUME NEW i \in 1 .. Len(backlog')
                 PROVE  i + 1 \in 1 .. Len(backlog) /\ backlog'[i] # h /\ backlog'[i] \in Clients
      OBVIOUS
    <3>1. i + 1 \in 1 .. Len(backlog) /\ 1 \in 1 .. Len(backlog) /\ i + 1 # 1
      BY <1>5, <2>1
    <3>2. backlog[i + 1] # backlog[1]
      BY <1>2, <3>1 DEF BacklogInv
    <3>3. backlog[i + 1] \in Clients
      BY <1>2, <3>1, ElementOfSeq DEF TypeOK
    <3> QED  BY <1>5, <2>1, <3>1, <3>2, <3>3
  <2>3. \A i \in 1 .. Len(backlog') :
            fdOf'[backlog'[i]] = NoFd /\ cpc'[backlog'[i]] # "off"
    <3> SUFFICES ASSUME NEW i \in 1 .. Len(backlog')
                 PROVE  fdOf'[backlog'[i]] = NoFd /\ cpc'[backlog'[i]] # "off"
      OBVIOUS
    <3>1. /\ i + 1 \in 1 .. Len(backlog) /\ backlog'[i] = backlog[i + 1]
          /\ backlog'[i] # h /\ backlog'[i] \in Clients
      BY <2>1, <2>2
    <3>2. fdOf[backlog[i + 1]] = NoFd /\ cpc[backlog[i + 1]] # "off"
      BY <1>2, <3>1 DEF BacklogInv
    <3>3. fdOf'[backlog'[i]] = fdOf[backlog'[i]]
      BY <1>8, <3>1
    <3> QED  BY <1>4, <3>1, <3>2, <3>3
  <2>4. \A i, j \in 1 .. Len(backlog') : backlog'[i] = backlog'[j] => i = j
    <3> SUFFICES ASSUME NEW i \in 1 .. Len(backlog'), NEW j \in 1 .. Len(backlog'),
                        backlog'[i] = backlog'[j]
                 PROVE  i = j
      OBVIOUS
    <3>1. i + 1 = j + 1
      BY <1>2, <2>1, <2>2 DEF BacklogInv
    <3> QED  BY <3>1
  <2>5. \A c \in Clients : cpc'[c] = "off" => fdOf'[c] = NoFd
    BY <1>2, <1>4, <1>6, <1>8 DEF BacklogInv
  <2> QED  BY <2>3, <2>4, <2>5 DEF BacklogInv
<1>11. SlotInv'
  <2>1. mon \in [Slots -> Int] /\ fd # Free /\ ServerUp
    BY <1>2, <1>7 DEF TypeOK, connection_socket, Free, ServerUp, Ended
  <2>2. \A i \in Slots : mon[i] # fd
    BY <1>2, <1>7, <2>1 DEF SlotInv, STDIN, connection_socket
  <2>3. {fdOf[c] : c \in Clients} \subseteq {Free} \cup {fdOf'[c] : c \in Clients}
    BY <1>6, <1>8 DEF Free, NoFd
  <2>4. fd \in {fdOf'[c] : c \in Clients}
    BY <1>5, <1>8
  <2>5. CASE mon' = mon
    BY <1>2, <2>1, <2>3, <2>5 DEF SlotInv
  <2>6. CASE \E k \in Slots : mon[k] = Free /\ mon' = [mon EXCEPT ![k] = fd]
    <3>1. PICK k \in Slots : mon[k] = Free /\ mon' = [mon EXCEPT ![k] = fd]
      BY <2>6
    <3>2. \A i, j \in Slots : mon'[i] = mon'[j] /\ mon'[i] # Free => i = j
      BY <1>2, <2>1, <2>2, <3>1 DEF SlotInv
    <3>3. \A i \in Slots :
            mon'[i] \in {Free, STDIN, connection_socket} \cup {fdOf'[c] : c \in Clients}
      BY <1>2, <2>1, <2>3, <2>4, <3>1 DEF SlotInv
    <3>4. \E i, j \in Slots : mon'[i] = STDIN /\ mon'[j] = connection_socket
      BY <1>2, <2>1, <3>1 DEF SlotInv, Free, STDIN, connection_socket
    <3> QED  BY <3>2, <3>3, <3>4 DEF SlotInv
  <2> QED  BY <1>3, <1>7, <2>1, <2>5, <2>6, AddFillsOneSlot
<1>12. DumpInv'
  BY <1>3, <1>7 DEF DumpInv
<1> QED  BY <1>1, <1>9, <1>10, <1>11, <1>12 DEF SlotsInv

\* A turn of a writing loop: slots change only by losing a client's descriptor.
LEMMA SlotsWrite ==
  ASSUME SlotsInv, dump_rtm_contents \/ send_synchronization_message
  PROVE  SlotsInv'
<1>1. TypeInv'
  BY WriteType DEF SlotsInv
<1>2. TypeOK /\ PcInv /\ FdInv /\ BacklogInv /\ SlotInv /\ DumpInv
  BY DEF SlotsInv, TypeInv
<1>3. UNCHANGED <<fdOf, backlog, cpc>> /\ spc \in {"dump", "sync"}
  BY DEF dump_rtm_contents, send_synchronization_message, clients
<1>4. spc' = "dump" => spc = "dump" /\ data_socket' = data_socket
  BY <1>2, <1>3 DEF dump_rtm_contents, send_synchronization_message, Advance
<1>5. ServerUp
  BY <1>3 DEF ServerUp, Ended
<1>6. FdInv' /\ BacklogInv' /\ DumpInv'
  BY <1>2, <1>3, <1>4 DEF FdInv, BacklogInv, DumpInv
<1>7. mon' = mon \/ \E fd \in Int : /\ fd # STDIN /\ fd # connection_socket /\ fd # Free
                                    /\ mon' = remove_from_monitored_fd_set(mon, fd)
  <2>1. CASE dump_rtm_contents
    <3>1. data_socket \in Int /\ data_socket > connection_socket
      BY <1>2, <2>1 DEF dump_rtm_contents, DumpInv, TypeOK
    <3> QED
      BY <2>1, <3>1
      DEF dump_rtm_contents, _send_synchronization_message, STDIN, connection_socket, Free
  <2>2. CASE send_synchronization_message
    <3>1. CASE IsClientSlot(pos) /\ _send_synchronization_message(sync_msg, mon[pos])
      <4>1. /\ mon[pos] \in Int /\ mon[pos] # STDIN /\ mon[pos] # connection_socket
            /\ mon[pos] # Free
        BY <1>2, <2>2, <3>1
        DEF send_synchronization_message, PcInv, TypeOK, IsClientSlot, STDIN, Free
      <4> QED  BY <3>1, <4>1 DEF _send_synchronization_message
    <3>2. CASE UNCHANGED mon
      BY <3>2
    <3> QED  BY <2>2, <3>1, <3>2 DEF send_synchronization_message
  <2> QED  BY <2>1, <2>2
<1>8. SlotInv'
  <2>1. CASE mon' = mon
    BY <1>2, <1>3, <1>5, <2>1 DEF SlotInv
  <2>2. CASE mon' # mon
    <3>1. PICK fd \in Int :
            /\ fd # STDIN /\ fd # connection_socket /\ fd # Free
            /\ mon' = remove_from_monitored_fd_set(mon, fd)
      BY <1>7, <2>2
    <3>2. mon \in [Slots -> Int]
      BY <1>2 DEF TypeOK
    <3>3. PICK k \in Slots : mon[k] = fd /\ mon' = [mon EXCEPT ![k] = Free]
      BY <2>2, <3>1, <3>2, RemoveFreesOneSlot
    <3> QED  BY <1>2, <1>3, <1>5, <3>1, <3>2, <3>3 DEF SlotInv
  <2> QED  BY <2>1, <2>2
<1> QED  BY <1>1, <1>6, <1>8 DEF SlotsInv

\* shutdown_server frees the slot of the listening socket; the server is down.
LEMMA SlotsShutdown ==
  ASSUME SlotsInv, TypeInv', shutdown_server
  PROVE  SlotsInv'
<1>1. TypeOK /\ FdInv /\ BacklogInv /\ SlotInv
  BY DEF SlotsInv, TypeInv
<1>2. /\ UNCHANGED <<fdOf, backlog, cpc>> /\ spc' = "exited"
      /\ mon' = remove_from_monitored_fd_set(mon, connection_socket)
  BY DEF shutdown_server, sockets, clients
<1>3. mon \in [Slots -> Int] /\ connection_socket \in Int /\ ~ ServerUp'
  BY <1>1, <1>2 DEF TypeOK, connection_socket, ServerUp, Ended
<1>4. SlotInv'
  <2>1. CASE mon' = mon
    BY <1>1, <1>2, <1>3, <2>1 DEF SlotInv
  <2>2. CASE mon' # mon
    <3>1. PICK k \in Slots : mon' = [mon EXCEPT ![k] = Free]
      BY <1>2, <1>3, <2>2, RemoveFreesOneSlot
    <3> QED  BY <1>1, <1>2, <1>3, <3>1 DEF SlotInv
  <2> QED  BY <2>1, <2>2
<1> QED
  BY <1>1, <1>2, <1>4 DEF SlotsInv, FdInv, BacklogInv, DumpInv

\* A client that connects joins the backlog.
LEMMA SlotsConnect ==
  ASSUME SlotsInv, NEW c \in Clients, Connect(c)
  PROVE  SlotsInv'
<1>1. TypeInv'
  BY ClientType DEF SlotsInv
<1>2. TypeOK /\ FdInv /\ BacklogInv /\ SlotInv /\ DumpInv
  BY DEF SlotsInv, TypeInv
<1>3. /\ UNCHANGED <<spc, mon, fdOf, data_socket>>
      /\ cpc[c] = "off" /\ cpc' = [cpc EXCEPT ![c] = "connected"]
      /\ backlog' = Append(backlog, c)
  BY DEF Connect, unchangedServer, sending
<1>4. FdInv' /\ SlotInv' /\ DumpInv'
  BY <1>2, <1>3 DEF FdInv, SlotInv, DumpInv, ServerUp
<1>5. BacklogInv'
  <2>1. backlog \in Seq(Clients) /\ Len(backlog) \in Nat /\ cpc \in [Clients -> ClientStates]
    BY <1>2 DEF TypeOK
  <2>2. /\ Len(backlog') = Len(backlog) + 1 /\ backlog'[Len(backlog) + 1] = c
        /\ \A i \in 1 .. Len(backlog) : backlog'[i] = backlog[i] /\ backlog[i] \in Clients
    BY <1>3, <2>1
  <2>3. \A i \in 1 .. Len(backlog) : backlog[i] # c
    BY <1>2, <1>3 DEF BacklogInv
  <2>4. \A i \in 1 .. Len(backlog') : i \in 1 .. Len(backlog) \/ i = Len(backlog) + 1
    BY <2>1, <2>2
  <2>5. fdOf'[c] = NoFd /\ cpc'[c] # "off"
    BY <1>2, <1>3, <2>1 DEF BacklogInv
  <2>6. \A i \in 1 .. Len(backlog') : fdOf'[backlog'[i]] = NoFd /\ cpc'[backlog'[i]] # "off"
    BY <1>2, <1>3, <2>1, <2>2, <2>3, <2>4, <2>5 DEF BacklogInv
  <2>7. \A i, j \in 1 .. Len(backlog') : backlog'[i] = backlog'[j] => i = j
    BY <1>2, <2>2, <2>3, <2>4 DEF BacklogInv
  <2>8. \A e \in Clients : cpc'[e] = "off" => fdOf'[e] = NoFd
    BY <1>2, <1>3, <2>1 DEF BacklogInv
  <2> QED  BY <2>6, <2>7, <2>8 DEF BacklogInv
<1> QED  BY <1>1, <1>4, <1>5 DEF SlotsInv

\* What a client does once it has connected, or failed to.
LEMMA SlotsClient ==
  ASSUME SlotsInv, NEW c \in Clients,
         ConnectRefused(c) \/ ClientSigint(c) \/ ClientStep(c)
  PROVE  SlotsInv'
<1>1. TypeInv'
  BY ClientType DEF SlotsInv
<1>2. cpc \in [Clients -> ClientStates]
  BY DEF SlotsInv, TypeInv, TypeOK
<1>3. UNCHANGED unchangedServer /\ backlog' = backlog
      /\ \E how \in ClientStates \ {"off"} : cpc' = cpc \/ cpc' = [cpc EXCEPT ![c] = how]
  BY DEF ConnectRefused, ClientSigint, ClientStep, ClientStart, ClientSync, ClientEof,
         ClientReset, shutdown_client, ClientEnds, ClientStates, Ended
<1>4. UNCHANGED <<mon, fdOf, backlog, spc, data_socket>>
  BY <1>3 DEF unchangedServer, sending
<1>5. \A e \in Clients : cpc[e] # "off" => cpc'[e] # "off"
  BY <1>2, <1>3
<1> QED  BY <1>1, <1>4, <1>5, SlotsFrame DEF ServerUp

\* A line of the dialogue leaves connections alone.
LEMMA AdminFrame ==
  ASSUME handle_admin_input
  PROVE  UNCHANGED <<mon, data_socket, fdOf, backlog, chan, cpc, crtm>>
         /\ spc' \in {"select", "quit", "sync"}
<1>1. ASSUME NEW op, Broadcast(op)
      PROVE  spc' = "sync" /\ UNCHANGED <<mon, data_socket, fdOf, backlog, chan, cpc, crtm>>
  BY <1>1 DEF Broadcast, sockets, clients
<1>2. CASE IdleInput
  BY <1>2 DEF IdleInput, sending, sockets, clients
<1>3. CASE SubnetRejected
  BY <1>3 DEF SubnetRejected, sending, sockets, clients
<1>4. CASE (\E present \in BOOLEAN : SubnetEntry(present)) \/ GatewayEntry
  BY <1>3, <1>4 DEF SubnetEntry, GatewayEntry, sending, sockets, clients
<1>5. ASSUME NEW op, OifEntry(op)
      PROVE  /\ spc' \in {"select", "sync"}
             /\ UNCHANGED <<mon, data_socket, fdOf, backlog, chan, cpc, crtm>>
  <2>1. CASE Broadcast(op)
    BY <1>1, <2>1
  <2>2. CASE spc' = "select" /\ UNCHANGED <<mon, sending, sockets, clients>>
    BY <2>2 DEF sending, sockets, clients
  <2> QED  BY <1>5, <2>1, <2>2 DEF OifEntry
<1>6. CASE create_record \/ update_record
  BY <1>4, <1>5, <1>6 DEF create_record, update_record
<1>7. CASE delete_record
  <2>1. CASE SubnetRejected \/ Broadcast("DELETE")
    BY <1>1, <1>3, <2>1
  <2>2. CASE spc' = "select" /\ UNCHANGED <<mon, sending, sockets, clients>>
    BY <2>2 DEF sending, sockets, clients
  <2> QED  BY <1>7, <2>1, <2>2 DEF delete_record
<1> QED  BY <1>2, <1>6, <1>7 DEF handle_admin_input

\* Every step keeps the slots sound.
LEMMA SlotsStep == SlotsInv /\ [Next]_vars => SlotsInv'
<1> SUFFICES ASSUME SlotsInv, [Next]_vars PROVE SlotsInv'
  OBVIOUS
<1>1. TypeInv'
  BY StepType DEF SlotsInv
<1>2. ASSUME UNCHANGED <<mon, fdOf, backlog, cpc>>, spc' # "dump", ServerUp' => ServerUp
      PROVE  SlotsInv'
  BY <1>1, <1>2, SlotsFrame
<1>3. CASE UNCHANGED vars
  BY <1>1, <1>3, SlotsFrame DEF vars, sending, sockets, clients, ServerUp
<1>4. CASE Startup \/ SelectConnection \/ SelectConsole \/ AcceptFails \/ NoNewline \/ FlushAtEof
  BY <1>2, <1>4
  DEF Startup, SelectConnection, SelectConsole, AcceptFails, NoNewline, FlushAtEof,
      sockets, clients, ServerUp, Ended
<1>5. CASE handle_admin_input /\ spc \in {"admin", "flush"}
  BY <1>2, <1>5, AdminFrame DEF ServerUp, Ended
<1>6. CASE Quit
  BY <1>1, <1>6, SlotsShutdown DEF Quit
<1>7. CASE ServerSigint
  <2>1. CASE shutdown_server
    BY <1>1, <2>1, SlotsShutdown
  <2>2. CASE /\ spc' \in Ended /\ UNCHANGED <<mon, sockets, clients>>
    BY <1>2, <2>2 DEF sockets, clients, ServerUp, Ended
  <2> QED  BY <1>7, <2>1, <2>2 DEF ServerSigint, Ended
<1>8. CASE ServerStep
  BY <1>4, <1>5, <1>6, <1>8, SlotsAccept, SlotsWrite DEF ServerStep
<1>9. CASE \E c \in Clients : ClientStep(c)
  BY <1>9, SlotsClient
<1>10. CASE Environment
  BY <1>4, <1>5, <1>7, <1>10, SlotsConnect, SlotsClient DEF Environment
<1> QED  BY <1>3, <1>8, <1>9, <1>10 DEF Next

\* The inductive invariant of the slots.
LEMMA SlotsInvariant == Spec => []SlotsInv
BY SlotsInit, SlotsStep, PTL DEF Spec

\* The slots are sound: no descriptor is in two of them, each holds STDIN, the
\* listening socket or the descriptor of an accepted connection, and the first
\* two are always there.
THEOREM SlotsSound == Spec => []MonitorSound
<1>1. SlotsInv => MonitorSound
  <2> SUFFICES ASSUME SlotsInv, ServerUp PROVE MonitorSound
    BY DEF MonitorSound
  <2>1. SlotInv /\ FdInv /\ fdOf \in [Clients -> Int]
    BY DEF SlotsInv, TypeInv, TypeOK
  <2>2. \A i \in Slots : mon[i] \in {Free} \cup (OpenFds \ {1, 2})
    BY <2>1 DEF SlotInv, FdInv, OpenFds, STDIN, connection_socket, Free, NoFd
  <2>3. {STDIN, connection_socket} \subseteq refresh_fd_set(mon)
    BY <2>1 DEF SlotInv, refresh_fd_set, STDIN, connection_socket, Free
  <2> QED  BY <2>1, <2>2, <2>3 DEF MonitorSound, SlotInv
<1> QED  BY <1>1, SlotsInvariant, PTL

\* The steps that touch descriptors or slots.
LEMMA SlotSteps ==
  ASSUME [Next]_vars
  PROVE  \/ UNCHANGED <<mon, fdOf>>
         \/ handle_connection_initiation_request
         \/ dump_rtm_contents \/ send_synchronization_message
         \/ shutdown_server
<1>1. CASE UNCHANGED vars
  BY <1>1 DEF vars, sockets
<1>2. CASE ServerStep
  BY <1>2, AdminFrame
  DEF ServerStep, Startup, SelectConnection, AcceptFails, NoNewline, Quit, sockets
<1>3. ASSUME NEW c \in Clients, ClientStep(c) \/ Connect(c) \/ ConnectRefused(c) \/ ClientSigint(c)
      PROVE  UNCHANGED <<mon, fdOf>>
  BY <1>3
  DEF ConnectRefused, ClientSigint, ClientStep, ClientStart, ClientSync, ClientEof, Connect,
      ClientReset, shutdown_client, ClientEnds, unchangedServer
<1>4. CASE Environment
  BY <1>3, <1>4, AdminFrame
  DEF Environment, SelectConsole, FlushAtEof, ServerSigint, sockets
<1> QED  BY <1>1, <1>2, <1>3, <1>4 DEF Next

\* A step takes no slot from a client that is there.
LEMMA SlotKept ==
  ASSUME SlotsInv, [Next]_vars, NEW c \in Clients, Monitored(c), Connected(c)
  PROVE  Monitored(c)' \/ ~ ServerUp'
<1>1. TypeOK /\ FdInv /\ BacklogInv /\ SlotInv /\ PcInv /\ DumpInv
  BY DEF SlotsInv, TypeInv
<1>2. PICK k \in Slots : mon[k] = fdOf[c] /\ fdOf[c] # NoFd
  BY DEF Monitored, Accepted
<1>3. mon \in [Slots -> Int] /\ fdOf \in [Clients -> Int] /\ mon[k] # Free
  BY <1>1, <1>2 DEF TypeOK, Free, NoFd
<1>4. SUFFICES ASSUME ServerUp' PROVE fdOf'[c] = fdOf[c] /\ mon'[k] = mon[k]
  BY <1>2 DEF Monitored, Accepted
<1>5. CASE UNCHANGED <<mon, fdOf>>
  BY <1>5
<1>6. CASE handle_connection_initiation_request
  <2>1. PICK fd \in 0 .. (FD_LIMIT - 1) :
          /\ fdOf' = [fdOf EXCEPT ![Head(backlog)] = fd]
          /\ mon' = add_to_monitored_fd_set(mon, fd)
    BY <1>6 DEF handle_connection_initiation_request
  <2>2. Head(backlog) # c
    <3>1. backlog # << >> /\ backlog \in Seq(Clients)
      BY <1>1, <1>6 DEF handle_connection_initiation_request, PcInv, TypeOK
    <3>2. Head(backlog) = backlog[1] /\ 1 \in 1 .. Len(backlog)
      BY <3>1, EmptySeq, HeadTailProperties
    <3> QED  BY <1>1, <1>2, <3>2 DEF BacklogInv
  <2>3. fd \in Int
    BY RtmAssumption
  <2>4. mon'[k] = mon[k]
    BY <1>3, <2>1, <2>3, AddFillsOneSlot
  <2> QED  BY <1>3, <2>1, <2>2, <2>4
<1>7. ASSUME NEW m, NEW fd \in Int, _send_synchronization_message(m, fd)
      PROVE  mon'[k] = mon[k]
  <2>1. PICK x \in Clients :
          /\ fdOf[x] = fd
          /\ mon' = mon \/ (~ Connected(x) /\ mon' = remove_from_monitored_fd_set(mon, fd))
    BY <1>7 DEF _send_synchronization_message
  <2>2. fdOf[x] = fdOf[c] => x = c
    BY <1>1, <1>2 DEF FdInv
  <2>3. CASE mon' = mon
    BY <2>3
  <2>4. CASE ~ Connected(x) /\ mon' = remove_from_monitored_fd_set(mon, fd)
    <3>1. fd # fdOf[c]
      BY <2>1, <2>2, <2>4
    <3> QED  BY <1>2, <1>3, <1>7, <2>4, <3>1, RemoveFreesOneSlot
  <2> QED  BY <2>1, <2>3, <2>4
<1>8. CASE dump_rtm_contents
  <2>1. data_socket \in Int /\ fdOf' = fdOf
    BY <1>1, <1>8 DEF dump_rtm_contents, TypeOK
  <2> QED  BY <1>7, <1>8, <2>1 DEF dump_rtm_contents
<1>9. CASE send_synchronization_message
  <2>1. mon[pos] \in Int /\ fdOf' = fdOf
    BY <1>1, <1>9 DEF send_synchronization_message, TypeOK, PcInv
  <2> QED  BY <1>7, <1>9, <2>1 DEF send_synchronization_message
<1>10. CASE shutdown_server
  BY <1>4, <1>10 DEF shutdown_server, ServerUp, Ended
<1> QED  BY <1>5, <1>6, <1>8, <1>9, <1>10, SlotSteps

\* A connected client that is monitored stays monitored while the server runs,
\* whatever other clients connect, die or fail to be written to.
THEOREM SlotsKept == Spec => StaysMonitored
<1>1. SlotsInv /\ [Next]_vars =>
        [\A c \in Clients :
            Monitored(c) /\ Connected(c) => Monitored(c)' \/ ~ Connected(c)' \/ ~ ServerUp']_vars
  BY SlotKept
<1> QED  BY <1>1, SlotsInvariant, PTL DEF Spec, StaysMonitored

-----------------------------------------------------------------------------
(***************************************************************************)
(* What the tables hold: the server's has one record for a subnet, all     *)
(* typed by the administrator, and every client that is monitored gets to  *)
(* see all of it.                                                          *)
(***************************************************************************)
\* What the dialogue knows: which fields of `record' have been typed.  A table
\* with a record in it means that all of them were, once.
DraftInv ==
    /\ rtm # << >> => record \in Record
    /\ state \in {"CREATING", "UPDATING"} =>
        /\ entry \in {"GATEWAY", "OIF"} =>
              record.destination \in Destinations /\ record.mask \in Masks
        /\ entry = "OIF" => record.gateway_ip \in Gateways

\* The message that is being sent is complete.
MessageInv == spc = "sync" => sync_msg.msg_body \in Record

DialogueInv ==
    /\ DraftInv /\ MessageInv /\ CheckedSubnetCurrent
    /\ rtm \in Seq(Record)

\* Complete records and messages, in the form of the lemmas on tables.
LEMMA RecordIsRecordsOf ==
  /\ Record = RecordsOf(Destinations, Masks, Gateways, Oifs)
  /\ [op_code : OP_CODE, msg_body : Record] = MessagesOf(Destinations, Masks, Gateways, Oifs)
BY DEF Record, RecordsOf, MessagesOf

\* The operations keep a list of complete records one.
LEMMA RecordOperations ==
  ASSUME NEW rt \in Seq(Record), NEW r \in Record
  PROVE  /\ routing_table_insert(rt, r) \in Seq(Record)
         /\ routing_table_update(rt, r) \in Seq(Record)
         /\ routing_table_delete(rt, r) \in Seq(Record)
BY RecordIsRecordsOf, TableType

\* The dialogue starts with nothing typed and an empty table.
LEMMA DialogueInit == Init => DialogueInv
<1> SUFFICES ASSUME Init PROVE DialogueInv
  OBVIOUS
<1> QED
  BY EmptySeq DEF Init, DialogueInv, DraftInv, MessageInv, CheckedSubnetCurrent

\* Steps of others, and the server's own that leave the dialogue alone.
LEMMA DialogueFrame ==
  ASSUME DialogueInv, UNCHANGED <<rtm, dialogue>>,
         spc' = "sync" => spc = "sync" /\ UNCHANGED sync_msg,
         ServerUp' => ServerUp
  PROVE  DialogueInv'
BY DEF DialogueInv, DraftInv, MessageInv, CheckedSubnetCurrent, dialogue

\* The end of the server empties the table.
LEMMA DialogueEnds ==
  ASSUME DialogueInv, rtm' = << >>, UNCHANGED dialogue, spc' \in Ended
  PROVE  DialogueInv'
BY EmptySeq DEF DialogueInv, DraftInv, MessageInv, CheckedSubnetCurrent, dialogue, ServerUp, Ended

\* A broadcast ends a dialogue that has filled the record.
LEMMA DialogueBroadcast ==
  ASSUME TypeInv, NEW op \in OP_CODE, Broadcast(op), record' \in Record, rtm' \in Seq(Record)
  PROVE  DialogueInv'
BY DEF Broadcast, prepare_synchronization_message, DialogueInv, DraftInv, MessageInv,
       CheckedSubnetCurrent

\* A line that leaves the table alone and starts no broadcast.
LEMMA DialogueLine ==
  ASSUME TypeInv, DialogueInv, spc' = "select", UNCHANGED rtm, DraftInv',
         CheckedSubnetCurrent'
  PROVE  DialogueInv'
BY DEF DialogueInv, MessageInv

\* Every line of the administrator keeps what the dialogue knows.
LEMMA DialogueAdmin ==
  ASSUME TypeInv, DialogueInv, handle_admin_input
  PROVE  DialogueInv'
<1>1. record \in Draft /\ rtm \in Seq(Record) /\ DraftInv
  BY DEF TypeInv, TypeOK, DialogueInv
<1>2. ServerUp
  BY DEF handle_admin_input, IdleInput, create_record, update_record, delete_record,
         LineRead, ServerUp, Ended
<1>3. CASE IdleInput
  <2>1. /\ UNCHANGED <<rtm, record>> /\ spc' \in {"select", "quit"}
        /\ state' = "IDLE" \/ entry' = "SUBNET"
    BY <1>3 DEF IdleInput
  <2> QED
    BY <1>1, <2>1 DEF DialogueInv, DraftInv, MessageInv, CheckedSubnetCurrent
<1>4. CASE SubnetRejected /\ (entry = "SUBNET" \/ state = "DELETING")
  <2>1. UNCHANGED <<rtm, state, entry>> /\ spc' = "select" /\ record' \in RejectedSubnets
    BY <1>4 DEF SubnetRejected
  <2>2. record \in Record => record' \in Record
    <3>1. CASE record' = record
      BY <3>1
    <3>2. ASSUME NEW d \in Destinations, record' = [record EXCEPT !.destination = d]
          PROVE  record \in Record => record' \in Record
      BY <3>2 DEF Record
    <3>3. ASSUME NEW d \in Destinations, NEW m \in Masks, record' = SubnetRead(d, m)
          PROVE  record \in Record => record' \in Record
      BY <3>3 DEF SubnetRead, Record
    <3> QED  BY <2>1, <3>1, <3>2, <3>3 DEF RejectedSubnets
  <2> QED
    BY <1>1, <1>4, <2>1, <2>2, DialogueLine DEF DraftInv, CheckedSubnetCurrent
<1>5. ASSUME NEW present \in BOOLEAN, SubnetEntry(present),
             state = IF present THEN "UPDATING" ELSE "CREATING"
      PROVE  DialogueInv'
  <2>1. ASSUME NEW d \in Destinations, NEW m \in Masks,
               record' = SubnetRead(d, m),
               entry' = IF SubnetKnown(d, m) = present THEN "GATEWAY" ELSE entry,
               spc' = "select", UNCHANGED <<rtm, state>>
        PROVE  DialogueInv'
    <3>1. record'.destination = d /\ record'.mask = m
      BY <1>1, <2>1 DEF SubnetRead, Draft
    <3>2. record \in Record => record' \in Record
      BY <2>1 DEF SubnetRead, Record
    <3>3. entry = "SUBNET"
      BY <1>5 DEF SubnetEntry
    <3>4. DraftInv'
      BY <1>1, <2>1, <3>1, <3>2, <3>3 DEF DraftInv
    <3>5. CheckedSubnetCurrent'
      <4>1. CASE present = TRUE
        BY <1>5, <2>1, <3>1, <3>3, <4>1
        DEF CheckedSubnetCurrent, SubnetKnown, routing_table_contains_dst_subnet
      <4>2. CASE present = FALSE
        BY <1>5, <2>1, <3>1, <3>3, <4>2
        DEF CheckedSubnetCurrent, SubnetKnown, routing_table_contains_dst_subnet
      <4> QED  BY <4>1, <4>2
    <3> QED  BY <2>1, <3>4, <3>5, DialogueLine
  <2> QED  BY <1>4, <1>5, <2>1 DEF SubnetEntry
<1>6. ASSUME GatewayEntry, state \in {"CREATING", "UPDATING"}
      PROVE  DialogueInv'
  <2>1. CASE UNCHANGED <<record, entry>>
    BY <1>1, <1>2, <1>6, <2>1, DialogueLine
    DEF GatewayEntry, DraftInv, CheckedSubnetCurrent, DialogueInv
  <2>2. ASSUME NEW g \in Gateways, record' = [record EXCEPT !.gateway_ip = g]
        PROVE  DialogueInv'
    <3>1. /\ record'.destination = record.destination /\ record'.mask = record.mask
          /\ record'.gateway_ip = g
      BY <1>1, <2>2 DEF Draft
    <3>2. record \in Record => record' \in Record
      BY <2>2 DEF Record
    <3>3. entry = "GATEWAY" /\ UNCHANGED <<rtm, state>> /\ spc' = "select"
      BY <1>6 DEF GatewayEntry
    <3> QED
      BY <1>1, <1>2, <3>1, <3>2, <3>3, DialogueLine
      DEF DraftInv, CheckedSubnetCurrent, DialogueInv
  <2> QED  BY <1>6, <2>1, <2>2 DEF GatewayEntry
<1>7. ASSUME NEW op \in {"CREATE", "UPDATE"}, OifEntry(op), state \in {"CREATING", "UPDATING"}
      PROVE  DialogueInv'
  <2>1. CASE spc' = "select" /\ UNCHANGED <<rtm, dialogue>>
    BY <1>2, <2>1, DialogueFrame
  <2>2. ASSUME NEW o \in Oifs, record' = [record EXCEPT !.oif = o],
               rtm' = IF op = "CREATE" THEN routing_table_insert(rtm, record')
                                       ELSE routing_table_update(rtm, record'),
               Broadcast(op)
        PROVE  DialogueInv'
    <3>1. record' \in Record
      BY <1>1, <1>7, <2>2 DEF DraftInv, OifEntry, Draft, Record
    <3>2. rtm' \in Seq(Record)
      BY <1>1, <2>2, <3>1, RecordOperations
    <3> QED  BY <2>2, <3>1, <3>2, DialogueBroadcast DEF OP_CODE
  <2> QED  BY <1>7, <2>1, <2>2 DEF OifEntry
<1>8. CASE create_record
  BY <1>5, <1>6, <1>7, <1>8 DEF create_record
<1>9. CASE update_record
  BY <1>5, <1>6, <1>7, <1>9 DEF update_record
<1>10. CASE delete_record
  <2>1. state = "DELETING"
    BY <1>10 DEF delete_record
  <2>2. ASSUME NEW d \in Destinations, NEW m \in Masks, record' = SubnetRead(d, m),
               UNCHANGED entry
        PROVE  /\ record \in Record => record' \in Record
               /\ record'.destination = d /\ record'.mask = m
    BY <1>1, <2>2 DEF SubnetRead, Record, Draft
  <2>3. ASSUME NEW d \in Destinations, NEW m \in Masks, record' = SubnetRead(d, m),
               UNCHANGED entry, SubnetKnown(d, m),
               rtm' = routing_table_delete(rtm, record'), Broadcast("DELETE")
        PROVE  DialogueInv'
    <3>1. rtm # << >>
      BY <2>3, EmptySeq DEF SubnetKnown, routing_table_contains_dst_subnet
    <3>2. record' \in Record
      BY <1>1, <2>2, <2>3, <3>1 DEF DraftInv
    <3>3. rtm' \in Seq(Record)
      BY <1>1, <2>3, <3>2, RecordOperations
    <3> QED  BY <2>3, <3>2, <3>3, DialogueBroadcast DEF OP_CODE
  <2>4. ASSUME NEW d \in Destinations, NEW m \in Masks, record' = SubnetRead(d, m),
               spc' = "select", UNCHANGED <<rtm, state, entry>>
        PROVE  DialogueInv'
    BY <1>1, <2>1, <2>2, <2>4, DialogueLine DEF DraftInv, CheckedSubnetCurrent
  <2> QED  BY <1>4, <1>10, <2>1, <2>3, <2>4 DEF delete_record
<1> QED  BY <1>3, <1>8, <1>9, <1>10 DEF handle_admin_input

\* So does every other step.
LEMMA DialogueStep ==
  ASSUME TypeInv, DialogueInv, [Next]_vars
  PROVE  DialogueInv'
<1>1. CASE UNCHANGED vars
  BY <1>1, DialogueFrame DEF vars, dialogue, sending, ServerUp
<1>2. CASE Startup \/ SelectConnection \/ SelectConsole \/ NoNewline \/ FlushAtEof
             \/ handle_connection_initiation_request
  BY <1>2, DialogueFrame
  DEF Startup, SelectConnection, SelectConsole, NoNewline, FlushAtEof,
      handle_connection_initiation_request, ServerUp, Ended
<1>3. CASE AcceptFails \/ Quit \/ ServerSigint
  BY <1>3, DialogueEnds DEF AcceptFails, Quit, ServerSigint, shutdown_server, Ended
<1>4. CASE dump_rtm_contents \/ send_synchronization_message
  <2>1. /\ UNCHANGED <<rtm, dialogue>> /\ spc \in {"dump", "sync"}
        /\ (spc' = spc /\ UNCHANGED sync_msg) \/ spc' = "select"
    BY <1>4 DEF dump_rtm_contents, send_synchronization_message, Advance
  <2> QED  BY <2>1, DialogueFrame DEF ServerUp, Ended
<1>5. CASE handle_admin_input
  BY <1>5, DialogueAdmin
<1>6. ASSUME NEW c \in Clients, ClientStep(c) \/ Connect(c) \/ ConnectRefused(c) \/ ClientSigint(c)
      PROVE  DialogueInv'
  <2>1. UNCHANGED unchangedServer
    BY <1>6
    DEF ConnectRefused, ClientSigint, ClientStep, ClientStart, ClientSync, ClientEof, Connect,
        ClientReset, shutdown_client, ClientEnds
  <2> QED  BY <2>1, DialogueFrame DEF unchangedServer, sending, ServerUp
<1> QED
  BY <1>1, <1>2, <1>3, <1>4, <1>5, <1>6 DEF Next, ServerStep, Environment
-----------------------------------------------------------------------------
(***************************************************************************)
(* What every step is to the tables.  Due(c) is what c has still to apply; *)
(* a step of Rtm leaves all that as it is, or lets a client join, leave or *)
(* catch up, or changes the table, or is the end of the server.            *)
(***************************************************************************)
\* A client that is not there, or that was never accepted, knows nothing.
EmptyInv ==
    \A c \in Clients : ~ Connected(c) \/ ~ Accepted(c) =>
        chan[c] = << >> /\ crtm[c] = << >>

\* What InFlight is worth: nothing is read by a process that has ended.
Due(c) == IF Connected(c) THEN InFlight(c) ELSE << >>

ControlInv == SlotsInv /\ DialogueInv /\ EmptyInv

SameTables(C) == \A c \in C : crtm'[c] = crtm[c] /\ Due(c)' = Due(c)

Quiet ==
    /\ UNCHANGED rtm /\ Subscribers' = Subscribers
    /\ SameTables(Clients)

Joins(c) ==
    /\ c \notin Subscribers /\ crtm[c] = << >> /\ Due(c) = << >>
    /\ crtm'[c] = << >> /\ Due(c)' = CreateMessages(rtm)
    /\ Subscribers' \in {Subscribers, Subscribers \cup {c}}
    /\ UNCHANGED rtm /\ SameTables(Clients \ {c})

Commits(m) ==
    /\ m \in [op_code : OP_CODE, msg_body : Record]
    /\ Applies(rtm, m) /\ rtm' = synchronize_with_server(rtm, m)
    /\ Subscribers' = Subscribers
    /\ \A c \in Clients :
        /\ crtm'[c] = crtm[c]
        /\ Due(c)' = IF c \in Subscribers THEN Append(Due(c), m) ELSE Due(c)

CatchesUp(c) ==
    /\ Due(c) # << >>
    /\ crtm'[c] = synchronize_with_server(crtm[c], Head(Due(c)))
    /\ Due(c)' = Tail(Due(c))
    /\ Subscribers' = Subscribers
    /\ UNCHANGED rtm /\ SameTables(Clients \ {c})

Leaves(c) ==
    /\ crtm'[c] = << >> /\ Due(c)' = << >>
    /\ Subscribers' = Subscribers \ {c}
    /\ UNCHANGED rtm /\ SameTables(Clients \ {c})

Stops ==
    /\ rtm' = << >> /\ Subscribers' = {}
    /\ \A c \in Clients :
        /\ crtm'[c] = crtm[c]
        /\ \E n \in 0 .. Len(Due(c)) : Due(c)' = SubSeq(Due(c), 1, n)

TableStep ==
    \/ Quiet \/ Stops
    \/ \E c \in Clients : Joins(c) \/ CatchesUp(c) \/ Leaves(c)
    \/ \E m \in [op_code : OP_CODE, msg_body : Record] : Commits(m)

-----------------------------------------------------------------------------
\* Messages, in the form of the lemmas on tables.
LEMMA MessageIsMessagesOf ==
  Message = MessagesOf(Destinations \cup {Uninit}, Masks \cup {Uninit},
                       Gateways \cup {Uninit}, Oifs \cup {Uninit})
BY DraftIsRecordsOf DEF Message, MessagesOf

\* What is owed, in flight or due is a list of messages.
LEMMA OwedType ==
  ASSUME TypeInv, NEW c \in Clients
  PROVE  Owed(c) \in Seq(Message) /\ InFlight(c) \in Seq(Message) /\ Due(c) \in Seq(Message)
<1>1. /\ rtm \in Seq(Draft) /\ chan[c] \in Seq(Message) /\ sync_msg \in Message /\ pos \in Nat
      /\ spc = "dump" => pos \in 1 .. Len(rtm)
  BY DEF TypeInv, TypeOK, PcInv
<1>2. CreateMessages(rtm) \in Seq(Message) /\ Len(CreateMessages(rtm)) = Len(rtm)
  BY <1>1, CreateMessagesType, DraftIsRecordsOf, MessageIsMessagesOf
<1>3. spc = "dump" => SubSeq(CreateMessages(rtm), pos, Len(rtm)) \in Seq(Message)
  BY <1>1, <1>2
<1>4. << sync_msg >> \in Seq(Message) /\ << >> \in Seq(Message)
  BY <1>1
<1>5. Owed(c) \in Seq(Message)
  BY <1>3, <1>4 DEF Owed
<1> QED  BY <1>1, <1>4, <1>5, ConcatProperties DEF InFlight, Due

\* The messages of a dump.
LEMMA DumpMessages ==
  ASSUME NEW rt \in Seq(Draft)
  PROVE  /\ CreateMessages(rt) \in Seq(Message) /\ Len(CreateMessages(rt)) = Len(rt)
         /\ \A i \in 1 .. Len(rt) :
              CreateMessages(rt)[i] = [op_code |-> "CREATE", msg_body |-> rt[i]]
<1> DEFINE D == Destinations \cup {Uninit}
           M == Masks \cup {Uninit}
           G == Gateways \cup {Uninit}
           O == Oifs \cup {Uninit}
<1>1. Draft = RecordsOf(D, M, G, O) /\ Message = MessagesOf(D, M, G, O)
  BY DraftIsRecordsOf, MessageIsMessagesOf
<1> HIDE DEF D, M, G, O
<1>2. rt \in Seq(RecordsOf(D, M, G, O))
  BY <1>1
<1>3. /\ CreateMessages(rt) \in Seq(MessagesOf(D, M, G, O))
      /\ Len(CreateMessages(rt)) = Len(rt)
      /\ \A i \in 1 .. Len(rt) :
           CreateMessages(rt)[i] = [op_code |-> "CREATE", msg_body |-> rt[i]]
  BY <1>2, CreateMessagesType
<1> QED  BY <1>1, <1>3

\* The server owes nothing while it neither dumps nor broadcasts.
LEMMA NothingOwed ==
  ASSUME NEW c \in Clients, spc \notin {"dump", "sync"}
  PROVE  Owed(c) = << >>
BY DEF Owed

\* Nor after a step that ends in such a state.
LEMMA NothingOwedNext ==
  ASSUME NEW c \in Clients, spc' \notin {"dump", "sync"}
  PROVE  Owed(c)' = << >>
BY DEF Owed

\* Steps that leave sockets and table alone.
LEMMA QuietStep ==
  ASSUME TypeInv, UNCHANGED <<rtm, chan, cpc, crtm, fdOf, mon>>,
         spc \notin {"dump", "sync"}, spc' \notin {"dump", "sync"}, ServerUp' <=> ServerUp
  PROVE  Quiet
<1>1. \A c \in Clients : Owed(c) = << >> /\ Owed(c)' = << >>
  BY NothingOwed, NothingOwedNext
<1>2. \A c \in Clients : InFlight(c)' = InFlight(c) /\ (Connected(c)' <=> Connected(c))
  BY <1>1 DEF InFlight, Connected
<1>3. \A c \in Clients : Monitored(c)' <=> Monitored(c)
  BY DEF Monitored, Accepted
<1>4. Subscribers' = Subscribers
  BY <1>2, <1>3 DEF Subscribers
<1> QED  BY <1>2, <1>4 DEF Quiet, SameTables, Due

\* A write: one client gets the message, or a client that has gone its slot freed.
LEMMA SendEffect ==
  ASSUME SlotsInv, NEW m \in Message, NEW fd \in Int, fd # NoFd,
         _send_synchronization_message(m, fd)
  PROVE  \E x \in Clients :
            /\ fdOf[x] = fd /\ Accepted(x)
            /\ \A e \in Clients : Accepted(e) /\ fdOf[e] = fd => e = x
            /\ \A e \in Clients : Connected(e) =>
                  chan'[e] = IF e = x THEN Append(chan[e], m) ELSE chan[e]
            /\ ~ Connected(x) => chan' = chan
            /\ \A e \in Clients, i \in Slots : Connected(e) /\ Accepted(e) =>
                  (mon'[i] = fdOf[e] <=> mon[i] = fdOf[e])
<1>1. PICK x \in Clients :
        /\ fdOf[x] = fd
        /\ \/ /\ Connected(x)
              /\ chan' = [chan EXCEPT ![x] = Append(@, m)]
              /\ UNCHANGED mon
           \/ /\ ~ Connected(x)
              /\ mon' = remove_from_monitored_fd_set(mon, fd)
              /\ UNCHANGED chan
  BY DEF _send_synchronization_message
<1>2. /\ chan \in [Clients -> Seq(Message)] /\ mon \in [Slots -> Int] /\ FdInv
      /\ fdOf \in [Clients -> Int]
  BY DEF SlotsInv, TypeInv, TypeOK
<1>3. \A e \in Clients : Accepted(e) /\ fdOf[e] = fd => e = x
  BY <1>1, <1>2 DEF FdInv, Accepted
<1>4. CASE Connected(x)
  BY <1>1, <1>2, <1>3, <1>4 DEF Accepted
<1>5. CASE ~ Connected(x)
  <2>1. chan' = chan /\ mon' = remove_from_monitored_fd_set(mon, fd)
    BY <1>1, <1>5
  <2>2. ASSUME NEW e \in Clients, NEW i \in Slots, Connected(e), Accepted(e)
        PROVE  mon'[i] = fdOf[e] <=> mon[i] = fdOf[e]
    <3>1. fdOf[e] # fd /\ fdOf[e] # Free
      BY <1>3, <1>5, <2>2 DEF Accepted, NoFd, Free
    <3> QED  BY <1>2, <2>1, <3>1, RemoveFreesOneSlot
  <2> QED  BY <1>1, <1>3, <1>5, <2>1, <2>2 DEF Accepted
<1> QED  BY <1>4, <1>5

\* Writing to a client changes nothing about what it has still to apply.
LEMMA WriteIsQuiet ==
  ASSUME ControlInv, dump_rtm_contents \/ send_synchronization_message,
         \A e \in Clients, i \in Slots : Connected(e) /\ Accepted(e) =>
            (mon'[i] = fdOf[e] <=> mon[i] = fdOf[e]),
         \A e \in Clients : Connected(e) => InFlight(e)' = InFlight(e)
  PROVE  Quiet
<1>1. /\ UNCHANGED <<rtm, fdOf, cpc, crtm>> /\ spc \in {"dump", "sync"}
      /\ spc' = spc \/ spc' = "select"
  BY DEF dump_rtm_contents, send_synchronization_message, Advance, clients
<1>2. (ServerUp' <=> ServerUp) /\ \A e \in Clients : Connected(e)' <=> Connected(e)
  BY <1>1 DEF ServerUp, Ended, Connected
<1>3. \A e \in Clients : Connected(e) => (Monitored(e)' <=> Monitored(e))
  BY <1>1 DEF Monitored, Accepted
<1>4. Subscribers' = Subscribers
  BY <1>2, <1>3 DEF Subscribers
<1> QED  BY <1>1, <1>2, <1>4 DEF Quiet, SameTables, Due

\* A turn of the dump moves one message into the socket it is owed to.
LEMMA DumpIsQuiet ==
  ASSUME ControlInv, dump_rtm_contents
  PROVE  Quiet
<1> DEFINE s == CreateMessages(rtm)
           m == prepare_synchronization_message("CREATE", rtm[pos])
<1>1. /\ SlotsInv /\ TypeInv /\ TypeOK /\ PcInv /\ DumpInv /\ FdInv
      /\ spc = "dump" /\ pos \in 1 .. Len(rtm)
  BY DEF ControlInv, SlotsInv, TypeInv, PcInv, dump_rtm_contents
<1>2. /\ data_socket \in Int /\ data_socket # NoFd /\ Len(rtm) \in Nat
      /\ chan \in [Clients -> Seq(Message)] /\ rtm \in Seq(Draft)
  BY <1>1 DEF TypeOK, DumpInv, connection_socket, NoFd
<1>3. s \in Seq(Message) /\ Len(s) = Len(rtm) /\ s[pos] = m /\ m \in Message
  <2>1. s \in Seq(Message) /\ Len(s) = Len(rtm)
    BY <1>2, DumpMessages
  <2>2. s[pos] = m
    BY <1>1, <1>2, DumpMessages DEF prepare_synchronization_message
  <2> HIDE DEF s, m
  <2> QED  BY <1>1, <2>1, <2>2, ElementOfSeq
<1> HIDE DEF m
<1>4. PICK x \in Clients :
            /\ fdOf[x] = data_socket /\ Accepted(x)
            /\ \A e \in Clients : Accepted(e) /\ fdOf[e] = data_socket => e = x
            /\ \A e \in Clients : Connected(e) =>
                  chan'[e] = IF e = x THEN Append(chan[e], m) ELSE chan[e]
            /\ \A e \in Clients, i \in Slots : Connected(e) /\ Accepted(e) =>
                  (mon'[i] = fdOf[e] <=> mon[i] = fdOf[e])
  <2>1. _send_synchronization_message(m, data_socket)
    BY DEF dump_rtm_contents, m
  <2> QED  BY <1>1, <1>2, <1>3, <2>1, SendEffect
<1>5. /\ UNCHANGED <<rtm, fdOf>>
      /\ \/ pos < Len(rtm) /\ pos' = pos + 1 /\ spc' = "dump" /\ data_socket' = data_socket
         \/ pos = Len(rtm) /\ spc' = "select"
  BY <1>1, <1>2 DEF dump_rtm_contents, Advance
<1>6. ASSUME NEW e \in Clients, Connected(e)
      PROVE  InFlight(e)' = InFlight(e)
  <2>1. CASE e = x
    <3>1. Owed(e) = SubSeq(s, pos, Len(s))
      BY <1>1, <1>3, <1>4, <2>1 DEF Owed
    <3>2. Owed(e)' = SubSeq(s, pos + 1, Len(s))
      <4>1. CASE pos < Len(rtm)
        <5>1. spc' = "dump" /\ pos' = pos + 1 /\ data_socket' = data_socket
          BY <1>2, <1>5, <4>1
        <5>2. Accepted(e)' /\ fdOf'[e] = data_socket
          BY <1>4, <1>5, <2>1 DEF Accepted
        <5>3. Owed(e)' = SubSeq(CreateMessages(rtm)', pos', Len(rtm'))
          BY <5>1, <5>2 DEF Owed
        <5>4. CreateMessages(rtm)' = CreateMessages(rtm)
          BY <1>5 DEF CreateMessages
        <5> QED  BY <1>3, <1>5, <5>1, <5>3, <5>4
      <4>2. CASE pos = Len(rtm)
        <5>1. Owed(e)' = << >>
          BY <1>2, <1>5, <4>2, NothingOwedNext
        <5>2. SubSeq(s, pos + 1, Len(s)) = << >>
          BY <1>2, <1>3, <4>2, SubSeqEmpty
        <5> QED  BY <5>1, <5>2
      <4> QED  BY <1>5, <4>1, <4>2
    <3>3. chan'[e] = Append(chan[e], s[pos])
      BY <1>3, <1>4, <1>6, <2>1
    <3>4. chan[e] \o SubSeq(s, pos, Len(s)) = Append(chan[e], s[pos]) \o SubSeq(s, pos + 1, Len(s))
      BY <1>1, <1>2, <1>3, WriteMoves
    <3> QED  BY <3>1, <3>2, <3>3, <3>4 DEF InFlight
  <2>2. CASE e # x
    <3>1. chan'[e] = chan[e] /\ (Accepted(e) => fdOf[e] # data_socket)
      BY <1>4, <1>6, <2>2
    <3>2. Owed(e) = << >> /\ Owed(e)' = << >>
      BY <1>1, <1>5, <3>1 DEF Owed, Accepted
    <3> QED  BY <3>1, <3>2 DEF InFlight
  <2> QED  BY <2>1, <2>2
<1> QED  BY <1>4, <1>6, WriteIsQuiet

\* The slots that are still to be served hold the client.
LEMMA SyncIsQuiet ==
  ASSUME ControlInv, send_synchronization_message
  PROVE  Quiet
<1> DEFINE Holds(e, p) == \E i \in p .. (MAX_CLIENTS - 1) : mon[i] = fdOf[e]
<1>1. /\ SlotsInv /\ TypeInv /\ TypeOK /\ PcInv /\ SlotInv /\ FdInv
      /\ spc = "sync" /\ pos \in Slots /\ MAX_CLIENTS \in Nat
  BY MaxClientsAssumption
  DEF ControlInv, SlotsInv, TypeInv, PcInv, send_synchronization_message
<1>2. /\ mon \in [Slots -> Int] /\ sync_msg \in Message /\ fdOf \in [Clients -> Int]
      /\ chan \in [Clients -> Seq(Message)]
  BY <1>1 DEF TypeOK
<1>3. /\ UNCHANGED <<rtm, fdOf>>
      /\ \/ /\ pos < MAX_CLIENTS - 1 /\ pos' = pos + 1
            /\ spc' = "sync" /\ sync_msg' = sync_msg
         \/ pos = MAX_CLIENTS - 1 /\ spc' = "select"
  BY <1>1 DEF send_synchronization_message, Advance, Slots
<1>4. /\ \A e \in Clients : Connected(e) =>
            chan'[e] = IF Accepted(e) /\ fdOf[e] = mon[pos]
                       THEN Append(chan[e], sync_msg) ELSE chan[e]
      /\ \A e \in Clients, i \in Slots : Connected(e) /\ Accepted(e) =>
            (mon'[i] = fdOf[e] <=> mon[i] = fdOf[e])
  <2>1. CASE IsClientSlot(pos)
    <3>1. _send_synchronization_message(sync_msg, mon[pos])
      BY <2>1 DEF send_synchronization_message
    <3>2. mon[pos] \in Int /\ mon[pos] # NoFd
      BY <1>1, <1>2, <2>1 DEF IsClientSlot, NoFd
    <3>3. PICK x \in Clients :
            /\ fdOf[x] = mon[pos] /\ Accepted(x)
            /\ \A e \in Clients : Accepted(e) /\ fdOf[e] = mon[pos] => e = x
            /\ \A e \in Clients : Connected(e) =>
                  chan'[e] = IF e = x THEN Append(chan[e], sync_msg) ELSE chan[e]
            /\ \A e \in Clients, i \in Slots : Connected(e) /\ Accepted(e) =>
                  (mon'[i] = fdOf[e] <=> mon[i] = fdOf[e])
      BY <1>1, <1>2, <3>1, <3>2, SendEffect
    <3> QED  BY <3>3
  <2>2. CASE ~ IsClientSlot(pos)
    <3>1. mon' = mon /\ chan' = chan
      BY <2>2 DEF send_synchronization_message
    <3>2. \A e \in Clients : Accepted(e) => fdOf[e] # mon[pos]
      BY <1>1, <1>2, <2>2 DEF IsClientSlot, FdInv, Accepted, connection_socket
    <3> QED  BY <3>1, <3>2
  <2> QED  BY <2>1, <2>2
<1>5. ASSUME NEW e \in Clients, Connected(e)
      PROVE  InFlight(e)' = InFlight(e)
  <2>1. Owed(e) = IF Accepted(e) /\ Holds(e, pos) THEN << sync_msg >> ELSE << >>
    BY <1>1 DEF Owed
  <2>2. pos < MAX_CLIENTS - 1 =>
          Owed(e)' = IF Accepted(e) /\ Holds(e, pos + 1) THEN << sync_msg >> ELSE << >>
    <3> SUFFICES ASSUME pos < MAX_CLIENTS - 1
        PROVE Owed(e)' = IF Accepted(e) /\ Holds(e, pos + 1) THEN << sync_msg >> ELSE << >>
      OBVIOUS
    <3>1. spc' = "sync" /\ pos' = pos + 1 /\ sync_msg' = sync_msg
      BY <1>1, <1>3 DEF Slots
    <3>2. \A i \in (pos + 1) .. (MAX_CLIENTS - 1) : i \in Slots
      BY <1>1 DEF Slots
    <3>3. Accepted(e) => \A i \in (pos + 1) .. (MAX_CLIENTS - 1) :
                             mon'[i] = fdOf[e] <=> mon[i] = fdOf[e]
      BY <1>4, <1>5, <3>2
    <3>4. fdOf'[e] = fdOf[e]
      BY <1>3
    <3>5. Owed(e)' = IF /\ fdOf'[e] # NoFd
                        /\ \E i \in (pos + 1) .. (MAX_CLIENTS - 1) : mon'[i] = fdOf'[e]
                     THEN << sync_msg >> ELSE << >>
      BY <3>1 DEF Owed, Accepted
    <3> QED  BY <3>3, <3>4, <3>5 DEF Accepted
  <2>3. pos = MAX_CLIENTS - 1 => Owed(e)' = << >>
    BY <1>1, <1>3, NothingOwedNext DEF Slots
  <2>4. \A p \in Slots : Holds(e, p) <=> mon[p] = fdOf[e] \/ Holds(e, p + 1)
    BY <1>1 DEF Slots
  <2>5. ~ Holds(e, MAX_CLIENTS)
    BY <1>1
  <2>6. mon[pos] = fdOf[e] /\ Accepted(e) => ~ Holds(e, pos + 1)
    BY <1>1, <1>2 DEF SlotInv, Slots, Accepted, NoFd, Free
  <2> HIDE DEF Holds
  <2>7. Owed(e)' = IF Accepted(e) /\ Holds(e, pos + 1) THEN << sync_msg >> ELSE << >>
    BY <1>1, <1>3, <2>2, <2>3, <2>5
  <2>8. chan[e] \in Seq(Message) /\ Append(chan[e], sync_msg) = chan[e] \o << sync_msg >>
        /\ Append(chan[e], sync_msg) \in Seq(Message)
    BY <1>2, AppendIsConcat, AppendProperties
  <2>9. CASE Accepted(e) /\ mon[pos] = fdOf[e]
    <3>1. Owed(e) = << sync_msg >> /\ Owed(e)' = << >>
      BY <1>1, <2>1, <2>4, <2>6, <2>7, <2>9
    <3>2. chan'[e] = Append(chan[e], sync_msg)
      BY <1>4, <1>5, <2>9
    <3>3. Append(chan[e], sync_msg) \o << >> = Append(chan[e], sync_msg)
      BY <2>8, ConcatEmptySeq
    <3> QED  BY <2>8, <3>1, <3>2, <3>3 DEF InFlight
  <2>10. CASE ~ (Accepted(e) /\ mon[pos] = fdOf[e])
    <3>1. Owed(e)' = Owed(e)
      BY <1>1, <2>1, <2>4, <2>7, <2>10
    <3>2. chan'[e] = chan[e]
      BY <1>4, <1>5, <2>10
    <3> QED  BY <3>1, <3>2 DEF InFlight
  <2> QED  BY <2>9, <2>10
<1> QED  BY <1>4, <1>5, WriteIsQuiet

\* The newcomer gets a descriptor that no client has, and no slot yet holds.
LEMMA AcceptEffect ==
  ASSUME SlotsInv, handle_connection_initiation_request
  PROVE  \E h \in Clients, fd \in Int :
            /\ fd > connection_socket /\ \A e \in Clients : fdOf[e] # fd
            /\ fdOf[h] = NoFd /\ fdOf' = [fdOf EXCEPT ![h] = fd]
            /\ mon' = add_to_monitored_fd_set(mon, fd)
            /\ IF rtm = << >> THEN spc' = "select"
                              ELSE spc' = "dump" /\ data_socket' = fd /\ pos' = 1
            /\ spc = "accept" /\ UNCHANGED <<rtm, chan, cpc, crtm>>
<1>1. PICK fd \in 0 .. (FD_LIMIT - 1) :
        /\ IsNewFd(fd)
        /\ fdOf' = [fdOf EXCEPT ![Head(backlog)] = fd]
        /\ mon' = add_to_monitored_fd_set(mon, fd)
        /\ IF rtm = << >> THEN spc' = "select"
                          ELSE spc' = "dump" /\ data_socket' = fd /\ pos' = 1
        /\ spc = "accept" /\ UNCHANGED <<rtm, chan, cpc, crtm>>
  BY DEF handle_connection_initiation_request, clients
<1>2. TypeOK /\ BacklogInv /\ backlog # << >>
  BY DEF SlotsInv, TypeInv, PcInv, handle_connection_initiation_request
<1>3. /\ Head(backlog) = backlog[1] /\ backlog[1] \in Clients /\ 1 \in 1 .. Len(backlog)
  BY <1>2, EmptySeq, HeadTailProperties DEF TypeOK
<1>4. fdOf[backlog[1]] = NoFd
  BY <1>2, <1>3 DEF BacklogInv
<1>5. fd \in Int /\ fd >= 0
  BY RtmAssumption
<1>6. fd > connection_socket /\ \A e \in Clients : fdOf[e] # fd
  BY <1>1, <1>5 DEF IsNewFd, OpenFds, NoFd, connection_socket
<1> QED  BY <1>1, <1>3, <1>4, <1>5, <1>6

\* A client that is accepted joins; if it has gone by then, nothing happens.
LEMMA AcceptTable ==
  ASSUME ControlInv, handle_connection_initiation_request
  PROVE  Quiet \/ \E c \in Clients : Joins(c)
<1>1. PICK h \in Clients, fd \in Int :
            /\ fd > connection_socket /\ \A e \in Clients : fdOf[e] # fd
            /\ fdOf[h] = NoFd /\ fdOf' = [fdOf EXCEPT ![h] = fd]
            /\ mon' = add_to_monitored_fd_set(mon, fd)
            /\ IF rtm = << >> THEN spc' = "select"
                              ELSE spc' = "dump" /\ data_socket' = fd /\ pos' = 1
            /\ spc = "accept" /\ UNCHANGED <<rtm, chan, cpc, crtm>>
  BY AcceptEffect DEF ControlInv
<1>2. /\ mon \in [Slots -> Int] /\ fdOf \in [Clients -> Int] /\ FdInv /\ rtm \in Seq(Draft)
      /\ EmptyInv
  BY DEF ControlInv, SlotsInv, TypeInv, TypeOK
<1>3. ServerUp /\ ServerUp' /\ \A e \in Clients : Connected(e)' <=> Connected(e)
  BY <1>1 DEF ServerUp, Ended, Connected
<1>4. /\ fd # NoFd /\ fdOf'[h] = fd
      /\ \A e \in Clients \ {h} : fdOf'[e] = fdOf[e]
  BY <1>1, <1>2 DEF NoFd, connection_socket
<1>5. ASSUME NEW e \in Clients \ {h}
      PROVE  (Monitored(e)' <=> Monitored(e)) /\ Due(e)' = Due(e)
  <2>1. Owed(e) = << >>
    BY <1>1, NothingOwed
  <2>2. Owed(e)' = << >>
    <3>1. fdOf'[e] # fd
      BY <1>1, <1>4
    <3> QED  BY <1>1, <3>1 DEF Owed
  <2>3. ASSUME Accepted(e), NEW i \in Slots
        PROVE  mon'[i] = fdOf[e] <=> mon[i] = fdOf[e]
    <3>1. fdOf[e] # Free /\ fdOf[e] # fd
      BY <1>1, <2>3 DEF Accepted, NoFd, Free
    <3> QED  BY <1>1, <1>2, <3>1, AddFillsOneSlot
  <2>4. Monitored(e)' <=> Monitored(e)
    BY <1>4, <2>3 DEF Monitored, Accepted
  <2> QED  BY <1>1, <1>3, <2>1, <2>2, <2>4 DEF Due, InFlight
<1>6. ~ Accepted(h) /\ ~ Monitored(h) /\ chan[h] = << >> /\ crtm[h] = << >>
  BY <1>1, <1>2 DEF EmptyInv, Accepted, Monitored
<1>7. h \notin Subscribers /\ Due(h) = << >>
  <2>1. Owed(h) = << >>
    BY <1>1, NothingOwed
  <2> QED  BY <1>6, <2>1 DEF Subscribers, Due, InFlight
<1>8. Subscribers' \in {Subscribers, Subscribers \cup {h}}
  <2>1. \A e \in Clients \ {h} : e \in Subscribers' <=> e \in Subscribers
    BY <1>3, <1>5 DEF Subscribers
  <2>2. Subscribers \subseteq Clients /\ Subscribers' \subseteq Clients
    BY DEF Subscribers
  <2> QED  BY <1>7, <2>1, <2>2
<1>9. CASE Connected(h)
  <2>1. Owed(h)' = CreateMessages(rtm)
    <3>1. CASE rtm = << >>
      <4>1. Owed(h)' = << >>
        BY <1>1, <3>1, NothingOwedNext
      <4>2. CreateMessages(rtm) = << >>
        BY <1>2, <3>1, DumpMessages, EmptySeq
      <4> QED  BY <4>1, <4>2
    <3>2. CASE rtm # << >>
      <4>1. spc' = "dump" /\ data_socket' = fd /\ pos' = 1 /\ Accepted(h)'
        BY <1>1, <1>4, <3>2 DEF Accepted
      <4>2. Owed(h)' = SubSeq(CreateMessages(rtm)', 1, Len(rtm'))
        BY <1>4, <4>1 DEF Owed
      <4>3. CreateMessages(rtm)' = CreateMessages(rtm)
        BY <1>1 DEF CreateMessages
      <4> DEFINE s == CreateMessages(rtm)
      <4>4. s \in Seq(Message) /\ Len(s) = Len(rtm)
        BY <1>2, DumpMessages
      <4> HIDE DEF s
      <4>5. SubSeq(s, 1, Len(s)) = s
        BY <4>4, SubSeqFull
      <4> QED  BY <1>1, <4>2, <4>3, <4>4, <4>5 DEF s
    <3> QED  BY <3>1, <3>2
  <2>2. Due(h)' = CreateMessages(rtm)
    <3>1. CreateMessages(rtm) \in Seq(Message)
      BY <1>2, DumpMessages
    <3>2. << >> \o CreateMessages(rtm) = CreateMessages(rtm)
      BY <3>1, ConcatEmptySeq
    <3> QED  BY <1>1, <1>3, <1>6, <1>9, <2>1, <3>2 DEF Due, InFlight
  <2>3. Joins(h)
    BY <1>1, <1>5, <1>6, <1>7, <1>8, <2>2 DEF Joins, SameTables
  <2> QED  BY <2>3
<1>10. CASE ~ Connected(h)
  <2>1. Due(h)' = Due(h)
    BY <1>3, <1>10 DEF Due
  <2>2. h \notin Subscribers'
    BY <1>3, <1>10 DEF Subscribers
  <2> QED  BY <1>1, <1>5, <1>7, <1>8, <2>1, <2>2 DEF Quiet, SameTables
<1> QED  BY <1>9, <1>10

\* The end of the server: what is already in the sockets can still be read.
LEMMA StopTable ==
  ASSUME ControlInv, spc' \in Ended, rtm' = << >>, UNCHANGED <<chan, cpc, crtm>>
  PROVE  Stops
<1>1. Subscribers' = {}
  BY DEF Subscribers, ServerUp
<1>2. TypeInv /\ chan \in [Clients -> Seq(Message)]
  BY DEF ControlInv, SlotsInv, TypeInv, TypeOK
<1>3. ASSUME NEW c \in Clients
      PROVE  \E n \in 0 .. Len(Due(c)) : Due(c)' = SubSeq(Due(c), 1, n)
  <2>1. Owed(c)' = << >>
    BY NothingOwedNext DEF Ended
  <2>2. Connected(c)' <=> Connected(c)
    BY DEF Connected
  <2>3. chan[c] \in Seq(Message) /\ Owed(c) \in Seq(Message)
    BY <1>2, OwedType
  <2>4. CASE Connected(c)
    <3> DEFINE s == chan[c]
               t == Owed(c)
    <3>1. s \in Seq(Message) /\ t \in Seq(Message)
      BY <2>3
    <3>2. Due(c) = s \o t /\ Due(c)' = s \o << >>
      BY <2>1, <2>2, <2>4 DEF Due, InFlight
    <3> HIDE DEF s, t
    <3>3. s \o << >> = s /\ SubSeq(s \o t, 1, Len(s)) = s
      BY <3>1, ConcatPrefix, ConcatEmptySeq
    <3>4. Len(s) \in 0 .. Len(s \o t)
      BY <3>1, ConcatProperties, LenProperties
    <3> QED  BY <3>2, <3>3, <3>4
  <2>5. CASE ~ Connected(c)
    <3>1. Due(c) = << >> /\ Due(c)' = << >> /\ Len(<< >>) = 0
      BY <2>2, <2>5, EmptySeq DEF Due
    <3>2. SubSeq(<< >>, 1, 0) = << >>
      OBVIOUS
    <3> QED  BY <3>1, <3>2
  <2> QED  BY <2>4, <2>5
<1> QED  BY <1>1, <1>3 DEF Stops

\* A broadcast is due exactly when the table has changed, and says how.
LEMMA LineCommits ==
  ASSUME ControlInv, handle_admin_input
  PROVE  \/ UNCHANGED rtm /\ spc' # "sync"
         \/ /\ spc' = "sync" /\ pos' = 0
            /\ sync_msg' \in [op_code : OP_CODE, msg_body : Record]
            /\ Applies(rtm, sync_msg') /\ rtm' = synchronize_with_server(rtm, sync_msg')
<1>1. /\ TypeInv /\ DialogueInv /\ CheckedSubnetCurrent /\ record \in Draft /\ ServerUp
      /\ MessageInv'
  <2>1. TypeInv /\ DialogueInv
    BY DEF ControlInv, SlotsInv
  <2>2. DialogueInv'
    BY <2>1, DialogueAdmin
  <2> QED
    BY <2>1, <2>2
    DEF TypeInv, TypeOK, DialogueInv, handle_admin_input, IdleInput, create_record,
        update_record, delete_record, LineRead, ServerUp, Ended
<1>2. ASSUME NEW op \in OP_CODE, Broadcast(op)
      PROVE  /\ spc' = "sync" /\ pos' = 0
             /\ sync_msg' \in [op_code : OP_CODE, msg_body : Record]
             /\ sync_msg' = [op_code |-> op, msg_body |-> record']
  BY <1>1, <1>2 DEF Broadcast, MessageInv, prepare_synchronization_message
<1>3. ASSUME IdleInput \/ SubnetRejected \/ GatewayEntry \/ \E present \in BOOLEAN : SubnetEntry(present)
      PROVE  UNCHANGED rtm /\ spc' # "sync"
  BY <1>3 DEF IdleInput, SubnetRejected, GatewayEntry, SubnetEntry
<1>4. ASSUME NEW op \in {"CREATE", "UPDATE"}, OifEntry(op),
             state = IF op = "CREATE" THEN "CREATING" ELSE "UPDATING",
             NEW o \in Oifs, record' = [record EXCEPT !.oif = o],
             rtm' = IF op = "CREATE" THEN routing_table_insert(rtm, record')
                                     ELSE routing_table_update(rtm, record'),
             Broadcast(op)
      PROVE  Applies(rtm, sync_msg') /\ rtm' = synchronize_with_server(rtm, sync_msg')
  <2>1. sync_msg' = [op_code |-> op, msg_body |-> record']
    BY <1>2, <1>4 DEF OP_CODE
  <2>2. record'.destination = record.destination /\ record'.mask = record.mask
    BY <1>1, <1>4 DEF Draft
  <2>3. entry = "OIF"
    BY <1>4 DEF OifEntry
  <2>4. CASE op = "CREATE"
    <3>1. ~ routing_table_contains_dst_subnet(rtm, record.destination, record.mask)
      BY <1>1, <1>4, <2>3, <2>4 DEF CheckedSubnetCurrent
    <3>2. Applies(rtm, sync_msg')
      BY <2>1, <2>2, <2>4, <3>1 DEF Applies, routing_table_contains_dst_subnet
    <3> QED  BY <1>4, <2>1, <2>4, <3>2 DEF synchronize_with_server
  <2>5. CASE op = "UPDATE"
    <3>1. routing_table_contains_dst_subnet(rtm, record.destination, record.mask)
      BY <1>1, <1>4, <2>3, <2>5 DEF CheckedSubnetCurrent
    <3>2. Applies(rtm, sync_msg')
      BY <2>1, <2>2, <2>5, <3>1 DEF Applies, routing_table_contains_dst_subnet
    <3> QED  BY <1>4, <2>1, <2>5, <3>2 DEF synchronize_with_server
  <2> QED  BY <2>4, <2>5
<1>5. ASSUME NEW op \in {"CREATE", "UPDATE"}, OifEntry(op),
             state = IF op = "CREATE" THEN "CREATING" ELSE "UPDATING"
      PROVE  \/ UNCHANGED rtm /\ spc' # "sync"
             \/ /\ spc' = "sync" /\ pos' = 0
                /\ sync_msg' \in [op_code : OP_CODE, msg_body : Record]
                /\ Applies(rtm, sync_msg') /\ rtm' = synchronize_with_server(rtm, sync_msg')
  <2>1. CASE spc' = "select" /\ UNCHANGED rtm
    BY <2>1
  <2>2. ASSUME NEW o \in Oifs, record' = [record EXCEPT !.oif = o],
               rtm' = IF op = "CREATE" THEN routing_table_insert(rtm, record')
                                       ELSE routing_table_update(rtm, record'),
               Broadcast(op)
        PROVE  /\ spc' = "sync" /\ pos' = 0
               /\ sync_msg' \in [op_code : OP_CODE, msg_body : Record]
               /\ Applies(rtm, sync_msg') /\ rtm' = synchronize_with_server(rtm, sync_msg')
    BY <1>2, <1>4, <1>5, <2>2 DEF OP_CODE
  <2> QED  BY <1>5, <2>1, <2>2 DEF OifEntry
<1>6. CASE create_record
  BY <1>3, <1>5, <1>6 DEF create_record
<1>7. CASE update_record
  BY <1>3, <1>5, <1>7 DEF update_record
<1>8. CASE delete_record
  <2>1. ASSUME NEW d \in Destinations, NEW m \in Masks, record' = SubnetRead(d, m),
               SubnetKnown(d, m),
               rtm' = routing_table_delete(rtm, record'), Broadcast("DELETE")
        PROVE  /\ spc' = "sync" /\ pos' = 0
               /\ sync_msg' \in [op_code : OP_CODE, msg_body : Record]
               /\ Applies(rtm, sync_msg') /\ rtm' = synchronize_with_server(rtm, sync_msg')
    <3>1. /\ spc' = "sync" /\ pos' = 0
          /\ sync_msg' \in [op_code : OP_CODE, msg_body : Record]
          /\ sync_msg' = [op_code |-> "DELETE", msg_body |-> record']
      BY <1>2, <2>1 DEF OP_CODE
    <3>2. record'.destination = d /\ record'.mask = m
      BY <1>1, <2>1 DEF SubnetRead, Draft
    <3>3. Applies(rtm, sync_msg')
      BY <2>1, <3>1, <3>2 DEF Applies, SubnetKnown, routing_table_contains_dst_subnet
    <3> QED  BY <2>1, <3>1, <3>3 DEF synchronize_with_server
  <2>2. \/ SubnetRejected
        \/ spc' = "select" /\ UNCHANGED rtm
        \/ \E d \in Destinations, m \in Masks :
              /\ record' = SubnetRead(d, m) /\ SubnetKnown(d, m)
              /\ rtm' = routing_table_delete(rtm, record') /\ Broadcast("DELETE")
    BY <1>8 DEF delete_record
  <2> QED  BY <1>3, <2>1, <2>2
<1> QED  BY <1>3, <1>6, <1>7, <1>8 DEF handle_admin_input

\* A line is a commit, or concerns nobody but the dialogue.
LEMMA AdminTable ==
  ASSUME ControlInv, handle_admin_input
  PROVE  Quiet \/ \E m \in [op_code : OP_CODE, msg_body : Record] : Commits(m)
<1>1. /\ UNCHANGED <<mon, fdOf, chan, cpc, crtm>>
      /\ spc' \in {"select", "quit", "sync"} /\ spc \in {"admin", "flush"}
  BY AdminFrame
  DEF handle_admin_input, IdleInput, create_record, update_record, delete_record, LineRead
<1>2. TypeInv /\ chan \in [Clients -> Seq(Message)] /\ MAX_CLIENTS \in Nat
  BY MaxClientsAssumption DEF ControlInv, SlotsInv, TypeInv, TypeOK
<1>3. ServerUp /\ ServerUp' /\ \A c \in Clients : Connected(c)' <=> Connected(c)
  BY <1>1 DEF ServerUp, Ended, Connected
<1>4. CASE UNCHANGED rtm /\ spc' # "sync"
  BY <1>1, <1>2, <1>3, <1>4, QuietStep
<1>5. ASSUME spc' = "sync", pos' = 0,
             sync_msg' \in [op_code : OP_CODE, msg_body : Record],
             Applies(rtm, sync_msg'), rtm' = synchronize_with_server(rtm, sync_msg')
      PROVE  Commits(sync_msg')
  <2>1. \A c \in Clients : Monitored(c)' <=> Monitored(c)
    BY <1>1 DEF Monitored, Accepted
  <2>2. Subscribers' = Subscribers
    BY <1>3, <2>1 DEF Subscribers
  <2>3. ASSUME NEW c \in Clients
        PROVE  Due(c)' = IF c \in Subscribers THEN Append(Due(c), sync_msg') ELSE Due(c)
    <3>1. Owed(c) = << >>
      BY <1>1, NothingOwed
    <3>2. Owed(c)' = IF Monitored(c) THEN << sync_msg' >> ELSE << >>
      <4>1. Owed(c)' = IF /\ fdOf'[c] # NoFd
                          /\ \E i \in 0 .. (MAX_CLIENTS - 1) : mon'[i] = fdOf'[c]
                       THEN << sync_msg' >> ELSE << >>
        BY <1>5 DEF Owed, Accepted
      <4> QED  BY <1>1, <4>1 DEF Monitored, Accepted, Slots
    <3>3. chan[c] \in Seq(Message)
      BY <1>2
    <3>4. sync_msg' \in Message
      BY <1>5 DEF Message, Draft, Record
    <3>5. chan[c] \o << >> = chan[c] /\ Append(chan[c], sync_msg') = chan[c] \o << sync_msg' >>
      BY <3>3, <3>4, AppendIsConcat, ConcatEmptySeq
    <3>6. c \in Subscribers <=> Monitored(c) /\ Connected(c)
      BY <1>3 DEF Subscribers
    <3>7. CASE Connected(c)
      BY <1>1, <1>3, <3>1, <3>2, <3>5, <3>6, <3>7 DEF Due, InFlight
    <3>8. CASE ~ Connected(c)
      BY <1>3, <3>6, <3>8 DEF Due
    <3> QED  BY <3>7, <3>8
  <2> QED  BY <1>1, <1>5, <2>2, <2>3 DEF Commits
<1> QED  BY <1>4, <1>5, LineCommits

\* A step of one client: what the server holds, owes and watches is unchanged.
LEMMA ClientFrame ==
  ASSUME NEW c \in Clients, UNCHANGED unchangedServer,
         \A e \in Clients \ {c} : chan'[e] = chan[e] /\ cpc'[e] = cpc[e] /\ crtm'[e] = crtm[e]
  PROVE  /\ UNCHANGED rtm /\ SameTables(Clients \ {c})
         /\ \A e \in Clients : Owed(e)' = Owed(e)
         /\ Subscribers' \ {c} = Subscribers \ {c}
         /\ (Connected(c)' <=> Connected(c)) => Subscribers' = Subscribers
         /\ ~ Connected(c)' => c \notin Subscribers'
<1>1. UNCHANGED <<spc, rtm, mon, sync_msg, data_socket, pos, fdOf>>
  BY DEF unchangedServer, sending
<1>2. CreateMessages(rtm)' = CreateMessages(rtm)
  BY <1>1 DEF CreateMessages
<1>3. \A e \in Clients : Owed(e)' = Owed(e)
  BY <1>1, <1>2 DEF Owed, Accepted
<1>4. \A e \in Clients \ {c} : Connected(e)' <=> Connected(e)
  BY DEF Connected
<1>5. \A e \in Clients : Monitored(e)' <=> Monitored(e)
  BY <1>1 DEF Monitored, Accepted
<1>6. ServerUp' <=> ServerUp
  BY <1>1 DEF ServerUp
<1>7. \A e \in Clients \ {c} : Due(e)' = Due(e)
  BY <1>3, <1>4 DEF Due, InFlight
<1>8. /\ Subscribers' \ {c} = Subscribers \ {c}
      /\ (Connected(c)' <=> Connected(c)) => Subscribers' = Subscribers
      /\ ~ Connected(c)' => c \notin Subscribers'
  BY <1>4, <1>5, <1>6 DEF Subscribers
<1> QED  BY <1>1, <1>3, <1>7, <1>8 DEF SameTables

\* A client process that ends leaves.
LEMMA EndTable ==
  ASSUME ControlInv, NEW c \in Clients, NEW how \in Ended, ClientEnds(c, how)
  PROVE  Leaves(c)
<1>1. /\ chan \in [Clients -> Seq(Message)] /\ cpc \in [Clients -> ClientStates]
      /\ crtm \in [Clients -> Seq(Draft)]
  BY DEF ControlInv, SlotsInv, TypeInv, TypeOK
<1>2. /\ UNCHANGED unchangedServer /\ cpc'[c] = how /\ crtm'[c] = << >>
      /\ \A e \in Clients \ {c} : chan'[e] = chan[e] /\ cpc'[e] = cpc[e] /\ crtm'[e] = crtm[e]
  BY <1>1 DEF ClientEnds
<1>3. ~ Connected(c)'
  BY <1>2 DEF Connected, Ended
<1>4. Due(c)' = << >>
  BY <1>3 DEF Due
<1>5. /\ UNCHANGED rtm /\ SameTables(Clients \ {c})
      /\ Subscribers' \ {c} = Subscribers \ {c}
      /\ ~ Connected(c)' => c \notin Subscribers'
  BY <1>2, ClientFrame
<1>6. Subscribers' = Subscribers \ {c}
  BY <1>3, <1>5
<1> QED  BY <1>2, <1>4, <1>5, <1>6 DEF Leaves

\* Steps of a client that read nothing.
LEMMA IdleClientTable ==
  ASSUME ControlInv, NEW c \in Clients, Connect(c) \/ ClientStart(c) \/ ClientEof(c)
  PROVE  Quiet
<1>1. TypeInv /\ EmptyInv /\ BacklogInv
      /\ chan \in [Clients -> Seq(Message)] /\ cpc \in [Clients -> ClientStates]
  BY DEF ControlInv, SlotsInv, TypeInv, TypeOK
<1>2. /\ UNCHANGED <<unchangedServer, chan, crtm>>
      /\ cpc' = [cpc EXCEPT ![c] = cpc'[c]]
      /\ cpc'[c] \in {"connected", "running", "closing"}
  BY <1>1 DEF Connect, ClientStart, ClientEof
<1>3. /\ UNCHANGED rtm /\ SameTables(Clients \ {c})
      /\ \A e \in Clients : Owed(e)' = Owed(e)
      /\ Subscribers' \ {c} = Subscribers \ {c}
      /\ (Connected(c)' <=> Connected(c)) => Subscribers' = Subscribers
  BY <1>1, <1>2, ClientFrame
<1>4. Connected(c)'
  BY <1>2 DEF Connected
<1>5. Connected(c) => Due(c)' = Due(c)
  BY <1>2, <1>3, <1>4 DEF Due, InFlight
<1>6. ~ Connected(c) => Due(c)' = Due(c) /\ Subscribers' = Subscribers
  <2> SUFFICES ASSUME ~ Connected(c)
               PROVE  Due(c)' = Due(c) /\ Subscribers' = Subscribers
    OBVIOUS
  <2>1. Connect(c)
    BY DEF ClientStart, ClientEof, Connected
  <2>2. fdOf[c] = NoFd /\ fdOf'[c] = NoFd
    BY <1>1, <1>2, <2>1 DEF Connect, BacklogInv, unchangedServer
  <2>3. Owed(c) = << >> /\ chan[c] = << >>
    BY <1>1, <2>2 DEF Owed, Accepted, EmptyInv
  <2>4. Due(c)' = Due(c)
    BY <1>2, <1>3, <1>4, <2>3 DEF Due, InFlight
  <2>5. c \notin Subscribers /\ c \notin Subscribers'
    BY <2>2 DEF Subscribers, Monitored, Accepted
  <2> QED  BY <1>3, <2>4, <2>5
<1> QED  BY <1>2, <1>3, <1>4, <1>5, <1>6 DEF Quiet, SameTables

\* A client that reads a message catches up by one.
LEMMA SyncTable ==
  ASSUME ControlInv, NEW c \in Clients, ClientSync(c)
  PROVE  CatchesUp(c)
<1>1. TypeInv /\ chan \in [Clients -> Seq(Message)] /\ crtm \in [Clients -> Seq(Draft)]
  BY DEF ControlInv, SlotsInv, TypeInv, TypeOK
<1>2. /\ UNCHANGED <<unchangedServer, cpc>> /\ cpc[c] = "running" /\ chan[c] # << >>
      /\ crtm'[c] = synchronize_with_server(crtm[c], Head(chan[c]))
      /\ chan'[c] = Tail(chan[c])
      /\ \A e \in Clients \ {c} : chan'[e] = chan[e] /\ cpc'[e] = cpc[e] /\ crtm'[e] = crtm[e]
  BY <1>1 DEF ClientSync
<1>3. /\ UNCHANGED rtm /\ SameTables(Clients \ {c})
      /\ \A e \in Clients : Owed(e)' = Owed(e)
      /\ (Connected(c)' <=> Connected(c)) => Subscribers' = Subscribers
  BY <1>2, ClientFrame
<1>4. Connected(c) /\ Connected(c)'
  BY <1>2 DEF Connected
<1> DEFINE s == chan[c]
           t == Owed(c)
<1>5. s \in Seq(Message) /\ t \in Seq(Message) /\ s # << >>
  BY <1>1, <1>2, OwedType
<1>6. Due(c) = s \o t /\ Due(c)' = Tail(s) \o t
  BY <1>2, <1>3, <1>4 DEF Due, InFlight
<1>7. crtm'[c] = synchronize_with_server(crtm[c], Head(s))
  BY <1>2
<1> HIDE DEF s, t
<1>8. s \o t # << >> /\ Head(s \o t) = Head(s) /\ Tail(s \o t) = Tail(s) \o t
  BY <1>5, HeadTailOfConcat
<1> QED  BY <1>3, <1>4, <1>6, <1>7, <1>8 DEF CatchesUp

-----------------------------------------------------------------------------
\* Every step, sorted by what it may touch.
Idle ==
    /\ UNCHANGED <<rtm, chan, cpc, crtm, fdOf, mon>>
    /\ spc \notin {"dump", "sync"} /\ spc' \notin {"dump", "sync"}
    /\ ServerUp /\ ServerUp'

ServerEnds == spc' \in Ended /\ rtm' = << >> /\ UNCHANGED <<chan, cpc, crtm, fdOf>>

\* Every step is of one of these kinds.
LEMMA NextCases ==
  ASSUME [Next]_vars
  PROVE  \/ UNCHANGED vars
         \/ Idle \/ ServerEnds
         \/ handle_connection_initiation_request
         \/ dump_rtm_contents \/ send_synchronization_message
         \/ handle_admin_input
         \/ \E c \in Clients :
              \/ Connect(c) \/ ClientStart(c) \/ ClientEof(c) \/ ClientSync(c)
              \/ \E how \in Ended : ClientEnds(c, how)
<1>1. ASSUME Startup \/ SelectConnection \/ SelectConsole \/ NoNewline \/ FlushAtEof
      PROVE  Idle
  BY <1>1
  DEF Startup, SelectConnection, SelectConsole, NoNewline, FlushAtEof, Idle, ServerUp, Ended,
      sockets, clients
<1>2. ASSUME AcceptFails \/ Quit \/ ServerSigint
      PROVE  ServerEnds
  BY <1>2
  DEF AcceptFails, Quit, ServerSigint, shutdown_server, ServerEnds, Ended, sockets, clients
<1>3. ASSUME NEW c \in Clients, ClientStep(c) \/ Connect(c) \/ ConnectRefused(c) \/ ClientSigint(c)
      PROVE  \/ Connect(c) \/ ClientStart(c) \/ ClientEof(c) \/ ClientSync(c)
             \/ \E how \in Ended : ClientEnds(c, how)
  BY <1>3 DEF ClientStep, ConnectRefused, ClientSigint, ClientReset, shutdown_client, Ended
<1> QED
  BY <1>1, <1>2, <1>3 DEF Next, ServerStep, Environment

\* Nobody is connected initially.
LEMMA EmptyInit == Init => EmptyInv
BY DEF Init, EmptyInv

\* Messages only go to accepted connections, and only a connected client reads.
LEMMA EmptyStep ==
  ASSUME ControlInv, [Next]_vars
  PROVE  EmptyInv'
<1>1. /\ EmptyInv /\ SlotsInv /\ BacklogInv /\ cpc \in [Clients -> ClientStates]
      /\ chan \in [Clients -> Seq(Message)] /\ crtm \in [Clients -> Seq(Draft)]
      /\ fdOf \in [Clients -> Int]
  BY DEF ControlInv, SlotsInv, TypeInv, TypeOK
<1>2. ASSUME UNCHANGED <<chan, crtm>>,
             \A c \in Clients : Connected(c) /\ Accepted(c) => Connected(c)' /\ Accepted(c)'
      PROVE  EmptyInv'
  BY <1>1, <1>2 DEF EmptyInv
<1>3. CASE UNCHANGED <<chan, cpc, crtm, fdOf>>
  BY <1>2, <1>3 DEF Connected, Accepted
<1>4. CASE handle_connection_initiation_request
  <2>1. PICK h \in Clients, fd \in Int :
          /\ fd > connection_socket /\ fdOf' = [fdOf EXCEPT ![h] = fd]
          /\ UNCHANGED <<chan, cpc, crtm>>
    BY <1>1, <1>4, AcceptEffect
  <2>2. \A c \in Clients : fdOf[c] # NoFd => fdOf'[c] # NoFd
    BY <1>1, <2>1 DEF NoFd, connection_socket
  <2> QED  BY <1>2, <2>1, <2>2 DEF Connected, Accepted
<1>5. CASE dump_rtm_contents \/ send_synchronization_message
  <2>1. UNCHANGED <<cpc, crtm, fdOf>>
    BY <1>5 DEF dump_rtm_contents, send_synchronization_message, clients
  <2>2. ASSUME NEW m, NEW fd, fd # NoFd, _send_synchronization_message(m, fd)
        PROVE  EmptyInv'
    <3>1. PICK x \in Clients : fdOf[x] = fd /\
            \/ Connected(x) /\ chan' = [chan EXCEPT ![x] = Append(@, m)]
            \/ chan' = chan
      BY <2>2 DEF _send_synchronization_message
    <3>2. \A c \in Clients : chan'[c] = chan[c] \/ (Connected(c) /\ Accepted(c))
      BY <1>1, <2>2, <3>1 DEF Accepted
    <3> QED  BY <1>1, <2>1, <3>2 DEF EmptyInv, Connected, Accepted
  <2>3. CASE dump_rtm_contents
    <3>1. data_socket # NoFd
      BY <1>1, <2>3 DEF dump_rtm_contents, SlotsInv, DumpInv, TypeInv, TypeOK,
                        connection_socket, NoFd
    <3> QED  BY <2>2, <2>3, <3>1 DEF dump_rtm_contents
  <2>4. CASE send_synchronization_message /\ IsClientSlot(pos)
    <3>1. mon[pos] # NoFd
      BY <2>4 DEF IsClientSlot, NoFd
    <3> QED  BY <2>2, <2>4, <3>1 DEF send_synchronization_message
  <2>5. CASE send_synchronization_message /\ ~ IsClientSlot(pos)
    BY <1>3, <2>1, <2>5 DEF send_synchronization_message
  <2> QED  BY <1>5, <2>3, <2>4, <2>5
<1>6. ASSUME NEW c \in Clients, Connect(c) \/ ClientStart(c) \/ ClientEof(c)
      PROVE  EmptyInv'
  <2>1. /\ UNCHANGED <<chan, crtm, fdOf>> /\ cpc' = [cpc EXCEPT ![c] = cpc'[c]]
        /\ cpc'[c] \in {"connected", "running", "closing"}
    BY <1>1, <1>6 DEF Connect, ClientStart, ClientEof, unchangedServer
  <2> QED  BY <1>1, <1>2, <2>1 DEF Connected, Accepted
<1>7. ASSUME NEW c \in Clients, ClientSync(c)
      PROVE  EmptyInv'
  <2>1. /\ UNCHANGED <<cpc, fdOf>> /\ chan[c] # << >>
        /\ \A e \in Clients \ {c} : chan'[e] = chan[e] /\ crtm'[e] = crtm[e]
    BY <1>1, <1>7 DEF ClientSync, unchangedServer
  <2>2. Connected(c) /\ Accepted(c)
    BY <1>1, <2>1 DEF EmptyInv
  <2> QED  BY <1>1, <2>1, <2>2 DEF EmptyInv, Connected, Accepted
<1>8. ASSUME NEW c \in Clients, NEW how \in Ended, ClientEnds(c, how)
      PROVE  EmptyInv'
  <2>1. /\ UNCHANGED fdOf /\ chan'[c] = << >> /\ crtm'[c] = << >>
        /\ \A e \in Clients \ {c} : chan'[e] = chan[e] /\ cpc'[e] = cpc[e] /\ crtm'[e] = crtm[e]
    BY <1>1, <1>8 DEF ClientEnds, unchangedServer
  <2> QED  BY <1>1, <2>1 DEF EmptyInv, Connected, Accepted
<1>9. CASE UNCHANGED vars \/ Idle \/ ServerEnds
  BY <1>3, <1>9 DEF vars, sockets, clients, Idle, ServerEnds
<1>10. CASE handle_admin_input
  BY <1>3, <1>10, AdminFrame
<1> QED
  BY <1>4, <1>5, <1>6, <1>7, <1>8, <1>9, <1>10, NextCases

\* Slots, dialogue and connections together are inductive.
LEMMA ControlInvariant == Spec => []ControlInv
<1>1. Init => ControlInv
  BY SlotsInit, DialogueInit, EmptyInit DEF ControlInv
<1>2. ControlInv /\ [Next]_vars => ControlInv'
  <2> SUFFICES ASSUME ControlInv, [Next]_vars PROVE ControlInv'
    OBVIOUS
  <2>1. TypeInv /\ SlotsInv /\ DialogueInv
    BY DEF ControlInv, SlotsInv
  <2> QED  BY <2>1, SlotsStep, DialogueStep, EmptyStep DEF ControlInv
<1> QED  BY <1>1, <1>2, PTL DEF Spec

\* Every step of Rtm is one of the kinds TableStep lists.
LEMMA EveryTableStep ==
  ASSUME ControlInv, [Next]_vars
  PROVE  TableStep
<1>1. CASE UNCHANGED vars
  <2>1. UNCHANGED <<spc, rtm, mon, sync_msg, data_socket, pos, fdOf, chan, cpc, crtm>>
    BY <1>1 DEF vars, sending, sockets, clients
  <2>2. Subscribers' = Subscribers
    BY <2>1 DEF Subscribers, ServerUp, Monitored, Accepted, Connected
  <2>3. \A c \in Clients : Owed(c)' = Owed(c)
    BY <2>1 DEF Owed, Accepted, CreateMessages
  <2>4. \A c \in Clients : Due(c)' = Due(c)
    BY <2>1, <2>3 DEF Due, InFlight, Connected
  <2> QED  BY <2>1, <2>2, <2>4 DEF TableStep, Quiet, SameTables
<1>2. CASE Idle
  <2>1. TypeInv
    BY DEF ControlInv, SlotsInv
  <2> QED  BY <1>2, <2>1, QuietStep DEF TableStep, Idle
<1>3. CASE ServerEnds
  BY <1>3, StopTable DEF TableStep, ServerEnds
<1>4. CASE handle_connection_initiation_request
  BY <1>4, AcceptTable DEF TableStep
<1>5. CASE dump_rtm_contents \/ send_synchronization_message
  BY <1>5, DumpIsQuiet, SyncIsQuiet DEF TableStep
<1>6. CASE handle_admin_input
  BY <1>6, AdminTable DEF TableStep
<1>7. ASSUME NEW c \in Clients,
             \/ Connect(c) \/ ClientStart(c) \/ ClientEof(c) \/ ClientSync(c)
             \/ \E how \in Ended : ClientEnds(c, how)
      PROVE  TableStep
  BY <1>7, IdleClientTable, SyncTable, EndTable DEF TableStep
<1> QED
  BY <1>1, <1>2, <1>3, <1>4, <1>5, <1>6, <1>7, NextCases

-----------------------------------------------------------------------------
(***************************************************************************)
(* A list and the messages that are still to be applied to it.             *)
(***************************************************************************)
CompleteMessage == [op_code : OP_CODE, msg_body : Record]

\* Each message applies when its turn comes, to a list with one record a subnet.
Sound(rt, s) ==
    /\ rt \in Seq(Record) /\ UniqueSubnets(rt)
    /\ s \in Seq(CompleteMessage)
    /\ \A i \in 1 .. Len(s) : Applies(Views(rt, s)[i - 1], s[i])

\* No message: nothing to apply.
LEMMA SoundEmpty ==
  ASSUME NEW rt \in Seq(Record), UniqueSubnets(rt)
  PROVE  Sound(rt, << >>) /\ Replay(rt, << >>) = rt
<1>1. << >> \in Seq(CompleteMessage) /\ Len(<< >>) = 0
  BY EmptySeq
<1>2. Turns(Views(rt, << >>), rt, << >>, Len(<< >>))
  BY <1>1, ViewTurns
<1>3. Views(rt, << >>)[0] = rt
  BY <1>2 DEF Turns
<1>4. \A i \in 1 .. Len(<< >>) : FALSE
  BY <1>1
<1> QED  BY <1>1, <1>3, <1>4 DEF Sound, Replay

\* Messages that are lost behind the first n do not matter to those.
LEMMA SoundPrefix ==
  ASSUME NEW rt, NEW s, Sound(rt, s), NEW n \in 0 .. Len(s)
  PROVE  Sound(rt, SubSeq(s, 1, n))
<1> DEFINE t == SubSeq(s, 1, n)
<1>1. s \in Seq(CompleteMessage) /\ Len(s) \in Nat
  BY DEF Sound
<1>2. t \in Seq(CompleteMessage) /\ Len(t) = n /\ \A i \in 1 .. n : t[i] = s[i]
  BY <1>1
<1> HIDE DEF t
<1>3. \A i \in 0 .. Len(t) : Views(rt, t)[i] = Views(rt, s)[i]
  BY <1>1, <1>2, ViewsOfPrefix
<1>4. \A i \in 1 .. n : i - 1 \in 0 .. n /\ i \in 1 .. Len(s)
  BY <1>1
<1>5. Sound(rt, t)
  BY <1>2, <1>3, <1>4 DEF Sound
<1> QED  BY <1>5 DEF t

\* Applying the first message leaves the rest sound, with the same end.
LEMMA SoundTail ==
  ASSUME NEW rt, NEW s, Sound(rt, s), s # << >>
  PROVE  /\ Sound(synchronize_with_server(rt, Head(s)), Tail(s))
         /\ Replay(synchronize_with_server(rt, Head(s)), Tail(s)) = Replay(rt, s)
<1> DEFINE u == synchronize_with_server(rt, Head(s))
           t == Tail(s)
<1>1. s \in Seq(CompleteMessage) /\ Len(s) \in Nat /\ Len(s) >= 1 /\ rt \in Seq(Record)
      /\ UniqueSubnets(rt)
  BY EmptySeq DEF Sound
<1>2. /\ t \in Seq(CompleteMessage) /\ Len(t) = Len(s) - 1 /\ Head(s) = s[1]
      /\ \A i \in 1 .. Len(s) - 1 : t[i] = s[i + 1]
  BY <1>1, HeadTailProperties
<1>3. \A i \in 0 .. Len(s) - 1 : Views(u, t)[i] = Views(rt, s)[i + 1]
  BY <1>1, ViewsOfTail
<1>4. Views(rt, s)[0] = rt
  BY <1>1, ViewTurns DEF Turns
<1>5. Applies(rt, Head(s)) /\ Head(s) \in CompleteMessage
  <2>1. 1 \in 1 .. Len(s) /\ 1 - 1 = 0
    BY <1>1
  <2> QED  BY <1>1, <1>2, <1>4, <2>1, ElementOfSeq DEF Sound
<1>6. u \in Seq(Record) /\ UniqueSubnets(u)
  BY <1>1, <1>5, RecordIsRecordsOf, SyncType, SyncKeepsUnique DEF CompleteMessage
<1> HIDE DEF u, t
<1>7. \A i \in 1 .. Len(t) : Applies(Views(u, t)[i - 1], t[i])
  <2> SUFFICES ASSUME NEW i \in 1 .. Len(t) PROVE Applies(Views(u, t)[i - 1], t[i])
    OBVIOUS
  <2>1. i + 1 \in 1 .. Len(s) /\ (i + 1) - 1 = i /\ i - 1 \in 0 .. Len(s) - 1 /\ (i - 1) + 1 = i
    BY <1>1, <1>2
  <2>2. Views(u, t)[i - 1] = Views(rt, s)[i]
    BY <1>3, <2>1
  <2>3. t[i] = s[i + 1]
    BY <1>2
  <2>4. Applies(Views(rt, s)[(i + 1) - 1], s[i + 1])
    BY <2>1 DEF Sound
  <2> QED  BY <2>1, <2>2, <2>3, <2>4
<1>8. Sound(u, t)
  BY <1>2, <1>6, <1>7 DEF Sound
<1>9. Replay(u, t) = Replay(rt, s)
  <2>1. Len(s) - 1 \in 0 .. Len(s) - 1 /\ (Len(s) - 1) + 1 = Len(s)
    BY <1>1
  <2> QED  BY <1>2, <1>3, <2>1 DEF Replay
<1> QED  BY <1>8, <1>9 DEF u, t

\* A message that applies to the end can be added.
LEMMA SoundAppend ==
  ASSUME NEW rt, NEW s, Sound(rt, s), NEW m \in CompleteMessage, Applies(Replay(rt, s), m)
  PROVE  /\ Sound(rt, Append(s, m))
         /\ Replay(rt, Append(s, m)) = synchronize_with_server(Replay(rt, s), m)
<1> DEFINE t == Append(s, m)
<1>1. s \in Seq(CompleteMessage) /\ rt \in Seq(Record) /\ UniqueSubnets(rt)
  BY DEF Sound
<1>2. /\ t \in Seq(CompleteMessage) /\ Len(t) = Len(s) + 1 /\ Len(s) \in Nat
      /\ (\A i \in 1 .. Len(s) : t[i] = s[i]) /\ t[Len(s) + 1] = m
  BY <1>1, AppendProperties
<1>3. /\ \A i \in 0 .. Len(s) : Views(rt, t)[i] = Views(rt, s)[i]
      /\ Views(rt, t)[Len(s) + 1] = synchronize_with_server(Replay(rt, s), m)
  BY <1>1, ViewsOfAppend
<1> HIDE DEF t
<1>4. ASSUME NEW i \in 1 .. Len(t)
      PROVE  Applies(Views(rt, t)[i - 1], t[i])
  <2>1. CASE i \in 1 .. Len(s)
    <3>1. Views(rt, t)[i - 1] = Views(rt, s)[i - 1]
      BY <1>2, <1>3, <2>1
    <3>2. Applies(Views(rt, s)[i - 1], s[i])
      BY <2>1 DEF Sound
    <3> QED  BY <1>2, <2>1, <3>1, <3>2
  <2>2. CASE i = Len(s) + 1
    <3>1. i - 1 = Len(s) /\ Len(s) \in 0 .. Len(s)
      BY <1>2, <2>2
    <3>2. Views(rt, t)[i - 1] = Replay(rt, s)
      BY <1>3, <3>1 DEF Replay
    <3>3. t[i] = m
      BY <1>2, <2>2
    <3> QED  BY <3>2, <3>3
  <2> QED  BY <1>2, <2>1, <2>2
<1>5. Sound(rt, t)
  BY <1>1, <1>2, <1>4 DEF Sound
<1>6. Replay(rt, t) = synchronize_with_server(Replay(rt, s), m)
  BY <1>2, <1>3 DEF Replay
<1> QED  BY <1>5, <1>6 DEF t

\* A dump is sound from nothing, and ends in the list.
LEMMA SoundDump ==
  ASSUME NEW rt \in Seq(Record), UniqueSubnets(rt)
  PROVE  Sound(<< >>, CreateMessages(rt)) /\ Replay(<< >>, CreateMessages(rt)) = rt
<1>1. CreateMessages(rt) \in Seq(CompleteMessage) /\ Len(CreateMessages(rt)) = Len(rt)
  BY RecordIsRecordsOf, CreateMessagesType DEF CompleteMessage
<1>2. \A i \in 1 .. Len(rt) :
        Applies(Views(<< >>, CreateMessages(rt))[i - 1], CreateMessages(rt)[i])
  BY RecordIsRecordsOf, DumpApplies
<1>3. << >> \in Seq(Record) /\ UniqueSubnets(<< >>)
  BY EmptySeq DEF UniqueSubnets
<1>4. Replay(<< >>, CreateMessages(rt)) = rt
  <2>1. Len(rt) \in 0 .. Len(rt)
    BY LenProperties
  <2>2. Views(<< >>, CreateMessages(rt))[Len(rt)] = SubSeq(rt, 1, Len(rt))
    BY <2>1, RecordIsRecordsOf, ViewsOfDump
  <2>3. SubSeq(rt, 1, Len(rt)) = rt
    BY SubSeqFull
  <2> QED  BY <1>1, <2>2, <2>3 DEF Replay
<1> QED  BY <1>1, <1>2, <1>3, <1>4 DEF Sound

(***************************************************************************)
(* What is true of the tables, with what a client has still to apply.      *)
(***************************************************************************)
DataInv ==
    /\ rtm \in Seq(Record) /\ UniqueSubnets(rtm)
    /\ \A c \in Clients : Sound(crtm[c], Due(c))
    /\ \A c \in Subscribers : Replay(crtm[c], Due(c)) = rtm

\* Every list is empty initially.
LEMMA DataInit == Init => DataInv
<1> SUFFICES ASSUME Init PROVE DataInv
  OBVIOUS
<1>1. /\ rtm = << >> /\ \A c \in Clients : ~ Connected(c) /\ crtm[c] = << >>
  BY DEF Init, Connected
<1>2. \A c \in Clients : Due(c) = << >>
  BY <1>1 DEF Due
<1>3. Subscribers = {}
  BY <1>1 DEF Subscribers
<1>4. << >> \in Seq(Record) /\ UniqueSubnets(<< >>)
  BY EmptySeq DEF UniqueSubnets
<1> QED  BY <1>1, <1>2, <1>3, <1>4, SoundEmpty DEF DataInv

\* Every kind of step keeps the lists sound.
LEMMA DataStep ==
  ASSUME DataInv, TableStep
  PROVE  DataInv'
<1>0. Subscribers \subseteq Clients /\ Subscribers' \subseteq Clients
  BY DEF Subscribers
<1>1. CASE Quiet
  <2>1. \A c \in Clients : Sound(crtm'[c], Due(c)')
    BY <1>1 DEF Quiet, SameTables, DataInv
  <2>2. \A c \in Subscribers' : Replay(crtm'[c], Due(c)') = rtm'
    BY <1>0, <1>1 DEF Quiet, SameTables, DataInv
  <2> QED  BY <1>1, <2>1, <2>2 DEF Quiet, DataInv
<1>2. CASE Stops
  <2>1. ASSUME NEW c \in Clients
        PROVE  Sound(crtm'[c], Due(c)')
    BY <1>2, SoundPrefix DEF Stops, DataInv
  <2>2. rtm' \in Seq(Record) /\ UniqueSubnets(rtm')
    BY <1>2, EmptySeq DEF Stops, UniqueSubnets
  <2> QED  BY <1>2, <2>1, <2>2 DEF Stops, DataInv
<1>3. ASSUME NEW c \in Clients, Joins(c)
      PROVE  DataInv'
  <2>1. Sound(crtm'[c], Due(c)') /\ Replay(crtm'[c], Due(c)') = rtm
    BY <1>3, SoundDump DEF Joins, DataInv
  <2>2. \A e \in Clients \ {c} : crtm'[e] = crtm[e] /\ Due(e)' = Due(e)
    BY <1>3 DEF Joins, SameTables
  <2>3. \A e \in Subscribers' : e = c \/ e \in Subscribers
    BY <1>3 DEF Joins
  <2>4. \A e \in Clients : Sound(crtm'[e], Due(e)')
    BY <2>1, <2>2 DEF DataInv
  <2>5. \A e \in Subscribers' : Replay(crtm'[e], Due(e)') = rtm
    BY <1>0, <2>1, <2>2, <2>3 DEF DataInv
  <2> QED  BY <1>3, <2>4, <2>5 DEF Joins, DataInv
<1>4. ASSUME NEW c \in Clients, CatchesUp(c)
      PROVE  DataInv'
  <2>1. Sound(crtm'[c], Due(c)') /\ Replay(crtm'[c], Due(c)') = Replay(crtm[c], Due(c))
    BY <1>4, SoundTail DEF CatchesUp, DataInv
  <2>2. \A e \in Clients \ {c} : crtm'[e] = crtm[e] /\ Due(e)' = Due(e)
    BY <1>4 DEF CatchesUp, SameTables
  <2>3. \A e \in Clients : Sound(crtm'[e], Due(e)')
    BY <2>1, <2>2 DEF DataInv
  <2>4. \A e \in Subscribers' : Replay(crtm'[e], Due(e)') = rtm
    BY <1>0, <1>4, <2>1, <2>2 DEF CatchesUp, DataInv
  <2> QED  BY <1>4, <2>3, <2>4 DEF CatchesUp, DataInv
<1>5. ASSUME NEW c \in Clients, Leaves(c)
      PROVE  DataInv'
  <2>1. Sound(crtm'[c], Due(c)')
    <3>1. << >> \in Seq(Record) /\ UniqueSubnets(<< >>)
      BY EmptySeq DEF UniqueSubnets
    <3> QED  BY <1>5, <3>1, SoundEmpty DEF Leaves
  <2>2. \A e \in Clients \ {c} : crtm'[e] = crtm[e] /\ Due(e)' = Due(e)
    BY <1>5 DEF Leaves, SameTables
  <2>3. \A e \in Clients : Sound(crtm'[e], Due(e)')
    BY <2>1, <2>2 DEF DataInv
  <2>4. \A e \in Subscribers' : Replay(crtm'[e], Due(e)') = rtm
    BY <1>0, <1>5, <2>2 DEF Leaves, DataInv
  <2> QED  BY <1>5, <2>3, <2>4 DEF Leaves, DataInv
<1>6. ASSUME NEW m \in CompleteMessage, Commits(m)
      PROVE  DataInv'
  <2>1. rtm' \in Seq(Record) /\ UniqueSubnets(rtm')
    BY <1>6, RecordIsRecordsOf, SyncType, SyncKeepsUnique DEF Commits, DataInv, CompleteMessage
  <2>2. ASSUME NEW c \in Subscribers
        PROVE  Sound(crtm'[c], Due(c)') /\ Replay(crtm'[c], Due(c)') = rtm'
    <3>1. Sound(crtm[c], Due(c)) /\ Replay(crtm[c], Due(c)) = rtm /\ Applies(rtm, m)
      BY <1>0, <1>6, <2>2 DEF DataInv, Commits
    <3>2. /\ Sound(crtm[c], Append(Due(c), m))
          /\ Replay(crtm[c], Append(Due(c), m)) = synchronize_with_server(rtm, m)
      BY <1>6, <3>1, SoundAppend
    <3> QED  BY <1>0, <1>6, <2>2, <3>2 DEF Commits
  <2>3. \A c \in Clients : Sound(crtm'[c], Due(c)')
    BY <1>6, <2>2 DEF Commits, DataInv
  <2>4. \A c \in Subscribers' : Replay(crtm'[c], Due(c)') = rtm'
    BY <1>6, <2>2 DEF Commits
  <2> QED  BY <2>1, <2>3, <2>4 DEF DataInv
<1> QED
  BY <1>1, <1>2, <1>3, <1>4, <1>5, <1>6 DEF TableStep, CompleteMessage

\* The inductive invariant of the tables.
LEMMA DataInvariant == Spec => [](ControlInv /\ DataInv)
<1>1. ControlInv /\ DataInv /\ [Next]_vars => DataInv'
  BY EveryTableStep, DataStep
<1> QED  BY <1>1, DataInit, ControlInvariant, PTL DEF Spec

\* The line that asked whether the table has the subnet was answered truly, and
\* the answer is still true when the record is stored, connections accepted in
\* between or not.
THEOREM AnswerStaysTrue == Spec => []CheckedSubnetCurrent
<1>1. ControlInv => CheckedSubnetCurrent
  BY DEF ControlInv, DialogueInv
<1> QED  BY <1>1, ControlInvariant, PTL

\* Only fields the administrator typed are stored or sent, though main leaves
\* `record' uninitialised.
THEOREM NothingUninitialised == Spec => []Initialised
<1>1. ControlInv /\ DataInv => Initialised
  <2> SUFFICES ASSUME ControlInv, DataInv PROVE Initialised
    OBVIOUS
  <2>1. /\ TypeInv /\ EmptyInv /\ chan \in [Clients -> Seq(Message)]
    BY DEF ControlInv, SlotsInv, TypeInv, TypeOK
  <2>2. ASSUME NEW c \in Clients
        PROVE  chan[c] \in Seq(CompleteMessage)
    <3>1. CASE Connected(c)
      <4> DEFINE s == chan[c]
                 t == Owed(c)
      <4>1. s \in Seq(Message) /\ t \in Seq(Message)
        BY <2>1, OwedType
      <4>2. s \o t \in Seq(CompleteMessage)
        BY <3>1 DEF DataInv, Sound, Due, InFlight
      <4> HIDE DEF s, t
      <4>3. SubSeq(s \o t, 1, Len(s)) = s
        BY <4>1, ConcatPrefix
      <4>4. Len(s) \in 0 .. Len(s \o t)
        BY <4>1, ConcatProperties, LenProperties
      <4>5. s \in Seq(CompleteMessage)
        BY <4>2, <4>3, <4>4, SubSeqProperties
      <4> QED  BY <4>5 DEF s
    <3>2. CASE ~ Connected(c)
      BY <2>1, <3>2, EmptySeq DEF EmptyInv
    <3> QED  BY <3>1, <3>2
  <2> QED  BY <2>1, <2>2 DEF Initialised, DataInv, CompleteMessage
<1> QED  BY <1>1, DataInvariant, PTL

\* No list, the server's or a client's, ever has two records for a subnet.
THEOREM KeysUnique == Spec => []UniqueKeys
<1>1. DataInv => UniqueKeys
  BY DEF DataInv, Sound, UniqueKeys
<1> QED  BY <1>1, DataInvariant, PTL

\* A client never inserts what it has, and never updates or deletes what it has not.
THEOREM MessagesApply == Spec => []EveryMessageApplies
<1>1. DataInv => EveryMessageApplies
  BY DEF DataInv, Sound, EveryMessageApplies, Due
<1> QED  BY <1>1, DataInvariant, PTL

\* The copy of a monitored client is late, never wrong.
THEOREM CopiesInSync == Spec => []InSync
<1>1. DataInv => InSync
  BY DEF DataInv, InSync, Subscribers, Due
<1> QED  BY <1>1, DataInvariant, PTL
-----------------------------------------------------------------------------
(***************************************************************************)
(* The refinement.  The lists ahead of a client, from its own to the last. *)
(***************************************************************************)
Walk(rt, s) == [i \in 1 .. (Len(s) + 1) |-> Views(rt, s)[i - 1]]

OnlyEmpty == << << >> >>

\* Nothing is ahead of a client that knows nothing and is told nothing.
LEMMA WalkNothing == Walk(<< >>, << >>) = OnlyEmpty
<1>1. << >> \in Seq(CompleteMessage) /\ Len(<< >>) = 0
  BY EmptySeq
<1>2. Views(<< >>, << >>)[0] = << >>
  BY <1>1, ViewTurns DEF Turns
<1>3. Walk(<< >>, << >>) = [i \in 1 .. 1 |-> << >>]
  BY <1>1, <1>2 DEF Walk
<1> QED  BY <1>3 DEF OnlyEmpty

\* Ahead of a newcomer are the beginnings of the table.
LEMMA WalkOfDump ==
  ASSUME NEW rt \in Seq(Record)
  PROVE  Walk(<< >>, CreateMessages(rt)) = [i \in 1 .. (Len(rt) + 1) |-> SubSeq(rt, 1, i - 1)]
<1>1. Len(CreateMessages(rt)) = Len(rt) /\ Len(rt) \in Nat
  BY RecordIsRecordsOf, CreateMessagesType
<1>2. \A i \in 0 .. Len(rt) : Views(<< >>, CreateMessages(rt))[i] = SubSeq(rt, 1, i)
  BY RecordIsRecordsOf, ViewsOfDump
<1>3. \A i \in 1 .. (Len(rt) + 1) : i - 1 \in 0 .. Len(rt)
  BY <1>1
<1> QED  BY <1>1, <1>2, <1>3 DEF Walk

\* A walk is a sequence of something: which, does not matter.
LEMMA WalkIsSeq ==
  ASSUME NEW rt, NEW S, NEW s \in Seq(S)
  PROVE  \E W : /\ Walk(rt, s) \in Seq(W) /\ Len(Walk(rt, s)) = Len(s) + 1
                /\ \A i \in 1 .. (Len(s) + 1) : Walk(rt, s)[i] = Views(rt, s)[i - 1]
<1> DEFINE W == {Views(rt, s)[i - 1] : i \in 1 .. (Len(s) + 1)}
           w == Walk(rt, s)
<1>1. Len(s) + 1 \in Nat
  BY LenProperties
<1>2. \A i \in 1 .. (Len(s) + 1) : w[i] = Views(rt, s)[i - 1] /\ Views(rt, s)[i - 1] \in W
  BY DEF Walk
<1>3. w = [i \in 1 .. (Len(s) + 1) |-> w[i]]
  BY DEF Walk
<1> HIDE DEF w, W
<1>4. w \in [1 .. (Len(s) + 1) -> W]
  BY <1>2, <1>3
<1>5. w \in Seq(W) /\ Len(w) = Len(s) + 1
  BY <1>1, <1>4
<1> QED  BY <1>2, <1>5 DEF w

\* A walk of fewer messages is the beginning of the walk.
LEMMA WalkOfPrefix ==
  ASSUME NEW rt, NEW S, NEW s \in Seq(S), NEW n \in 0 .. Len(s)
  PROVE  Walk(rt, SubSeq(s, 1, n)) = SubSeq(Walk(rt, s), 1, n + 1)
<1> DEFINE t == SubSeq(s, 1, n)
<1>1. /\ t \in Seq(S) /\ Len(t) = n /\ Len(s) \in Nat
      /\ \A i \in 1 .. n : t[i] = s[i]
  OBVIOUS
<1> HIDE DEF t
<1>2. \A i \in 0 .. n : Views(rt, t)[i] = Views(rt, s)[i]
  BY <1>1, ViewsOfPrefix
<1>3. Walk(rt, t) = [i \in 1 .. n + 1 |-> Views(rt, s)[i - 1]]
  BY <1>1, <1>2 DEF Walk
<1> DEFINE w == Walk(rt, s)
<1>4. PICK W : /\ w \in Seq(W) /\ Len(w) = Len(s) + 1
               /\ \A i \in 1 .. (Len(s) + 1) : w[i] = Views(rt, s)[i - 1]
  BY WalkIsSeq
<1> HIDE DEF w
<1>5. SubSeq(w, 1, n + 1) = [i \in 1 .. n + 1 |-> w[i]]
  BY <1>1, <1>4
<1>6. \A i \in 1 .. n + 1 : w[i] = Views(rt, s)[i - 1]
  BY <1>1, <1>4
<1> QED  BY <1>3, <1>5, <1>6 DEF t, w

\* A client that applies a message is one step further on its walk.
LEMMA WalkOfTail ==
  ASSUME NEW rt, NEW S, NEW s \in Seq(S), s # << >>
  PROVE  /\ Walk(synchronize_with_server(rt, Head(s)), Tail(s)) = Tail(Walk(rt, s))
         /\ Len(Walk(rt, s)) > 1
<1> DEFINE u == synchronize_with_server(rt, Head(s))
           t == Tail(s)
           w == Walk(rt, s)
<1>1. Len(s) \in Nat /\ Len(s) >= 1 /\ t \in Seq(S) /\ Len(t) = Len(s) - 1
  BY EmptySeq, HeadTailProperties
<1>2. \A i \in 0 .. Len(s) - 1 : Views(u, t)[i] = Views(rt, s)[i + 1]
  BY ViewsOfTail
<1>3. PICK W : /\ w \in Seq(W) /\ Len(w) = Len(s) + 1
               /\ \A i \in 1 .. (Len(s) + 1) : w[i] = Views(rt, s)[i - 1]
  BY WalkIsSeq
<1> HIDE DEF u, t, w
<1>4. Walk(u, t) = [i \in 1 .. Len(s) |-> Views(rt, s)[i]]
  <2>1. \A i \in 1 .. Len(s) : Views(u, t)[i - 1] = Views(rt, s)[i]
    <3> SUFFICES ASSUME NEW i \in 1 .. Len(s) PROVE Views(u, t)[i - 1] = Views(rt, s)[i]
      OBVIOUS
    <3>1. i - 1 \in 0 .. Len(s) - 1 /\ (i - 1) + 1 = i
      BY <1>1
    <3> QED  BY <1>2, <3>1
  <2>2. Len(t) + 1 = Len(s)
    BY <1>1
  <2> QED  BY <2>1, <2>2 DEF Walk
<1>5. Tail(w) = [i \in 1 .. Len(s) |-> w[i + 1]]
  <2>1. w # << >> /\ Len(w) - 1 = Len(s)
    BY <1>1, <1>3, EmptySeq
  <2>2. /\ Tail(w) \in Seq(W) /\ Len(Tail(w)) = Len(s)
        /\ \A i \in 1 .. Len(s) : Tail(w)[i] = w[i + 1]
    BY <1>3, <2>1, HeadTailProperties
  <2>3. Tail(w) = [i \in 1 .. Len(s) |-> Tail(w)[i]]
    BY <2>2, SeqIsFunction
  <2> QED  BY <2>2, <2>3
<1>6. \A i \in 1 .. Len(s) : w[i + 1] = Views(rt, s)[i]
  BY <1>1, <1>3
<1> QED  BY <1>1, <1>3, <1>4, <1>5, <1>6 DEF u, t, w

\* One more message is one more list on the walk.
LEMMA WalkOfAppend ==
  ASSUME NEW rt, NEW S, NEW s \in Seq(S), NEW m \in S
  PROVE  Walk(rt, Append(s, m))
           = Append(Walk(rt, s), synchronize_with_server(Replay(rt, s), m))
<1> DEFINE t == Append(s, m)
           w == Walk(rt, s)
           x == synchronize_with_server(Replay(rt, s), m)
<1>1. Len(t) = Len(s) + 1 /\ Len(s) \in Nat
  BY AppendProperties
<1>2. /\ \A i \in 0 .. Len(s) : Views(rt, t)[i] = Views(rt, s)[i]
      /\ Views(rt, t)[Len(s) + 1] = x
  BY ViewsOfAppend
<1>3. PICK W : /\ w \in Seq(W) /\ Len(w) = Len(s) + 1
               /\ \A i \in 1 .. (Len(s) + 1) : w[i] = Views(rt, s)[i - 1]
  BY WalkIsSeq
<1> HIDE DEF t, w, x
<1>4. Walk(rt, t) = [i \in 1 .. (Len(s) + 2) |-> Views(rt, t)[i - 1]]
  BY <1>1 DEF Walk
<1> DEFINE W1 == W \cup {x}
<1>5. w \in Seq(W1) /\ x \in W1
  BY <1>3
<1> HIDE DEF W1
<1>6. Append(w, x) = [i \in 1 .. (Len(s) + 2) |-> IF i <= Len(s) + 1 THEN w[i] ELSE x]
  <2>1. /\ Append(w, x) \in Seq(W1) /\ Len(Append(w, x)) = Len(s) + 2
        /\ \A i \in 1 .. (Len(s) + 1) : Append(w, x)[i] = w[i]
        /\ Append(w, x)[Len(s) + 2] = x
    BY <1>1, <1>3, <1>5, AppendProperties
  <2>2. Append(w, x) = [i \in 1 .. (Len(s) + 2) |-> Append(w, x)[i]]
    BY <2>1, SeqIsFunction
  <2> QED  BY <1>1, <2>1, <2>2
<1>7. \A i \in 1 .. (Len(s) + 2) :
        Views(rt, t)[i - 1] = IF i <= Len(s) + 1 THEN w[i] ELSE x
  <2> SUFFICES ASSUME NEW i \in 1 .. (Len(s) + 2)
               PROVE  Views(rt, t)[i - 1] = IF i <= Len(s) + 1 THEN w[i] ELSE x
    OBVIOUS
  <2>1. CASE i <= Len(s) + 1
    <3>1. i - 1 \in 0 .. Len(s) /\ i \in 1 .. (Len(s) + 1)
      BY <1>1, <2>1
    <3> QED  BY <1>2, <1>3, <2>1, <3>1
  <2>2. CASE ~ i <= Len(s) + 1
    <3>1. i - 1 = Len(s) + 1
      BY <1>1, <2>2
    <3> QED  BY <1>2, <2>2, <3>1
  <2> QED  BY <2>1, <2>2
<1> QED  BY <1>4, <1>6, <1>7 DEF t, w, x

\* What the refinement mapping shows is the walk of what is due ...
LEMMA AheadIsWalk ==
  ASSUME EmptyInv, NEW c \in Clients
  PROVE  Ahead(c) = Walk(crtm[c], Due(c))
<1>1. CASE Connected(c)
  BY <1>1 DEF Ahead, Walk, Due
<1>2. CASE ~ Connected(c)
  <2>1. crtm[c] = << >> /\ Due(c) = << >> /\ Ahead(c) = << << >> >>
    BY <1>2 DEF EmptyInv, Due, Ahead
  <2> QED  BY <2>1, WalkNothing DEF OnlyEmpty
<1> QED  BY <1>1, <1>2

\* ... and is so after the step.
LEMMA AheadIsWalkNext ==
  ASSUME EmptyInv', NEW c \in Clients
  PROVE  Ahead(c)' = Walk(crtm'[c], Due(c)')
<1>1. CASE Connected(c)'
  BY <1>1 DEF Ahead, Walk, Due
<1>2. CASE ~ Connected(c)'
  <2>1. crtm'[c] = << >> /\ Due(c)' = << >> /\ Ahead(c)' = << << >> >>
    BY <1>2 DEF EmptyInv, Due, Ahead
  <2> QED  BY <2>1, WalkNothing DEF OnlyEmpty
<1> QED  BY <1>1, <1>2

\* RtmService speaks of lists with the operators of RoutingTable.
LEMMA ServiceOperators ==
  ASSUME NEW rt, NEW m
  PROVE  /\ Service!Applies(rt, m) <=> Applies(rt, m)
         /\ Service!synchronize_with_server(rt, m) = synchronize_with_server(rt, m)
<1>1. \A t, d, k : Service!routing_table_contains_dst_subnet(t, d, k)
                     <=> routing_table_contains_dst_subnet(t, d, k)
  BY DEF Service!routing_table_contains_dst_subnet, routing_table_contains_dst_subnet,
         Service!SameSubnet, SameSubnet
<1>2. \A t, r : Service!FirstNode(t, r) = FirstNode(t, r)
  BY DEF Service!FirstNode, FirstNode, Service!IsFirstNode, IsFirstNode,
         Service!SameSubnet, SameSubnet
<1>3. \A t, k : Service!RemoveAt(t, k) = RemoveAt(t, k)
  BY DEF Service!RemoveAt, RemoveAt
<1>4. \A t, r :
        /\ Service!routing_table_insert(t, r) = routing_table_insert(t, r)
        /\ Service!routing_table_update(t, r) = routing_table_update(t, r)
        /\ Service!routing_table_delete(t, r) = routing_table_delete(t, r)
  <2> SUFFICES ASSUME NEW t, NEW r
               PROVE  /\ Service!routing_table_insert(t, r) = routing_table_insert(t, r)
                      /\ Service!routing_table_update(t, r) = routing_table_update(t, r)
                      /\ Service!routing_table_delete(t, r) = routing_table_delete(t, r)
    OBVIOUS
  <2>1. Service!routing_table_insert(t, r) = routing_table_insert(t, r)
    BY DEF Service!routing_table_insert, routing_table_insert
  <2>2. Service!routing_table_update(t, r) = routing_table_update(t, r)
    <3>1. CASE routing_table_contains_dst_subnet(t, r.destination, r.mask)
      BY <1>1, <1>2, <3>1 DEF Service!routing_table_update, routing_table_update
    <3>2. CASE ~ routing_table_contains_dst_subnet(t, r.destination, r.mask)
      BY <1>1, <1>2, <3>2 DEF Service!routing_table_update, routing_table_update
    <3> QED  BY <3>1, <3>2
  <2>3. Service!routing_table_delete(t, r) = routing_table_delete(t, r)
    <3>1. CASE routing_table_contains_dst_subnet(t, r.destination, r.mask)
      BY <1>1, <1>2, <1>3, <3>1 DEF Service!routing_table_delete, routing_table_delete
    <3>2. CASE ~ routing_table_contains_dst_subnet(t, r.destination, r.mask)
      BY <1>1, <1>2, <1>3, <3>2 DEF Service!routing_table_delete, routing_table_delete
    <3> QED  BY <3>1, <3>2
  <2> QED  BY <2>1, <2>2, <2>3
<1>5. Service!Applies(rt, m) <=> Applies(rt, m)
  BY <1>1 DEF Service!Applies, Applies
<1>6. Service!synchronize_with_server(rt, m) = synchronize_with_server(rt, m)
  BY <1>4 DEF Service!synchronize_with_server, synchronize_with_server
<1> QED  BY <1>5, <1>6

\* Initially nobody is subscribed and the table is empty.
LEMMA ServiceInit == Init => Service!Init
<1> SUFFICES ASSUME Init PROVE Service!Init
  OBVIOUS
<1>1. rtm = << >> /\ \A c \in Clients : ~ Connected(c)
  BY DEF Init, Connected
<1>2. Subscribers = {}
  BY <1>1 DEF Subscribers
<1>3. \A c \in Clients : Ahead(c) = << << >> >>
  BY <1>1 DEF Ahead
<1> QED  BY <1>1, <1>2, <1>3 DEF Service!Init, Service!OnlyEmpty

\* Each kind of step is a step of the service, or none.
LEMMA ServiceStep ==
  ASSUME ControlInv, ControlInv', DataInv, TableStep
  PROVE  [Service!Next]_(Service!vars)
<1> DEFINE V == [c \in Clients |-> Ahead(c)]
<1>1. \A c \in Clients : V[c] = Walk(crtm[c], Due(c)) /\ V'[c] = Walk(crtm'[c], Due(c)')
  <2>1. EmptyInv /\ EmptyInv'
    BY DEF ControlInv
  <2>2. \A c \in Clients : Ahead(c) = Walk(crtm[c], Due(c))
    BY <2>1, AheadIsWalk
  <2>3. \A c \in Clients : Ahead(c)' = Walk(crtm'[c], Due(c)')
    BY <2>1, AheadIsWalkNext
  <2> QED  BY <2>2, <2>3
<1>2. \A c \in Clients : Sound(crtm[c], Due(c)) /\ Due(c) \in Seq(CompleteMessage)
  BY DEF DataInv, Sound
<1>3. V = [c \in Clients |-> V[c]] /\ V' = [c \in Clients |-> V'[c]]
  OBVIOUS
<1>4. CASE Quiet
  <2>1. \A c \in Clients : V'[c] = V[c]
    BY <1>1, <1>4 DEF Quiet, SameTables
  <2> HIDE DEF V
  <2>2. V' = V
    BY <1>3, <2>1
  <2> QED  BY <1>4, <2>2 DEF Quiet, Service!vars, V
<1>5. CASE Stops
  <2>1. ASSUME NEW c \in Clients
        PROVE  \E n \in 1 .. Len(V[c]) : V'[c] = SubSeq(V[c], 1, n)
    <3>1. PICK n \in 0 .. Len(Due(c)) : Due(c)' = SubSeq(Due(c), 1, n)
      BY <1>5 DEF Stops
    <3>2. crtm'[c] = crtm[c]
      BY <1>5 DEF Stops
    <3>3. V'[c] = SubSeq(V[c], 1, n + 1)
      <4>1. Walk(crtm[c], SubSeq(Due(c), 1, n)) = SubSeq(Walk(crtm[c], Due(c)), 1, n + 1)
        BY <1>2, <3>1, WalkOfPrefix
      <4> HIDE DEF V
      <4> QED  BY <1>1, <3>1, <3>2, <4>1
    <3>4. Len(V[c]) = Len(Due(c)) + 1
      BY <1>1, <1>2, WalkIsSeq
    <3>5. n + 1 \in 1 .. Len(V[c])
      BY <1>2, <3>4
    <3> QED  BY <3>3, <3>5
  <2>2. DOMAIN V' = Clients
    OBVIOUS
  <2>3. Service!Stop
    BY <1>5, <2>1, <2>2 DEF Stops, Service!Stop
  <2> QED  BY <2>3 DEF Service!Next
<1>6. ASSUME NEW c \in Clients, Joins(c)
      PROVE  Service!Join(c)
  <2>1. V[c] = << << >> >>
    BY <1>1, <1>6, WalkNothing DEF Joins, OnlyEmpty
  <2>2. V'[c] = [i \in 1 .. (Len(rtm) + 1) |-> SubSeq(rtm, 1, i - 1)]
    BY <1>1, <1>6, WalkOfDump DEF Joins, DataInv
  <2>3. \A e \in Clients \ {c} : V'[e] = V[e]
    BY <1>1, <1>6 DEF Joins, SameTables
  <2> HIDE DEF V
  <2>4. V' = [V EXCEPT ![c] = [i \in 1 .. (Len(rtm) + 1) |-> SubSeq(rtm, 1, i - 1)]]
    BY <1>3, <2>2, <2>3
  <2> QED  BY <1>6, <2>1, <2>4 DEF Joins, Service!Join, Service!OnlyEmpty, Service!Serving, V
<1>7. ASSUME NEW c \in Clients, CatchesUp(c)
      PROVE  Service!Show(c)
  <2>1. Due(c) # << >> /\ crtm'[c] = synchronize_with_server(crtm[c], Head(Due(c)))
        /\ Due(c)' = Tail(Due(c))
    BY <1>7 DEF CatchesUp
  <2>2. /\ Walk(synchronize_with_server(crtm[c], Head(Due(c))), Tail(Due(c)))
             = Tail(Walk(crtm[c], Due(c)))
        /\ Len(Walk(crtm[c], Due(c))) > 1
    BY <1>2, <2>1, WalkOfTail
  <2>3. \A e \in Clients \ {c} : V'[e] = V[e]
    BY <1>1, <1>7 DEF CatchesUp, SameTables
  <2> HIDE DEF V
  <2>4. V'[c] = Tail(V[c]) /\ Len(V[c]) > 1
    BY <1>1, <2>1, <2>2
  <2>5. V' = [V EXCEPT ![c] = Tail(V[c])]
    BY <1>3, <2>3, <2>4
  <2> QED  BY <1>7, <2>5, <2>4 DEF CatchesUp, Service!Show, V
<1>8. ASSUME NEW c \in Clients, Leaves(c)
      PROVE  Service!Leave(c)
  <2>1. V'[c] = << << >> >>
    BY <1>1, <1>8, WalkNothing DEF Leaves, OnlyEmpty
  <2>2. \A e \in Clients \ {c} : V'[e] = V[e]
    BY <1>1, <1>8 DEF Leaves, SameTables
  <2> HIDE DEF V
  <2>3. V' = [V EXCEPT ![c] = << << >> >>]
    BY <1>3, <2>1, <2>2
  <2> QED  BY <1>8, <2>3 DEF Leaves, Service!Leave, Service!OnlyEmpty, V
<1>9. ASSUME NEW m \in CompleteMessage, Commits(m)
      PROVE  Service!Commit(m)
  <2>1. ASSUME NEW c \in Clients
        PROVE  V'[c] = IF c \in Subscribers THEN Append(V[c], rtm') ELSE V[c]
    <3>1. CASE c \in Subscribers
      <4>1. Replay(crtm[c], Due(c)) = rtm
        BY <3>1 DEF DataInv
      <4>2. crtm'[c] = crtm[c] /\ Due(c)' = Append(Due(c), m)
            /\ rtm' = synchronize_with_server(rtm, m)
        BY <1>9, <3>1 DEF Commits
      <4>3. Walk(crtm[c], Append(Due(c), m))
              = Append(Walk(crtm[c], Due(c)), synchronize_with_server(Replay(crtm[c], Due(c)), m))
        BY <1>2, WalkOfAppend
      <4> QED  BY <1>1, <3>1, <4>1, <4>2, <4>3
    <3>2. CASE c \notin Subscribers
      BY <1>1, <1>9, <3>2 DEF Commits
    <3> QED  BY <3>1, <3>2
  <2>2. Service!Applies(rtm, m) /\ rtm' = Service!synchronize_with_server(rtm, m)
    BY <1>9, ServiceOperators DEF Commits
  <2> HIDE DEF V
  <2>3. V' = [c \in Clients |-> IF c \in Subscribers THEN Append(V[c], rtm') ELSE V[c]]
    BY <1>3, <2>1
  <2> QED  BY <1>9, <2>2, <2>3 DEF Commits, Service!Commit, V
<1> QED
  BY <1>4, <1>5, <1>6, <1>7, <1>8, <1>9
  DEF TableStep, Service!Next, CompleteMessage, Service!OP_CODE, OP_CODE

\* The server, its clients and the sockets between them are the service: one
\* table, shown to every subscriber change by change.
THEOREM RtmImplementsService == Spec => ServiceSpec
<1>1. ControlInv /\ ControlInv' /\ DataInv /\ [Next]_vars => [Service!Next]_(Service!vars)
  BY EveryTableStep, ServiceStep
<1> QED
  BY <1>1, ServiceInit, DataInvariant, PTL DEF Spec, ServiceSpec, Service!Spec
=============================================================================
