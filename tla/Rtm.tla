-------------------------------- MODULE Rtm --------------------------------
(***************************************************************************)
(* The routing table manager: one server process (rtm_server.c, input.c,   *)
(* rtm.c), any number of client processes (rtm_client.c) and the stream    *)
(* sockets between them.                                                   *)
(*                                                                         *)
(* The server is a single-threaded select loop.  It accepts connections,   *)
(* dumps its table to the newcomer, and turns the lines an administrator   *)
(* types into create / update / delete operations, each of which it writes *)
(* to every monitored client.  A step of the model is what happens between *)
(* two points at which another process can be observed: the return of      *)
(* select, one handler, one write.                                         *)
(***************************************************************************)
EXTENDS FdSetMgmt, RoutingTable, FiniteSets

CONSTANTS
    Clients,        \* client processes; each runs rtm_client once
    Destinations,   \* destination addresses an administrator types
    Masks,          \* subnet masks
    Gateways,       \* gateway addresses
    Oifs,           \* outgoing interfaces; "" is the empty line
    Uninit,         \* content of a field of `record' before it is written
    FD_LIMIT,       \* descriptors a process may open (RLIMIT_NOFILE, 1024)
    SNDBUF,         \* messages a socket buffers before write blocks
    BACKLOG         \* connections waiting for accept: 128 in rtm_server.c

ASSUME RtmAssumption ==
    /\ Uninit \notin Destinations \cup Masks \cup Gateways \cup Oifs
    /\ FD_LIMIT \in Nat
    /\ SNDBUF \in Nat \ {0}
    /\ BACKLOG \in Nat

STDIN == 0
connection_socket == 3   \* the first descriptor after the three standard ones
NoFd == -1

VARIABLES
    spc,            \* where the server process is
    rtm,            \* its routing table
    state, entry,   \* the dialogue with the administrator
    record,         \* the record the dialogue is filling
    mon,            \* monitored_fd_set
    sync_msg,       \* the message send_synchronization_message is sending
    data_socket,    \* the descriptor dump_rtm_contents is writing to
    pos,            \* the next node to dump, or the next slot to send to
    fdOf,           \* the server's descriptor for each client, NoFd if none
    backlog,        \* connected clients not yet accepted, in order
    chan,           \* messages in each client's socket, oldest first
    cpc,            \* where each client process is
    crtm            \* each client's copy of the routing table

dialogue == <<state, entry, record>>
sending  == <<sync_msg, data_socket, pos>>
sockets  == <<fdOf, backlog, chan>>
clients  == <<cpc, crtm>>
vars == <<spc, rtm, dialogue, mon, sending, sockets, clients>>

INPUT_STATE == {"IDLE", "CREATING", "UPDATING", "DELETING"}
ENTRY_TYPE  == {"SUBNET", "GATEWAY", "OIF"}

\* Struct msg_body_t, and the record under construction in the server's main.
Record == [destination : Destinations, mask : Masks,
           gateway_ip : Gateways, oif : Oifs]
Draft  == [destination : Destinations \cup {Uninit}, mask : Masks \cup {Uninit},
           gateway_ip : Gateways \cup {Uninit}, oif : Oifs \cup {Uninit}]
Message == [op_code : OP_CODE, msg_body : Draft]
NoMessage == [op_code |-> "CREATE",
              msg_body |-> [destination |-> Uninit, mask |-> Uninit,
                            gateway_ip |-> Uninit, oif |-> Uninit]]

\* A process that has ended: exit(EXIT_SUCCESS), exit(EXIT_FAILURE), or a
\* signal whose default action kills it.
Ended == {"exited", "failed", "crashed"}
ServerStates == {"startup", "select", "accept", "admin", "dump", "sync",
                 "flush", "spin", "quit"} \cup Ended
ClientStates == {"off", "connected", "running", "closing"} \cup Ended

ServerUp == spc \notin Ended
\* A client process whose end of the connection is open.
Connected(c) == cpc[c] \in {"connected", "running", "closing"}
Accepted(c)  == fdOf[c] # NoFd
Monitored(c) == Accepted(c) /\ \E i \in Slots : mon[i] = fdOf[c]

-----------------------------------------------------------------------------
(***************************************************************************)
(* initialize_server has run: STDIN and the listening socket are monitored *)
(* and the SIGINT handler is installed, but routing_table_create has not   *)
(* been called.                                                            *)
(***************************************************************************)
initialize_server ==
    mon = add_to_monitored_fd_set(
            add_to_monitored_fd_set(initialize_monitor_fd_set, STDIN),
            connection_socket)

Init ==
    /\ spc = "startup"
    /\ rtm = << >>
    /\ state = "IDLE"
    /\ entry \in ENTRY_TYPE               \* uninitialised in main
    /\ record = NoMessage.msg_body        \* uninitialised in main
    /\ initialize_server
    /\ sync_msg = NoMessage
    /\ data_socket = NoFd
    /\ pos = 0
    /\ fdOf = [c \in Clients |-> NoFd]
    /\ backlog = << >>
    /\ chan = [c \in Clients |-> << >>]
    /\ cpc = [c \in Clients |-> "off"]
    /\ crtm = [c \in Clients |-> << >>]

\* routing_table_create and the first menu.
Startup ==
    /\ spc = "startup"
    /\ spc' = "select"
    /\ UNCHANGED <<rtm, dialogue, mon, sending, sockets, clients>>

(***************************************************************************)
(* select returns.  A pending connection is looked at before the console,  *)
(* and what the administrator types is only read when there is none.  The  *)
(* decision is a step of its own: a client may connect between the return  *)
(* of select and the handler.  A client descriptor that becomes readable   *)
(* (its peer has gone) wakes select too, and the loop body does nothing.   *)
(***************************************************************************)
SelectConnection ==
    /\ spc = "select"
    /\ connection_socket \in refresh_fd_set(mon)
    /\ backlog # << >>
    /\ spc' = "accept"
    /\ UNCHANGED <<rtm, dialogue, mon, sending, sockets, clients>>

\* Mutant: the console is looked at whether or not a connection is pending.
SelectConsoleFirst ==
    /\ spc = "select"
    /\ STDIN \in refresh_fd_set(mon)
    /\ spc' = "admin"
    /\ UNCHANGED <<rtm, dialogue, mon, sending, sockets, clients>>

SelectConsole ==
    /\ spc = "select"
    /\ STDIN \in refresh_fd_set(mon)
    /\ backlog = << >>
    /\ spc' = "admin"
    /\ UNCHANGED <<rtm, dialogue, mon, sending, sockets, clients>>

-----------------------------------------------------------------------------
(***************************************************************************)
(* Writing to clients.  A write blocks while the client's buffer is full;  *)
(* it fails when the client has closed its end, and then the descriptor is *)
(* taken out of the monitored set but not closed.                          *)
(***************************************************************************)
\* Mutant: a write to a client that has gone is tried again instead of given up.
SendRetriesForever(m, fd) ==
    \E c \in Clients :
        /\ fdOf[c] = fd
        /\ Connected(c)
        /\ Len(chan[c]) < SNDBUF
        /\ chan' = [chan EXCEPT ![c] = Append(@, m)]
        /\ UNCHANGED mon

\* Mutant: a non-blocking socket, and the result EAGAIN is ignored.
SendDropsWhenFull(m, fd) ==
    \E c \in Clients :
        /\ fdOf[c] = fd
        /\ \/ /\ Connected(c)
              /\ chan' = IF Len(chan[c]) < SNDBUF
                         THEN [chan EXCEPT ![c] = Append(@, m)] ELSE chan
              /\ UNCHANGED mon
           \/ /\ ~ Connected(c)
              /\ mon' = remove_from_monitored_fd_set(mon, fd)
              /\ UNCHANGED chan

_send_synchronization_message(m, fd) ==
    \E c \in Clients :
        /\ fdOf[c] = fd
        /\ \/ /\ Connected(c)
              /\ Len(chan[c]) < SNDBUF
              /\ chan' = [chan EXCEPT ![c] = Append(@, m)]
              /\ UNCHANGED mon
           \/ /\ ~ Connected(c)
              /\ mon' = remove_from_monitored_fd_set(mon, fd)
              /\ UNCHANGED chan

\* Mutant: the loops stop one turn early.
AdvanceStopsEarly(last) ==
    IF pos < last - 1
    THEN pos' = pos + 1 /\ UNCHANGED <<spc, sync_msg, data_socket>>
    ELSE spc' = "select" /\ pos' = 0 /\ sync_msg' = NoMessage /\ data_socket' = NoFd

\* The loop variable after one more turn, or back to select after `last'.
Advance(last) ==
    IF pos < last
    THEN pos' = pos + 1 /\ UNCHANGED <<spc, sync_msg, data_socket>>
    ELSE spc' = "select" /\ pos' = 0 /\ sync_msg' = NoMessage /\ data_socket' = NoFd

\* One turn of dump_rtm_contents.
dump_rtm_contents ==
    /\ spc = "dump"
    /\ _send_synchronization_message(
            prepare_synchronization_message("CREATE", rtm[pos]), data_socket)
    /\ Advance(Len(rtm))
    /\ UNCHANGED <<rtm, dialogue, fdOf, backlog, clients>>

\* Mutant: the loop over the slots stops at i < MAX_CLIENTS - 1.
IsClientSlotButLast(i) == mon[i] > 0 /\ mon[i] # connection_socket /\ i < MAX_CLIENTS - 1

IsClientSlot(i) == mon[i] > 0 /\ mon[i] # connection_socket

\* One turn of send_synchronization_message: slot `pos'.
send_synchronization_message ==
    /\ spc = "sync"
    /\ \/ /\ IsClientSlot(pos)
          /\ _send_synchronization_message(sync_msg, mon[pos])
       \/ /\ ~ IsClientSlot(pos)
          /\ UNCHANGED <<mon, chan>>
    /\ Advance(MAX_CLIENTS - 1)
    /\ UNCHANGED <<rtm, dialogue, fdOf, backlog, clients>>

-----------------------------------------------------------------------------
(***************************************************************************)
(* Connections.                                                            *)
(***************************************************************************)

\* Descriptors open in the server: three standard ones, the listening socket
\* and every accepted connection.  Nothing ever closes an accepted one.
OpenFds == 0 .. connection_socket \cup ({fdOf[c] : c \in Clients} \ {NoFd})

IsNewFd(fd) == fd \notin OpenFds /\ \A f \in 0 .. (fd - 1) : f \in OpenFds

handle_connection_initiation_request ==
    /\ spc = "accept"
    /\ \E fd \in 0 .. (FD_LIMIT - 1) :
        /\ IsNewFd(fd)
        /\ fdOf' = [fdOf EXCEPT ![Head(backlog)] = fd]
        /\ mon' = add_to_monitored_fd_set(mon, fd)
        /\ backlog' = Tail(backlog)
        /\ IF rtm = << >>
           THEN spc' = "select" /\ UNCHANGED <<data_socket, pos>>
           ELSE spc' = "dump" /\ data_socket' = fd /\ pos' = 1
    /\ UNCHANGED <<rtm, dialogue, sync_msg, chan, clients>>

\* accept fails (EMFILE) and the server exits with an error.
AcceptFails ==
    /\ spc = "accept"
    /\ 0 .. (FD_LIMIT - 1) \subseteq OpenFds
    /\ spc' = "failed"
    /\ rtm' = << >>
    /\ UNCHANGED <<dialogue, mon, sending, sockets, clients>>

-----------------------------------------------------------------------------
(***************************************************************************)
(* The administrator.  A line is handled once its newline has been seen:   *)
(* in the buffer that read filled ("admin"), or by the getchar loop of     *)
(* remove_newline ("flush").                                               *)
(***************************************************************************)
LineRead == spc \in {"admin", "flush"}

\* read returned no newline: end of file, a line ended by Ctrl+D, or a line
\* longer than the buffer.  The getchar loop now waits for a newline.
NoNewline ==
    /\ spc = "admin"
    /\ spc' = "flush"
    /\ UNCHANGED <<rtm, dialogue, mon, sending, sockets, clients>>

\* getchar returns EOF, which is not '\n', and goes on returning it.
FlushAtEof ==
    /\ spc = "flush"
    /\ spc' = "spin"
    /\ UNCHANGED <<rtm, dialogue, mon, sending, sockets, clients>>

\* "?" is any other single character, "line" anything but one character.
MenuOptions == {"c", "u", "d", "p", "q", "?", "line"}

\* An empty table only offers create and quit.
OnMenu(option) ==
    option # "line" /\ (rtm = << >> => option \in {"c", "q"})

StateAfter(option) ==
    CASE option = "c" -> "CREATING"
      [] option = "u" -> "UPDATING"
      [] option = "d" -> "DELETING"
      [] OTHER        -> "IDLE"

\* The part of handle_admin_input for state IDLE.  `entry' is reset whichever
\* option was chosen; 'q' calls shutdown_server.
IdleInput ==
    /\ LineRead
    /\ state = "IDLE"
    /\ \E option \in MenuOptions :
        IF OnMenu(option)
        THEN /\ state' = StateAfter(option)
             /\ entry' = "SUBNET"
             /\ spc' = IF option = "q" THEN "quit" ELSE "select"
        ELSE spc' = "select" /\ UNCHANGED <<state, entry>>
    /\ UNCHANGED <<rtm, record, mon, sending, sockets, clients>>

(***************************************************************************)
(* read_destination_subnet_from_buffer writes through its arguments as it  *)
(* goes: a line it rejects may already have changed the destination, or    *)
(* (a third '/') the destination and the mask.                             *)
(***************************************************************************)
SubnetRead(d, m) == [record EXCEPT !.destination = d, !.mask = m]

RejectedSubnets ==
    {record}
    \cup {[record EXCEPT !.destination = d] : d \in Destinations}
    \cup {SubnetRead(d, m) : d \in Destinations, m \in Masks}

\* Mutant: the table is searched before the typed subnet is stored in `record'.
SubnetKnownStale(d, m) ==
    routing_table_contains_dst_subnet(rtm, record.destination, record.mask)

SubnetKnown(d, m) == routing_table_contains_dst_subnet(rtm, d, m)

SubnetRejected ==
    /\ record' \in RejectedSubnets
    /\ spc' = "select"
    /\ UNCHANGED <<rtm, state, entry, mon, sending, sockets, clients>>

\* A well-formed subnet of which the table has, or lacks, a record.
SubnetEntry(present) ==
    /\ entry = "SUBNET"
    /\ \/ SubnetRejected
       \/ \E d \in Destinations, m \in Masks :
            /\ record' = SubnetRead(d, m)
            /\ entry' = IF SubnetKnown(d, m) = present THEN "GATEWAY" ELSE entry
            /\ spc' = "select"
            /\ UNCHANGED <<rtm, state, mon, sending, sockets, clients>>

\* Mutant: the result of read_ip_address_from_buffer is not tested.
GatewayUnchecked ==
    /\ entry = "GATEWAY"
    /\ record' \in {record} \cup {[record EXCEPT !.gateway_ip = g] : g \in Gateways}
    /\ entry' = "OIF"
    /\ spc' = "select"
    /\ UNCHANGED <<rtm, state, mon, sending, sockets, clients>>

GatewayEntry ==
    /\ entry = "GATEWAY"
    /\ \/ UNCHANGED <<record, entry>>           \* read_ip_address_from_buffer fails
       \/ \E g \in Gateways :
            record' = [record EXCEPT !.gateway_ip = g] /\ entry' = "OIF"
    /\ spc' = "select"
    /\ UNCHANGED <<rtm, state, mon, sending, sockets, clients>>

\* Mutant: the message is prepared before the last field is stored.
BroadcastStale(op_code) ==
    /\ state' = "IDLE"
    /\ sync_msg' = prepare_synchronization_message(op_code, record)
    /\ pos' = 0
    /\ spc' = "sync"
    /\ UNCHANGED <<mon, data_socket, sockets, clients>>

\* The dialogue is over: `record' is about to be sent to every client.
Broadcast(op_code) ==
    /\ state' = "IDLE"
    /\ sync_msg' = prepare_synchronization_message(op_code, record')
    /\ pos' = 0
    /\ spc' = "sync"
    /\ UNCHANGED <<mon, data_socket, sockets, clients>>

OifEntry(op_code) ==
    /\ entry = "OIF"
    /\ \/ /\ spc' = "select"                    \* longer than OIF_LEN
          /\ UNCHANGED <<rtm, dialogue, mon, sending, sockets, clients>>
       \/ \E o \in Oifs :
            /\ record' = [record EXCEPT !.oif = o]
            /\ rtm' = IF op_code = "CREATE"
                      THEN routing_table_insert(rtm, record')
                      ELSE routing_table_update(rtm, record')
            /\ entry' = "SUBNET"
            /\ Broadcast(op_code)

create_record ==
    /\ LineRead
    /\ state = "CREATING"
    /\ SubnetEntry(FALSE) \/ GatewayEntry \/ OifEntry("CREATE")

update_record ==
    /\ LineRead
    /\ state = "UPDATING"
    /\ SubnetEntry(TRUE) \/ GatewayEntry \/ OifEntry("UPDATE")

delete_record ==
    /\ LineRead
    /\ state = "DELETING"
    /\ \/ SubnetRejected
       \/ \E d \in Destinations, m \in Masks :
            /\ record' = SubnetRead(d, m)
            /\ UNCHANGED entry
            /\ IF SubnetKnown(d, m)
               THEN rtm' = routing_table_delete(rtm, record') /\ Broadcast("DELETE")
               ELSE spc' = "select" /\ UNCHANGED <<rtm, state, mon, sending, sockets, clients>>

handle_admin_input ==
    IdleInput \/ create_record \/ update_record \/ delete_record

-----------------------------------------------------------------------------
(***************************************************************************)
(* The end of the server.                                                  *)
(***************************************************************************)

\* shutdown_server frees the table, closes the listening socket and exits.
shutdown_server ==
    /\ spc' = "exited"
    /\ rtm' = << >>
    /\ mon' = remove_from_monitored_fd_set(mon, connection_socket)
    /\ UNCHANGED <<dialogue, sending, sockets, clients>>

Quit == spc = "quit" /\ shutdown_server

(***************************************************************************)
(* Ctrl+C runs shutdown_server in the middle of whatever the server does.  *)
(* Before routing_table_create it dereferences a null table.  While 'q' is *)
(* already in shutdown_server the table is freed, the socket closed and    *)
(* the path unlinked twice: any end may come of it.                        *)
(***************************************************************************)
ServerSigint ==
    \/ /\ spc \in ServerStates \ (Ended \cup {"startup"})
       /\ shutdown_server
    \/ /\ spc \in {"startup", "quit"}
       /\ spc' \in (IF spc = "startup" THEN {"crashed"} ELSE Ended)
       /\ rtm' = << >>
       /\ UNCHANGED <<dialogue, mon, sending, sockets, clients>>

-----------------------------------------------------------------------------
(***************************************************************************)
(* The clients.                                                            *)
(***************************************************************************)
unchangedServer == <<spc, rtm, dialogue, mon, sending, fdOf>>

\* connect blocks while more than BACKLOG connections are waiting.
Connect(c) ==
    /\ cpc[c] = "off"
    /\ ServerUp
    /\ Len(backlog) <= BACKLOG
    /\ cpc' = [cpc EXCEPT ![c] = "connected"]
    /\ backlog' = Append(backlog, c)
    /\ UNCHANGED <<unchangedServer, chan, crtm>>

\* The process is gone and the kernel has closed its socket.
ClientEnds(c, how) ==
    /\ cpc' = [cpc EXCEPT ![c] = how]
    /\ chan' = [chan EXCEPT ![c] = << >>]
    /\ crtm' = [crtm EXCEPT ![c] = << >>]
    /\ UNCHANGED <<unchangedServer, backlog>>

ConnectRefused(c) ==
    /\ cpc[c] = "off"
    /\ spc \in Ended \cup {"quit"}
    /\ ClientEnds(c, "failed")

\* Signal handlers are installed and routing_table_create has returned.
ClientStart(c) ==
    /\ cpc[c] = "connected"
    /\ cpc' = [cpc EXCEPT ![c] = "running"]
    /\ UNCHANGED <<unchangedServer, backlog, chan, crtm>>

ClientSync(c) ==
    /\ cpc[c] = "running"
    /\ chan[c] # << >>
    /\ crtm' = [crtm EXCEPT ![c] = synchronize_with_server(@, Head(chan[c]))]
    /\ chan' = [chan EXCEPT ![c] = Tail(@)]
    /\ UNCHANGED <<unchangedServer, backlog, cpc>>

\* read returns 0 once the server's end is closed and the buffer is empty.
ClientEof(c) ==
    /\ cpc[c] = "running"
    /\ chan[c] = << >>
    /\ ~ ServerUp
    /\ Accepted(c)
    /\ cpc' = [cpc EXCEPT ![c] = "closing"]
    /\ UNCHANGED <<unchangedServer, backlog, chan, crtm>>

\* Mutant: the client reads again after an error.
ClientResetRetries(c) ==
    /\ cpc[c] = "running"
    /\ ~ ServerUp
    /\ ~ Accepted(c)
    /\ UNCHANGED vars

\* A connection that was never accepted is reset: read fails.
ClientReset(c) ==
    /\ cpc[c] = "running"
    /\ ~ ServerUp
    /\ ~ Accepted(c)
    /\ ClientEnds(c, "failed")

shutdown_client(c) ==
    /\ cpc[c] = "closing"
    /\ ClientEnds(c, "exited")

\* Ctrl+C in a client: before the handler and the table exist it is killed or
\* dereferences a null table; inside shutdown_client it frees the table twice.
ClientSigint(c) ==
    \/ cpc[c] = "connected" /\ ClientEnds(c, "crashed")
    \/ cpc[c] = "running"   /\ ClientEnds(c, "exited")
    \/ cpc[c] = "closing"   /\ \E how \in {"exited", "crashed"} : ClientEnds(c, how)

-----------------------------------------------------------------------------
ServerStep ==
    \/ Startup \/ SelectConnection
    \/ handle_connection_initiation_request \/ AcceptFails
    \/ dump_rtm_contents \/ send_synchronization_message
    \/ Quit
    \/ NoNewline
    \/ spc = "admin" /\ handle_admin_input

ClientStep(c) ==
    ClientStart(c) \/ ClientSync(c) \/ ClientEof(c) \/ ClientReset(c) \/ shutdown_client(c)

\* What nothing obliges anyone to do: type a line or Ctrl+D, press Ctrl+C,
\* start a client.
Environment ==
    \/ SelectConsole
    \/ spc = "flush" /\ handle_admin_input
    \/ FlushAtEof
    \/ ServerSigint
    \/ \E c \in Clients : Connect(c) \/ ConnectRefused(c) \/ ClientSigint(c)

Next == ServerStep \/ (\E c \in Clients : ClientStep(c)) \/ Environment

Spec == Init /\ [][Next]_vars

\* Every process the kernel can run is eventually run: a server that has
\* something to do, and each client that is not blocked in read.
Fairness == WF_vars(ServerStep) /\ \A c \in Clients : WF_vars(ClientStep(c))

FairSpec == Spec /\ Fairness

-----------------------------------------------------------------------------
(***************************************************************************)
(* Properties.                                                             *)
(***************************************************************************)

\* Every variable holds a value of the type the C declarations give it.
TypeOK ==
    /\ spc \in ServerStates
    /\ rtm \in Seq(Draft)
    /\ state \in INPUT_STATE
    /\ entry \in ENTRY_TYPE
    /\ record \in Draft
    /\ mon \in [Slots -> Int]
    /\ sync_msg \in Message
    /\ data_socket \in Int
    /\ pos \in Nat
    /\ fdOf \in [Clients -> Int]
    /\ backlog \in Seq(Clients)
    /\ chan \in [Clients -> Seq(Message)]
    /\ cpc \in [Clients -> ClientStates]
    /\ crtm \in [Clients -> Seq(Draft)]

\* main leaves `record' and `entry' uninitialised.  No field of a record that
\* was not typed by the administrator gets into the table, or onto a socket.
Initialised ==
    /\ rtm \in Seq(Record)
    /\ chan \in [Clients -> Seq([op_code : OP_CODE, msg_body : Record])]

\* "A record that already exists in the routing table cannot be added": the
\* server's list and every client's copy have one record per subnet, though
\* neither routing_table_insert nor synchronize_with_server looks.
UniqueKeys ==
    /\ UniqueSubnets(rtm)
    /\ \A c \in Clients : UniqueSubnets(crtm[c])

\* The create and update dialogues test the subnet when it is typed and use
\* the answer two lines later; connections are accepted in between.
CheckedSubnetCurrent ==
    ServerUp /\ entry \in {"GATEWAY", "OIF"} =>
        /\ state = "CREATING" =>
            ~ routing_table_contains_dst_subnet(rtm, record.destination, record.mask)
        /\ state = "UPDATING" =>
            routing_table_contains_dst_subnet(rtm, record.destination, record.mask)

\* A slot of monitored_fd_set never aliases another, and holds STDIN, the
\* listening socket (both always present) or the descriptor of an accepted
\* connection, whatever clients come, die and are dropped.
MonitorSound ==
    ServerUp =>
        /\ \A i, j \in Slots : mon[i] = mon[j] /\ mon[i] # Free => i = j
        /\ \A i \in Slots : mon[i] \in {Free} \cup (OpenFds \ {1, 2})
        /\ {STDIN, connection_socket} \subseteq refresh_fd_set(mon)

\* What the server is committed to write to c before it returns to select.
Owed(c) ==
    IF spc = "dump" /\ Accepted(c) /\ fdOf[c] = data_socket
    THEN SubSeq(CreateMessages(rtm), pos, Len(rtm))
    ELSE IF spc = "sync" /\ Accepted(c) /\ \E i \in pos .. (MAX_CLIENTS - 1) : mon[i] = fdOf[c]
         THEN << sync_msg >>
         ELSE << >>

InFlight(c) == chan[c] \o Owed(c)

\* A connected client that the server monitors is never wrong, only late: the
\* messages in its socket and those the server is still to write turn its copy
\* into the server's table, in the same order of records.
InSync ==
    ServerUp =>
        \A c \in Clients :
            Monitored(c) /\ Connected(c) => Replay(crtm[c], InFlight(c)) = rtm

\* Each message, when its turn comes, finds the subnet absent (CREATE) or
\* present (UPDATE, DELETE) in the client's copy.  In particular the client
\* never deletes the last record for want of the one it was told to delete.
EveryMessageApplies ==
    \A c \in Clients :
        Connected(c) =>
            LET s == InFlight(c)
            IN  \A i \in 1 .. Len(s) : Applies(Views(crtm[c], s)[i - 1], s[i])

\* A client stays monitored as long as it stays connected and the server runs:
\* a failed write to another client, or a newcomer, never takes its slot.
StaysMonitored ==
    [][\A c \in Clients :
            Monitored(c) /\ Connected(c) => Monitored(c)' \/ ~ Connected(c)' \/ ~ ServerUp']_vars

\* "When the server disconnects, the clients also disconnect".
ClientsFollowServer ==
    ~ ServerUp ~> \A c \in Clients : cpc[c] \in Ended \cup {"off"}

\* A client waiting to be accepted is accepted, unless it leaves, the server
\* ends, or the server is stuck in remove_newline.
PendingIsAccepted ==
    \A c \in Clients :
        cpc[c] \in {"connected", "running"} /\ ~ Accepted(c)
            ~> Accepted(c) \/ ~ Connected(c) \/ ~ ServerUp \/ spc \in {"flush", "spin"}

\* A dump or a broadcast comes to its end, though every write may block.
WritesComplete ==
    spc \in {"dump", "sync"} ~> spc = "select" \/ ~ ServerUp

\* When the administrator and the clients leave the server alone, the copies of
\* the monitored clients become, and stay, equal to the table.
Converges ==
    <>[](spc = "select") =>
        <>[](\A c \in Clients : Monitored(c) /\ Connected(c) => crtm[c] = rtm)

-----------------------------------------------------------------------------
(***************************************************************************)
(* Statements of the repository's documents and comments that the code     *)
(* does not live up to.                                                    *)
(***************************************************************************)

Live == {c \in Clients : Connected(c) /\ Accepted(c)}

\* README: "When a client disconnects (Ctrl+C), the server recovers".  A
\* disconnected client's descriptor is never closed: accept fails for want of
\* descriptors, and ends the server, though fewer clients are connected than
\* it could hold.
RecoversFromDisconnect ==
    spc = "accept" /\ 0 .. (FD_LIMIT - 1) \subseteq OpenFds =>
        Cardinality(Live) >= FD_LIMIT - (connection_socket + 1)

\* README: "When a client disconnects (Ctrl+C), the server recovers", and
\* "whenever the server creates, updates, or deletes a record, the clients'
\* local copies of the routing table reflect this change".  The slot of a client
\* that has gone is only freed by the next broadcast: a newcomer accepted before
\* it finds no slot, and then sees no change, though there are more slots than
\* connected clients.
SlotForNewcomer ==
    spc = "accept" /\ Cardinality(Live) < MAX_CLIENTS - 2 =>
        \E i \in Slots : mon[i] = Free
=============================================================================
