----------------------------- MODULE SumServer -----------------------------
(***************************************************************************)
(* The sum server with multiplexing                                        *)
(* (unix_domain_sockets/multiplexing/server.c): one thread, a select loop, *)
(* and the slots of FdSetMgmt with a partial sum for each.                 *)
(*                                                                         *)
(* A pass of handle_service_request walks over the slots with the set that *)
(* select returned.  A step of the model is one slot, and two for a slot   *)
(* that is answered (the read, and the rest): clients go on writing and    *)
(* ending in between, and Ctrl+C may come.                                 *)
(***************************************************************************)
EXTENDS FdSetMgmt, SumClient

CONSTANTS
    FD_LIMIT,       \* descriptors the process may open (RLIMIT_NOFILE)
    WRAP_BIT        \* the bit FD_ISSET tests for descriptor -1

STDIN == 0
connection_socket == 3

(***************************************************************************)
(* FD_ISSET(-1, s) indexes word -1 / 64 = 0 and shifts by -1 % 64 = -1,    *)
(* which the machine takes modulo 64: it tests bit 63.  The build is not   *)
(* optimised, so the C library's check of the argument is not in it.       *)
(***************************************************************************)
ASSUME SumServerAssumption ==
    /\ FD_LIMIT \in Nat /\ FD_LIMIT > connection_socket
    /\ WRAP_BIT \in Nat /\ WRAP_BIT > MAX_CLIENTS + 1

NoFd == -1

VARIABLES
    spc,            \* where the server process is
    mon,            \* monitored_fd_set
    client_result,  \* the partial sum of each slot
    fdOf,           \* the server's descriptor for each client, NoFd if none
    read_fds,       \* what select returned
    pos,            \* the slot the service loop is at
    console         \* what STDIN has for the server: nothing, a line, or the end

serverVars == <<spc, mon, client_result, fdOf, read_fds, pos>>
vars == <<serverVars, console, socketVars, clientVars>>

ServerEnded == {"exited", "failed"}
ServerUp == spc \notin ServerEnded

Init ==
    /\ SumClientInit
    /\ spc = "select"
    /\ mon = add_to_monitored_fd_set(
                add_to_monitored_fd_set(initialize_monitor_fd_set, STDIN),
                connection_socket)
    /\ client_result = [i \in Slots |-> 0]
    /\ fdOf = [c \in Clients |-> NoFd]
    /\ read_fds = {}
    /\ pos = 0
    /\ console = "quiet"

-----------------------------------------------------------------------------
ReadyFds ==
    {STDIN : x \in {console} \ {"quiet"}}
    \cup {connection_socket : x \in {backlog} \ {<< >>}}
    \cup {fdOf[c] : c \in {e \in Clients : fdOf[e] # NoFd /\ Readable(e)}}

\* Mutant: the console is looked at first.
DispatchConsoleFirst(ready) ==
    CASE STDIN \in ready             -> "console"
      [] ~ STDIN \in ready /\ connection_socket \in ready -> "accept"
      [] OTHER                       -> "service"

\* One of the three handlers is called: the console is only read when no
\* connection is pending, the clients only when the console is quiet.
Dispatch(ready) ==
    CASE connection_socket \in ready -> "accept"
      [] connection_socket \notin ready /\ STDIN \in ready -> "console"
      [] OTHER                       -> "service"

select ==
    /\ spc = "select"
    /\ LET ready == {fd \in refresh_fd_set(mon) \cap ReadyFds : fd < get_max_fd(mon) + 1}
       IN  /\ ready # {}
           /\ read_fds' = ready
           /\ spc' = Dispatch(ready)
    /\ UNCHANGED <<mon, client_result, fdOf, pos, console, socketVars, clientVars>>

\* A line is read and printed; at the end of input there is nothing to read,
\* and STDIN stays ready.
ReadConsole ==
    /\ spc = "console"
    /\ spc' = "select"
    /\ console' = IF console = "line" THEN "quiet" ELSE console
    /\ read_fds' = {}
    /\ UNCHANGED <<mon, client_result, fdOf, pos, socketVars, clientVars>>

-----------------------------------------------------------------------------
OpenFds == 0 .. connection_socket \cup ({fdOf[c] : c \in Clients} \ {NoFd})

IsNewFd(fd) == fd \notin OpenFds /\ \A f \in 0 .. (fd - 1) : f \in OpenFds

handle_connection_initiation_request ==
    /\ spc = "accept"
    /\ \E c \in Clients, fd \in 0 .. (FD_LIMIT - 1) :
        /\ IsNewFd(fd)
        /\ Accepts(c)
        /\ fdOf' = [fdOf EXCEPT ![c] = fd]
        /\ mon' = add_to_monitored_fd_set(mon, fd)
    /\ spc' = "select"
    /\ read_fds' = {}
    /\ UNCHANGED <<client_result, pos, console, listening, up, down, clientVars>>

\* accept fails (EMFILE): error_and_exit.
AcceptFails ==
    /\ spc = "accept"
    /\ 0 .. (FD_LIMIT - 1) \subseteq OpenFds
    /\ spc' = "failed"
    /\ ServerGone
    /\ UNCHANGED <<mon, client_result, fdOf, read_fds, pos, console>>

-----------------------------------------------------------------------------
(***************************************************************************)
(* handle_service_request, one slot.                                       *)
(***************************************************************************)
FD_ISSET(fd) == (IF fd = Free THEN WRAP_BIT ELSE fd) \in read_fds

\* Mutant: the walk ends before the last slot.
NextSlotMissesLast ==
    IF pos < MAX_CLIENTS - 2
    THEN pos' = pos + 1 /\ spc' = "service" /\ UNCHANGED read_fds
    ELSE pos' = 0 /\ spc' = "select" /\ read_fds' = {}

\* Mutant: the walk starts again without a new select.
NextSlotLoops ==
    /\ pos' = IF pos < MAX_CLIENTS - 1 THEN pos + 1 ELSE 0
    /\ spc' = "service"
    /\ UNCHANGED read_fds

NextSlot ==
    IF pos < MAX_CLIENTS - 1
    THEN pos' = pos + 1 /\ spc' = "service" /\ UNCHANGED read_fds
    ELSE pos' = 0 /\ spc' = "select" /\ read_fds' = {}

SkipSlot ==
    /\ ~ FD_ISSET(mon[pos])
    /\ NextSlot
    /\ UNCHANGED <<client_result, up>>

\* Mutant: at the end of file nothing is done.
ReadIgnoresEof(c) ==
    /\ Takes(c)
    /\ client_result' = [client_result EXCEPT ![pos] = Add(@, Data(c))]
    /\ IF up[c] # << >> /\ Data(c) = 0
       THEN spc' = "answer" /\ UNCHANGED <<read_fds, pos>>
       ELSE NextSlot

\* One read.  A 0, or the end of file that looks like one, calls for an answer.
Read(c) ==
    /\ Takes(c)
    /\ client_result' = [client_result EXCEPT ![pos] = Add(@, Data(c))]
    /\ IF Data(c) = 0
       THEN spc' = "answer" /\ UNCHANGED <<read_fds, pos>>
       ELSE NextSlot

\* read of a slot without a socket would fail, and end the server.
handle_service_request ==
    /\ spc = "service"
    /\ \/ SkipSlot
       \/ /\ FD_ISSET(mon[pos])
          /\ \E c \in Clients : fdOf[c] = mon[pos] /\ fdOf[c] # NoFd /\ Read(c)
    /\ UNCHANGED <<mon, fdOf, console, connections, down, clientVars>>

\* Mutant: the partial sum of the slot is not cleared.
SendResultKeepsSum ==
    /\ spc = "answer"
    /\ \E c \in Clients :
        /\ fdOf[c] = mon[pos]
        /\ Answers(c, client_result[pos])
        /\ fdOf' = [fdOf EXCEPT ![c] = NoFd]
    /\ mon' = remove_from_monitored_fd_set(mon, mon[pos])
    /\ NextSlot
    /\ UNCHANGED <<client_result, console, clientVars>>

\* Mutant: the descriptor stays in its slot.
SendResultKeepsSlot ==
    /\ spc = "answer"
    /\ \E c \in Clients :
        /\ fdOf[c] = mon[pos]
        /\ Answers(c, client_result[pos])
        /\ fdOf' = [fdOf EXCEPT ![c] = NoFd]
    /\ client_result' = [client_result EXCEPT ![pos] = 0]
    /\ NextSlot
    /\ UNCHANGED <<mon, console, clientVars>>

\* Mutant: the socket is not closed.
SendResultKeepsOpen ==
    /\ spc = "answer"
    /\ \E c \in Clients :
        /\ fdOf[c] = mon[pos]
        /\ down' = [down EXCEPT ![c] =
                        IF cpc[c] \in ClientEnded THEN @ ELSE client_result[pos]]
    /\ client_result' = [client_result EXCEPT ![pos] = 0]
    /\ mon' = remove_from_monitored_fd_set(mon, mon[pos])
    /\ NextSlot
    /\ UNCHANGED <<fdOf, console, connections, up, clientVars>>

\* The rest of the turn: write, close, clear the sum, free the slot.
SendResult ==
    /\ spc = "answer"
    /\ \E c \in Clients :
        /\ fdOf[c] = mon[pos]
        /\ Answers(c, client_result[pos])
        /\ fdOf' = [fdOf EXCEPT ![c] = NoFd]
    /\ client_result' = [client_result EXCEPT ![pos] = 0]
    /\ mon' = remove_from_monitored_fd_set(mon, mon[pos])
    /\ NextSlot
    /\ UNCHANGED <<console, clientVars>>

-----------------------------------------------------------------------------
shutdown_server ==
    /\ ServerUp
    /\ spc' = "exited"
    /\ mon' = remove_from_monitored_fd_set(mon, connection_socket)
    /\ ServerGone
    /\ UNCHANGED <<client_result, fdOf, read_fds, pos, console>>

TypeLine ==
    /\ console = "quiet"
    /\ console' = "line"
    /\ UNCHANGED <<serverVars, socketVars, clientVars>>

EndConsole ==
    /\ console = "quiet"
    /\ console' = "end"
    /\ UNCHANGED <<serverVars, socketVars, clientVars>>

ServerStep ==
    select \/ ReadConsole \/ handle_connection_initiation_request \/ AcceptFails
        \/ handle_service_request \/ SendResult

Process(c) == ClientStep(c) /\ UNCHANGED <<serverVars, console>>

Environment ==
    \/ shutdown_server \/ TypeLine \/ EndConsole
    \/ \E c \in Clients : User(c) /\ UNCHANGED <<serverVars, console>>

Next == ServerStep \/ (\E c \in Clients : Process(c)) \/ Environment

Spec == Init /\ [][Next]_vars

\* The kernel runs what can run; nobody has to type, connect or interrupt.
FairSpec == Spec /\ WF_vars(ServerStep) /\ \A c \in Clients : WF_vars(Process(c))

-----------------------------------------------------------------------------
(***************************************************************************)
(* Properties.                                                             *)
(***************************************************************************)

\* Every variable holds a value of its type, and the service loop is entered
\* with neither STDIN nor the listening socket in the read set.
TypeOK ==
    /\ SumClientTypeOK
    /\ spc \in {"select", "accept", "console", "service", "answer"} \cup ServerEnded
    /\ mon \in [Slots -> Int]
    /\ client_result \in [Slots -> Int_w]
    /\ fdOf \in [Clients -> Int]
    /\ read_fds \subseteq 0 .. (FD_LIMIT - 1)
    /\ pos \in Slots
    /\ console \in {"quiet", "line", "end"}
    /\ spc = "service" => {STDIN, connection_socket} \cap read_fds = {}

\* handle_service_request applies FD_ISSET to free slots, whose descriptor is
\* -1, and refresh_fd_set applies FD_SET to any.  Neither does harm because a
\* monitored descriptor never exceeds the number of slots: a descriptor above
\* is only given out when every slot is taken, and then it is not monitored,
\* and each close gives back the descriptor together with the slot.
DescriptorsLow ==
    /\ \A i \in Slots : mon[i] <= MAX_CLIENTS + 1
    /\ WRAP_BIT \notin read_fds

\* A slot that holds a descriptor holds one that is open, no two hold the same,
\* and a free slot has no partial sum left in it, so that the next client to
\* take it starts from 0.
SlotsClean ==
    ServerUp =>
        /\ \A i \in Slots : mon[i] \in {Free, STDIN, connection_socket} \cup OpenFds
        /\ \A i, j \in Slots : mon[i] = mon[j] /\ mon[i] # Free => i = j
        /\ \A i \in Slots : mon[i] = Free => client_result[i] = 0

\* The server never comes to read from a descriptor that is not there, although
\* the read set is older than the slots it is compared with: what the service
\* loop still has to visit is readable, and its read does not block.
ReadSetCurrent ==
    spc = "service" =>
        \A i \in pos .. (MAX_CLIENTS - 1) :
            FD_ISSET(mon[i]) => \E c \in Clients : fdOf[c] = mon[i] /\ Readable(c)

\* A connection that is waiting is accepted, whatever the console does.
PendingIsAccepted ==
    \A c \in Clients : conn[c] = "pending" ~> conn[c] # "pending"

\* The slots that hold a client's descriptor: one, or none if it is not monitored.
SlotsOf(c) == {i \in Slots : fdOf[c] # NoFd /\ mon[i] = fdOf[c]}

\* The server has the client in its slots.
Monitored(c) == SlotsOf(c) # {}

\* With the console quiet in the end, every patient client that has sent its 0
\* gets an answer once it has a slot, unless it leaves or the server ends: other
\* clients that come, go, or stay at their prompts do not matter.  A client that
\* was accepted when the slots were full is never read from, and waits for ever.
ResultArrives ==
    <>[](console = "quiet") =>
        \A c \in Patient : (cpc[c] = "waiting" /\ Monitored(c)) ~> cpc[c] # "waiting"

\* "The server needs to ignore SIGPIPE in order to handle the remaining
\* clients": a client in a slot that leaves before, or instead of, reading its
\* result gives its descriptor and its slot back.  The descriptor of a client
\* without a slot stays open.
GoneIsReclaimed ==
    <>[](console = "quiet") =>
        \A c \in Clients :
            (cpc[c] \in ClientEnded /\ Monitored(c)) ~> fdOf[c] = NoFd \/ ~ ServerUp

-----------------------------------------------------------------------------
Account(c) == IF SlotsOf(c) = {} THEN 0 ELSE client_result[CHOOSE i \in SlotsOf(c) : TRUE]

Service == INSTANCE SumService WITH
    LOSS <- READ_INTS - 1, Plus <- Add,
    pending <- up,
    account <- [c \in Clients |-> Account(c)],
    due <- IF spc = "answer" THEN {c \in Clients : fdOf[c] = mon[pos]} ELSE {},
    answer <- down,
    gone <- {c \in Clients : cpc[c] \in ClientEnded}

\* Slots, descriptors and passes cannot be seen by a client: each has an
\* account of its own, to which nothing is added that it did not send.
SumServiceSpec == Service!Spec
=============================================================================
