---------------------------- MODULE SumServerProofs ----------------------------
(***************************************************************************)
(* Theorems about the sum server with multiplexing, for any number of      *)
(* clients, slots, descriptors and ints.                                   *)
(***************************************************************************)
EXTENDS SumServer, TableLemmas, FiniteSetTheorems

\* Who waits in the backlog waits once, and has just connected.
ConnInv ==
    /\ \A i \in 1 .. Len(backlog) : conn[backlog[i]] = "pending"
    /\ \A i, j \in 1 .. Len(backlog) : backlog[i] = backlog[j] => i = j
    /\ \A c \in Clients : cpc[c] = "off" => conn[c] = "none"
    /\ \A c \in Clients : conn[c] \in {"none", "pending", "open"} => down[c] = NoResult

\* A descriptor belongs to one open connection.
FdInv ==
    /\ fdOf \in [Clients -> {NoFd} \cup (connection_socket + 1) .. (FD_LIMIT - 1)]
    /\ \A c, e \in Clients : fdOf[c] = fdOf[e] /\ fdOf[c] # NoFd => c = e
    /\ ServerUp => \A c \in Clients : fdOf[c] # NoFd => conn[c] = "open"

Holds(fd) == \E i \in Slots : mon[i] = fd

SlotInv ==
    /\ SlotsClean
    /\ ServerUp =>
        /\ Holds(STDIN) /\ Holds(connection_socket)
        /\ \A i \in Slots :
               mon[i] \in {Free, STDIN, connection_socket} \cup {fdOf[c] : c \in Clients}

\* Descriptors up to the number of slots are monitored, others are not.
LowInv ==
    /\ \A i \in Slots : mon[i] <= MAX_CLIENTS + 1
    /\ \A fd \in read_fds : fd <= MAX_CLIENTS + 1
    /\ ServerUp => \A c \in Clients :
           fdOf[c] # NoFd /\ fdOf[c] <= MAX_CLIENTS + 1 => Holds(fdOf[c])

\* What the service loop finds in a slot is what select saw there.
Current(i) ==
    mon[i] \in read_fds => \E c \in Clients : fdOf[c] = mon[i] /\ Readable(c)

PassInv ==
    /\ spc \in {"service", "answer"} => {STDIN, connection_socket} \cap read_fds = {}
    /\ spc = "service" => \A i \in pos .. (MAX_CLIENTS - 1) : Current(i)
    /\ spc = "answer" =>
           /\ mon[pos] # Free /\ \E c \in Clients : fdOf[c] = mon[pos]
           /\ \A i \in (pos + 1) .. (MAX_CLIENTS - 1) : Current(i)

IInv == TypeOK /\ ConnInv /\ FdInv /\ SlotInv /\ LowInv /\ PassInv

-----------------------------------------------------------------------------
\* What % returns, and when it changes nothing.
LEMMA Modulo ==
  ASSUME NEW x \in Int, NEW m \in Nat \ {0}
  PROVE  x % m \in 0 .. (m - 1) /\ (x \in 0 .. (m - 1) => x % m = x)
OBVIOUS

\* A sum of two ints is an int again, and 0 adds nothing.
LEMMA AddType ==
  ASSUME NEW a \in Int_w, NEW b \in Int_w
  PROVE  Add(a, b) \in Int_w /\ Add(a, 0) = a
<1> DEFINE m == 2 * (INT_MAX + 1)
           x == a + b + INT_MAX + 1
           y == a + 0 + INT_MAX + 1
<1>1. INT_MAX \in Nat /\ a \in Int /\ b \in Int
  BY SumClientAssumption DEF Int_w
<1>2. m \in Nat \ {0} /\ x \in Int /\ y \in 0 .. (m - 1)
  BY <1>1 DEF Int_w
<1>3. m = 2 * (INT_MAX + 1) /\ y = a + INT_MAX + 1
  BY <1>1
<1>4. Add(a, b) = (x % m) - (INT_MAX + 1) /\ Add(a, 0) = (y % m) - (INT_MAX + 1)
  BY DEF Add
<1> HIDE DEF m, x, y
<1>5. x % m \in 0 .. (m - 1)
  BY <1>2, Modulo
<1>6. y % m = y
  BY <1>2, Modulo
<1>7. Add(a, b) \in Int_w
  BY <1>1, <1>3, <1>4, <1>5 DEF Int_w
<1> QED  BY <1>1, <1>3, <1>4, <1>6, <1>7

LowFds == {STDIN} \cup connection_socket .. (MAX_CLIENTS + 1)

\* There are as many of the lowest descriptors as slots.
LEMMA LowFdsCount ==
  /\ IsFiniteSet(LowFds) /\ Cardinality(LowFds) = MAX_CLIENTS
  /\ IsFiniteSet(Slots) /\ Cardinality(Slots) = MAX_CLIENTS
<1> DEFINE I == connection_socket .. (MAX_CLIENTS + 1)
<1>1. MAX_CLIENTS \in Nat /\ MAX_CLIENTS >= 2
  BY MaxClientsAssumption
<1>2. IsFiniteSet(I) /\ Cardinality(I) = MAX_CLIENTS - 1
  BY <1>1, FS_Interval DEF connection_socket
<1>3. STDIN \notin I /\ LowFds = I \cup {STDIN}
  BY <1>1 DEF STDIN, connection_socket, LowFds
<1>4. IsFiniteSet(Slots) /\ Cardinality(Slots) = MAX_CLIENTS
  BY <1>1, FS_Interval DEF Slots
<1> HIDE DEF I
<1>5. /\ IsFiniteSet(I \cup {STDIN})
      /\ Cardinality(I \cup {STDIN}) = Cardinality(I) + 1
  BY <1>2, <1>3, FS_AddElement
<1> QED  BY <1>1, <1>2, <1>3, <1>4, <1>5

\* When every slot holds one of them, each of them is in a slot.
LEMMA FullHoldsAllLow ==
  ASSUME NEW m \in [Slots -> LowFds],
         \A i, j \in Slots : m[i] = m[j] => i = j,
         NEW fd \in LowFds
  PROVE  \E i \in Slots : m[i] = fd
<1> SUFFICES ASSUME \A i \in Slots : m[i] # fd PROVE FALSE
  OBVIOUS
<1>1. m \in [Slots -> LowFds \ {fd}]
  OBVIOUS
<1>2. IsFiniteSet(LowFds \ {fd}) /\ Cardinality(LowFds \ {fd}) = MAX_CLIENTS - 1
  BY LowFdsCount, FS_RemoveElement
<1>3. Cardinality(LowFds \ {fd}) < Cardinality(Slots) /\ IsFiniteSet(Slots)
  BY <1>2, LowFdsCount, MaxClientsAssumption
<1>4. \E x, y \in Slots : x # y /\ m[x] = m[y]
  BY <1>1, <1>2, <1>3, FS_PigeonHole
<1> QED  BY <1>4

\* When a slot is free, one of them is in no slot.
LEMMA FreeMissesOneLow ==
  ASSUME NEW m \in [Slots -> Int], NEW k \in Slots, m[k] = Free
  PROVE  \E fd \in LowFds : \A i \in Slots : m[i] # fd
<1> SUFFICES ASSUME \A fd \in LowFds : \E i \in Slots : m[i] = fd PROVE FALSE
  OBVIOUS
<1>1. Free \notin LowFds
  BY MaxClientsAssumption DEF Free, LowFds, STDIN, connection_socket
<1> DEFINE slot == [fd \in LowFds |-> CHOOSE i \in Slots : m[i] = fd]
<1>2. \A fd \in LowFds : slot[fd] \in Slots /\ m[slot[fd]] = fd
  OBVIOUS
<1>3. slot \in [LowFds -> Slots \ {k}]
  BY <1>1, <1>2
<1> HIDE DEF slot
<1>4. IsFiniteSet(Slots \ {k}) /\ Cardinality(Slots \ {k}) = MAX_CLIENTS - 1
  BY LowFdsCount, FS_RemoveElement
<1>5. Cardinality(Slots \ {k}) < Cardinality(LowFds) /\ IsFiniteSet(LowFds)
  BY <1>4, LowFdsCount, MaxClientsAssumption
<1>6. \E x, y \in LowFds : x # y /\ slot[x] = slot[y]
  BY <1>3, <1>4, <1>5, FS_PigeonHole
<1> QED  BY <1>2, <1>6
-----------------------------------------------------------------------------
\* The server starts with STDIN and the listening socket in two slots.
LEMMA MonInit ==
  ASSUME Init
  PROVE  \E i, j \in Slots :
            /\ i # j /\ mon[i] = STDIN /\ mon[j] = connection_socket
            /\ mon \in [Slots -> Int] /\ \A k \in Slots \ {i, j} : mon[k] = Free
<1> DEFINE none == initialize_monitor_fd_set
           one == add_to_monitored_fd_set(none, STDIN)
<1>1. none \in [Slots -> Int] /\ \A k \in Slots : none[k] = Free
  BY DEF initialize_monitor_fd_set, Free
<1>2. MAX_CLIENTS >= 2 /\ {0, 1} \subseteq Slots /\ {STDIN, connection_socket} \subseteq Int
      /\ Free \notin {STDIN, connection_socket}
  BY MaxClientsAssumption DEF Slots, STDIN, connection_socket, Free
<1> HIDE DEF none
<1>3. PICK i \in Slots : one = [none EXCEPT ![i] = STDIN]
  BY <1>1, <1>2, AddFillsOneSlot
<1>4. mon = add_to_monitored_fd_set(one, connection_socket)
  BY DEF Init, one, none
<1> HIDE DEF one
<1>5. one \in [Slots -> Int] /\ one[i] = STDIN /\ \A k \in Slots \ {i} : one[k] = Free
  BY <1>1, <1>2, <1>3
<1>6. \E k \in Slots : one[k] = Free
  BY <1>2, <1>5
<1>7. PICK j \in Slots : one[j] = Free /\ mon = [one EXCEPT ![j] = connection_socket]
  BY <1>2, <1>4, <1>5, <1>6, AddFillsOneSlot
<1> QED  BY <1>2, <1>5, <1>7

\* The server starts with standard input and its socket monitored, nothing else.
LEMMA InitInv == Init => IInv
<1> SUFFICES ASSUME Init PROVE IInv
  OBVIOUS
<1>1. PICK i, j \in Slots :
            /\ i # j /\ mon[i] = STDIN /\ mon[j] = connection_socket
            /\ mon \in [Slots -> Int] /\ \A k \in Slots \ {i, j} : mon[k] = Free
  BY MonInit
<1>2. /\ MAX_CLIENTS \in Nat /\ MAX_CLIENTS >= 2 /\ INT_MAX \in Nat /\ FD_LIMIT \in Nat
      /\ NoResult \notin Int
  BY MaxClientsAssumption, SumClientAssumption, SumServerAssumption
<1>3. 0 \in Slots /\ 0 \in Int_w /\ << >> \in Seq(Clients) /\ << >> \in Seq(Values \cup {0})
  BY <1>2, EmptySeq DEF Slots, Int_w
<1>4. SumClientTypeOK
  BY <1>3 DEF Init, SumClientInit, SumClientTypeOK, ConnStates, ClientStates
<1>5. TypeOK
  BY <1>1, <1>3, <1>4 DEF Init, TypeOK, NoFd
<1>6. ConnInv
  BY <1>3, EmptySeq DEF Init, SumClientInit, ConnInv
<1>7. FdInv
  BY DEF Init, FdInv
<1>8. SlotInv
  BY <1>1 DEF Init, SlotInv, SlotsClean, Holds, STDIN, connection_socket, Free
<1>9. LowInv
  BY <1>1, <1>2 DEF Init, LowInv, STDIN, connection_socket, Free
<1>10. PassInv
  BY DEF Init, PassInv
<1> QED  BY <1>5, <1>6, <1>7, <1>8, <1>9, <1>10 DEF IInv

-----------------------------------------------------------------------------
\* What a client does to its side of the connection.
LEMMA ClientEffect ==
  ASSUME IInv, NEW c \in Clients, ClientStep(c) \/ User(c)
  PROVE  /\ SumClientTypeOK' /\ ConnInv' /\ down' = down
         /\ \A e \in Clients : conn[e] = "open" => conn'[e] = "open"
         /\ \A e \in Clients : Readable(e) => Readable(e)'
<1> USE DEF IInv
<1>1. SumClientTypeOK /\ ConnInv
  BY DEF TypeOK
<1>2. CASE Connect(c)
  <2>1. /\ cpc[c] = "off" /\ cpc' = [cpc EXCEPT ![c] = "sending"]
        /\ conn' = [conn EXCEPT ![c] = "pending"] /\ backlog' = Append(backlog, c)
        /\ UNCHANGED <<listening, up, down, sent, result>>
    BY <1>2 DEF Connect, Moves
  <2>2. conn[c] = "none"
    BY <1>1, <2>1 DEF ConnInv
  <2>3. backlog \in Seq(Clients) /\ Len(backlog) \in Nat /\ backlog' \in Seq(Clients)
    BY <1>1, <2>1 DEF SumClientTypeOK
  <2>4. SumClientTypeOK'
    BY <1>1, <2>1, <2>3 DEF SumClientTypeOK, ConnStates, ClientStates
  <2>5. /\ Len(backlog') = Len(backlog) + 1 /\ backlog'[Len(backlog) + 1] = c
        /\ \A i \in 1 .. Len(backlog) : backlog'[i] = backlog[i] /\ backlog[i] \in Clients
    BY <2>1, <2>3
  <2>6. \A i \in 1 .. Len(backlog) : backlog[i] # c /\ conn'[backlog[i]] = "pending"
    BY <1>1, <2>1, <2>2, <2>5 DEF ConnInv, SumClientTypeOK
  <2>7. conn'[c] = "pending"
    BY <1>1, <2>1 DEF SumClientTypeOK
  <2>8. \A i \in 1 .. Len(backlog') : i \in 1 .. Len(backlog) \/ i = Len(backlog) + 1
    BY <2>3, <2>5
  <2>9. /\ \A i \in 1 .. Len(backlog') : conn'[backlog'[i]] = "pending"
        /\ \A i, j \in 1 .. Len(backlog') : backlog'[i] = backlog'[j] => i = j
    BY <1>1, <2>5, <2>6, <2>7, <2>8 DEF ConnInv
  <2>10. ConnInv'
    BY <1>1, <2>1, <2>2, <2>9 DEF ConnInv, SumClientTypeOK
  <2>11. \A e \in Clients : Readable(e) => Readable(e)'
    BY <1>1, <2>1 DEF Readable, SumClientTypeOK, ClientEnded
  <2> QED  BY <2>1, <2>2, <2>4, <2>10, <2>11
<1>3. CASE \E v \in Values \cup {0} : Send(c, v)
  <2>1. PICK v \in Values \cup {0} : Send(c, v)
    BY <1>3
  <2>2. /\ cpc[c] = "sending"
        /\ \E to \in {"sending", "waiting"} : cpc' = [cpc EXCEPT ![c] = to]
        /\ up' = [up EXCEPT ![c] = Append(@, v)] /\ sent' = [sent EXCEPT ![c] = Append(@, v)]
        /\ UNCHANGED <<connections, down, result>>
    BY <2>1 DEF Send, Moves
  <2>3. /\ Append(up[c], v) \in Seq(Values \cup {0}) /\ Append(up[c], v) # << >>
        /\ Append(sent[c], v) \in Seq(Values \cup {0})
    <3>1. up[c] \in Seq(Values \cup {0}) /\ sent[c] \in Seq(Values \cup {0})
      BY <1>1 DEF SumClientTypeOK
    <3> QED  BY <3>1, AppendProperties
  <2>4. SumClientTypeOK'
    BY <1>1, <2>2, <2>3 DEF SumClientTypeOK, connections, ClientStates
  <2>5. ConnInv'
    BY <1>1, <2>2 DEF ConnInv, SumClientTypeOK, connections
  <2>6. \A e \in Clients : Readable(e) => Readable(e)'
    BY <1>1, <2>2, <2>3 DEF Readable, SumClientTypeOK, ClientEnded
  <2> QED  BY <2>2, <2>4, <2>5, <2>6 DEF connections
<1>4. CASE \/ ClientStep(c) \/ ConnectFails(c) \/ SendFails(c) \/ FlushAtEof(c)
           \/ shutdown_client(c)
  <2>1. /\ UNCHANGED <<listening, backlog, conn, up, down, sent>>
        /\ cpc[c] \notin ClientEnded
        /\ \E to \in {"spin", "exited", "failed"} : cpc' = [cpc EXCEPT ![c] = to]
        /\ result' = result \/ result' = [result EXCEPT ![c] = down[c]]
    BY <1>4
    DEF ClientStep, ConnectFails, SendFails, FlushAtEof, shutdown_client, Receive,
        ReceiveNothing, Moves, socketVars, connections, ClientEnded
  <2>2. SumClientTypeOK'
    BY <1>1, <2>1 DEF SumClientTypeOK, ClientStates, ClientEnded
  <2>3. ConnInv'
    BY <1>1, <2>1 DEF ConnInv, SumClientTypeOK
  <2>4. \A e \in Clients : Readable(e) => Readable(e)'
    BY <1>1, <2>1 DEF Readable, SumClientTypeOK, ClientEnded
  <2> QED  BY <2>1, <2>2, <2>3, <2>4
<1> QED  BY <1>2, <1>3, <1>4 DEF User

\* Clients, and whoever is at the console, leave the server's variables alone.
LEMMA OthersInv ==
  ASSUME IInv, UNCHANGED serverVars, SumClientTypeOK', ConnInv',
         console' \in {"quiet", "line", "end"},
         \A e \in Clients : conn[e] = "open" => conn'[e] = "open",
         \A e \in Clients : Readable(e) => Readable(e)'
  PROVE  IInv'
<1> USE DEF IInv
<1>1. UNCHANGED <<spc, mon, client_result, fdOf, read_fds, pos>>
  BY DEF serverVars
<1>2. TypeOK' /\ FdInv'
  BY <1>1 DEF TypeOK, FdInv, ServerUp
<1>3. SlotInv' /\ LowInv'
  BY <1>1 DEF SlotInv, SlotsClean, Holds, OpenFds, LowInv, ServerUp
<1>4. \A i \in Slots : Current(i) => Current(i)'
  BY <1>1 DEF Current
<1>5. pos \in Slots /\ MAX_CLIENTS \in Nat
  BY MaxClientsAssumption DEF TypeOK
<1>6. PassInv'
  BY <1>1, <1>4, <1>5 DEF PassInv, Slots
<1> QED  BY <1>2, <1>3, <1>6

-----------------------------------------------------------------------------
\* What select returns is monitored and ready.
LEMMA SelectInv ==
  ASSUME IInv, select
  PROVE  IInv'
<1> USE DEF IInv
<1>1. /\ spc = "select" /\ read_fds' \subseteq refresh_fd_set(mon) \cap ReadyFds
      /\ spc' = Dispatch(read_fds')
      /\ UNCHANGED <<mon, client_result, fdOf, pos, console, socketVars, clientVars>>
  BY DEF select
<1>2. UNCHANGED <<listening, backlog, conn, up, down, cpc, sent, result>>
  BY <1>1 DEF socketVars, connections, clientVars
<1>3. /\ spc' \in {"accept", "console", "service"}
      /\ spc' = "service" => {STDIN, connection_socket} \cap read_fds' = {}
  BY <1>1 DEF Dispatch
<1>4. ASSUME NEW fd \in read_fds'
      PROVE  /\ fd \in {STDIN, connection_socket} \/ \E c \in Clients :
                    fdOf[c] = fd /\ fdOf[c] # NoFd /\ Readable(c)
             /\ \E i \in Slots : mon[i] = fd
  BY <1>1, <1>4 DEF refresh_fd_set, ReadyFds
<1>5. read_fds' \subseteq 0 .. (FD_LIMIT - 1)
  BY <1>4, SumServerAssumption DEF FdInv, STDIN, connection_socket
<1>6. TypeOK' /\ ConnInv'
  <2>1. SumClientTypeOK' /\ ConnInv'
    BY <1>2 DEF TypeOK, SumClientTypeOK, ConnInv
  <2> QED  BY <1>1, <1>3, <1>5, <2>1 DEF TypeOK
<1>7. FdInv' /\ SlotInv'
  BY <1>1, <1>2, <1>3
  DEF FdInv, SlotInv, SlotsClean, Holds, OpenFds, ServerUp, ServerEnded
<1>8. LowInv'
  BY <1>1, <1>3, <1>4 DEF LowInv, Holds, ServerUp, ServerEnded
<1>9. PassInv'
  <2>1. ASSUME spc' = "service", NEW i \in Int, mon'[i] \in read_fds'
        PROVE  \E c \in Clients : fdOf'[c] = mon'[i] /\ Readable(c)'
    <3>1. mon[i] \notin {STDIN, connection_socket} /\ mon[i] \in read_fds'
      BY <1>1, <1>3, <2>1
    <3>2. PICK c \in Clients : fdOf[c] = mon[i] /\ Readable(c)
      BY <1>4, <3>1
    <3> QED  BY <1>1, <1>2, <3>2 DEF Readable
  <2>2. pos' \in Int /\ MAX_CLIENTS \in Int
    BY <1>1, MaxClientsAssumption DEF TypeOK, Slots
  <2> QED  BY <1>3, <2>1, <2>2 DEF PassInv, Current
<1> QED  BY <1>6, <1>7, <1>8, <1>9

\* A line of the console is read.
LEMMA ConsoleInv ==
  ASSUME IInv, ReadConsole
  PROVE  IInv'
<1> USE DEF IInv
<1>1. /\ spc = "console" /\ spc' = "select" /\ read_fds' = {}
      /\ console' \in {console, "quiet"}
      /\ UNCHANGED <<mon, client_result, fdOf, pos, socketVars, clientVars>>
  BY DEF ReadConsole
<1>2. UNCHANGED <<listening, backlog, conn, up, down, cpc, sent, result>>
  BY <1>1 DEF socketVars, connections, clientVars
<1>3. SumClientTypeOK' /\ ConnInv'
  BY <1>2 DEF TypeOK, SumClientTypeOK, ConnInv
<1>4. TypeOK'
  BY <1>1, <1>3 DEF TypeOK
<1>5. FdInv' /\ SlotInv' /\ LowInv'
  BY <1>1, <1>2
  DEF FdInv, SlotInv, SlotsClean, Holds, OpenFds, LowInv, ServerUp, ServerEnded
<1> QED  BY <1>1, <1>3, <1>4, <1>5 DEF PassInv

-----------------------------------------------------------------------------
\* Whom accept connects, and what it gives him.
LEMMA AcceptEffect ==
  ASSUME IInv, handle_connection_initiation_request
  PROVE  \E h \in Clients, fd \in (connection_socket + 1) .. (FD_LIMIT - 1) :
            /\ IsNewFd(fd) /\ \A e \in Clients : fdOf[e] # fd
            /\ conn[h] = "pending" /\ conn' = [conn EXCEPT ![h] = "open"]
            /\ fdOf[h] = NoFd /\ fdOf' = [fdOf EXCEPT ![h] = fd]
            /\ mon' = add_to_monitored_fd_set(mon, fd)
            /\ backlog # << >> /\ h = Head(backlog) /\ backlog' = Tail(backlog)
            /\ spc = "accept" /\ spc' = "select" /\ read_fds' = {}
            /\ UNCHANGED <<client_result, pos, console, listening, up, down, cpc, sent, result>>
<1> USE DEF IInv
<1>1. PICK h \in Clients, fd \in 0 .. (FD_LIMIT - 1) :
            /\ IsNewFd(fd) /\ Accepts(h)
            /\ fdOf' = [fdOf EXCEPT ![h] = fd] /\ mon' = add_to_monitored_fd_set(mon, fd)
  BY DEF handle_connection_initiation_request
<1>2. /\ backlog # << >> /\ h = Head(backlog) /\ backlog' = Tail(backlog)
      /\ conn' = [conn EXCEPT ![h] = "open"]
  BY <1>1 DEF Accepts
<1>3. backlog \in Seq(Clients)
  BY DEF TypeOK, SumClientTypeOK
<1>4. 1 \in 1 .. Len(backlog) /\ h = backlog[1]
  BY <1>2, <1>3, EmptySeq
<1>5. conn[h] = "pending"
  BY <1>4 DEF ConnInv
<1>6. spc = "accept" /\ fdOf[h] = NoFd
  BY <1>5 DEF handle_connection_initiation_request, FdInv, ServerUp, ServerEnded
<1>7. fd \notin OpenFds
  BY <1>1 DEF IsNewFd
<1>8. fd # NoFd /\ FD_LIMIT \in Nat
  BY SumServerAssumption DEF NoFd
<1>9. fd \in (connection_socket + 1) .. (FD_LIMIT - 1) /\ \A e \in Clients : fdOf[e] # fd
  BY <1>7, <1>8 DEF OpenFds, connection_socket
<1>10. UNCHANGED <<client_result, pos, console, listening, up, down, cpc, sent, result>>
       /\ spc' = "select" /\ read_fds' = {}
  BY DEF handle_connection_initiation_request, clientVars
<1> QED  BY <1>1, <1>2, <1>5, <1>6, <1>9, <1>10

\* A descriptor in a slot is a low one, and open.
LEMMA SlotsHoldLow ==
  ASSUME IInv, ServerUp, NEW i \in Slots, mon[i] # Free
  PROVE  mon[i] \in LowFds /\ mon[i] \in OpenFds
<1> USE DEF IInv
<1>1. mon[i] \in {STDIN, connection_socket} \/ \E c \in Clients : mon[i] = fdOf[c]
  BY DEF SlotInv
<1>2. mon[i] \in Int /\ mon[i] <= MAX_CLIENTS + 1 /\ MAX_CLIENTS \in Nat /\ MAX_CLIENTS >= 2
  BY MaxClientsAssumption DEF LowInv, TypeOK
<1>3. CASE mon[i] \in {STDIN, connection_socket}
  BY <1>2, <1>3 DEF LowFds, OpenFds, STDIN, connection_socket
<1>4. CASE \E c \in Clients : mon[i] = fdOf[c]
  <2>1. PICK c \in Clients : mon[i] = fdOf[c]
    BY <1>4
  <2>2. mon[i] # NoFd /\ mon[i] > connection_socket
    BY <2>1, SumServerAssumption DEF FdInv, Free, NoFd, connection_socket
  <2> QED  BY <1>2, <2>1, <2>2 DEF LowFds, OpenFds, connection_socket
<1> QED  BY <1>1, <1>3, <1>4

\* A newcomer gets a low descriptor exactly if it gets a slot.
LEMMA NewcomerLow ==
  ASSUME IInv, ServerUp, NEW fd \in Int, fd > connection_socket, IsNewFd(fd)
  PROVE  fd <= MAX_CLIENTS + 1 <=> \E i \in Slots : mon[i] = Free
<1> USE DEF IInv
<1>1. MAX_CLIENTS \in Nat /\ MAX_CLIENTS >= 2 /\ mon \in [Slots -> Int]
      /\ fd \notin OpenFds /\ \A f \in 0 .. (fd - 1) : f \in OpenFds
  BY MaxClientsAssumption DEF TypeOK, IsNewFd
<1>2. ASSUME fd <= MAX_CLIENTS + 1, \A i \in Slots : mon[i] # Free
      PROVE  FALSE
  <2>1. mon \in [Slots -> LowFds]
    BY <1>1, <1>2, SlotsHoldLow
  <2>2. \A i, j \in Slots : mon[i] = mon[j] => i = j
    BY <1>2 DEF SlotInv, SlotsClean
  <2>3. fd \in LowFds
    BY <1>1, <1>2 DEF LowFds, connection_socket
  <2>4. PICK i \in Slots : mon[i] = fd
    BY <2>1, <2>2, <2>3, FullHoldsAllLow
  <2> QED  BY <1>1, <1>2, <2>4, SlotsHoldLow
<1>3. ASSUME fd > MAX_CLIENTS + 1, NEW k \in Slots, mon[k] = Free
      PROVE  FALSE
  <2>1. PICK low \in LowFds : \A i \in Slots : mon[i] # low
    BY <1>1, <1>3, FreeMissesOneLow
  <2>2. low \notin {STDIN, connection_socket}
    BY <2>1 DEF SlotInv, Holds
  <2>3. low \in (connection_socket + 1) .. (MAX_CLIENTS + 1)
    BY <1>1, <2>2 DEF LowFds, connection_socket
  <2>4. low \in OpenFds
    BY <1>1, <1>3, <2>3 DEF connection_socket
  <2>5. PICK c \in Clients : fdOf[c] = low
    BY <1>1, <2>3, <2>4 DEF OpenFds, connection_socket
  <2>6. Holds(low)
    BY <1>1, <2>3, <2>5 DEF LowInv, NoFd, connection_socket
  <2> QED  BY <2>1, <2>6 DEF Holds
<1> QED  BY <1>1, <1>2, <1>3

\* accept gives the lowest descriptor: it finds a slot when and only when it is
\* low enough to be told apart from a free one.
LEMMA AcceptInv ==
  ASSUME IInv, handle_connection_initiation_request
  PROVE  IInv'
<1> USE DEF IInv
<1>1. PICK h \in Clients, fd \in (connection_socket + 1) .. (FD_LIMIT - 1) :
            /\ IsNewFd(fd) /\ \A e \in Clients : fdOf[e] # fd
            /\ conn[h] = "pending" /\ conn' = [conn EXCEPT ![h] = "open"]
            /\ fdOf[h] = NoFd /\ fdOf' = [fdOf EXCEPT ![h] = fd]
            /\ mon' = add_to_monitored_fd_set(mon, fd)
            /\ backlog # << >> /\ h = Head(backlog) /\ backlog' = Tail(backlog)
            /\ spc = "accept" /\ spc' = "select" /\ read_fds' = {}
            /\ UNCHANGED <<client_result, pos, console, listening, up, down, cpc, sent, result>>
  BY AcceptEffect
<1>2. /\ ServerUp /\ ServerUp' /\ fd \in Int /\ fd > connection_socket /\ fd # NoFd /\ fd # Free
      /\ fd \notin {STDIN, connection_socket}
  BY <1>1, SumServerAssumption DEF ServerUp, ServerEnded, NoFd, Free, STDIN, connection_socket
<1>3. mon \in [Slots -> Int] /\ MAX_CLIENTS \in Nat /\ fdOf \in [Clients -> Int]
  BY MaxClientsAssumption DEF TypeOK
<1>4. fd <= MAX_CLIENTS + 1 <=> \E i \in Slots : mon[i] = Free
  BY <1>1, <1>2, NewcomerLow
<1>5. \/ mon' = mon /\ fd > MAX_CLIENTS + 1
      \/ /\ fd <= MAX_CLIENTS + 1
         /\ \E k \in Slots : mon[k] = Free /\ mon' = [mon EXCEPT ![k] = fd]
  BY <1>1, <1>2, <1>3, <1>4, AddFillsOneSlot
<1>6. SumClientTypeOK' /\ ConnInv'
  <2>1. /\ backlog \in Seq(Clients) /\ backlog' \in Seq(Clients) /\ Len(backlog) \in Nat
        /\ Len(backlog') = Len(backlog) - 1
        /\ \A i \in 1 .. Len(backlog') : backlog'[i] = backlog[i + 1] /\ i + 1 \in 1 .. Len(backlog)
        /\ h = backlog[1] /\ 1 \in 1 .. Len(backlog)
    <3>1. backlog \in Seq(Clients)
      BY DEF TypeOK, SumClientTypeOK
    <3> QED  BY <1>1, <3>1, EmptySeq, HeadTailProperties
  <2>2. SumClientTypeOK'
    BY <1>1, <2>1 DEF TypeOK, SumClientTypeOK, ConnStates
  <2>3. \A i \in 1 .. Len(backlog') : backlog'[i] # h
    BY <2>1 DEF ConnInv
  <2>4. /\ \A i \in 1 .. Len(backlog') : conn'[backlog'[i]] = "pending"
        /\ \A i, j \in 1 .. Len(backlog') : backlog'[i] = backlog'[j] => i = j
    BY <1>1, <2>1, <2>3 DEF ConnInv, TypeOK, SumClientTypeOK
  <2>5. ConnInv'
    BY <1>1, <2>4 DEF ConnInv, TypeOK, SumClientTypeOK
  <2> QED  BY <2>2, <2>5
<1>7. TypeOK'
  BY <1>1, <1>3, <1>5, <1>6 DEF TypeOK
<1>8. FdInv'
  BY <1>1, <1>2 DEF FdInv, TypeOK, SumClientTypeOK
<1>9. SlotInv' /\ LowInv'
  <2>1. \A e \in Clients : fdOf'[e] = IF e = h THEN fd ELSE fdOf[e]
    BY <1>1, <1>3
  <2>2. OpenFds \subseteq OpenFds'
    BY <1>1, <2>1 DEF OpenFds
  <2>3. fd \in OpenFds' /\ \A i \in Slots : mon[i] # fd
    <3>1. fd \notin OpenFds /\ fd \in OpenFds'
      BY <1>1, <1>2, <2>1 DEF IsNewFd, OpenFds
    <3> QED  BY <1>2, <3>1, SlotsHoldLow
  <2>4. \A i \in Slots :
            mon[i] \in {Free, STDIN, connection_socket} \/ \E c \in Clients : mon[i] = fdOf'[c]
    BY <1>1, <1>2, <2>1 DEF SlotInv, NoFd, Free
  <2>5. CASE mon' = mon /\ fd > MAX_CLIENTS + 1
    <3>1. SlotsClean'
      BY <1>1, <1>2, <2>2, <2>5 DEF SlotInv, SlotsClean
    <3>2. SlotInv'
      BY <1>2, <2>5, <2>4, <3>1 DEF SlotInv, Holds
    <3>3. LowInv'
      BY <1>1, <1>2, <2>1, <2>5, <1>3 DEF LowInv, Holds
    <3> QED  BY <3>2, <3>3
  <2>6. CASE /\ fd <= MAX_CLIENTS + 1
             /\ \E k \in Slots : mon[k] = Free /\ mon' = [mon EXCEPT ![k] = fd]
    <3>1. PICK k \in Slots : mon[k] = Free /\ mon' = [mon EXCEPT ![k] = fd]
      BY <2>6
    <3>2. \A i \in Slots : mon'[i] = IF i = k THEN fd ELSE mon[i]
      BY <1>3, <3>1
    <3>3. \A f : f # Free /\ Holds(f) => Holds(f)'
      BY <3>1, <3>2 DEF Holds
    <3>4. Holds(fd)' /\ Free \notin {STDIN, connection_socket, fd}
      BY <1>2, <3>2 DEF Holds, Free, STDIN, connection_socket
    <3>5. SlotsClean'
      BY <1>1, <1>2, <2>2, <2>3, <3>1, <3>2 DEF SlotInv, SlotsClean
    <3>6. SlotInv'
      <4>1. Holds(STDIN)' /\ Holds(connection_socket)'
        BY <1>2, <3>3, <3>4 DEF SlotInv
      <4>2. \A i \in Slots : mon'[i] \in {Free, STDIN, connection_socket}
                              \/ \E c \in Clients : mon'[i] = fdOf'[c]
        BY <2>1, <2>4, <3>2
      <4> QED  BY <3>5, <4>1, <4>2 DEF SlotInv
    <3>7. LowInv'
      BY <1>1, <1>2, <2>1, <2>6, <3>2, <3>3, <3>4 DEF LowInv, NoFd, Free
    <3> QED  BY <3>6, <3>7
  <2> QED  BY <1>5, <2>5, <2>6
<1> QED  BY <1>1, <1>6, <1>7, <1>8, <1>9 DEF PassInv

-----------------------------------------------------------------------------
\* The end of the server, one way or the other.
LEMMA EndInv ==
  ASSUME IInv, AcceptFails \/ shutdown_server
  PROVE  IInv'
<1> USE DEF IInv
<1>1. /\ spc' \in ServerEnded /\ listening' = FALSE /\ backlog' = << >>
      /\ conn' = [c \in Clients |->
                    CASE conn[c] = "open" -> IF up[c] = << >> THEN "closed" ELSE "reset"
                      [] conn[c] = "pending" -> "reset"
                      [] OTHER -> conn[c]]
      /\ UNCHANGED <<client_result, fdOf, read_fds, pos, console, up, down, cpc, sent, result>>
  BY DEF AcceptFails, shutdown_server, ServerGone, ServerEnded, clientVars
<1>2. mon \in [Slots -> Int] /\ Free \in Int /\ MAX_CLIENTS \in Nat
  BY MaxClientsAssumption DEF TypeOK, Free
<1>3. mon' = mon \/ \E k \in Slots : mon' = [mon EXCEPT ![k] = Free]
  <2>1. mon' = mon \/ mon' = remove_from_monitored_fd_set(mon, connection_socket)
    BY DEF AcceptFails, shutdown_server
  <2> QED  BY <1>2, <2>1, RemoveFreesOneSlot DEF connection_socket
<1>4. mon' \in [Slots -> Int] /\ \A i \in Slots : mon'[i] \in {mon[i], Free}
  BY <1>2, <1>3
<1>5. \A c \in Clients :
         /\ conn'[c] \in ConnStates /\ conn'[c] \notin {"open", "pending"}
         /\ conn'[c] = "none" <=> conn[c] = "none"
  BY <1>1 DEF TypeOK, SumClientTypeOK, ConnStates
<1>6. SumClientTypeOK'
  BY <1>1, <1>5, EmptySeq DEF TypeOK, SumClientTypeOK
<1>7. ConnInv'
  BY <1>1, <1>5, EmptySeq DEF ConnInv
<1>8. ~ ServerUp' /\ spc' \notin {"service", "answer"}
  BY <1>1 DEF ServerUp, ServerEnded
<1>9. TypeOK'
  BY <1>1, <1>4, <1>6, <1>8 DEF TypeOK
<1>10. FdInv' /\ SlotInv' /\ PassInv'
  BY <1>1, <1>8 DEF FdInv, SlotInv, SlotsClean, PassInv
<1>11. LowInv'
  BY <1>1, <1>2, <1>4, <1>8 DEF LowInv, Free
<1> QED  BY <1>7, <1>9, <1>10, <1>11

-----------------------------------------------------------------------------
\* The service loop goes on to the next slot, or back to select.
LEMMA NextSlotEffect ==
  ASSUME TypeOK, NextSlot
  PROVE  /\ \/ spc' = "service" /\ pos' = pos + 1 /\ read_fds' = read_fds
            \/ spc' = "select" /\ read_fds' = {}
         /\ pos' \in Slots
BY MaxClientsAssumption DEF NextSlot, TypeOK, Slots

\* FD_ISSET says of a slot, also of a free one, whether select returned it.
LEMMA IsSetMeans ==
  ASSUME TypeOK, LowInv, NEW i \in Slots
  PROVE  FD_ISSET(mon[i]) <=> mon[i] \in read_fds /\ mon[i] # Free
<1>1. WRAP_BIT \notin read_fds
  <2>1. WRAP_BIT \in Int /\ MAX_CLIENTS \in Int /\ WRAP_BIT > MAX_CLIENTS + 1
    BY SumServerAssumption, MaxClientsAssumption
  <2> QED  BY <2>1 DEF LowInv
<1> QED  BY <1>1 DEF FD_ISSET

\* What is read is an int.
LEMMA DataType ==
  ASSUME SumClientTypeOK, NEW c \in Clients
  PROVE  /\ Data(c) \in Int_w /\ Unread(c) \in Seq(Values \cup {0})
         /\ up[c] # << >> => Data(c) = Head(up[c]) /\ Head(up[c]) \in Values \cup {0}
<1>1. up[c] \in Seq(Values \cup {0}) /\ READ_INTS \in Nat /\ READ_INTS >= 1
  BY SumClientAssumption DEF SumClientTypeOK
<1>2. Values \cup {0} \subseteq Int_w
  BY SumClientAssumption DEF Int_w
<1>3. up[c] # << >> => Head(up[c]) \in Values \cup {0}
  BY <1>1
<1>4. Unread(c) \in Seq(Values \cup {0})
  BY <1>1 DEF Unread
<1> QED  BY <1>2, <1>3, <1>4 DEF Data

\* One slot of the service loop: what it reads goes to that slot's sum only.
LEMMA ServiceInv ==
  ASSUME IInv, handle_service_request
  PROVE  IInv'
<1> USE DEF IInv
<1>1. /\ spc = "service" /\ pos \in Slots /\ MAX_CLIENTS \in Nat /\ mon \in [Slots -> Int]
      /\ UNCHANGED <<mon, fdOf, console, listening, backlog, conn, down, cpc, sent, result>>
      /\ spc' \in {"service", "select", "answer"} /\ ServerUp /\ ServerUp'
      /\ SkipSlot \/ \E c \in Clients : fdOf[c] = mon[pos] /\ fdOf[c] # NoFd /\ Read(c)
      /\ SkipSlot \/ FD_ISSET(mon[pos])
  BY MaxClientsAssumption
  DEF handle_service_request, connections, clientVars, TypeOK, SkipSlot, Read, NextSlot,
      ServerUp, ServerEnded
<1>2. \/ spc' = "service" /\ pos' = pos + 1 /\ read_fds' = read_fds
      \/ spc' = "select" /\ read_fds' = {}
      \/ spc' = "answer" /\ pos' = pos /\ read_fds' = read_fds
  BY <1>1, NextSlotEffect DEF SkipSlot, Read
<1>3. pos' \in Slots
  BY <1>1, NextSlotEffect DEF SkipSlot, Read
<1>4. /\ client_result' \in [Slots -> Int_w] /\ SumClientTypeOK'
      /\ \A i \in Slots : mon[i] = Free => client_result'[i] = client_result[i]
      /\ \A e \in Clients : fdOf[e] # mon[pos] => up'[e] = up[e]
  <2>1. CASE SkipSlot
    BY <1>1, <2>1 DEF SkipSlot, TypeOK, SumClientTypeOK
  <2>2. CASE ~ SkipSlot
    <3>1. PICK c \in Clients : fdOf[c] = mon[pos] /\ fdOf[c] # NoFd /\ Read(c)
      BY <1>1, <2>2
    <3>2. /\ up' = [up EXCEPT ![c] = Unread(c)]
          /\ client_result' = [client_result EXCEPT ![pos] = Add(@, Data(c))]
      BY <3>1 DEF Read, Takes
    <3>3. /\ up \in [Clients -> Seq(Values \cup {0})] /\ client_result \in [Slots -> Int_w]
          /\ SumClientTypeOK
      BY DEF TypeOK, SumClientTypeOK
    <3>4. Add(client_result[pos], Data(c)) \in Int_w /\ Unread(c) \in Seq(Values \cup {0})
      BY <1>1, <3>3, DataType, AddType
    <3>5. up' \in [Clients -> Seq(Values \cup {0})] /\ client_result' \in [Slots -> Int_w]
      BY <3>2, <3>3, <3>4
    <3>6. SumClientTypeOK'
      BY <1>1, <3>5 DEF TypeOK, SumClientTypeOK
    <3> QED  BY <3>1, <3>2, <3>3, <3>5, <3>6 DEF NoFd, Free
  <2> QED  BY <2>1, <2>2
<1>5. TypeOK'
  <2>1. spc' = "service" => {STDIN, connection_socket} \cap read_fds' = {}
    BY <1>1, <1>2 DEF TypeOK
  <2>2. read_fds' \subseteq 0 .. (FD_LIMIT - 1)
    BY <1>2 DEF TypeOK
  <2> QED  BY <1>1, <1>3, <1>4, <2>1, <2>2 DEF TypeOK
<1>6. ConnInv' /\ FdInv' /\ LowInv'
  BY <1>1, <1>2 DEF ConnInv, FdInv, LowInv, Holds
<1>7. SlotInv'
  BY <1>1, <1>4 DEF SlotInv, SlotsClean, Holds, OpenFds
<1>8. ASSUME NEW i \in (pos + 1) .. (MAX_CLIENTS - 1), read_fds' = read_fds
      PROVE  Current(i)'
  <2>1. i \in Slots /\ i # pos /\ i \in pos .. (MAX_CLIENTS - 1)
    BY <1>1 DEF Slots
  <2>2. SUFFICES ASSUME mon[i] \in read_fds
                 PROVE  \E e \in Clients : fdOf[e] = mon[i] /\ Readable(e)'
    BY <1>1, <1>8 DEF Current
  <2>3. PICK e \in Clients : fdOf[e] = mon[i] /\ Readable(e)
    BY <1>1, <2>1, <2>2 DEF PassInv, Current
  <2>4. mon[i] # Free
    BY <2>2, SumServerAssumption DEF TypeOK, Free
  <2>5. mon[i] # mon[pos]
    BY <1>1, <2>1, <2>4 DEF SlotInv, SlotsClean
  <2>6. Readable(e)'
    BY <1>1, <1>4, <2>3, <2>5 DEF Readable
  <2> QED  BY <2>3, <2>6
<1>9. spc' = "answer" => mon'[pos'] # Free /\ \E c \in Clients : fdOf'[c] = mon'[pos']
  BY <1>1, <1>2, NextSlotEffect DEF SkipSlot, NoFd, Free
<1>10. PassInv'
  BY <1>1, <1>2, <1>8, <1>9 DEF PassInv
<1> QED  BY <1>5, <1>6, <1>7, <1>10

-----------------------------------------------------------------------------
\* Who is answered, and which slot is freed.
LEMMA AnswerEffect ==
  ASSUME IInv, SendResult
  PROVE  \E c \in Clients :
            /\ spc = "answer" /\ fdOf[c] = mon[pos] /\ mon[pos] # Free
            /\ \A e \in Clients : fdOf[e] = mon[pos] => e = c
            /\ down' = [down EXCEPT ![c] =
                            IF cpc[c] \in ClientEnded THEN @ ELSE client_result[pos]]
            /\ \E how \in {"closed", "reset"} : conn' = [conn EXCEPT ![c] = how]
            /\ fdOf' = [fdOf EXCEPT ![c] = NoFd]
            /\ mon' = [mon EXCEPT ![pos] = Free]
            /\ client_result' = [client_result EXCEPT ![pos] = 0]
            /\ UNCHANGED <<console, listening, backlog, up, cpc, sent, result>>
<1> USE DEF IInv
<1>1. /\ spc = "answer" /\ mon[pos] # Free /\ pos \in Slots /\ mon \in [Slots -> Int]
      /\ mon' = remove_from_monitored_fd_set(mon, mon[pos])
      /\ client_result' = [client_result EXCEPT ![pos] = 0]
      /\ UNCHANGED <<console, clientVars>>
  BY DEF SendResult, PassInv, TypeOK
<1>2. PICK c \in Clients :
         /\ fdOf[c] = mon[pos] /\ Answers(c, client_result[pos])
         /\ fdOf' = [fdOf EXCEPT ![c] = NoFd]
  BY DEF SendResult
<1>3. PICK k \in Slots : mon[k] = mon[pos] /\ mon' = [mon EXCEPT ![k] = Free]
  <2>1. mon[pos] \in Int
    BY <1>1
  <2> QED  BY <1>1, <2>1, RemoveFreesOneSlot
<1>4. k = pos
  BY <1>1, <1>3 DEF SlotInv, SlotsClean, ServerUp, ServerEnded
<1>5. \A e \in Clients : fdOf[e] = mon[pos] => e = c
  BY <1>1, <1>2 DEF FdInv, NoFd, Free
<1>6. /\ down' = [down EXCEPT ![c] = IF cpc[c] \in ClientEnded THEN @ ELSE client_result[pos]]
      /\ \E how \in {"closed", "reset"} : conn' = [conn EXCEPT ![c] = how]
      /\ UNCHANGED <<listening, backlog, up>>
  BY <1>2 DEF Answers
<1> QED  BY <1>1, <1>2, <1>3, <1>4, <1>5, <1>6 DEF clientVars

\* The answer, the close and the reset of the slot, in that order.
LEMMA SendInv ==
  ASSUME IInv, SendResult
  PROVE  IInv'
<1> USE DEF IInv
<1>1. PICK c \in Clients :
            /\ spc = "answer" /\ fdOf[c] = mon[pos] /\ mon[pos] # Free
            /\ \A e \in Clients : fdOf[e] = mon[pos] => e = c
            /\ down' = [down EXCEPT ![c] =
                            IF cpc[c] \in ClientEnded THEN @ ELSE client_result[pos]]
            /\ \E how \in {"closed", "reset"} : conn' = [conn EXCEPT ![c] = how]
            /\ fdOf' = [fdOf EXCEPT ![c] = NoFd]
            /\ mon' = [mon EXCEPT ![pos] = Free]
            /\ client_result' = [client_result EXCEPT ![pos] = 0]
            /\ UNCHANGED <<console, listening, backlog, up, cpc, sent, result>>
  BY AnswerEffect
<1>2. /\ \/ spc' = "service" /\ pos' = pos + 1 /\ read_fds' = read_fds
         \/ spc' = "select" /\ read_fds' = {}
      /\ pos' \in Slots
  BY NextSlotEffect DEF SendResult
<1>3. /\ ServerUp /\ ServerUp' /\ pos \in Slots /\ MAX_CLIENTS \in Nat
      /\ mon \in [Slots -> Int] /\ client_result \in [Slots -> Int_w]
      /\ fdOf \in [Clients -> Int] /\ SumClientTypeOK
  BY <1>1, <1>2, MaxClientsAssumption DEF ServerUp, ServerEnded, TypeOK
<1>4. conn[c] = "open" /\ fdOf[c] > connection_socket
  BY <1>1, <1>3, SumServerAssumption DEF FdInv, NoFd, Free, connection_socket
<1>5. mon' \in [Slots -> Int] /\ client_result' \in [Slots -> Int_w]
  BY <1>1, <1>3, SumClientAssumption DEF Free, Int_w
<1>6. \A i \in Slots : mon'[i] = IF i = pos THEN Free ELSE mon[i]
  BY <1>1, <1>3
<1>7. \A e \in Clients : fdOf'[e] = IF e = c THEN NoFd ELSE fdOf[e]
  BY <1>1, <1>3
<1>8. SumClientTypeOK' /\ ConnInv'
  <2>1. down' \in [Clients -> Int_w \cup {NoResult}] /\ conn' \in [Clients -> ConnStates]
    BY <1>1, <1>3 DEF SumClientTypeOK, ConnStates
  <2>2. SumClientTypeOK'
    BY <1>1, <1>3, <2>1 DEF SumClientTypeOK
  <2>3. ConnInv'
    BY <1>1, <1>3, <1>4 DEF ConnInv, SumClientTypeOK
  <2> QED  BY <2>2, <2>3
<1>9. TypeOK'
  <2>1. /\ fdOf' \in [Clients -> Int]
        /\ fdOf' \in [Clients -> {NoFd} \cup (connection_socket + 1) .. (FD_LIMIT - 1)]
    BY <1>1, <1>3 DEF FdInv, NoFd
  <2>2. read_fds' \subseteq 0 .. (FD_LIMIT - 1) /\ spc' \in {"service", "select"}
    BY <1>2 DEF TypeOK
  <2>3. spc' = "service" => {STDIN, connection_socket} \cap read_fds' = {}
    BY <1>1, <1>2 DEF PassInv
  <2> QED  BY <1>1, <1>2, <1>5, <1>8, <2>1, <2>2, <2>3 DEF TypeOK
<1>10. FdInv'
  BY <1>1, <1>3, <1>7 DEF FdInv, SumClientTypeOK, NoFd
<1>11. \A i \in Slots : i # pos => mon[i] # mon[pos]
  BY <1>1, <1>3 DEF SlotInv, SlotsClean
<1>12. SlotInv'
  <2>1. \A i \in Slots \ {pos} : mon[i] # fdOf[c]
    BY <1>1, <1>11
  <2>2. mon[pos] \notin {STDIN, connection_socket}
    BY <1>1, <1>4, SumServerAssumption DEF STDIN, connection_socket, FdInv
  <2>3. Holds(STDIN)' /\ Holds(connection_socket)'
    BY <1>3, <1>6, <2>2 DEF SlotInv, Holds
  <2>4. \A i \in Slots : mon'[i] \in {Free, STDIN, connection_socket}
                            \/ \E e \in Clients \ {c} : mon'[i] = fdOf[e]
    BY <1>3, <1>6, <2>1 DEF SlotInv
  <2>5. \A i \in Slots : mon'[i] \in {Free, STDIN, connection_socket} \cup OpenFds'
    BY <1>7, <2>4 DEF OpenFds, Free, NoFd
  <2>6. /\ \A i, j \in Slots : mon'[i] = mon'[j] /\ mon'[i] # Free => i = j
        /\ \A i \in Slots : mon'[i] = Free => client_result'[i] = 0
    BY <1>1, <1>3, <1>6 DEF SlotInv, SlotsClean
  <2> QED  BY <1>7, <2>3, <2>4, <2>5, <2>6 DEF SlotInv, SlotsClean
<1>13. LowInv'
  <2>1. \A i \in Slots : mon'[i] <= MAX_CLIENTS + 1
    BY <1>3, <1>6 DEF LowInv, Free
  <2>2. \A fd \in read_fds' : fd <= MAX_CLIENTS + 1
    BY <1>2 DEF LowInv
  <2>3. ASSUME NEW e \in Clients, fdOf'[e] # NoFd, fdOf'[e] <= MAX_CLIENTS + 1
        PROVE  \E i \in Slots : mon'[i] = fdOf'[e]
    <3>1. e # c /\ fdOf'[e] = fdOf[e] /\ fdOf[e] # mon[pos]
      BY <1>1, <1>7, <2>3
    <3>2. PICK i \in Slots : mon[i] = fdOf[e]
      BY <1>3, <2>3, <3>1 DEF LowInv, Holds
    <3> QED  BY <1>6, <3>1, <3>2
  <2> QED  BY <2>1, <2>2, <2>3 DEF LowInv, Holds
<1>14. PassInv'
  <2>1. ASSUME NEW i \in (pos + 1) .. (MAX_CLIENTS - 1), read_fds' = read_fds
        PROVE  Current(i)'
    <3>1. i \in Slots /\ i # pos /\ mon'[i] = mon[i]
      BY <1>3, <1>6 DEF Slots
    <3>2. SUFFICES ASSUME mon[i] \in read_fds
                   PROVE  \E e \in Clients : fdOf'[e] = mon[i] /\ Readable(e)'
      BY <2>1, <3>1 DEF Current
    <3>3. PICK e \in Clients : fdOf[e] = mon[i] /\ Readable(e)
      BY <1>1, <3>2 DEF PassInv, Current
    <3>4. e # c
      BY <1>1, <1>11, <3>1, <3>3
    <3> QED  BY <1>1, <1>7, <3>3, <3>4 DEF Readable
  <2>2. spc' = "service" => {STDIN, connection_socket} \cap read_fds' = {}
    BY <1>1, <1>2 DEF PassInv
  <2> QED  BY <1>2, <2>1, <2>2 DEF PassInv
<1> QED  BY <1>8, <1>9, <1>10, <1>12, <1>13, <1>14

-----------------------------------------------------------------------------
\* The inductive step: the console, the clients, the server, its signal.
LEMMA NextInv == IInv /\ [Next]_vars => IInv'
<1> SUFFICES ASSUME IInv, [Next]_vars PROVE IInv'
  OBVIOUS
<1>1. SumClientTypeOK /\ ConnInv /\ console \in {"quiet", "line", "end"}
  BY DEF IInv, TypeOK
<1>2. CASE UNCHANGED vars \/ TypeLine \/ EndConsole
  <2>1. /\ UNCHANGED <<serverVars, listening, backlog, conn, up, down, cpc, sent, result>>
        /\ console' \in {"quiet", "line", "end"}
    BY <1>1, <1>2 DEF vars, TypeLine, EndConsole, socketVars, connections, clientVars
  <2>2. SumClientTypeOK' /\ ConnInv' /\ \A e \in Clients : Readable(e) => Readable(e)'
    BY <1>1, <2>1 DEF SumClientTypeOK, ConnInv, Readable
  <2> QED  BY <2>1, <2>2, OthersInv
<1>3. CASE \E c \in Clients : (ClientStep(c) \/ User(c)) /\ UNCHANGED <<serverVars, console>>
  BY <1>1, <1>3, ClientEffect, OthersInv
<1>4. CASE ServerStep
  BY <1>4, SelectInv, ConsoleInv, AcceptInv, EndInv, ServiceInv, SendInv DEF ServerStep
<1>5. CASE shutdown_server
  BY <1>5, EndInv
<1> QED  BY <1>2, <1>3, <1>4, <1>5 DEF Next, Process, Environment

\* All of the above, always.
LEMMA Invariant == Spec => []IInv
BY InitInv, NextInv, PTL DEF Spec

\* Every variable keeps its type, for any number of clients and slots.
THEOREM SumTypeCorrect == Spec => []TypeOK
<1>1. IInv => TypeOK
  BY DEF IInv
<1> QED  BY <1>1, Invariant, PTL

\* The slots are sound, and a newcomer's sum starts from 0 (server.c: the
\* slot is freed and client_result cleared together).
THEOREM SumSlotsClean == Spec => []SlotsClean
<1>1. IInv => SlotsClean
  BY DEF IInv, SlotInv
<1> QED  BY <1>1, Invariant, PTL

\* No monitored descriptor exceeds the number of slots, so that FD_ISSET of a
\* free slot tests a bit that is never set.
THEOREM SumDescriptorsLow == Spec => []DescriptorsLow
<1>1. IInv => DescriptorsLow
  <2>1. WRAP_BIT \in Int /\ MAX_CLIENTS \in Int /\ WRAP_BIT > MAX_CLIENTS + 1
    BY SumServerAssumption, MaxClientsAssumption
  <2> QED  BY <2>1 DEF IInv, LowInv, DescriptorsLow
<1> QED  BY <1>1, Invariant, PTL

\* The service loop only reads from clients that have something to read.
THEOREM SumReadSetCurrent == Spec => []ReadSetCurrent
<1>1. IInv => ReadSetCurrent
  <2> SUFFICES ASSUME IInv, spc = "service", NEW i \in pos .. (MAX_CLIENTS - 1),
                      FD_ISSET(mon[i])
               PROVE  \E c \in Clients : fdOf[c] = mon[i] /\ Readable(c)
    BY DEF ReadSetCurrent
  <2>1. i \in Slots
    BY MaxClientsAssumption DEF IInv, TypeOK, Slots
  <2>2. mon[i] \in read_fds
    BY <2>1, IsSetMeans DEF IInv
  <2> QED  BY <2>2 DEF IInv, PassInv, Current
<1> QED  BY <1>1, Invariant, PTL

-----------------------------------------------------------------------------
(***************************************************************************)
(* The refinement: what each step does to the accounts.                    *)
(***************************************************************************)
Due  == IF spc = "answer" THEN {c \in Clients : fdOf[c] = mon[pos]} ELSE {}
Gone == {c \in Clients : cpc[c] \in ClientEnded}

\* The account of a client whose slot nobody touches stays what it is.
LEMMA AccountFrame ==
  ASSUME NEW c \in Clients, fdOf'[c] = fdOf[c],
         \A i \in Slots : fdOf[c] # NoFd =>
            /\ mon'[i] = fdOf[c] <=> mon[i] = fdOf[c]
            /\ mon[i] = fdOf[c] => client_result'[i] = client_result[i]
  PROVE  Account(c)' = Account(c)
<1>1. SlotsOf(c)' = SlotsOf(c)
  BY DEF SlotsOf
<1>2. CASE SlotsOf(c) = {}
  BY <1>1, <1>2 DEF Account
<1>3. CASE SlotsOf(c) # {}
  <2> DEFINE i == CHOOSE k \in SlotsOf(c) : TRUE
  <2>1. i \in Slots /\ fdOf[c] # NoFd /\ mon[i] = fdOf[c]
    BY <1>3 DEF SlotsOf
  <2>2. Account(c) = client_result[i] /\ Account(c)' = client_result'[i]
    BY <1>1, <1>3 DEF Account
  <2> HIDE DEF i
  <2> QED  BY <2>1, <2>2
<1> QED  BY <1>2, <1>3

\* The account of a client that is monitored is the partial sum of its slot.
LEMMA AccountIsSlot ==
  ASSUME NEW c \in Clients, NEW i \in Slots, mon[i] = fdOf[c], fdOf[c] # NoFd,
         \A j \in Slots : mon[j] = mon[i] => j = i
  PROVE  Account(c) = client_result[i]
<1>1. SlotsOf(c) = {i}
  BY DEF SlotsOf
<1> QED  BY <1>1 DEF Account

\* The same after a step.
LEMMA AccountIsSlotNext ==
  ASSUME NEW c \in Clients, NEW i \in Slots, mon'[i] = fdOf'[c], fdOf'[c] # NoFd,
         \A j \in Slots : mon'[j] = mon'[i] => j = i
  PROVE  Account(c)' = client_result'[i]
<1>1. SlotsOf(c)' = {i}
  BY DEF SlotsOf
<1> QED  BY <1>1 DEF Account

\* Who has no slot has an empty account.
LEMMA NoSlotNoAccount ==
  ASSUME NEW c \in Clients
  PROVE  /\ (fdOf[c] = NoFd \/ \A i \in Slots : mon[i] # fdOf[c]) => Account(c) = 0
         /\ (fdOf'[c] = NoFd \/ \A i \in Slots : mon'[i] # fdOf'[c]) => Account(c)' = 0
BY DEF Account, SlotsOf

Accounts == [c \in Clients |-> Account(c)]

\* Nothing that a client could notice.
Unnoticed == UNCHANGED <<up, Accounts, Due, down, Gone>>

\* Accepting opens an empty account.
LEMMA AcceptUnnoticed ==
  ASSUME IInv, IInv', handle_connection_initiation_request
  PROVE  Unnoticed
<1>1. PICK h \in Clients, fd \in (connection_socket + 1) .. (FD_LIMIT - 1) :
            /\ IsNewFd(fd) /\ \A e \in Clients : fdOf[e] # fd
            /\ conn[h] = "pending" /\ conn' = [conn EXCEPT ![h] = "open"]
            /\ fdOf[h] = NoFd /\ fdOf' = [fdOf EXCEPT ![h] = fd]
            /\ mon' = add_to_monitored_fd_set(mon, fd)
            /\ backlog # << >> /\ h = Head(backlog) /\ backlog' = Tail(backlog)
            /\ spc = "accept" /\ spc' = "select" /\ read_fds' = {}
            /\ UNCHANGED <<client_result, pos, console, listening, up, down, cpc, sent, result>>
  BY AcceptEffect
<1>2. /\ ServerUp /\ fd \in Int /\ fd > connection_socket /\ fd # NoFd /\ fd # Free
      /\ mon \in [Slots -> Int] /\ fdOf \in [Clients -> Int]
  BY <1>1, SumServerAssumption
  DEF ServerUp, ServerEnded, NoFd, Free, connection_socket, IInv, TypeOK
<1>3. \/ mon' = mon
      \/ \E k \in Slots : mon[k] = Free /\ mon' = [mon EXCEPT ![k] = fd]
  BY <1>1, <1>2, AddFillsOneSlot
<1>4. \A i \in Slots : mon[i] # fd
  BY <1>1, <1>2, SlotsHoldLow DEF IsNewFd
<1>5. \A e \in Clients : fdOf'[e] = IF e = h THEN fd ELSE fdOf[e]
  BY <1>1, <1>2
<1>6. ASSUME NEW e \in Clients \ {h}
      PROVE  Account(e)' = Account(e)
  <2>1. \A i \in Slots : fdOf[e] # NoFd => (mon'[i] = fdOf[e] <=> mon[i] = fdOf[e])
    BY <1>1, <1>2, <1>3 DEF NoFd, Free
  <2>2. fdOf'[e] = fdOf[e]
    BY <1>5
  <2> QED  BY <1>1, <2>1, <2>2, AccountFrame
<1>7. Account(h) = 0 /\ Account(h)' = 0
  <2>1. Account(h) = 0
    BY <1>1, NoSlotNoAccount
  <2>2. fdOf'[h] = fd
    BY <1>5
  <2>3. CASE mon' = mon
    <3>1. \A i \in Slots : mon'[i] # fdOf'[h]
      BY <1>4, <2>2, <2>3
    <3> QED  BY <2>1, <3>1, NoSlotNoAccount
  <2>4. CASE \E k \in Slots : mon[k] = Free /\ mon' = [mon EXCEPT ![k] = fd]
    <3>1. PICK k \in Slots : mon[k] = Free /\ mon' = [mon EXCEPT ![k] = fd]
      BY <2>4
    <3>2. mon'[k] = fd /\ \A j \in Slots : mon'[j] = fd => j = k
      BY <1>2, <1>4, <3>1
    <3>3. Account(h)' = client_result'[k]
      BY <1>2, <2>2, <3>2, AccountIsSlotNext
    <3>4. client_result[k] = 0
      BY <1>2, <3>1 DEF IInv, SlotInv, SlotsClean
    <3> QED  BY <1>1, <2>1, <3>3, <3>4
  <2> QED  BY <1>3, <2>1, <2>3, <2>4
<1>8. Accounts' = Accounts
  BY <1>6, <1>7 DEF Accounts
<1>9. Due' = Due /\ Gone' = Gone
  BY <1>1 DEF Due, Gone
<1> QED  BY <1>1, <1>8, <1>9 DEF Unnoticed

\* What leaves slots, sums and streams alone is not noticed.
LEMMA IdleUnnoticed ==
  ASSUME UNCHANGED <<mon, client_result, fdOf, up, down, cpc>>, Due' = Due
  PROVE  Unnoticed
<1>1. \A c \in Clients : Account(c)' = Account(c)
  BY AccountFrame
<1> QED  BY <1>1 DEF Unnoticed, Accounts, Gone

\* The end of the server: nobody is due any more.
LEMMA EndStops ==
  ASSUME IInv, AcceptFails \/ shutdown_server
  PROVE  Due' = {} /\ UNCHANGED <<up, Accounts, down, Gone>>
<1>1. /\ ServerUp /\ spc' \in ServerEnded /\ UNCHANGED <<client_result, fdOf, up, down, cpc>>
  BY DEF AcceptFails, shutdown_server, ServerGone, ServerUp, ServerEnded, clientVars
<1>2. Due' = {} /\ Gone' = Gone
  BY <1>1 DEF Due, Gone, ServerEnded
<1>3. mon \in [Slots -> Int]
  BY DEF IInv, TypeOK
<1>4. \/ mon' = mon
      \/ \E k \in Slots : mon[k] = connection_socket /\ mon' = [mon EXCEPT ![k] = Free]
  <2>1. mon' = mon \/ mon' = remove_from_monitored_fd_set(mon, connection_socket)
    BY DEF AcceptFails, shutdown_server
  <2> QED  BY <1>3, <2>1, RemoveFreesOneSlot DEF connection_socket
<1>5. ASSUME NEW c \in Clients
      PROVE  Account(c)' = Account(c)
  <2>1. fdOf[c] # NoFd => fdOf[c] # connection_socket /\ fdOf[c] # Free
    BY SumServerAssumption DEF IInv, FdInv, connection_socket, NoFd, Free
  <2>2. \A i \in Slots : fdOf[c] # NoFd => (mon'[i] = fdOf[c] <=> mon[i] = fdOf[c])
    BY <1>3, <1>4, <2>1
  <2> QED  BY <1>1, <2>2, AccountFrame
<1> QED  BY <1>1, <1>2, <1>5 DEF Accounts

\* A slot is read: its client's int is added, or its total is due.
LEMMA ReadEffect ==
  ASSUME IInv, handle_service_request, ~ SkipSlot
  PROVE  \E c \in Clients :
            /\ up' = [up EXCEPT ![c] = Unread(c)]
            /\ Accounts' = [Accounts EXCEPT ![c] = Add(@, Data(c))]
            /\ Account(c) \in Int_w /\ Readable(c)
            /\ Due = {} /\ Due' = IF Data(c) = 0 THEN {c} ELSE {}
            /\ UNCHANGED <<down, Gone>>
<1>1. PICK c \in Clients : fdOf[c] = mon[pos] /\ fdOf[c] # NoFd /\ Read(c)
  BY DEF handle_service_request
<1>2. /\ spc = "service" /\ ServerUp /\ pos \in Slots /\ mon \in [Slots -> Int]
      /\ client_result \in [Slots -> Int_w] /\ FD_ISSET(mon[pos])
      /\ UNCHANGED <<mon, fdOf, down, cpc>>
  BY DEF handle_service_request, IInv, TypeOK, ServerUp, ServerEnded, SkipSlot, clientVars
<1>3. /\ up' = [up EXCEPT ![c] = Unread(c)]
      /\ client_result' = [client_result EXCEPT ![pos] = Add(@, Data(c))]
      /\ IF Data(c) = 0 THEN spc' = "answer" /\ pos' = pos
                        ELSE spc' \in {"service", "select"}
  BY <1>1 DEF Read, Takes, NextSlot
<1>4. \A j \in Slots : mon[j] = mon[pos] => j = pos
  BY <1>1, <1>2 DEF IInv, SlotInv, SlotsClean, NoFd, Free
<1>5. Account(c) = client_result[pos] /\ Account(c)' = client_result'[pos]
  <2>1. Account(c) = client_result[pos]
    BY <1>1, <1>2, <1>4, AccountIsSlot
  <2>2. mon'[pos] = fdOf'[c] /\ fdOf'[c] # NoFd /\ \A j \in Slots : mon'[j] = mon'[pos] => j = pos
    BY <1>1, <1>2, <1>4
  <2> QED  BY <1>2, <2>1, <2>2, AccountIsSlotNext
<1>6. \A e \in Clients : fdOf[e] = mon[pos] => e = c
  BY <1>1 DEF IInv, FdInv
<1>7. ASSUME NEW e \in Clients \ {c}
      PROVE  Account(e)' = Account(e)
  <2>1. \A i \in Slots : mon[i] = fdOf[e] => i # pos
    BY <1>6
  <2>2. \A i \in Slots : i # pos => client_result'[i] = client_result[i]
    BY <1>2, <1>3
  <2>3. fdOf'[e] = fdOf[e] /\ \A i \in Slots :
            /\ mon'[i] = fdOf[e] <=> mon[i] = fdOf[e]
            /\ mon[i] = fdOf[e] => client_result'[i] = client_result[i]
    BY <1>2, <2>1, <2>2
  <2> QED  BY <2>3, AccountFrame
<1>8. Accounts' = [Accounts EXCEPT ![c] = Add(@, Data(c))]
  BY <1>2, <1>3, <1>5, <1>7 DEF Accounts
<1>9. Due = {} /\ Due' = (IF Data(c) = 0 THEN {c} ELSE {}) /\ Gone' = Gone
  BY <1>1, <1>2, <1>3, <1>6 DEF Due, Gone
<1>10. Readable(c)
  <2>1. mon[pos] \in read_fds
    BY <1>2, IsSetMeans DEF IInv
  <2>2. pos \in pos .. (MAX_CLIENTS - 1)
    BY <1>2, MaxClientsAssumption DEF Slots
  <2>3. PICK e \in Clients : fdOf[e] = mon[pos] /\ Readable(e)
    BY <1>2, <2>1, <2>2 DEF IInv, PassInv, Current
  <2> QED  BY <1>6, <2>3
<1> QED  BY <1>2, <1>3, <1>5, <1>8, <1>9, <1>10

\* A slot is answered: its client is told its account, which is then empty.
LEMMA PaysOut ==
  ASSUME IInv, SendResult
  PROVE  \E c \in Clients :
            /\ Due = {c} /\ Due' = {}
            /\ Accounts' = [Accounts EXCEPT ![c] = 0]
            /\ down[c] = NoResult
            /\ down' = [down EXCEPT ![c] = IF c \in Gone THEN @ ELSE Account(c)]
            /\ UNCHANGED <<up, Gone>>
<1>1. PICK c \in Clients :
            /\ spc = "answer" /\ fdOf[c] = mon[pos] /\ mon[pos] # Free
            /\ \A e \in Clients : fdOf[e] = mon[pos] => e = c
            /\ down' = [down EXCEPT ![c] =
                            IF cpc[c] \in ClientEnded THEN @ ELSE client_result[pos]]
            /\ \E how \in {"closed", "reset"} : conn' = [conn EXCEPT ![c] = how]
            /\ fdOf' = [fdOf EXCEPT ![c] = NoFd]
            /\ mon' = [mon EXCEPT ![pos] = Free]
            /\ client_result' = [client_result EXCEPT ![pos] = 0]
            /\ UNCHANGED <<console, listening, backlog, up, cpc, sent, result>>
  BY AnswerEffect
<1>2. /\ ServerUp /\ pos \in Slots /\ mon \in [Slots -> Int] /\ fdOf \in [Clients -> Int]
      /\ client_result \in [Slots -> Int_w] /\ spc' \in {"service", "select"}
      /\ fdOf[c] # NoFd
  BY <1>1 DEF IInv, TypeOK, ServerUp, ServerEnded, SendResult, NextSlot, NoFd, Free
<1>3. \A j \in Slots : mon[j] = mon[pos] => j = pos
  BY <1>1, <1>2 DEF IInv, SlotInv, SlotsClean
<1>4. Account(c) = client_result[pos]
  BY <1>1, <1>2, <1>3, AccountIsSlot
<1>5. Account(c)' = 0
  BY <1>1, <1>2, NoSlotNoAccount
<1>6. ASSUME NEW e \in Clients \ {c}
      PROVE  Account(e)' = Account(e)
  <2>1. fdOf'[e] = fdOf[e] /\ fdOf[e] # mon[pos]
    BY <1>1, <1>2
  <2>2. \A i \in Slots : fdOf[e] # NoFd =>
            /\ mon'[i] = fdOf[e] <=> mon[i] = fdOf[e]
            /\ mon[i] = fdOf[e] => client_result'[i] = client_result[i]
    BY <1>1, <1>2, <2>1 DEF NoFd, Free
  <2> QED  BY <2>1, <2>2, AccountFrame
<1>7. Accounts' = [Accounts EXCEPT ![c] = 0]
  BY <1>5, <1>6 DEF Accounts
<1>8. Due = {c} /\ Due' = {} /\ Gone' = Gone
  BY <1>1, <1>2 DEF Due, Gone
<1>9. conn[c] = "open" /\ down[c] = NoResult
  BY <1>1, <1>2 DEF IInv, FdInv, ConnInv, NoFd, Free
<1> QED  BY <1>1, <1>4, <1>7, <1>8, <1>9 DEF Gone

\* What clients do is what the service knows of clients.
LEMMA ClientService ==
  ASSUME IInv, NEW c \in Clients, ClientStep(c) \/ User(c), UNCHANGED serverVars
  PROVE  \/ Unnoticed
         \/ Gone' = Gone \cup {c} /\ UNCHANGED <<up, Accounts, Due, down>>
         \/ \E v \in Values \cup {0} :
               /\ c \notin Gone /\ up' = [up EXCEPT ![c] = Append(@, v)]
               /\ UNCHANGED <<Accounts, Due, down, Gone>>
<1>1. UNCHANGED <<Accounts, Due>>
  <2>1. UNCHANGED <<spc, mon, client_result, fdOf, pos>>
    BY DEF serverVars
  <2>2. \A e \in Clients : Account(e)' = Account(e)
    BY <2>1, AccountFrame
  <2> QED  BY <2>1, <2>2 DEF Accounts, Due
<1>2. cpc \in [Clients -> ClientStates]
  BY DEF IInv, TypeOK, SumClientTypeOK
<1>3. CASE Connect(c)
  BY <1>1, <1>2, <1>3 DEF Connect, Moves, Unnoticed, Gone, ClientEnded
<1>4. CASE \E v \in Values \cup {0} : Send(c, v)
  <2>1. PICK v \in Values \cup {0} : Send(c, v)
    BY <1>4
  <2>2. /\ cpc[c] = "sending" /\ up' = [up EXCEPT ![c] = Append(@, v)] /\ down' = down
        /\ \E to \in {"sending", "waiting"} : cpc' = [cpc EXCEPT ![c] = to]
    BY <2>1 DEF Send, Moves
  <2>3. c \notin Gone /\ Gone' = Gone
    BY <1>2, <2>2 DEF Gone, ClientEnded
  <2> QED  BY <1>1, <2>2, <2>3
<1>5. CASE \/ ClientStep(c) \/ ConnectFails(c) \/ SendFails(c) \/ FlushAtEof(c)
           \/ shutdown_client(c)
  <2>1. /\ UNCHANGED <<up, down>> /\ cpc[c] \notin ClientEnded
        /\ \E to \in {"spin", "exited", "failed"} : cpc' = [cpc EXCEPT ![c] = to]
    BY <1>5
    DEF ClientStep, ConnectFails, SendFails, FlushAtEof, shutdown_client, Receive,
        ReceiveNothing, Moves, socketVars, ClientEnded
  <2>2. Gone' = Gone \/ Gone' = Gone \cup {c}
    BY <1>2, <2>1 DEF Gone, ClientEnded
  <2> QED  BY <1>1, <2>1, <2>2 DEF Unnoticed
<1> QED  BY <1>3, <1>4, <1>5 DEF User

\* A read books an int, or makes the total due.
LEMMA ReadService ==
  ASSUME IInv, handle_service_request, ~ SkipSlot
  PROVE  Service!Next
<1>1. PICK c \in Clients :
            /\ up' = [up EXCEPT ![c] = Unread(c)]
            /\ Accounts' = [Accounts EXCEPT ![c] = Add(@, Data(c))]
            /\ Account(c) \in Int_w /\ Readable(c)
            /\ Due = {} /\ Due' = IF Data(c) = 0 THEN {c} ELSE {}
            /\ UNCHANGED <<down, Gone>>
  BY ReadEffect
<1>2. READ_INTS \in Nat /\ READ_INTS >= 1 /\ READ_INTS \in 1 .. (1 + (READ_INTS - 1))
      /\ 0 \in Int_w
  BY SumClientAssumption DEF Int_w
<1>3. up[c] # << >> => Service!Takes(c)
  BY <1>1, <1>2 DEF Service!Takes, Unread
<1>4. Data(c) = 0 => Accounts' = Accounts
  BY <1>1, <1>2, AddType DEF Accounts
<1>5. CASE Data(c) # 0
  <2>1. up[c] # << >> /\ Data(c) = Head(up[c])
    BY <1>5 DEF Data
  <2>2. Service!Book(c)
    BY <1>1, <1>3, <1>5, <2>1 DEF Service!Book, Accounts, Due, Gone
  <2> QED  BY <2>2 DEF Service!Next
<1>6. CASE Data(c) = 0 /\ up[c] # << >>
  <2>1. Head(up[c]) = 0
    BY <1>6 DEF Data
  <2>2. Due' = Due \cup {c}
    BY <1>1, <1>6
  <2>3. Service!Total(c)
    BY <1>1, <1>3, <1>4, <1>6, <2>1, <2>2 DEF Service!Total, Accounts, Due, Gone
  <2> QED  BY <2>3 DEF Service!Next
<1>7. CASE Data(c) = 0 /\ up[c] = << >>
  <2>1. c \in Gone
    BY <1>1, <1>7 DEF Readable, Gone
  <2>2. Due' = Due \cup {c}
    BY <1>1, <1>7
  <2>3. up' = up
    <3>1. Unread(c) = << >>
      BY <1>2, <1>7, EmptySeq DEF Unread
    <3>2. up \in [Clients -> Seq(Values \cup {0})]
      BY DEF IInv, TypeOK, SumClientTypeOK
    <3> QED  BY <1>1, <1>7, <3>1, <3>2
  <2>4. Service!Total(c)
    BY <1>1, <1>4, <1>7, <2>1, <2>2, <2>3 DEF Service!Total, Accounts, Due, Gone
  <2> QED  BY <2>4 DEF Service!Next
<1> QED  BY <1>5, <1>6, <1>7

\* Every step is one of the service, or none of its business.
LEMMA ServiceStep ==
  ASSUME IInv, IInv', [Next]_vars
  PROVE  [Service!Next]_Service!vars
<1>1. ASSUME Unnoticed PROVE UNCHANGED Service!vars
  BY <1>1 DEF Unnoticed, Service!vars, Accounts, Due, Gone
<1>2. CASE UNCHANGED vars \/ TypeLine \/ EndConsole
  <2>1. UNCHANGED <<spc, mon, client_result, fdOf, pos, up, down, cpc>>
    BY <1>2 DEF vars, serverVars, TypeLine, EndConsole, socketVars, clientVars
  <2>2. Due' = Due
    BY <2>1 DEF Due
  <2> QED  BY <1>1, <2>1, <2>2, IdleUnnoticed
<1>3. CASE select \/ ReadConsole
  <2>1. /\ spc \in {"select", "console"} /\ UNCHANGED <<mon, client_result, fdOf, up, down, cpc>>
        /\ spc' # "answer"
    BY <1>3 DEF select, Dispatch, ReadConsole, socketVars, clientVars
  <2>2. Due' = Due
    BY <2>1 DEF Due
  <2> QED  BY <1>1, <2>1, <2>2, IdleUnnoticed
<1>4. CASE handle_connection_initiation_request
  BY <1>1, <1>4, AcceptUnnoticed
<1>5. CASE AcceptFails \/ shutdown_server
  BY <1>5, EndStops DEF Service!Next, Service!Stop, Accounts, Due, Gone
<1>6. CASE handle_service_request
  <2>1. CASE SkipSlot
    <3>1. /\ spc = "service" /\ spc' # "answer"
          /\ UNCHANGED <<mon, client_result, fdOf, up, down, cpc>>
      BY <1>6, <2>1 DEF handle_service_request, SkipSlot, NextSlot, clientVars
    <3>2. Due' = Due
      BY <3>1 DEF Due
    <3> QED  BY <1>1, <3>1, <3>2, IdleUnnoticed
  <2> QED  BY <1>6, <2>1, ReadService
<1>7. CASE SendResult
  <2>1. PICK c \in Clients :
            /\ Due = {c} /\ Due' = {}
            /\ Accounts' = [Accounts EXCEPT ![c] = 0]
            /\ down[c] = NoResult
            /\ down' = [down EXCEPT ![c] = IF c \in Gone THEN @ ELSE Account(c)]
            /\ UNCHANGED <<up, Gone>>
    BY <1>7, PaysOut
  <2>2. c \in Due /\ Due' = Due \ {c} /\ Accounts[c] = Account(c)
    BY <2>1 DEF Accounts
  <2>3. IF c \in Gone THEN UNCHANGED down
                      ELSE down' = [down EXCEPT ![c] = Accounts[c]]
    <3>1. down \in [Clients -> Int_w \cup {NoResult}]
      BY DEF IInv, TypeOK, SumClientTypeOK
    <3> QED  BY <2>1, <2>2, <3>1
  <2>4. Service!PayOut(c)
    BY <2>1, <2>2, <2>3 DEF Service!PayOut, Accounts, Due, Gone
  <2> QED  BY <2>4 DEF Service!Next
<1>8. CASE \E c \in Clients : (ClientStep(c) \/ User(c)) /\ UNCHANGED <<serverVars, console>>
  <2>1. PICK c \in Clients : (ClientStep(c) \/ User(c)) /\ UNCHANGED <<serverVars, console>>
    BY <1>8
  <2>2. CASE Gone' = Gone \cup {c} /\ UNCHANGED <<up, Accounts, Due, down>>
    <3>1. Service!Leave(c)
      BY <2>2 DEF Service!Leave, Accounts, Due, Gone
    <3> QED  BY <3>1 DEF Service!Next
  <2>3. CASE \E v \in Values \cup {0} :
                /\ c \notin Gone /\ up' = [up EXCEPT ![c] = Append(@, v)]
                /\ UNCHANGED <<Accounts, Due, down, Gone>>
    <3>1. PICK v \in Values \cup {0} :
                /\ c \notin Gone /\ up' = [up EXCEPT ![c] = Append(@, v)]
                /\ UNCHANGED <<Accounts, Due, down, Gone>>
      BY <2>3
    <3>2. Service!Deposit(c, v)
      BY <3>1 DEF Service!Deposit, Accounts, Due, Gone
    <3> QED  BY <3>2 DEF Service!Next
  <2> QED  BY <1>1, <2>1, <2>2, <2>3, ClientService
<1> QED
  BY <1>2, <1>3, <1>4, <1>5, <1>6, <1>7, <1>8 DEF Next, ServerStep, Process, Environment

\* At the start every account is empty and nobody was answered.
LEMMA ServiceInit == Init => Service!Init
<1> SUFFICES ASSUME Init PROVE Service!Init
  OBVIOUS
<1>1. \A c \in Clients : Account(c) = 0
  BY NoSlotNoAccount DEF Init
<1> QED
  BY <1>1 DEF Service!Init, Init, SumClientInit, ClientEnded

\* Slots, descriptors and passes of the service loop cannot be seen by a client:
\* the server keeps an account for each, adds nothing to it that the client did
\* not send, and tells it once.
THEOREM SumServerImplementsService == Spec => SumServiceSpec
<1>1. IInv /\ IInv' /\ [Next]_vars => [Service!Next]_Service!vars
  BY ServiceStep
<1> QED  BY <1>1, ServiceInit, Invariant, PTL DEF Spec, SumServiceSpec, Service!Spec
=============================================================================
