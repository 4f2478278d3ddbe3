------------------------- MODULE MessageQueueProofs -------------------------
(***************************************************************************)
(* Theorems about MessageQueue, for any number of servers and clients, any *)
(* permissions and any sizes.                                              *)
(***************************************************************************)
EXTENDS MessageQueue, SequenceTheorems, TLAPS

\* Servers are where servers can be, and what a client sends is an integer.
PcInv ==
    /\ \A s \in Servers : pc[s] \notin {"prompt", "send", "spin"}
    /\ \A c \in Clients : pc[c] \notin {"select", "receive", "failed", "unnamed"}
    /\ \A c \in Clients : pc[c] = "send" => input[c] \in Integers

\* A queue that somebody has open was created by a process that has it open
\* too, or had; and so was the one that has the name.
CreatorInv ==
    /\ \A p \in Processes : pc[p] = "off" => mq_fd[p] = Nobody
    /\ \A p \in Processes : mq_fd[p] # Nobody => mq_fd[mq_fd[p]] = mq_fd[p]
    /\ name # Nobody => mq_fd[name] = name

IInv == TypeOK /\ PcInv /\ CreatorInv /\ ServerFirstNeverFails /\ NameGoesWithServer

LEMMA ConstantsType ==
  /\ Nobody \notin Processes
  /\ Servers \cap Clients = {} /\ Processes = Servers \cup Clients
  /\ MAX_MESSAGES \in Nat /\ MAX_MESSAGES > 0 /\ MAX_LINES \in Nat
  /\ Integers \subseteq Lines
BY ProcessesAssumption, SizesAssumption, LinesAssumption DEF Processes

LEMMA InitInv == Init => IInv
<1> SUFFICES ASSUME Init PROVE IInv
  OBVIOUS
<1>1. \A q \in Processes : queue[q] = << >>
  BY DEF Init
<1>2. << >> \in Seq(Integers) /\ Len(<< >>) = 0 /\ DOMAIN << >> = {}
  BY EmptySeq
<1>3. TypeOK
  BY <1>1, <1>2, ConstantsType DEF Init, TypeOK, Running
<1> QED
  BY <1>3, ConstantsType
  DEF Init, IInv, PcInv, CreatorInv, ServerFirstNeverFails, NameGoesWithServer, Running

LEMMA OpenInv ==
  ASSUME IInv, NEW p \in Processes, mq_open(p)
  PROVE  IInv'
<1> USE ConstantsType DEF IInv
<1>1. CASE MayOpen(p)
  <2>1. /\ pc[p] = "off" /\ mq_fd[p] = Nobody
        /\ pc' = [pc EXCEPT ![p] = "opened"] /\ UNCHANGED <<queue, input, lines>>
        /\ name' \in Processes /\ mq_fd' = [mq_fd EXCEPT ![p] = name']
        /\ name # Nobody => name' = name
        /\ name = Nobody => name' = p
    BY <1>1 DEF mq_open, Goto, TypeOK, CreatorInv
  <2>2. TypeOK'
    BY <2>1 DEF TypeOK, Running
  <2>3. PcInv'
    BY <2>1 DEF TypeOK, PcInv
  <2>4. CreatorInv'
    BY <2>1 DEF TypeOK, CreatorInv
  <2>5. ServerFirstNeverFails'
    BY <2>1 DEF TypeOK, ServerFirstNeverFails, ClientCameFirst
  <2>6. NameGoesWithServer'
    BY <2>1 DEF TypeOK, NameGoesWithServer, Running
  <2> QED  BY <2>2, <2>3, <2>4, <2>5, <2>6
<1>2. CASE ~ MayOpen(p)
  <2>1. /\ pc[p] = "off" /\ pc' = [pc EXCEPT ![p] = "refused"]
        /\ UNCHANGED <<name, mq_fd, queue, input, lines>>
        /\ name \in Clients
    BY <1>2 DEF mq_open, Goto, MayOpen, TypeOK
  <2>2. TypeOK' /\ PcInv' /\ CreatorInv'
    BY <2>1 DEF TypeOK, PcInv, CreatorInv, Running
  <2>3. ClientCameFirst'
    BY <2>1 DEF CreatorInv, ClientCameFirst
  <2>4. NameGoesWithServer'
    BY <2>1 DEF TypeOK, NameGoesWithServer, Running
  <2> QED  BY <2>2, <2>3, <2>4 DEF ServerFirstNeverFails
<1> QED  BY <1>1, <1>2

\* A process that goes from one place to another, and does not fail.
LEMMA GotoInv ==
  ASSUME IInv, NEW p \in Processes, Running(p), NEW state, Goto(p, state),
         UNCHANGED <<name, mq_fd>>, TypeOK', PcInv',
         state \in {"select", "receive", "prompt", "send", "spin", "ended", "killed"}
  PROVE  IInv'
<1> USE ConstantsType DEF IInv
<1>1. CreatorInv' /\ NameGoesWithServer'
  BY DEF TypeOK, CreatorInv, NameGoesWithServer, Running, Goto
<1>2. ServerFirstNeverFails'
  BY DEF TypeOK, ServerFirstNeverFails, ClientCameFirst, Goto
<1> QED  BY <1>1, <1>2

LEMMA ServerInv ==
  ASSUME IInv, NEW s \in Servers, ServerStarts(s) \/ Select(s) \/ mq_receive(s)
  PROVE  IInv'
<1> USE ConstantsType DEF IInv
<1>1. CASE ServerStarts(s) \/ Select(s)
  <2>1. PICK state \in {"select", "receive"} :
          Running(s) /\ Goto(s, state) /\ UNCHANGED <<name, queue, mq_fd, input, lines>>
    BY <1>1 DEF ServerStarts, Select, Running
  <2>2. TypeOK' /\ PcInv'
    BY <2>1 DEF TypeOK, PcInv, Running, Goto
  <2> QED  BY <2>1, <2>2, GotoInv
<1>2. CASE mq_receive(s) /\ INT_LEN < MsgSize(mq_fd[s])
  <2>1. /\ pc[s] = "receive" /\ Goto(s, "failed")
        /\ UNCHANGED <<name, queue, mq_fd, input, lines>>
    BY <1>2 DEF mq_receive
  <2>2. mq_fd[s] \in Clients
    <3>1. mq_fd[s] \in Processes
      BY <2>1 DEF TypeOK, Running
    <3>2. mq_fd[s] \notin Servers
      BY <1>2, SizesAssumption DEF MsgSize
    <3> QED  BY <3>1, <3>2
  <2>3. ClientCameFirst'
    BY <2>1, <2>2 DEF CreatorInv, ClientCameFirst
  <2>4. TypeOK' /\ PcInv' /\ CreatorInv' /\ NameGoesWithServer'
    BY <2>1 DEF TypeOK, PcInv, CreatorInv, NameGoesWithServer, Running, Goto
  <2> QED  BY <2>3, <2>4 DEF ServerFirstNeverFails
<1>3. CASE mq_receive(s) /\ ~ (INT_LEN < MsgSize(mq_fd[s]))
  <2> DEFINE q == mq_fd[s]
  <2>1. /\ Running(s) /\ Goto(s, "select") /\ UNCHANGED <<name, mq_fd, input, lines>>
        /\ queue[q] # << >> /\ queue' = [queue EXCEPT ![q] = Tail(@)]
    BY <1>3 DEF mq_receive, Running
  <2>2. q \in Processes
    BY <2>1 DEF TypeOK
  <2>3. /\ Tail(queue[q]) \in Seq(Integers) /\ Len(Tail(queue[q])) = Len(queue[q]) - 1
        /\ \A i \in DOMAIN Tail(queue[q]) :
               i + 1 \in DOMAIN queue[q] /\ Tail(queue[q])[i] = queue[q][i + 1]
    BY <2>1, <2>2, HeadTailProperties DEF TypeOK
  <2>4. TypeOK'
    BY <2>1, <2>2, <2>3 DEF TypeOK, Running, Goto
  <2>5. PcInv'
    BY <2>1 DEF TypeOK, PcInv, Goto
  <2> QED  BY <2>1, <2>4, <2>5, GotoInv
<1> QED  BY <1>1, <1>2, <1>3

LEMMA ShutdownServerInv ==
  ASSUME IInv, NEW s \in Servers, shutdown_server(s)
  PROVE  IInv'
<1> USE ConstantsType DEF IInv
<1>1. /\ Running(s) /\ name' = Nobody /\ UNCHANGED <<queue, mq_fd, input, lines>>
      /\ Goto(s, IF name = Nobody THEN "unnamed" ELSE "ended")
  BY DEF shutdown_server, Running
<1>2. TypeOK' /\ PcInv' /\ CreatorInv'
  BY <1>1 DEF TypeOK, PcInv, CreatorInv, Running, Goto
<1>3. ServerFirstNeverFails'
  BY <1>1 DEF TypeOK, ServerFirstNeverFails, ClientCameFirst, Goto
<1>4. NameGoesWithServer'
  BY <1>1 DEF TypeOK, NameGoesWithServer, Running, Goto
<1> QED  BY <1>2, <1>3, <1>4

LEMMA ClientInv ==
  ASSUME IInv, NEW c \in Clients,
         ClientStarts(c) \/ TypeLine(c) \/ TypeHalf(c) \/ mq_send(c) \/ shutdown_client(c)
  PROVE  IInv'
<1> USE ConstantsType DEF IInv
<1>1. CASE ClientStarts(c) \/ TypeHalf(c) \/ shutdown_client(c)
  <2>1. PICK state \in {"prompt", "spin", "ended"} :
          Running(c) /\ Goto(c, state) /\ UNCHANGED <<name, queue, mq_fd, input, lines>>
    BY <1>1 DEF ClientStarts, TypeHalf, shutdown_client, Running
  <2>2. TypeOK' /\ PcInv'
    BY <2>1 DEF TypeOK, PcInv, Running, Goto
  <2> QED  BY <2>1, <2>2, GotoInv
<1>2. CASE TypeLine(c)
  <2>1. /\ pc[c] = "prompt" /\ pc = [pc EXCEPT ![c] = "prompt"]
        /\ Running(c) /\ UNCHANGED <<name, queue, mq_fd>>
        /\ lines < MAX_LINES /\ lines' = lines + 1
    BY <1>2 DEF TypeLine, TypeOK, Running
  <2>2. PICK l \in Lines :
          /\ input' = [input EXCEPT ![c] = l]
          /\ IF l \in Integers THEN Goto(c, "send") ELSE UNCHANGED pc
    BY <1>2 DEF TypeLine
  <2>3. CASE l \in Integers
    <3>1. Goto(c, "send")
      BY <2>2, <2>3
    <3>2. TypeOK' /\ PcInv'
      BY <2>1, <2>2, <2>3, <3>1 DEF TypeOK, PcInv, Running, Goto
    <3> QED  BY <2>1, <3>1, <3>2, GotoInv
  <2>4. CASE l \notin Integers
    <3>1. Goto(c, "prompt") /\ UNCHANGED pc
      BY <2>1, <2>2, <2>4 DEF Goto
    <3>2. TypeOK' /\ PcInv'
      BY <2>1, <2>2, <2>4, <3>1 DEF TypeOK, PcInv, Running
    <3> QED  BY <2>1, <3>1, <3>2, GotoInv
  <2> QED  BY <2>3, <2>4
<1>3. CASE mq_send(c) /\ Fits(c)
  <2> DEFINE q == mq_fd[c]
  <2>1. /\ Running(c) /\ Goto(c, "prompt") /\ UNCHANGED <<name, mq_fd, input, lines>>
        /\ Size[input[c]] <= MsgSize(q) /\ Len(queue[q]) < MAX_MESSAGES
        /\ queue' = [queue EXCEPT ![q] = Append(@, input[c])]
    BY <1>3 DEF mq_send, Fits, Running
  <2>2. q \in Processes /\ input[c] \in Integers
    BY <1>3, <2>1 DEF TypeOK, PcInv, mq_send
  <2>3. /\ Append(queue[q], input[c]) \in Seq(Integers)
        /\ Len(Append(queue[q], input[c])) <= MAX_MESSAGES
        /\ \A i \in DOMAIN Append(queue[q], input[c]) :
               Size[Append(queue[q], input[c])[i]] <= MsgSize(q)
    <3>1. queue[q] \in Seq(Integers) /\ Len(queue[q]) \in Nat
      BY <2>2, LenProperties DEF TypeOK
    <3>2. \A i \in 1 .. Len(queue[q]) : Size[queue[q][i]] <= MsgSize(q)
      BY <2>2, <3>1, LenProperties DEF TypeOK
    <3> QED  BY <2>1, <2>2, <3>1, <3>2, AppendProperties
  <2>4. TypeOK'
    BY <2>1, <2>2, <2>3 DEF TypeOK, Running, Goto
  <2>5. PcInv'
    BY <2>1 DEF TypeOK, PcInv, Goto
  <2> QED  BY <2>1, <2>4, <2>5, GotoInv
<1>4. CASE mq_send(c) /\ ~ Fits(c)
  <2>1. Running(c) /\ Goto(c, "prompt") /\ UNCHANGED <<name, queue, mq_fd, input, lines>>
    BY <1>4 DEF mq_send, Running
  <2>2. TypeOK' /\ PcInv'
    BY <2>1 DEF TypeOK, PcInv, Running, Goto
  <2> QED  BY <2>1, <2>2, GotoInv
<1> QED  BY <1>1, <1>2, <1>3, <1>4

LEMMA NextInv == IInv /\ [Next]_vars => IInv'
<1> SUFFICES ASSUME IInv, [Next]_vars PROVE IInv'
  OBVIOUS
<1> USE ConstantsType DEF IInv
<1>1. ASSUME NEW p \in Processes, mq_open(p) \/ Killed(p) PROVE IInv'
  <2>1. CASE Killed(p)
    <3>1. Running(p) /\ Goto(p, "killed") /\ UNCHANGED <<name, queue, mq_fd, input, lines>>
      BY <2>1 DEF Killed, Running
    <3>2. TypeOK' /\ PcInv'
      BY <3>1 DEF TypeOK, PcInv, Running, Goto
    <3> QED  BY <3>1, <3>2, GotoInv
  <2> QED  BY <1>1, <2>1, OpenInv
<1>2. ASSUME NEW s \in Servers, Serve(s) \/ shutdown_server(s) PROVE IInv'
  BY <1>2, ServerInv, ShutdownServerInv DEF Serve
<1>3. ASSUME NEW c \in Clients, Send(c) \/ TypeLine(c) \/ TypeHalf(c) \/ shutdown_client(c)
      PROVE  IInv'
  BY <1>3, ClientInv DEF Send
<1>4. CASE UNCHANGED vars
  BY <1>4 DEF vars, TypeOK, PcInv, CreatorInv, ServerFirstNeverFails, ClientCameFirst,
              NameGoesWithServer, Running
<1> QED  BY <1>1, <1>2, <1>3, <1>4 DEF Next, User

\* Every variable keeps its type: no queue holds more than mq_maxmsg messages,
\* none of them larger than its mq_msgsize, and all are integers (mq_send).
THEOREM TypeCorrect == Spec => []TypeOK
<1>1. IInv => TypeOK
  BY DEF IInv
<1> QED  BY InitInv, NextInv, <1>1, PTL DEF Spec

\* Where a server came first, every process may open the queue and no
\* mq_receive fails, whatever is sent (main of mq_server.c and mq_client.c).
THEOREM NothingFails == Spec => []ServerFirstNeverFails
<1>1. IInv => ServerFirstNeverFails
  BY DEF IInv
<1> QED  BY InitInv, NextInv, <1>1, PTL DEF Spec

\* The name goes only with a server, as the comment in mq_server.c says: until
\* then all who run share one queue.
THEOREM OnlyServersUnlink == Spec => []NameGoesWithServer
<1>1. IInv => NameGoesWithServer
  BY DEF IInv
<1> QED  BY InitInv, NextInv, <1>1, PTL DEF Spec
=============================================================================
