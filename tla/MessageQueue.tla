---------------------------- MODULE MessageQueue ----------------------------
(***************************************************************************)
(* Servers and clients of a POSIX message queue (posix_message_queues/).   *)
(*                                                                         *)
(* Either kind of process creates the queue if it comes first, each with   *)
(* its own attributes.  A queue is named after the process that created    *)
(* it; it outlives its name as long as somebody has it open.               *)
(***************************************************************************)
EXTENDS Naturals, Sequences, FiniteSets

CONSTANTS
    Servers, Clients,
    Privileged,     \* the processes that permissions do not stop
    Nobody,         \* no queue
    Lines,          \* what may be typed to a client
    Integers,       \* the lines that read_int_from_buffer takes, other than 0
    Size,           \* a line's characters, with its NUL
    MSG_SIZE,       \* attr.mq_msgsize of the server
    DEFAULT_SIZE,   \* mq_msgsize of a queue created without attributes
    INT_LEN,        \* the size of `input'
    MAX_MESSAGES,   \* attr.mq_maxmsg, and its default
    MAX_LINES       \* bound: the lines typed

ASSUME ProcessesAssumption ==
    /\ Servers \cap Clients = {} /\ Nobody \notin Servers \cup Clients
    /\ Privileged \subseteq Servers \cup Clients
ASSUME LinesAssumption ==
    /\ Integers \subseteq Lines
    /\ \A l \in Lines : Size[l] \in 1..INT_LEN
ASSUME SizesAssumption ==
    /\ INT_LEN \in Nat /\ MSG_SIZE \in 0..INT_LEN
    /\ DEFAULT_SIZE \in Nat /\ MAX_MESSAGES \in Nat \ {0} /\ MAX_LINES \in Nat

Processes == Servers \cup Clients

VARIABLES
    name,           \* the queue MSG_QUEUE_PATH designates
    queue,          \* the messages in each queue, the oldest first
    pc,             \* where each process is
    mq_fd,          \* the queue each process has open
    input,          \* the line each client has read
    lines           \* how many lines were typed

vars == <<name, queue, pc, mq_fd, input, lines>>

Init ==
    /\ name = Nobody
    /\ queue = [q \in Processes |-> << >>]
    /\ pc = [p \in Processes |-> "off"]
    /\ mq_fd = [p \in Processes |-> Nobody]
    /\ input = [c \in Clients |-> Nobody]
    /\ lines = 0

Goto(p, state) == pc' = [pc EXCEPT ![p] = state]

Running(p) == pc[p] \notin {"off", "ended", "unnamed", "refused", "failed", "killed"}

-----------------------------------------------------------------------------
\* A queue that a client created has mode 0: nobody else may open it.  That of a
\* server has mode 0660: the processes are of one user or group.
MayOpen(p) == name \in Servers \cup {Nobody} \/ p \in Privileged

\* Mutant: the server does not pass its attributes.
MsgSizeDefault(q) == DEFAULT_SIZE

MsgSize(q) == IF q \in Servers THEN MSG_SIZE ELSE DEFAULT_SIZE

\* mq_open with O_CREAT: the queue that has the name, or a new one.
mq_open(p) ==
    /\ pc[p] = "off"
    /\ IF MayOpen(p)
       THEN /\ name' = IF name = Nobody THEN p ELSE name
            /\ mq_fd' = [mq_fd EXCEPT ![p] = name']
            /\ Goto(p, "opened")
       ELSE Goto(p, "refused") /\ UNCHANGED <<name, mq_fd>>
    /\ UNCHANGED <<queue, input, lines>>

\* Ctrl+C before the handler is there: nothing is unlinked.
Killed(p) ==
    /\ pc[p] = "opened"
    /\ Goto(p, "killed")
    /\ UNCHANGED <<name, queue, mq_fd, input, lines>>

-----------------------------------------------------------------------------
ServerStarts(s) ==
    /\ pc[s] = "opened"
    /\ Goto(s, "select")
    /\ UNCHANGED <<name, queue, mq_fd, input, lines>>

\* Mutant: select is given mq_fd, not mq_fd + 1, and does not watch it.
SelectMissesQueue(s) == pc[s] = "select" /\ FALSE /\ UNCHANGED vars

\* select returns; another server may take the message before this one does.
Select(s) ==
    /\ pc[s] = "select"
    /\ queue[mq_fd[s]] # << >>
    /\ Goto(s, "receive")
    /\ UNCHANGED <<name, queue, mq_fd, input, lines>>

\* mq_receive blocks while the queue is empty.  It refuses a buffer smaller
\* than the largest message the queue might hold, whatever it holds.
mq_receive(s) ==
    /\ pc[s] = "receive"
    /\ IF INT_LEN < MsgSize(mq_fd[s])
       THEN Goto(s, "failed") /\ UNCHANGED queue
       ELSE /\ queue[mq_fd[s]] # << >>
            /\ queue' = [queue EXCEPT ![mq_fd[s]] = Tail(@)]
            /\ Goto(s, "select")
    /\ UNCHANGED <<name, mq_fd, input, lines>>

\* Ctrl+C at a server: mq_close, and mq_unlink of the name, whatever it
\* designates.
shutdown_server(s) ==
    /\ pc[s] \in {"select", "receive"}
    /\ name' = Nobody
    /\ Goto(s, IF name = Nobody THEN "unnamed" ELSE "ended")
    /\ UNCHANGED <<queue, mq_fd, input, lines>>

-----------------------------------------------------------------------------
ClientStarts(c) ==
    /\ pc[c] = "opened"
    /\ Goto(c, "prompt")
    /\ UNCHANGED <<name, queue, mq_fd, input, lines>>

\* A line is read: an integer is sent, anything else brings the prompt back.
TypeLine(c) ==
    /\ pc[c] = "prompt"
    /\ lines < MAX_LINES
    /\ lines' = lines + 1
    /\ \E l \in Lines :
           /\ input' = [input EXCEPT ![c] = l]
           /\ IF l \in Integers THEN Goto(c, "send") ELSE UNCHANGED pc
    /\ UNCHANGED <<name, queue, mq_fd>>

\* The console ends in the middle of a line: remove_newline never returns.
TypeHalf(c) ==
    /\ pc[c] = "prompt"
    /\ Goto(c, "spin")
    /\ UNCHANGED <<name, queue, mq_fd, input, lines>>

Fits(c) == Size[input[c]] <= MsgSize(mq_fd[c])

\* Mutant: a message that could not be sent is sent again.
SendRetries(c) ==
    /\ pc[c] = "send"
    /\ Fits(c) /\ Len(queue[mq_fd[c]]) < MAX_MESSAGES
    /\ queue' = [queue EXCEPT ![mq_fd[c]] = Append(@, input[c])]
    /\ Goto(c, "prompt")
    /\ UNCHANGED <<name, mq_fd, input, lines>>

\* mq_send blocks while the queue is full; a message that is too long is lost.
mq_send(c) ==
    /\ pc[c] = "send"
    /\ IF Fits(c)
       THEN /\ Len(queue[mq_fd[c]]) < MAX_MESSAGES
            /\ queue' = [queue EXCEPT ![mq_fd[c]] = Append(@, input[c])]
       ELSE UNCHANGED queue
    /\ Goto(c, "prompt")
    /\ UNCHANGED <<name, mq_fd, input, lines>>

\* Mutant: the client unlinks the queue too.
ShutdownClientUnlinks(c) ==
    /\ pc[c] \in {"prompt", "send", "spin"}
    /\ name' = Nobody
    /\ Goto(c, "ended")
    /\ UNCHANGED <<queue, mq_fd, input, lines>>

\* 0, the end of file or Ctrl+C: the name stays.
shutdown_client(c) ==
    /\ pc[c] \in {"prompt", "send", "spin"}
    /\ Goto(c, "ended")
    /\ UNCHANGED <<name, queue, mq_fd, input, lines>>

-----------------------------------------------------------------------------
Serve(s) == ServerStarts(s) \/ Select(s) \/ mq_receive(s)
Send(c) == ClientStarts(c) \/ mq_send(c)

User ==
    \/ \E p \in Processes : mq_open(p) \/ Killed(p)
    \/ \E s \in Servers : shutdown_server(s)
    \/ \E c \in Clients : TypeLine(c) \/ TypeHalf(c) \/ shutdown_client(c)

Next == User \/ (\E s \in Servers : Serve(s)) \/ (\E c \in Clients : Send(c))

Spec == Init /\ [][Next]_vars

\* Processes that can run do.
FairSpec ==
    Spec /\ (\A s \in Servers : WF_vars(Serve(s))) /\ (\A c \in Clients : WF_vars(Send(c)))

-----------------------------------------------------------------------------
\* Every variable has its type; what is in a queue fits it, and is an integer.
TypeOK ==
    /\ name \in Processes \cup {Nobody}
    /\ \A q \in Processes :
           /\ queue[q] \in Seq(Integers) /\ Len(queue[q]) <= MAX_MESSAGES
           /\ \A i \in DOMAIN queue[q] : Size[queue[q][i]] <= MsgSize(q)
    /\ pc \in [Processes -> {"off", "opened", "select", "receive", "prompt", "send", "spin",
                             "ended", "unnamed", "refused", "failed", "killed"}]
    /\ mq_fd \in [Processes -> Processes \cup {Nobody}]
    /\ input \in [Clients -> Lines \cup {Nobody}]
    /\ lines \in 0..MAX_LINES
    /\ \A p \in Processes : Running(p) => mq_fd[p] # Nobody

ClientCameFirst == \E c \in Clients : mq_fd[c] = c

\* Where a server came first, nothing fails: every process may open the queue
\* and no mq_receive ends a server.  A queue that a client created shuts the
\* others out, or kills a privileged server with its first message.
ServerFirstNeverFails ==
    (\E p \in Processes : pc[p] \in {"refused", "failed"}) => ClientCameFirst

\* "Only server (receiver) process unlinks the queue, such that multiple
\* clients are accepted": until a server has shut down every process that runs
\* has the one queue that newcomers will open, and no mq_unlink fails.
NameGoesWithServer ==
    \/ \E s \in Servers : pc[s] = "ended"
    \/ /\ \A p \in Processes : Running(p) => mq_fd[p] = name
       /\ \A s \in Servers : pc[s] # "unnamed"

Serving(s) == pc[s] \in {"select", "receive"}

\* A client that waits for room does not wait for ever while a server serves
\* its queue, and other clients fill it.
SenderProceeds ==
    \A c \in Clients :
        ~ <>[](pc[c] = "send" /\ \E s \in Servers : Serving(s) /\ mq_fd[s] = mq_fd[c])

\* A queue does not stay non-empty while a server serves it, also when two
\* servers race for its messages.
QueueIsDrained == \A s \in Servers : ~ <>[](Serving(s) /\ queue[mq_fd[s]] # << >>)
=============================================================================
