----------------------------- MODULE SumClient -----------------------------
(***************************************************************************)
(* The client of the sum servers (unix_domain_sockets/client.c) and its    *)
(* connection, a stream socket.  Both servers are built on this module:    *)
(* they own the process that accepts, reads and answers.                   *)
(*                                                                         *)
(* The unit of the stream is the int.  One write of the client is one int, *)
(* but a read of the server asks for BUFFER_SIZE bytes: it returns up to   *)
(* READ_INTS ints that happen to have arrived.                             *)
(***************************************************************************)
EXTENDS Integers, Sequences, SequencesExt, FiniteSetsExt

CONSTANTS
    Clients,        \* client processes; each runs client.c once
    Values,         \* the ints a user types, other than 0
    MAX_INTS,       \* bound: ints other than 0 that one client sends
    SOCKBUF,        \* ints a socket buffers before write blocks
    READ_INTS,      \* BUFFER_SIZE / sizeof(int): 32 in both servers
    BACKLOG,        \* 20 in both servers
    INT_MAX,        \* of limits.h
    Patient,        \* clients whose user types an int when the last has been read
    NoResult        \* no "Result = ..." has been written or read

Int_w == (-INT_MAX - 1) .. INT_MAX

ASSUME SumClientAssumption ==
    /\ MAX_INTS \in Nat /\ SOCKBUF \in Nat \ {0} /\ READ_INTS \in Nat \ {0}
    /\ BACKLOG \in Nat /\ INT_MAX \in Nat
    /\ Patient \subseteq Clients
    /\ NoResult \notin Int
    /\ Values \subseteq Int_w \ {0}

VARIABLES
    listening,      \* the server's listening socket is open
    backlog,        \* connections waiting for accept, in order
    conn,           \* the server's end of each connection
    up,             \* ints on their way to the server
    down,           \* the result on its way to the client
    cpc,            \* where each client process is
    sent,           \* history: what each client has written
    result          \* history: what each client has been told

connections == <<listening, backlog, conn>>
clientVars == <<cpc, sent, result>>
socketVars == <<connections, up, down>>

\* Mutant: the sum is kept in a type wider than int.
AddWide(a, b) == a + b

\* Two's complement addition: the build has no -ftrapv, so a sum wraps around.
Add(a, b) == ((a + b + INT_MAX + 1) % (2 * (INT_MAX + 1))) - (INT_MAX + 1)

ClientEnded == {"exited", "failed"}
ClientStates == {"off", "sending", "waiting", "spin"} \cup ClientEnded
\* "reset": closed with ints in it that nobody has read.
ConnStates == {"none", "pending", "open", "closed", "reset"}

SumClientInit ==
    /\ listening = TRUE
    /\ backlog = << >>
    /\ conn = [c \in Clients |-> "none"]
    /\ up = [c \in Clients |-> << >>]
    /\ down = [c \in Clients |-> NoResult]
    /\ cpc = [c \in Clients |-> "off"]
    /\ sent = [c \in Clients |-> << >>]
    /\ result = [c \in Clients |-> NoResult]

-----------------------------------------------------------------------------
(***************************************************************************)
(* The client process.                                                     *)
(***************************************************************************)
Moves(c, to) == cpc' = [cpc EXCEPT ![c] = to]

\* connect blocks while more than BACKLOG connections are waiting.
Connect(c) ==
    /\ cpc[c] = "off"
    /\ listening
    /\ Len(backlog) <= BACKLOG
    /\ Moves(c, "sending")
    /\ conn' = [conn EXCEPT ![c] = "pending"]
    /\ backlog' = Append(backlog, c)
    /\ UNCHANGED <<listening, up, down, sent, result>>

ConnectFails(c) ==
    /\ cpc[c] = "off"
    /\ ~ listening
    /\ Moves(c, "failed")
    /\ UNCHANGED <<socketVars, sent, result>>

\* The user types an int, and it is written; a line that is not an int is asked
\* for again and changes nothing.  0 ends the loop.
Send(c, v) ==
    /\ cpc[c] = "sending"
    /\ conn[c] \in {"pending", "open"}
    /\ Len(up[c]) < SOCKBUF
    /\ c \in Patient => up[c] = << >>
    /\ v # 0 => Len(sent[c]) < MAX_INTS
    /\ up' = [up EXCEPT ![c] = Append(@, v)]
    /\ sent' = [sent EXCEPT ![c] = Append(@, v)]
    /\ Moves(c, IF v = 0 THEN "waiting" ELSE "sending")
    /\ UNCHANGED <<connections, down, result>>

\* write fails with EPIPE: the client raises SIGINT.
SendFails(c) ==
    /\ cpc[c] = "sending"
    /\ conn[c] \in {"closed", "reset"}
    /\ Moves(c, "exited")
    /\ UNCHANGED <<socketVars, sent, result>>

\* The last line ends without a newline: remove_newline waits in getchar for one
\* that never comes.
FlushAtEof(c) ==
    /\ cpc[c] = "sending"
    /\ Moves(c, "spin")
    /\ UNCHANGED <<socketVars, sent, result>>

\* read returns the result, what was written before the close comes first ...
Receive(c) ==
    /\ cpc[c] = "waiting"
    /\ down[c] # NoResult
    /\ result' = [result EXCEPT ![c] = down[c]]
    /\ Moves(c, "exited")
    /\ UNCHANGED <<socketVars, sent>>

\* ... or 0 bytes, and the client prints an empty line, or fails.
ReceiveNothing(c) ==
    /\ cpc[c] = "waiting"
    /\ down[c] = NoResult
    /\ conn[c] \in {"closed", "reset"}
    /\ Moves(c, IF conn[c] = "closed" THEN "exited" ELSE "failed")
    /\ UNCHANGED <<socketVars, sent, result>>

\* Ctrl+C, or Ctrl+D at the prompt.  What was written remains to be read.
shutdown_client(c) ==
    /\ cpc[c] \in {"sending", "waiting", "spin"}
    /\ Moves(c, "exited")
    /\ UNCHANGED <<socketVars, sent, result>>

\* What a client does by itself, and what its user makes it do.
ClientStep(c) == Receive(c) \/ ReceiveNothing(c)

User(c) ==
    \/ Connect(c) \/ ConnectFails(c) \/ SendFails(c) \/ FlushAtEof(c)
    \/ shutdown_client(c)
    \/ \E v \in Values \cup {0} : Send(c, v)

-----------------------------------------------------------------------------
(***************************************************************************)
(* What a server does to the connections.                                  *)
(***************************************************************************)

\* read would not block.
Readable(c) == up[c] # << >> \/ cpc[c] \in ClientEnded

\* Both servers clear the buffer, read BUFFER_SIZE bytes whatever their number,
\* and use the first int: 0 at end of file, and the ints behind it are lost.
Data(c)   == IF up[c] = << >> THEN 0 ELSE Head(up[c])

\* Mutant: more is asked for than the buffer of READ_INTS holds.
UnreadTooMuch(c) == SubSeq(up[c], 2 + READ_INTS, Len(up[c]))

Unread(c) == SubSeq(up[c], 1 + READ_INTS, Len(up[c]))

\* accept takes the connection that has waited longest.
Accepts(c) ==
    /\ backlog # << >>
    /\ c = Head(backlog)
    /\ backlog' = Tail(backlog)
    /\ conn' = [conn EXCEPT ![c] = "open"]

Takes(c) == up' = [up EXCEPT ![c] = Unread(c)]

\* The result is written, unless the client has gone, and the socket closed.
Answers(c, sum) ==
    /\ down' = [down EXCEPT ![c] = IF cpc[c] \in ClientEnded THEN @ ELSE sum]
    /\ conn' = [conn EXCEPT ![c] = IF up[c] = << >> THEN "closed" ELSE "reset"]
    /\ UNCHANGED <<listening, backlog, up>>

\* The server process has ended: a connection never accepted is reset.
ServerGone ==
    /\ listening' = FALSE
    /\ backlog' = << >>
    /\ conn' = [c \in Clients |->
                    CASE conn[c] = "open" -> IF up[c] = << >> THEN "closed" ELSE "reset"
                      [] conn[c] = "pending" -> "reset"
                      [] OTHER -> conn[c]]
    /\ UNCHANGED <<up, down, clientVars>>

-----------------------------------------------------------------------------
SumClientTypeOK ==
    /\ listening \in BOOLEAN
    /\ backlog \in Seq(Clients)
    /\ conn \in [Clients -> ConnStates]
    /\ up \in [Clients -> Seq(Values \cup {0})]
    /\ down \in [Clients -> Int_w \cup {NoResult}]
    /\ cpc \in [Clients -> ClientStates]
    /\ sent \in [Clients -> Seq(Values \cup {0})]
    /\ result \in [Clients -> Int_w \cup {NoResult}]

SumOf(s) == FoldLeft(Add, 0, s)

\* unix_domain_sockets/README.md: a client that sends 0 "expects the sum of all
\* the integers it has sent to the server", with no word of waiting between two.
EveryResultIsSum == \A c \in Clients : result[c] # NoResult => result[c] = SumOf(sent[c])
=============================================================================
