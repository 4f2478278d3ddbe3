-------------------------- MODULE SumServerSimple --------------------------
(***************************************************************************)
(* The sum server without multiplexing                                     *)
(* (unix_domain_sockets/no_multiplexing/server.c): it accepts one client,  *)
(* reads until a 0, answers, and only then accepts the next.               *)
(***************************************************************************)
EXTENDS SumClient

CONSTANT Nobody     \* no connection is being served

ASSUME NobodyAssumption == Nobody \notin Clients

VARIABLES
    spc,            \* where the server process is
    current,        \* the client at the other end of data_socket
    sum             \* the sum of the client being served

serverVars == <<spc, current, sum>>
vars == <<serverVars, socketVars, clientVars>>

ServerUp == spc # "exited"

Init ==
    /\ SumClientInit
    /\ spc = "accept"
    /\ current = Nobody
    /\ sum = 0

\* Mutant: `sum' is declared outside the loop.
AcceptKeepsSum ==
    /\ spc = "accept"
    /\ \E c \in Clients : Accepts(c) /\ current' = c
    /\ spc' = "serve"
    /\ UNCHANGED <<sum, listening, up, down, clientVars>>

\* accept blocks until there is a connection; `sum' starts from 0.
handle_connection_initiation_request ==
    /\ spc = "accept"
    /\ \E c \in Clients : Accepts(c) /\ current' = c
    /\ sum' = 0
    /\ spc' = "serve"
    /\ UNCHANGED <<listening, up, down, clientVars>>

\* Mutant: at the end of file the server goes on reading.
ServiceIgnoresEof ==
    /\ spc = "serve"
    /\ Readable(current)
    /\ Takes(current)
    /\ sum' = Add(sum, Data(current))
    /\ spc' = IF up[current] # << >> /\ Data(current) = 0 THEN "answer" ELSE "serve"
    /\ UNCHANGED <<current, connections, down, clientVars>>

\* One read.  A 0 or the end of file ends the loop.
handle_service_request ==
    /\ spc = "serve"
    /\ Readable(current)
    /\ Takes(current)
    /\ sum' = Add(sum, Data(current))
    /\ spc' = IF Data(current) = 0 THEN "answer" ELSE "serve"
    /\ UNCHANGED <<current, connections, down, clientVars>>

\* Mutant: the socket is not closed.
SendResultKeepsOpen ==
    /\ spc = "answer"
    /\ down' = [down EXCEPT ![current] = IF cpc[current] \in ClientEnded THEN @ ELSE sum]
    /\ spc' = "accept"
    /\ current' = Nobody
    /\ UNCHANGED <<sum, connections, up, clientVars>>

\* The result is written, if the client is still there, and the socket closed.
SendResult ==
    /\ spc = "answer"
    /\ Answers(current, sum)
    /\ spc' = "accept"
    /\ current' = Nobody
    /\ UNCHANGED <<sum, clientVars>>

shutdown_server ==
    /\ ServerUp
    /\ spc' = "exited"
    /\ ServerGone
    /\ UNCHANGED <<current, sum>>

ServerStep ==
    handle_connection_initiation_request \/ handle_service_request \/ SendResult

Process(c) == ClientStep(c) /\ UNCHANGED serverVars

Environment ==
    shutdown_server \/ \E c \in Clients : User(c) /\ UNCHANGED serverVars

Next == ServerStep \/ (\E c \in Clients : Process(c)) \/ Environment

Spec == Init /\ [][Next]_vars

FairSpec == Spec /\ WF_vars(ServerStep) /\ \A c \in Clients : WF_vars(Process(c))

-----------------------------------------------------------------------------
\* Every variable has its type; a client is being served exactly while the
\* server is between accept and close.
TypeOK ==
    /\ SumClientTypeOK
    /\ spc \in {"accept", "serve", "answer", "exited"}
    /\ current \in Clients \cup {Nobody}
    /\ sum \in Int_w
    /\ spc \in {"serve", "answer"} => current # Nobody

\* The client being served and those behind it, in the order they connected.
Line == (IF current = Nobody THEN << >> ELSE <<current>>) \o backlog

Over(c) == conn[c] \in {"closed", "reset"}

\* What becomes of the line while the server is up: clients join at its end, or
\* the first one leaves it, who is the only one whose connection ends.
LineMoves ==
    LET ending == {c \in Clients : ~ Over(c) /\ Over(c)'}
    IN  \/ IsPrefix(Line, Line') /\ ending = {}
        \/ Line # << >> /\ Line' = Tail(Line) /\ ending = {Head(Line)}

\* What is open is the connection of the first in line.
OnlyFirstOpen == \A c \in Clients : conn[c] = "open" => Line # << >> /\ c = Head(Line)

\* README.md, of the server without multiplexing: it "can only handle one client
\* at a time".  No client is answered before one that connected earlier: whoever
\* comes first in line stays there until its connection is closed, and nobody
\* behind it is answered before, however long it sits at its prompt; nor is
\* any other connection open meanwhile.
OneAtATime == [][ServerUp' => LineMoves /\ OnlyFirstOpen']_vars

\* A client in front holds the others up: it sits at the prompt, or is not
\* patient and waits for the answer to a 0 that was lost.
HoldsUp(c) == cpc[c] \in {"sending", "spin"} \/ (cpc[c] = "waiting" /\ c \notin Patient)

\* A patient client that has sent its 0 is answered, provided that nobody holds
\* the others up for ever.
ResultArrives ==
    (\A e \in Clients : []<>(~ HoldsUp(e))) =>
        \A c \in Patient : cpc[c] = "waiting" ~> cpc[c] # "waiting"

Service == INSTANCE SumService WITH
    LOSS <- READ_INTS - 1, Plus <- Add,
    pending <- up,
    account <- [c \in Clients |-> IF c = current THEN sum ELSE 0],
    due <- IF spc = "answer" THEN {current} ELSE {},
    answer <- down,
    gone <- {c \in Clients : cpc[c] \in ClientEnded}

\* Clients are served one after another, but to each it looks as if it had an
\* account of its own.
SumServiceSpec == Service!Spec
=============================================================================
