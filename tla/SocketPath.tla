----------------------------- MODULE SocketPath -----------------------------
(***************************************************************************)
(* The name of a server's socket, from the start of a server to its end    *)
(* (initialize_server and shutdown_server of the three socket servers).    *)
(* The two sum servers have the same SOCKET_PATH, and nothing stops a user *)
(* from starting a server twice.                                           *)
(***************************************************************************)
EXTENDS FiniteSets

CONSTANTS
    Servers,
    Strict,         \* those that check their last unlink: routing table managers
    Nobody          \* no socket

ASSUME ServersAssumption == Strict \subseteq Servers /\ Nobody \notin Servers

VARIABLES
    path,           \* the server whose socket SOCKET_PATH designates
    pc,             \* where each server is
    before          \* the servers that had ended when each one started

vars == <<path, pc, before>>

Init ==
    /\ path = Nobody
    /\ pc = [s \in Servers |-> "off"]
    /\ before = [s \in Servers |-> {}]

Goto(s, state) == pc' = [pc EXCEPT ![s] = state]

Over == {"ended", "killed", "unbound", "unnamed"}
Running(s) == pc[s] \notin Over \cup {"off"}

Started(s) ==
    /\ pc[s] = "off"
    /\ before' = [before EXCEPT ![s] = {t \in Servers : pc[t] \in Over}]
    /\ Goto(s, "socket")

\* Mutant: what a server that crashed has left is not removed.
StartsWithoutUnlink(s) == Started(s) /\ UNCHANGED path

\* unlink, "in case the program had previously exited abnormally".
Starts(s) == Started(s) /\ path' = Nobody

\* bind fails when another server has bound the name meanwhile.
Bind(s) ==
    /\ pc[s] = "socket"
    /\ IF path = Nobody
       THEN path' = s /\ Goto(s, "bound")
       ELSE Goto(s, "unbound") /\ UNCHANGED path
    /\ UNCHANGED before

Listen(s) ==
    /\ pc[s] = "bound"
    /\ Goto(s, "listening")
    /\ UNCHANGED <<path, before>>

\* signal: from here on Ctrl+C shuts the server down.
Handles(s) ==
    /\ pc[s] = "listening"
    /\ Goto(s, "serving")
    /\ UNCHANGED <<path, before>>

\* Ctrl+C before that, or a crash at any time: the name stays behind.
Killed(s) ==
    /\ Running(s)
    /\ Goto(s, "killed")
    /\ UNCHANGED <<path, before>>

\* close, and unlink of the name, whatever it designates.
shutdown_server(s) ==
    /\ pc[s] = "serving"
    /\ path' = Nobody
    /\ Goto(s, IF path = Nobody /\ s \in Strict THEN "unnamed" ELSE "ended")
    /\ UNCHANGED before

Next ==
    \E s \in Servers :
        Starts(s) \/ Bind(s) \/ Listen(s) \/ Handles(s) \/ Killed(s) \/ shutdown_server(s)

Spec == Init /\ [][Next]_vars

-----------------------------------------------------------------------------
\* Every variable has its type; the name never designates a socket that was
\* not bound.
TypeOK ==
    /\ path \in Servers \cup {Nobody}
    /\ pc \in [Servers -> {"off", "socket", "bound", "listening", "serving"} \cup Over]
    /\ before \in [Servers -> SUBSET Servers]
    /\ path # Nobody => pc[path] \notin {"off", "socket", "unbound"}

\* The servers that ran at a time when s did.
Rivals(s) ==
    {t \in Servers \ {s} : pc[t] # "off" /\ t \notin before[s] /\ s \notin before[t]}

\* Whatever the servers before it have left, and wherever they were killed, a
\* server without a rival binds, is the one clients reach until it ends, and
\* finds its name to unlink.
AloneIsReached ==
    \A s \in Servers : Rivals(s) = {} =>
        /\ pc[s] \notin {"unbound", "unnamed"}
        /\ pc[s] \in {"bound", "listening", "serving"} => path = s

\* A server fails to bind only to a rival that has bound: when several start
\* at once, they do not all fail.
RaceHasWinner ==
    \A s \in Servers : pc[s] = "unbound" =>
        \E t \in Rivals(s) : pc[t] \notin {"socket", "unbound"}
=============================================================================
