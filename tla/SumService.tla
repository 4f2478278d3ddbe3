----------------------------- MODULE SumService -----------------------------
(***************************************************************************)
(* What a sum server does for its clients, without slots, descriptors or   *)
(* loops: each client has an account.  What the client sent is added to it *)
(* in order, and nothing else is; LOSS ints may go with every one added.   *)
(* A client that sent 0 is told its account, once, unless the server ends  *)
(* before.  The account is then empty.                                     *)
(***************************************************************************)
EXTENDS Integers, Sequences, SequencesExt

CONSTANTS
    Clients, Values,
    LOSS,           \* ints that may be lost behind each one accounted for
    Plus(_, _),     \* the addition of the machine
    NoResult

VARIABLES
    pending,    \* ints on their way
    account,
    due,        \* clients whose 0, or end, has been seen
    answer,
    gone
vars == <<pending, account, due, answer, gone>>

Init ==
    /\ pending = [c \in Clients |-> << >>]
    /\ account = [c \in Clients |-> 0]
    /\ due = {}
    /\ answer = [c \in Clients |-> NoResult]
    /\ gone = {}

Deposit(c, v) ==
    /\ c \notin gone
    /\ pending' = [pending EXCEPT ![c] = Append(@, v)]
    /\ UNCHANGED <<account, due, answer, gone>>

\* The next int is dealt with, and up to LOSS behind it are lost.
Takes(c) ==
    /\ pending[c] # << >>
    /\ \E n \in 1 .. (1 + LOSS) :
        pending' = [pending EXCEPT ![c] = SubSeq(@, 1 + n, Len(@))]

Book(c) ==
    /\ Takes(c)
    /\ Head(pending[c]) # 0
    /\ account' = [account EXCEPT ![c] = Plus(@, Head(pending[c]))]
    /\ UNCHANGED <<due, answer, gone>>

Total(c) ==
    /\ \/ Takes(c) /\ Head(pending[c]) = 0
       \/ pending[c] = << >> /\ c \in gone /\ UNCHANGED pending
    /\ due' = due \cup {c}
    /\ UNCHANGED <<account, answer, gone>>

PayOut(c) ==
    /\ c \in due
    /\ due' = due \ {c}
    /\ account' = [account EXCEPT ![c] = 0]
    /\ IF c \in gone
       THEN UNCHANGED answer
       ELSE answer[c] = NoResult /\ answer' = [answer EXCEPT ![c] = account[c]]
    /\ UNCHANGED <<pending, gone>>

Leave(c) ==
    /\ gone' = gone \cup {c}
    /\ UNCHANGED <<pending, account, due, answer>>

\* The server ends before it has paid out.
Stop == due' = {} /\ UNCHANGED <<pending, account, answer, gone>>

Next ==
    \/ \E c \in Clients :
        \/ \E v \in Values \cup {0} : Deposit(c, v)
        \/ Book(c) \/ Total(c) \/ PayOut(c) \/ Leave(c)
    \/ Stop

Spec == Init /\ [][Next]_vars
=============================================================================
