-------------------------- MODULE SocketPathProofs --------------------------
(***************************************************************************)
(* Theorems about SocketPath, for any number of servers.                   *)
(***************************************************************************)
EXTENDS SocketPath, TLAPS

\* The name designates the socket of a server that has bound it and has not
\* shut down.
Bound == {"bound", "listening", "serving", "killed"}
PathInv == path # Nobody => pc[path] \in Bound

\* Who was over when another started is over for good, and the name is not his:
\* it was unlinked then.
BeforeInv ==
    \A s, t \in Servers : t \in before[s] => pc[t] \in Over /\ t # path

\* A server that starts alone has found, or made, the way free.
FreeInv == \A s \in Servers : Rivals(s) = {} /\ pc[s] = "socket" => path = Nobody

IInv ==
    /\ TypeOK /\ PathInv /\ BeforeInv
    /\ FreeInv /\ AloneIsReached /\ RaceHasWinner

LEMMA NobodyIsNoServer == Nobody \notin Servers
BY ServersAssumption

LEMMA InitInv == Init => IInv
BY NobodyIsNoServer
DEF Init, IInv, TypeOK, PathInv, BeforeInv, FreeInv, AloneIsReached, RaceHasWinner, Over

\* Two servers that run at the same time are rivals.
LEMMA RunningAreRivals ==
  ASSUME IInv, NEW s \in Servers, NEW t \in Servers, s # t, Running(s), Running(t)
  PROVE  t \in Rivals(s)
BY DEF IInv, BeforeInv, Running, Rivals, Over

\* Rivals are rivals for ever.
LEMMA RivalsStay ==
  ASSUME IInv, NEW s \in Servers, pc[s] # "off", UNCHANGED before,
         \A t \in Servers : pc'[t] = "off" <=> pc[t] = "off"
  PROVE  Rivals(s)' = Rivals(s)
BY DEF Rivals

\* A server that starts takes the name away; whoever runs has it for a rival.
LEMMA StartsInv ==
  ASSUME IInv, NEW u \in Servers, Starts(u)
  PROVE  IInv'
<1> USE NobodyIsNoServer DEF IInv
<1>1. /\ pc[u] = "off" /\ pc' = [pc EXCEPT ![u] = "socket"] /\ path' = Nobody
      /\ before' = [before EXCEPT ![u] = {t \in Servers : pc[t] \in Over}]
  BY DEF Starts, Started, Goto
<1>2. TypeOK' /\ PathInv' /\ FreeInv'
  BY <1>1 DEF TypeOK, PathInv, FreeInv, Over
<1>3. BeforeInv'
  BY <1>1 DEF TypeOK, BeforeInv, Over
<1>4. \A s \in Servers \ {u} : pc'[s] = pc[s] /\ Rivals(s) \subseteq Rivals(s)'
  BY <1>1 DEF TypeOK, Rivals
<1>5. \A s \in Servers \ {u} : pc[s] # "off" /\ pc[s] \notin Over => u \in Rivals(s)'
  BY <1>1, <1>3 DEF TypeOK, BeforeInv, Rivals, Over
<1>6. AloneIsReached'
  BY <1>1, <1>4, <1>5 DEF TypeOK, AloneIsReached, Over
<1>7. RaceHasWinner'
  BY <1>1, <1>4 DEF TypeOK, RaceHasWinner, Rivals
<1> QED  BY <1>2, <1>3, <1>6, <1>7

LEMMA BindInv ==
  ASSUME IInv, NEW u \in Servers, Bind(u)
  PROVE  IInv'
<1> USE NobodyIsNoServer DEF IInv
<1>1. /\ pc[u] = "socket" /\ UNCHANGED before
      /\ \/ /\ path = Nobody /\ path' = u /\ pc' = [pc EXCEPT ![u] = "bound"]
         \/ /\ path # Nobody /\ path' = path /\ pc' = [pc EXCEPT ![u] = "unbound"]
  BY DEF Bind, Goto
<1>2. TypeOK' /\ PathInv' /\ BeforeInv'
  BY <1>1 DEF TypeOK, PathInv, BeforeInv, Over, Bound
<1>3. \A s \in Servers : pc[s] # "off" => Rivals(s)' = Rivals(s)
  BY <1>1, RivalsStay DEF TypeOK
<1>4. \A s \in Servers \ {u} : pc'[s] = pc[s] /\ (Running(s) => u \in Rivals(s))
  BY <1>1, RunningAreRivals DEF TypeOK, Running, Over
<1>5. FreeInv' /\ AloneIsReached'
  BY <1>1, <1>3, <1>4 DEF TypeOK, FreeInv, AloneIsReached, Running, Over
<1>6. ASSUME path # Nobody PROVE path \in Rivals(u) /\ pc[path] \in Bound
  BY <1>1, <1>6 DEF TypeOK, PathInv, BeforeInv, Rivals, Bound, Over
<1>7. RaceHasWinner'
  <2> SUFFICES ASSUME NEW s \in Servers, pc'[s] = "unbound"
               PROVE  \E t \in Rivals(s)' : pc'[t] \notin {"socket", "unbound"}
    BY DEF RaceHasWinner
  <2>1. CASE s = u
    <3>1. path # Nobody
      BY <1>1, <2>1 DEF TypeOK
    <3> QED  BY <1>1, <1>3, <1>6, <2>1, <3>1 DEF TypeOK, Bound, Rivals
  <2>2. CASE s # u
    <3>1. PICK t \in Rivals(s) : pc[t] \notin {"socket", "unbound"}
      BY <1>4, <2>2 DEF RaceHasWinner
    <3> QED  BY <1>1, <1>3, <1>4, <2>2, <3>1 DEF TypeOK, Rivals
  <2> QED  BY <2>1, <2>2
<1> QED  BY <1>2, <1>5, <1>7

\* A server that goes on, or is killed, without touching the name.
LEMMA QuietInv ==
  ASSUME IInv, NEW u \in Servers, Listen(u) \/ Handles(u) \/ Killed(u)
  PROVE  IInv'
<1> USE NobodyIsNoServer DEF IInv
<1>1. /\ Running(u) /\ UNCHANGED <<path, before>>
      /\ \/ pc[u] = "bound" /\ pc' = [pc EXCEPT ![u] = "listening"]
         \/ pc[u] = "listening" /\ pc' = [pc EXCEPT ![u] = "serving"]
         \/ pc' = [pc EXCEPT ![u] = "killed"]
  BY DEF Listen, Handles, Killed, Goto, Running, Over
<1>2. TypeOK' /\ PathInv' /\ BeforeInv'
  BY <1>1 DEF TypeOK, PathInv, BeforeInv, Running, Over, Bound
<1>3. \A s \in Servers : pc[s] # "off" => Rivals(s)' = Rivals(s)
  BY <1>1, RivalsStay DEF TypeOK, Running
<1>4. FreeInv' /\ AloneIsReached'
  BY <1>1, <1>3 DEF TypeOK, FreeInv, AloneIsReached, Running, Over
<1>5. RaceHasWinner'
  BY <1>1, <1>3 DEF TypeOK, RaceHasWinner, Rivals, Running, Over
<1> QED  BY <1>2, <1>4, <1>5

LEMMA ShutdownInv ==
  ASSUME IInv, NEW u \in Servers, shutdown_server(u)
  PROVE  IInv'
<1> USE NobodyIsNoServer DEF IInv
<1>1. /\ pc[u] = "serving" /\ path' = Nobody /\ UNCHANGED before
      /\ \/ pc' = [pc EXCEPT ![u] = "ended"]
         \/ path = Nobody /\ pc' = [pc EXCEPT ![u] = "unnamed"]
  BY DEF shutdown_server, Goto
<1>2. TypeOK' /\ PathInv' /\ BeforeInv' /\ FreeInv'
  BY <1>1 DEF TypeOK, PathInv, BeforeInv, FreeInv, Over
<1>3. \A s \in Servers : pc[s] # "off" => Rivals(s)' = Rivals(s)
  BY <1>1, RivalsStay DEF TypeOK
<1>4. \A s \in Servers \ {u} : pc'[s] = pc[s] /\ (Running(s) => u \in Rivals(s))
  BY <1>1, RunningAreRivals DEF TypeOK, Running, Over
<1>5. AloneIsReached'
  BY <1>1, <1>3, <1>4 DEF TypeOK, AloneIsReached, Running, Over
<1>6. RaceHasWinner'
  BY <1>1, <1>3 DEF TypeOK, RaceHasWinner, Rivals
<1> QED  BY <1>2, <1>5, <1>6

LEMMA NextInv == IInv /\ [Next]_vars => IInv'
<1> SUFFICES ASSUME IInv, [Next]_vars PROVE IInv'
  OBVIOUS
<1>1. ASSUME NEW u \in Servers,
             Starts(u) \/ Bind(u) \/ Listen(u) \/ Handles(u) \/ Killed(u) \/ shutdown_server(u)
      PROVE  IInv'
  BY <1>1, StartsInv, BindInv, QuietInv, ShutdownInv
<1>2. CASE UNCHANGED vars
  BY <1>2 DEF vars, IInv, TypeOK, PathInv, BeforeInv, FreeInv, AloneIsReached, RaceHasWinner, Rivals
<1> QED  BY <1>1, <1>2 DEF Next

\* Every variable keeps its type, and the name designates a socket that was
\* bound (bind in initialize_server, unlink in both functions).
THEOREM TypeCorrect == Spec => []TypeOK
<1>1. IInv => TypeOK
  BY DEF IInv
<1> QED  BY InitInv, NextInv, <1>1, PTL DEF Spec

\* However many servers share a path, start, end and are killed: one without a
\* rival is the one its clients reach (initialize_server, shutdown_server).
THEOREM LoneServerIsReached == Spec => []AloneIsReached
<1>1. IInv => AloneIsReached
  BY DEF IInv
<1> QED  BY InitInv, NextInv, <1>1, PTL DEF Spec

\* However many servers start at once: if one cannot bind, another could.
THEOREM SomebodyBinds == Spec => []RaceHasWinner
<1>1. IInv => RaceHasWinner
  BY DEF IInv
<1> QED  BY InitInv, NextInv, <1>1, PTL DEF Spec
=============================================================================
