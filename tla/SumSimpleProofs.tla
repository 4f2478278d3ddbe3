---------------------------- MODULE SumSimpleProofs ----------------------------
(***************************************************************************)
(* Theorems about the sum server without multiplexing, for any number of   *)
(* clients and ints of any width.  The lemmas about the client are those   *)
(* of SumServerProofs, for the other server.                               *)
(***************************************************************************)
EXTENDS SumServerSimple, SequenceTheorems, TLAPS

\* Who waits in the backlog waits once, and has just connected.
ConnInv ==
    /\ \A i \in 1 .. Len(backlog) : conn[backlog[i]] = "pending"
    /\ \A i, j \in 1 .. Len(backlog) : backlog[i] = backlog[j] => i = j
    /\ \A c \in Clients : cpc[c] = "off" => conn[c] = "none"
    /\ \A c \in Clients : conn[c] \in {"none", "pending", "open"} => down[c] = NoResult

\* The connection that is open is the one being served; between two clients
\* none is.
CurrentInv ==
    /\ \A c \in Clients : conn[c] = "open" => ServerUp /\ c = current
    /\ spc = "accept" => current = Nobody
    /\ spc \in {"serve", "answer"} => conn[current] = "open"

IInv == TypeOK /\ ConnInv /\ CurrentInv

-----------------------------------------------------------------------------
\* What % returns, and when it changes nothing.
LEMMA Modulo ==
  ASSUME NEW x \in Int, NEW m \in Nat \ {0}
  PROVE  x % m \in 0 .. (m - 1) /\ (x \in 0 .. (m - 1) => x % m = x)
OBVIOUS

\* A sum of two ints is an int again, and 0 adds nothing.
LEMMA AddType ==
  ASSUME NEW a \in Int_w, NEW b \in Int_w
  PROVE  Add(a, b) \in Int_w /\ Add(a, 0) = a
<1> DEFINE m == 2 * (INT_MAX + 1)
           x == a + b + INT_MAX + 1
           y == a + 0 + INT_MAX + 1
<1>1. INT_MAX \in Nat /\ a \in Int /\ b \in Int
  BY SumClientAssumption DEF Int_w
<1>2. m \in Nat \ {0} /\ x \in Int /\ y \in 0 .. (m - 1)
  BY <1>1 DEF Int_w
<1>3. m = 2 * (INT_MAX + 1) /\ y = a + INT_MAX + 1
  BY <1>1
<1>4. Add(a, b) = (x % m) - (INT_MAX + 1) /\ Add(a, 0) = (y % m) - (INT_MAX + 1)
  BY DEF Add
<1> HIDE DEF m, x, y
<1>5. x % m \in 0 .. (m - 1)
  BY <1>2, Modulo
<1>6. y % m = y
  BY <1>2, Modulo
<1>7. Add(a, b) \in Int_w
  BY <1>1, <1>3, <1>4, <1>5 DEF Int_w
<1> QED  BY <1>1, <1>3, <1>4, <1>6, <1>7

\* What a client does to its side of the connection.
LEMMA ClientEffect ==
  ASSUME SumClientTypeOK, ConnInv, NEW c \in Clients, ClientStep(c) \/ User(c)
  PROVE  /\ SumClientTypeOK' /\ ConnInv' /\ down' = down
         /\ \A e \in Clients : conn'[e] = "open" <=> conn[e] = "open"
<1>1. SumClientTypeOK /\ ConnInv
  OBVIOUS
<1>2. CASE Connect(c)
  <2>1. /\ cpc[c] = "off" /\ cpc' = [cpc EXCEPT ![c] = "sending"]
        /\ conn' = [conn EXCEPT ![c] = "pending"] /\ backlog' = Append(backlog, c)
        /\ UNCHANGED <<listening, up, down, sent, result>>
    BY <1>2 DEF Connect, Moves
  <2>2. conn[c] = "none"
    BY <1>1, <2>1 DEF ConnInv
  <2>3. backlog \in Seq(Clients) /\ Len(backlog) \in Nat /\ backlog' \in Seq(Clients)
    BY <1>1, <2>1 DEF SumClientTypeOK
  <2>4. SumClientTypeOK'
    BY <1>1, <2>1, <2>3 DEF SumClientTypeOK, ConnStates, ClientStates
  <2>5. /\ Len(backlog') = Len(backlog) + 1 /\ backlog'[Len(backlog) + 1] = c
        /\ \A i \in 1 .. Len(backlog) : backlog'[i] = backlog[i] /\ backlog[i] \in Clients
    BY <2>1, <2>3
  <2>6. \A i \in 1 .. Len(backlog) : backlog[i] # c /\ conn'[backlog[i]] = "pending"
    BY <1>1, <2>1, <2>2, <2>5 DEF ConnInv, SumClientTypeOK
  <2>7. conn'[c] = "pending"
    BY <1>1, <2>1 DEF SumClientTypeOK
  <2>8. \A i \in 1 .. Len(backlog') : i \in 1 .. Len(backlog) \/ i = Len(backlog) + 1
    BY <2>3, <2>5
  <2>9. /\ \A i \in 1 .. Len(backlog') : conn'[backlog'[i]] = "pending"
        /\ \A i, j \in 1 .. Len(backlog') : backlog'[i] = backlog'[j] => i = j
    BY <1>1, <2>5, <2>6, <2>7, <2>8 DEF ConnInv
  <2>10. ConnInv'
    BY <1>1, <2>1, <2>2, <2>9 DEF ConnInv, SumClientTypeOK
  <2> QED  BY <1>1, <2>1, <2>2, <2>4, <2>10 DEF SumClientTypeOK
<1>3. CASE \E v \in Values \cup {0} : Send(c, v)
  <2>1. PICK v \in Values \cup {0} : Send(c, v)
    BY <1>3
  <2>2. /\ cpc[c] = "sending"
        /\ \E to \in {"sending", "waiting"} : cpc' = [cpc EXCEPT ![c] = to]
        /\ up' = [up EXCEPT ![c] = Append(@, v)] /\ sent' = [sent EXCEPT ![c] = Append(@, v)]
        /\ UNCHANGED <<connections, down, result>>
    BY <2>1 DEF Send, Moves
  <2>3. /\ Append(up[c], v) \in Seq(Values \cup {0}) /\ Append(up[c], v) # << >>
        /\ Append(sent[c], v) \in Seq(Values \cup {0})
    <3>1. up[c] \in Seq(Values \cup {0}) /\ sent[c] \in Seq(Values \cup {0})
      BY <1>1 DEF SumClientTypeOK
    <3> QED  BY <3>1, AppendProperties
  <2>4. SumClientTypeOK'
    BY <1>1, <2>2, <2>3 DEF SumClientTypeOK, connections, ClientStates
  <2>5. ConnInv'
    BY <1>1, <2>2 DEF ConnInv, SumClientTypeOK, connections
  <2> QED  BY <2>2, <2>4, <2>5 DEF connections
<1>4. CASE \/ ClientStep(c) \/ ConnectFails(c) \/ SendFails(c) \/ FlushAtEof(c)
           \/ shutdown_client(c)
  <2>1. /\ UNCHANGED <<listening, backlog, conn, up, down, sent>>
        /\ cpc[c] \notin ClientEnded
        /\ \E to \in {"spin", "exited", "failed"} : cpc' = [cpc EXCEPT ![c] = to]
        /\ result' = result \/ result' = [result EXCEPT ![c] = down[c]]
    BY <1>4
    DEF ClientStep, ConnectFails, SendFails, FlushAtEof, shutdown_client, Receive,
        ReceiveNothing, Moves, socketVars, connections, ClientEnded
  <2>2. SumClientTypeOK'
    BY <1>1, <2>1 DEF SumClientTypeOK, ClientStates, ClientEnded
  <2>3. ConnInv'
    BY <1>1, <2>1 DEF ConnInv, SumClientTypeOK
  <2> QED  BY <2>1, <2>2, <2>3
<1> QED  BY <1>2, <1>3, <1>4 DEF User

\* What is read is an int.
LEMMA DataType ==
  ASSUME SumClientTypeOK, NEW c \in Clients
  PROVE  /\ Data(c) \in Int_w /\ Unread(c) \in Seq(Values \cup {0})
         /\ up[c] # << >> => Data(c) = Head(up[c]) /\ Head(up[c]) \in Values \cup {0}
<1>1. up[c] \in Seq(Values \cup {0}) /\ READ_INTS \in Nat /\ READ_INTS >= 1
  BY SumClientAssumption DEF SumClientTypeOK
<1>2. Values \cup {0} \subseteq Int_w
  BY SumClientAssumption DEF Int_w
<1>3. up[c] # << >> => Head(up[c]) \in Values \cup {0}
  BY <1>1
<1>4. Unread(c) \in Seq(Values \cup {0})
  BY <1>1 DEF Unread
<1> QED  BY <1>2, <1>3, <1>4 DEF Data

-----------------------------------------------------------------------------
\* Nothing is open at the start.
LEMMA InitInv == Init => IInv
<1> SUFFICES ASSUME Init PROVE IInv
  OBVIOUS
<1>1. 0 \in Int_w /\ << >> \in Seq(Clients) /\ << >> \in Seq(Values \cup {0}) /\ Len(<< >>) = 0
  BY SumClientAssumption, EmptySeq DEF Int_w
<1>2. TypeOK
  BY <1>1 DEF Init, SumClientInit, SumClientTypeOK, TypeOK, ConnStates, ClientStates
<1>3. ConnInv /\ CurrentInv
  BY <1>1 DEF Init, SumClientInit, ConnInv, CurrentInv
<1> QED  BY <1>2, <1>3 DEF IInv

\* accept opens one connection, and nobody else's was open.
LEMMA AcceptInv ==
  ASSUME IInv, handle_connection_initiation_request
  PROVE  IInv'
<1> USE DEF IInv
<1>1. PICK h \in Clients :
            /\ backlog # << >> /\ h = Head(backlog) /\ backlog' = Tail(backlog)
            /\ conn' = [conn EXCEPT ![h] = "open"] /\ current' = h
            /\ spc = "accept" /\ spc' = "serve" /\ sum' = 0
            /\ UNCHANGED <<listening, up, down, cpc, sent, result>>
  BY DEF handle_connection_initiation_request, Accepts, clientVars
<1>2. SumClientTypeOK /\ h # Nobody /\ 0 \in Int_w
  BY NobodyAssumption, SumClientAssumption DEF TypeOK, Int_w
<1>3. /\ backlog \in Seq(Clients) /\ backlog' \in Seq(Clients) /\ Len(backlog) \in Nat
      /\ Len(backlog') = Len(backlog) - 1
      /\ \A i \in 1 .. Len(backlog') : backlog'[i] = backlog[i + 1] /\ i + 1 \in 1 .. Len(backlog)
      /\ h = backlog[1] /\ 1 \in 1 .. Len(backlog)
  <2>1. backlog \in Seq(Clients)
    BY <1>2 DEF SumClientTypeOK
  <2> QED  BY <1>1, <2>1, EmptySeq, HeadTailProperties
<1>4. \A i \in 1 .. Len(backlog') : backlog'[i] # h
  BY <1>3 DEF ConnInv
<1>5. conn[h] = "pending"
  <2>1. h = backlog[1] /\ 1 \in 1 .. Len(backlog)
    BY <1>3
  <2>2. \A i \in 1 .. Len(backlog) : conn[backlog[i]] = "pending"
    BY DEF ConnInv
  <2> QED  BY <2>1, <2>2
<1>6. TypeOK'
  <2>1. SumClientTypeOK'
    BY <1>1, <1>2, <1>3 DEF SumClientTypeOK, ConnStates
  <2> QED  BY <1>1, <1>2, <2>1 DEF TypeOK
<1>7. /\ \A i \in 1 .. Len(backlog') : conn'[backlog'[i]] = "pending"
      /\ \A i, j \in 1 .. Len(backlog') : backlog'[i] = backlog'[j] => i = j
  BY <1>1, <1>2, <1>3, <1>4 DEF ConnInv, SumClientTypeOK
<1>8. ConnInv'
  BY <1>1, <1>2, <1>5, <1>7 DEF ConnInv, SumClientTypeOK
<1>9. CurrentInv'
  BY <1>1, <1>2, NobodyAssumption DEF CurrentInv, SumClientTypeOK, ServerUp
<1> QED  BY <1>6, <1>8, <1>9

\* What is read goes to the sum.
LEMMA ServiceInv ==
  ASSUME IInv, handle_service_request
  PROVE  IInv'
<1> USE DEF IInv
<1>1. /\ spc = "serve" /\ spc' \in {"serve", "answer"} /\ current \in Clients /\ SumClientTypeOK
      /\ up' = [up EXCEPT ![current] = Unread(current)] /\ sum' = Add(sum, Data(current))
      /\ UNCHANGED <<current, listening, backlog, conn, down, cpc, sent, result>>
  BY DEF handle_service_request, Takes, connections, clientVars, TypeOK
<1>2. sum' \in Int_w /\ Unread(current) \in Seq(Values \cup {0})
  BY <1>1, DataType, AddType DEF TypeOK
<1>3. SumClientTypeOK'
  BY <1>1, <1>2 DEF SumClientTypeOK
<1>4. TypeOK'
  BY <1>1, <1>2, <1>3 DEF TypeOK
<1>5. ConnInv' /\ CurrentInv'
  BY <1>1 DEF ConnInv, CurrentInv, ServerUp
<1> QED  BY <1>4, <1>5

\* The answer goes to whose connection is open, and closes it.
LEMMA SendInv ==
  ASSUME IInv, SendResult
  PROVE  IInv'
<1> USE DEF IInv
<1>1. /\ spc = "answer" /\ spc' = "accept" /\ current' = Nobody /\ current \in Clients
      /\ down' = [down EXCEPT ![current] = IF cpc[current] \in ClientEnded THEN @ ELSE sum]
      /\ \E how \in {"closed", "reset"} : conn' = [conn EXCEPT ![current] = how]
      /\ UNCHANGED <<sum, listening, backlog, up, cpc, sent, result>>
      /\ SumClientTypeOK /\ sum \in Int_w
  BY DEF SendResult, Answers, clientVars, TypeOK
<1>2. conn[current] = "open" /\ cpc[current] # "off"
  BY <1>1 DEF CurrentInv, ConnInv
<1>3. down' \in [Clients -> Int_w \cup {NoResult}] /\ conn' \in [Clients -> ConnStates]
  BY <1>1 DEF SumClientTypeOK, ConnStates
<1>4. TypeOK'
  BY <1>1, <1>3 DEF TypeOK, SumClientTypeOK
<1>5. ConnInv'
  BY <1>1, <1>2 DEF ConnInv, SumClientTypeOK
<1>6. CurrentInv'
  BY <1>1 DEF CurrentInv, SumClientTypeOK, ServerUp
<1> QED  BY <1>4, <1>5, <1>6

\* The server ends: nothing is open or pending any more.
LEMMA ShutdownInv ==
  ASSUME IInv, shutdown_server
  PROVE  IInv'
<1> USE DEF IInv
<1>1. /\ spc' = "exited" /\ listening' = FALSE /\ backlog' = << >>
      /\ conn' = [c \in Clients |->
                    CASE conn[c] = "open" -> IF up[c] = << >> THEN "closed" ELSE "reset"
                      [] conn[c] = "pending" -> "reset"
                      [] OTHER -> conn[c]]
      /\ UNCHANGED <<current, sum, up, down, cpc, sent, result>>
  BY DEF shutdown_server, ServerGone, clientVars
<1>2. \A c \in Clients :
         /\ conn'[c] \in ConnStates /\ conn'[c] \notin {"open", "pending"}
         /\ conn'[c] = "none" <=> conn[c] = "none"
  BY <1>1 DEF TypeOK, SumClientTypeOK, ConnStates
<1>3. TypeOK'
  BY <1>1, <1>2, EmptySeq DEF TypeOK, SumClientTypeOK
<1>4. ConnInv' /\ CurrentInv'
  BY <1>1, <1>2, EmptySeq DEF ConnInv, CurrentInv
<1> QED  BY <1>3, <1>4

\* The inductive step: the server, its clients, its signal.
LEMMA NextInv == IInv /\ [Next]_vars => IInv'
<1> SUFFICES ASSUME IInv, [Next]_vars PROVE IInv'
  OBVIOUS
<1>1. CASE UNCHANGED vars
  BY <1>1
  DEF vars, serverVars, socketVars, connections, clientVars, IInv, TypeOK, SumClientTypeOK, ConnInv,
      CurrentInv, ServerUp
<1>2. CASE ServerStep
  BY <1>2, AcceptInv, ServiceInv, SendInv DEF ServerStep
<1>3. CASE shutdown_server
  BY <1>3, ShutdownInv
<1>4. CASE \E c \in Clients : (ClientStep(c) \/ User(c)) /\ UNCHANGED serverVars
  <2>1. SumClientTypeOK /\ ConnInv
    BY DEF IInv, TypeOK
  <2>2. /\ SumClientTypeOK' /\ ConnInv' /\ UNCHANGED <<spc, current, sum>>
        /\ \A e \in Clients : conn'[e] = "open" <=> conn[e] = "open"
    BY <1>4, <2>1, ClientEffect DEF serverVars
  <2>3. TypeOK' /\ CurrentInv'
    BY <2>2 DEF IInv, TypeOK, CurrentInv, ServerUp
  <2> QED  BY <2>2, <2>3 DEF IInv
<1> QED  BY <1>1, <1>2, <1>3, <1>4 DEF Next, Process, Environment

\* All of the above, always.
LEMMA Invariant == Spec => []IInv
BY InitInv, NextInv, PTL DEF Spec

\* Every variable keeps its type, the sum that of an int.
THEOREM SimpleTypeCorrect == Spec => []TypeOK
<1>1. IInv => TypeOK
  BY DEF IInv
<1> QED  BY <1>1, Invariant, PTL

-----------------------------------------------------------------------------
(***************************************************************************)
(* The line of clients.                                                    *)
(***************************************************************************)

\* A sequence begins what it is a part of.
LEMMA BeginsIt ==
  ASSUME NEW S, NEW s \in Seq(S), NEW e \in S
  PROVE  IsPrefix(s, s) /\ IsPrefix(s, Append(s, e))
<1>1. /\ Append(s, e) \in Seq(S) /\ Len(Append(s, e)) = Len(s) + 1 /\ Len(s) \in Nat
      /\ \A i \in 1 .. Len(s) : Append(s, e)[i] = s[i]
  BY AppendProperties
<1>2. SubSeq(Append(s, e), 1, Len(s)) = SubSeq(s, 1, Len(s))
  BY <1>1
<1>3. Len(s) <= Len(s) /\ Len(s) <= Len(Append(s, e))
  BY <1>1
<1>4. IsPrefix(s, s)
  BY <1>3 DEF IsPrefix
<1>5. IsPrefix(s, Append(s, e))
  BY <1>2, <1>3 DEF IsPrefix
<1> QED  BY <1>4, <1>5

\* Who is in the line, and in which order.
LEMMA LineIs ==
  ASSUME TypeOK
  PROVE  /\ current = Nobody => Line = backlog
         /\ current # Nobody => Line = <<current>> \o backlog
         /\ Line \in Seq(Clients)
<1>1. backlog \in Seq(Clients) /\ << >> \o backlog = backlog
  BY ConcatEmptySeq DEF TypeOK, SumClientTypeOK
<1>2. current # Nobody => <<current>> \in Seq(Clients)
  BY DEF TypeOK
<1> QED  BY <1>1, <1>2, ConcatProperties DEF Line

\* The first in line has the open connection, if there is one.
LEMMA FirstOpen == IInv => OnlyFirstOpen
<1> SUFFICES ASSUME IInv, NEW c \in Clients, conn[c] = "open"
             PROVE  Line # << >> /\ c = Head(Line)
  BY DEF OnlyFirstOpen
<1>1. c = current /\ c # Nobody
  BY NobodyAssumption DEF IInv, CurrentInv
<1>2. Line = <<c>> \o backlog /\ backlog \in Seq(Clients)
  BY <1>1, LineIs DEF IInv, TypeOK, SumClientTypeOK
<1> QED  BY <1>2

\* Nobody is served yet: accept leaves the line as it is.
LEMMA AcceptLine ==
  ASSUME IInv, handle_connection_initiation_request
  PROVE  LineMoves
<1>1. PICK h \in Clients :
            /\ backlog # << >> /\ h = Head(backlog) /\ backlog' = Tail(backlog)
            /\ conn' = [conn EXCEPT ![h] = "open"] /\ current' = h /\ spc = "accept"
  BY DEF handle_connection_initiation_request, Accepts
<1>2. current = Nobody /\ h # Nobody /\ TypeOK /\ backlog \in Seq(Clients)
  BY <1>1, NobodyAssumption DEF IInv, CurrentInv, TypeOK, SumClientTypeOK
<1>3. Line' = <<Head(backlog)>> \o Tail(backlog)
  BY <1>1, <1>2 DEF Line
<1>4. Line' = Line /\ Line \in Seq(Clients)
  <2>1. <<Head(backlog)>> \o Tail(backlog) = backlog
    BY <1>1, <1>2
  <2> QED  BY <1>2, <1>3, <2>1, LineIs
<1>5. {c \in Clients : ~ Over(c) /\ Over(c)'} = {}
  BY <1>1, <1>2 DEF Over, TypeOK, SumClientTypeOK
<1> QED  BY <1>1, <1>4, <1>5, BeginsIt DEF LineMoves

\* The answer ends the connection of the first in line.
LEMMA SendLine ==
  ASSUME IInv, SendResult
  PROVE  LineMoves
<1>1. PICK c \in Clients : c = current
  BY DEF SendResult, IInv, TypeOK
<1>2. /\ spc = "answer" /\ current' = Nobody /\ backlog' = backlog
      /\ \E how \in {"closed", "reset"} : conn' = [conn EXCEPT ![c] = how]
  BY <1>1 DEF SendResult, Answers
<1>3. /\ c # Nobody /\ TypeOK /\ backlog \in Seq(Clients) /\ conn[c] = "open"
      /\ conn \in [Clients -> ConnStates]
  BY <1>1, <1>2, NobodyAssumption DEF IInv, CurrentInv, TypeOK, SumClientTypeOK
<1>4. Line = <<c>> \o backlog /\ Line' = backlog
  BY <1>1, <1>2, <1>3, LineIs, ConcatEmptySeq DEF Line
<1>5. Line # << >> /\ Line' = Tail(Line) /\ Head(Line) = c
  BY <1>3, <1>4
<1>6. {d \in Clients : ~ Over(d) /\ Over(d)'} = {c}
  BY <1>2, <1>3 DEF Over
<1> QED  BY <1>5, <1>6 DEF LineMoves

\* A client joins the line at its end, or does nothing to it.
LEMMA ClientLine ==
  ASSUME IInv, NEW c \in Clients, ClientStep(c) \/ User(c), UNCHANGED serverVars
  PROVE  LineMoves
<1>1. TypeOK /\ conn \in [Clients -> ConnStates] /\ backlog \in Seq(Clients) /\ current' = current
  BY DEF IInv, TypeOK, SumClientTypeOK, serverVars
<1>2. Line \in Seq(Clients)
  BY <1>1, LineIs
<1>3. CASE Connect(c)
  <2>1. conn' = [conn EXCEPT ![c] = "pending"] /\ backlog' = Append(backlog, c)
    BY <1>3 DEF Connect
  <2>2. Line' = Append(Line, c)
    <3>1. CASE current = Nobody
      <4>1. Line = backlog
        BY <1>1, <3>1, LineIs
      <4>2. Line' = << >> \o backlog' /\ backlog' \in Seq(Clients)
        BY <1>1, <2>1, <3>1, AppendProperties DEF Line
      <4> QED  BY <2>1, <4>1, <4>2, ConcatEmptySeq
    <3>2. CASE current # Nobody
      <4>1. Line' = <<current>> \o Append(backlog, c) /\ Line = <<current>> \o backlog
        BY <1>1, <2>1, <3>2 DEF Line
      <4>2. current \in Clients
        BY <1>1, <3>2 DEF TypeOK
      <4> QED  BY <1>1, <4>1, <4>2
    <3> QED  BY <3>1, <3>2
  <2>3. {d \in Clients : ~ Over(d) /\ Over(d)'} = {}
    BY <1>1, <2>1 DEF Over
  <2> QED  BY <1>2, <2>2, <2>3, BeginsIt DEF LineMoves
<1>4. CASE UNCHANGED <<conn, backlog>>
  <2>1. Line' = Line /\ {d \in Clients : ~ Over(d) /\ Over(d)'} = {}
    BY <1>1, <1>4 DEF Line, Over
  <2> QED  BY <1>2, <2>1, BeginsIt DEF LineMoves
<1>5. Connect(c) \/ UNCHANGED <<conn, backlog>>
  BY DEF ClientStep, User, ConnectFails, SendFails, FlushAtEof, shutdown_client, Receive,
         ReceiveNothing, Send, socketVars, connections
<1> QED  BY <1>3, <1>4, <1>5

\* Clients join at the end of the line, and leave it from its head.
LEMMA LineStep == IInv /\ [Next]_vars => [ServerUp' => LineMoves]_vars
<1> SUFFICES ASSUME IInv, Next, ServerUp' PROVE LineMoves
  OBVIOUS
<1>1. CASE handle_connection_initiation_request
  BY <1>1, AcceptLine
<1>2. CASE handle_service_request
  <2>1. UNCHANGED <<current, conn, backlog>> /\ Line \in Seq(Clients)
    BY <1>2, LineIs DEF handle_service_request, connections, IInv
  <2>2. Line' = Line /\ {d \in Clients : ~ Over(d) /\ Over(d)'} = {}
    BY <2>1 DEF Line, Over
  <2>3. current \in Clients
    BY <1>2 DEF handle_service_request, IInv, TypeOK, CurrentInv
  <2> QED  BY <2>1, <2>2, <2>3, BeginsIt DEF LineMoves
<1>3. CASE SendResult
  BY <1>3, SendLine
<1>4. CASE shutdown_server
  BY <1>4 DEF shutdown_server, ServerUp
<1>5. CASE \E c \in Clients : (ClientStep(c) \/ User(c)) /\ UNCHANGED serverVars
  BY <1>5, ClientLine
<1> QED  BY <1>1, <1>2, <1>3, <1>4, <1>5 DEF Next, ServerStep, Process, Environment

\* The server answers its clients in the order in which they connected, and no
\* connection is open but that of the first in line (the loop of main in
\* no_multiplexing/server.c, which accepts, serves and closes).
THEOREM SimpleOneAtATime == Spec => OneAtATime
<1>1. IInv' => OnlyFirstOpen'
  BY FirstOpen, PTL
<1>2. IInv /\ [Next]_vars => [ServerUp' => LineMoves /\ OnlyFirstOpen']_vars
  BY <1>1, LineStep, NextInv
<1> QED  BY <1>2, Invariant, PTL DEF Spec, OneAtATime

-----------------------------------------------------------------------------
(***************************************************************************)
(* The refinement.                                                         *)
(***************************************************************************)
Accounts == [c \in Clients |-> IF c = current THEN sum ELSE 0]
Due  == IF spc = "answer" THEN {current} ELSE {}
Gone == {c \in Clients : cpc[c] \in ClientEnded}

\* Nothing that a client could notice.
Unnoticed == UNCHANGED <<up, Accounts, Due, down, Gone>>

\* A read books an int, or makes the total due.
LEMMA ReadService ==
  ASSUME IInv, handle_service_request
  PROVE  Service!Next
<1>1. PICK c \in Clients : c = current
  BY DEF handle_service_request, IInv, TypeOK
<1>2. /\ spc = "serve" /\ Readable(c) /\ sum \in Int_w /\ SumClientTypeOK
      /\ up' = [up EXCEPT ![c] = Unread(c)] /\ sum' = Add(sum, Data(c))
      /\ UNCHANGED <<current, down, cpc>>
      /\ spc' = IF Data(c) = 0 THEN "answer" ELSE "serve"
  BY <1>1 DEF handle_service_request, Takes, clientVars, IInv, TypeOK
<1>3. /\ Accounts' = [Accounts EXCEPT ![c] = Add(@, Data(c))] /\ Accounts[c] = sum
      /\ Due = {} /\ Due' = (IF Data(c) = 0 THEN {c} ELSE {}) /\ Gone' = Gone
  BY <1>1, <1>2 DEF Accounts, Due, Gone
<1>4. READ_INTS \in Nat /\ READ_INTS >= 1 /\ READ_INTS \in 1 .. (1 + (READ_INTS - 1))
      /\ 0 \in Int_w
  BY SumClientAssumption DEF Int_w
<1>5. up[c] # << >> => Service!Takes(c)
  BY <1>2, <1>4 DEF Service!Takes, Unread
<1>6. Data(c) = 0 => Accounts' = Accounts
  <2>1. Add(sum, 0) = sum
    BY <1>2, <1>4, AddType
  <2> QED  BY <1>2, <2>1 DEF Accounts
<1>7. CASE Data(c) # 0
  <2>1. up[c] # << >> /\ Data(c) = Head(up[c])
    BY <1>7 DEF Data
  <2>2. Service!Book(c)
    BY <1>2, <1>3, <1>5, <1>7, <2>1 DEF Service!Book, Accounts, Due, Gone
  <2> QED  BY <1>2, <2>2 DEF Service!Next
<1>8. CASE Data(c) = 0 /\ up[c] # << >>
  <2>1. Head(up[c]) = 0 /\ Due' = Due \cup {c}
    BY <1>3, <1>8 DEF Data
  <2>2. Service!Total(c)
    BY <1>2, <1>3, <1>5, <1>6, <1>8, <2>1 DEF Service!Total, Accounts, Due, Gone
  <2> QED  BY <1>2, <2>2 DEF Service!Next
<1>9. CASE Data(c) = 0 /\ up[c] = << >>
  <2>1. c \in Gone /\ Due' = Due \cup {c}
    BY <1>2, <1>3, <1>9 DEF Readable, Gone
  <2>2. up' = up
    <3>1. Unread(c) = << >>
      BY <1>4, <1>9, EmptySeq DEF Unread
    <3> QED  BY <1>2, <1>9, <3>1 DEF SumClientTypeOK
  <2>3. Service!Total(c)
    BY <1>2, <1>3, <1>6, <1>9, <2>1, <2>2 DEF Service!Total, Accounts, Due, Gone
  <2> QED  BY <1>2, <2>3 DEF Service!Next
<1> QED  BY <1>7, <1>8, <1>9

\* The answer pays an account out.
LEMMA SendService ==
  ASSUME IInv, SendResult
  PROVE  Service!Next
<1>1. PICK c \in Clients : c = current
  BY DEF SendResult, IInv, TypeOK
<1>2. /\ spc = "answer" /\ spc' = "accept" /\ current' = Nobody
      /\ down' = [down EXCEPT ![c] = IF cpc[c] \in ClientEnded THEN @ ELSE sum]
      /\ UNCHANGED <<sum, up, cpc>> /\ SumClientTypeOK
  BY <1>1 DEF SendResult, Answers, clientVars, IInv, TypeOK
<1>3. down[c] = NoResult
  BY <1>1, <1>2 DEF IInv, CurrentInv, ConnInv
<1>4. /\ Accounts' = [Accounts EXCEPT ![c] = 0] /\ Accounts[c] = sum
      /\ c \in Due /\ Due' = Due \ {c} /\ Gone' = Gone
  BY <1>1, <1>2, NobodyAssumption DEF Accounts, Due, Gone
<1>5. IF c \in Gone THEN UNCHANGED down ELSE down' = [down EXCEPT ![c] = Accounts[c]]
  BY <1>2, <1>4 DEF Gone, SumClientTypeOK
<1>6. Service!PayOut(c)
  BY <1>2, <1>3, <1>4, <1>5 DEF Service!PayOut, Accounts, Due, Gone
<1> QED  BY <1>2, <1>6 DEF Service!Next

\* What clients do is what the service knows of clients.
LEMMA ClientService ==
  ASSUME IInv, NEW c \in Clients, ClientStep(c) \/ User(c), UNCHANGED serverVars
  PROVE  Unnoticed \/ Service!Next
<1>1. UNCHANGED <<Accounts, Due>>
  BY DEF serverVars, Accounts, Due
<1>2. cpc \in [Clients -> ClientStates]
  BY DEF IInv, TypeOK, SumClientTypeOK
<1>3. CASE Connect(c)
  BY <1>1, <1>2, <1>3 DEF Connect, Moves, Unnoticed, Gone, ClientEnded
<1>4. CASE \E v \in Values \cup {0} : Send(c, v)
  <2>1. PICK v \in Values \cup {0} : Send(c, v)
    BY <1>4
  <2>2. /\ cpc[c] = "sending" /\ up' = [up EXCEPT ![c] = Append(@, v)] /\ down' = down
        /\ \E to \in {"sending", "waiting"} : cpc' = [cpc EXCEPT ![c] = to]
    BY <2>1 DEF Send, Moves
  <2>3. c \notin Gone /\ Gone' = Gone
    BY <1>2, <2>2 DEF Gone, ClientEnded
  <2>4. Service!Deposit(c, v)
    BY <1>1, <2>2, <2>3 DEF Service!Deposit, Accounts, Due, Gone
  <2> QED  BY <2>4 DEF Service!Next
<1>5. CASE \/ ClientStep(c) \/ ConnectFails(c) \/ SendFails(c) \/ FlushAtEof(c)
           \/ shutdown_client(c)
  <2>1. /\ UNCHANGED <<up, down>> /\ cpc[c] \notin ClientEnded
        /\ \E to \in {"spin", "exited", "failed"} : cpc' = [cpc EXCEPT ![c] = to]
    BY <1>5
    DEF ClientStep, ConnectFails, SendFails, FlushAtEof, shutdown_client, Receive,
        ReceiveNothing, Moves, socketVars, ClientEnded
  <2>2. Gone' = Gone \/ Gone' = Gone \cup {c}
    BY <1>2, <2>1 DEF Gone, ClientEnded
  <2>3. CASE Gone' = Gone
    BY <1>1, <2>1, <2>3 DEF Unnoticed
  <2>4. CASE Gone' = Gone \cup {c}
    <3>1. Service!Leave(c)
      BY <1>1, <2>1, <2>4 DEF Service!Leave, Accounts, Due, Gone
    <3> QED  BY <3>1 DEF Service!Next
  <2> QED  BY <2>2, <2>3, <2>4
<1> QED  BY <1>3, <1>4, <1>5 DEF User

\* Every step is one of the service, or none of its business.
LEMMA ServiceStep ==
  ASSUME IInv, [Next]_vars
  PROVE  [Service!Next]_Service!vars
<1>1. ASSUME Unnoticed PROVE UNCHANGED Service!vars
  BY <1>1 DEF Unnoticed, Service!vars, Accounts, Due, Gone
<1>2. CASE UNCHANGED vars
  BY <1>1, <1>2 DEF vars, serverVars, socketVars, clientVars, Unnoticed, Accounts, Due, Gone
<1>3. CASE handle_connection_initiation_request
  <2>1. /\ spc = "accept" /\ spc' = "serve" /\ current = Nobody /\ sum' = 0
        /\ UNCHANGED <<up, down, cpc>>
    BY <1>3 DEF handle_connection_initiation_request, clientVars, IInv, CurrentInv
  <2>2. Accounts' = Accounts
    BY <2>1, NobodyAssumption DEF Accounts
  <2>3. Due' = Due /\ Gone' = Gone
    BY <2>1 DEF Due, Gone
  <2> QED  BY <1>1, <2>1, <2>2, <2>3 DEF Unnoticed
<1>4. CASE handle_service_request
  BY <1>4, ReadService
<1>5. CASE SendResult
  BY <1>5, SendService
<1>6. CASE shutdown_server
  <2>1. spc' = "exited" /\ UNCHANGED <<current, sum, up, down, cpc>>
    BY <1>6 DEF shutdown_server, ServerGone, clientVars
  <2>2. Service!Stop
    BY <2>1 DEF Service!Stop
  <2> QED  BY <2>2 DEF Service!Next
<1>7. CASE \E c \in Clients : (ClientStep(c) \/ User(c)) /\ UNCHANGED serverVars
  BY <1>1, <1>7, ClientService
<1> QED  BY <1>2, <1>3, <1>4, <1>5, <1>6, <1>7 DEF Next, ServerStep, Process, Environment

\* One client is served after another, and to each it looks as if it had an
\* account of its own: this server promises what the multiplexed one does.
THEOREM SimpleServerImplementsService == Spec => SumServiceSpec
<1>1. Init => Service!Init
  BY NobodyAssumption DEF Init, SumClientInit, Service!Init, ClientEnded
<1>2. IInv /\ [Next]_vars => [Service!Next]_Service!vars
  BY ServiceStep
<1> QED  BY <1>1, <1>2, Invariant, PTL DEF Spec, SumServiceSpec, Service!Spec
=============================================================================
