---------------------------- MODULE TableLemmas ----------------------------
(***************************************************************************)
(* What the walks of rtm.c and the scans of fd_set_mgmt.c return and       *)
(* preserve, for a list of any length and an array of any size.            *)
(*                                                                         *)
(* A walk stops at the FIRST match, so the lemmas rest on the existence of *)
(* a least element in a set of naturals.  The induction theorems of the    *)
(* library take an operator as a parameter, which the provers cannot       *)
(* instantiate; the proof below gets the least element from the one        *)
(* theorem on well-founded orders that takes none, by coding a number as   *)
(* the list of its unary digits in lexicographic order.                    *)
(***************************************************************************)
EXTENDS FdSetMgmt, RoutingTable, SequenceTheorems, WellFoundedInduction, TLAPS

Bits == {0, 1}
BitOrder == {<<0, 1>>}

\* k written with n unary digits.
Unary(n, k) == [i \in 1 .. n |-> IF i <= k THEN 1 ELSE 0]

\* 0 < 1 has no infinite descending sequence.
LEMMA BitOrderWellFounded == IsWellFoundedOn(BitOrder, Bits)
<1> SUFFICES ASSUME NEW f \in [Nat -> Bits],
                    \A n \in Nat : <<f[n + 1], f[n]>> \in BitOrder
             PROVE  FALSE
  BY DEF IsWellFoundedOn
<1>1. f[1] = 0 /\ f[0] = 1
  <2>1. <<f[0 + 1], f[0]>> \in BitOrder  OBVIOUS
  <2> QED  BY <2>1 DEF BitOrder
<1>2. f[1] = 1
  <2>1. <<f[1 + 1], f[1]>> \in BitOrder  OBVIOUS
  <2> QED  BY <2>1 DEF BitOrder
<1> QED  BY <1>1, <1>2

\* A set of naturals that is bounded and not empty has a least element.
LEMMA LeastElement ==
  ASSUME NEW n \in Nat, NEW T \in SUBSET (0 .. n), T # {}
  PROVE  \E m \in T : \A k \in T : m <= k
<1> DEFINE L == LexProductOrdering(BitOrder, Bits, n)
           U == {Unary(n, k) : k \in T}
<1>1. IsWellFoundedOn(L, [1 .. n -> Bits])
  BY BitOrderWellFounded, WFLexProductOrdering, Zenon
<1>2. U \subseteq [1 .. n -> Bits] /\ U # {}
  BY DEF Unary, Bits
<1>3. \E x \in U : \A y \in U : ~ (<<y, x>> \in L)
  BY <1>1, <1>2, WFMin, Zenon
<1>4. PICK m \in T : \A k \in T : ~ (<<Unary(n, k), Unary(n, m)>> \in L)
  BY <1>3
<1>5. ASSUME NEW k \in T, k < m
      PROVE  <<Unary(n, k), Unary(n, m)>> \in L
  <2>1. m \in 1 .. n /\ k \in 0 .. n  BY <1>5
  <2>2. Unary(n, k) \in [1 .. n -> Bits] /\ Unary(n, m) \in [1 .. n -> Bits]
    BY DEF Unary, Bits
  <2>3. k + 1 \in 1 .. n  BY <2>1, <1>5
  <2>4. \A j \in 1 .. (k + 1) - 1 : Unary(n, k)[j] = Unary(n, m)[j]
    BY <2>1, <1>5, <2>3 DEF Unary
  <2>5. <<Unary(n, k)[k + 1], Unary(n, m)[k + 1]>> \in BitOrder
    BY <2>1, <1>5, <2>3 DEF Unary, BitOrder
  <2> QED  BY <2>2, <2>3, <2>4, <2>5 DEF LexProductOrdering
<1>6. \A k \in T : ~ (k < m)
  BY <1>4, <1>5
<1>7. \A k \in T : m \in Int /\ k \in Int
  OBVIOUS
<1> HIDE DEF L, U
<1>8. \A k \in T : m <= k
  BY <1>6, <1>7
<1> QED  BY <1>8

-----------------------------------------------------------------------------
\* A walk over a list that holds the subnet stops at a node with it.
LEMMA FirstNodeFound ==
  ASSUME NEW S, NEW rt \in Seq(S), NEW r,
         routing_table_contains_dst_subnet(rt, r.destination, r.mask)
  PROVE  /\ FirstNode(rt, r) \in 1 .. Len(rt)
         /\ IsFirstNode(rt, r, FirstNode(rt, r))
<1> DEFINE T == {i \in 1 .. Len(rt) : SameSubnet(rt[i], r.destination, r.mask)}
<1>1. T \in SUBSET (0 .. Len(rt)) /\ T # {} /\ Len(rt) \in Nat
  BY DEF routing_table_contains_dst_subnet
<1>2. PICK m \in T : \A k \in T : m <= k
  BY <1>1, LeastElement, Zenon
<1>3. IsFirstNode(rt, r, m)
  <2>1. ASSUME NEW j \in 1 .. (m - 1), SameSubnet(rt[j], r.destination, r.mask)
        PROVE  FALSE
    <3>1. j \in T  BY <2>1
    <3>2. m <= j  BY <3>1, <1>2
    <3> QED  BY <3>2
  <2> QED  BY <2>1 DEF IsFirstNode
<1>4. m \in 1 .. Len(rt)  OBVIOUS
<1> QED  BY <1>3, <1>4 DEF FirstNode

\* A scan of the array for a value it holds stops at a slot with it.
LEMMA FirstSlotFound ==
  ASSUME NEW mon \in [Slots -> Int], NEW fd, \E i \in Slots : mon[i] = fd
  PROVE  /\ FirstSlot(mon, fd) \in Slots
         /\ IsFirst(mon, fd, FirstSlot(mon, fd))
<1> DEFINE T == {i \in Slots : mon[i] = fd}
<1> USE MaxClientsAssumption
<1>1. T \in SUBSET (0 .. MAX_CLIENTS) /\ T # {} /\ MAX_CLIENTS \in Nat
  BY DEF Slots
<1>2. PICK m \in T : \A k \in T : m <= k
  BY <1>1, LeastElement, Zenon
<1>3. IsFirst(mon, fd, m)
  <2>1. ASSUME NEW j \in 0 .. (m - 1), mon[j] = fd
        PROVE  FALSE
    <3>1. j \in T  BY <2>1 DEF Slots
    <3>2. m <= j  BY <3>1, <1>2
    <3> QED  BY <3>2 DEF Slots
  <2> QED  BY <2>1 DEF IsFirst
<1>4. m \in Slots  OBVIOUS
<1> QED  BY <1>3, <1>4 DEF FirstSlot

-----------------------------------------------------------------------------
\* Adding fills one free slot, or changes nothing.
LEMMA AddFillsOneSlot ==
  ASSUME NEW mon \in [Slots -> Int], NEW fd \in Int
  PROVE  \/ /\ add_to_monitored_fd_set(mon, fd) = mon
            /\ \A i \in Slots : mon[i] # Free
         \/ \E k \in Slots :
              /\ mon[k] = Free
              /\ add_to_monitored_fd_set(mon, fd) = [mon EXCEPT ![k] = fd]
<1>1. CASE \E i \in Slots : mon[i] = Free
  <2>1. FirstSlot(mon, Free) \in Slots /\ mon[FirstSlot(mon, Free)] = Free
    BY <1>1, FirstSlotFound DEF IsFirst
  <2> QED  BY <1>1, <2>1 DEF add_to_monitored_fd_set
<1>2. CASE ~ \E i \in Slots : mon[i] = Free
  BY <1>2 DEF add_to_monitored_fd_set
<1> QED  BY <1>1, <1>2

\* Removing frees one slot that holds the descriptor, or changes nothing.
LEMMA RemoveFreesOneSlot ==
  ASSUME NEW mon \in [Slots -> Int], NEW fd \in Int
  PROVE  \/ /\ remove_from_monitored_fd_set(mon, fd) = mon
            /\ \A i \in Slots : mon[i] # fd
         \/ \E k \in Slots :
              /\ mon[k] = fd
              /\ remove_from_monitored_fd_set(mon, fd) = [mon EXCEPT ![k] = Free]
<1>1. CASE \E i \in Slots : mon[i] = fd
  <2>1. FirstSlot(mon, fd) \in Slots /\ mon[FirstSlot(mon, fd)] = fd
    BY <1>1, FirstSlotFound DEF IsFirst
  <2> QED  BY <1>1, <2>1 DEF remove_from_monitored_fd_set
<1>2. CASE ~ \E i \in Slots : mon[i] = fd
  BY <1>2 DEF remove_from_monitored_fd_set
<1> QED  BY <1>1, <1>2

\* The array keeps its type.
LEMMA MonitorType ==
  ASSUME NEW mon \in [Slots -> Int], NEW fd \in Int
  PROVE  /\ add_to_monitored_fd_set(mon, fd) \in [Slots -> Int]
         /\ remove_from_monitored_fd_set(mon, fd) \in [Slots -> Int]
<1>1. Free \in Int
  BY DEF Free
<1>2. \A k \in Slots, v \in Int : [mon EXCEPT ![k] = v] \in [Slots -> Int]
  OBVIOUS
<1>3. add_to_monitored_fd_set(mon, fd) \in [Slots -> Int]
  BY <1>2, AddFillsOneSlot
<1>4. remove_from_monitored_fd_set(mon, fd) \in [Slots -> Int]
  BY <1>1, <1>2, RemoveFreesOneSlot
<1> QED  BY <1>3, <1>4

-----------------------------------------------------------------------------
RecordsOf(D, M, G, O) == [destination : D, mask : M, gateway_ip : G, oif : O]

\* The node that an update finds is rewritten in place, its subnet is kept.
LEMMA UpdateRewritesOne ==
  ASSUME NEW D, NEW M, NEW G, NEW O,
         NEW rt \in Seq(RecordsOf(D, M, G, O)), NEW r \in RecordsOf(D, M, G, O),
         routing_table_contains_dst_subnet(rt, r.destination, r.mask)
  PROVE  \E k \in 1 .. Len(rt) :
            /\ IsFirstNode(rt, r, k)
            /\ routing_table_update(rt, r) = [rt EXCEPT ![k] = r]
<1> DEFINE k == FirstNode(rt, r)
<1>1. k \in 1 .. Len(rt) /\ IsFirstNode(rt, r, k)
  BY FirstNodeFound, Zenon
<1>2. routing_table_update(rt, r)
        = [rt EXCEPT ![k].gateway_ip = r.gateway_ip, ![k].oif = r.oif]
  BY DEF routing_table_update
<1> HIDE DEF k
<1>3. rt[k] \in RecordsOf(D, M, G, O)
  BY <1>1, ElementOfSeq
<1>4. [[rt[k] EXCEPT !.gateway_ip = r.gateway_ip] EXCEPT !.oif = r.oif] = r
  BY <1>1, <1>3 DEF RecordsOf, IsFirstNode, SameSubnet
<1>5. [rt EXCEPT ![k].gateway_ip = r.gateway_ip, ![k].oif = r.oif] = [rt EXCEPT ![k] = r]
  BY <1>1, <1>3, <1>4
<1> QED  BY <1>1, <1>2, <1>5

\* A delete takes one node out; the list has one when the guard holds.
LEMMA DeleteRemovesOne ==
  ASSUME NEW S, NEW rt \in Seq(S), NEW r, rt # << >>
  PROVE  \E k \in 1 .. Len(rt) :
            /\ routing_table_delete(rt, r) = RemoveAt(rt, k)
            /\ routing_table_contains_dst_subnet(rt, r.destination, r.mask)
                 => IsFirstNode(rt, r, k)
<1>1. CASE routing_table_contains_dst_subnet(rt, r.destination, r.mask)
  <2>1. FirstNode(rt, r) \in 1 .. Len(rt) /\ IsFirstNode(rt, r, FirstNode(rt, r))
    BY <1>1, FirstNodeFound, Zenon
  <2> QED  BY <1>1, <2>1 DEF routing_table_delete
<1>2. CASE ~ routing_table_contains_dst_subnet(rt, r.destination, r.mask)
  <2>1. Len(rt) \in 1 .. Len(rt)
    BY EmptySeq, LenProperties
  <2> QED  BY <1>2, <2>1 DEF routing_table_delete
<1> QED  BY <1>1, <1>2

\* Taking out node k moves the nodes behind it up by one.
LEMMA RemoveAtProperties ==
  ASSUME NEW S, NEW s \in Seq(S), NEW k \in 1 .. Len(s)
  PROVE  /\ RemoveAt(s, k) \in Seq(S)
         /\ Len(RemoveAt(s, k)) = Len(s) - 1
         /\ \A i \in 1 .. (Len(s) - 1) :
                RemoveAt(s, k)[i] = IF i < k THEN s[i] ELSE s[i + 1]
<1> DEFINE a == SubSeq(s, 1, k - 1)
           b == SubSeq(s, k + 1, Len(s))
<1>1. Len(s) \in Nat
  OBVIOUS
<1>2. /\ a \in Seq(S) /\ Len(a) = k - 1
      /\ \A i \in 1 .. (k - 1) : a[i] = s[i]
  OBVIOUS
<1>3. /\ b \in Seq(S) /\ Len(b) = Len(s) - k
      /\ \A i \in 1 .. (Len(s) - k) : b[i] = s[k + i]
  OBVIOUS
<1>4. RemoveAt(s, k) = a \o b
  BY DEF RemoveAt
<1> HIDE DEF a, b
<1>5. /\ a \o b \in Seq(S)
      /\ Len(a \o b) = Len(a) + Len(b)
      /\ \A i \in 1 .. Len(a) + Len(b) :
            (a \o b)[i] = IF i <= Len(a) THEN a[i] ELSE b[i - Len(a)]
  BY <1>2, <1>3, ConcatProperties
<1>6. ASSUME NEW i \in 1 .. (Len(s) - 1)
      PROVE  (a \o b)[i] = IF i < k THEN s[i] ELSE s[i + 1]
  <2>1. CASE i < k
    BY <1>1, <1>2, <1>3, <1>5, <2>1
  <2>2. CASE ~ (i < k)
    <3>1. i - (k - 1) \in 1 .. (Len(s) - k)
      BY <1>1, <2>2
    <3>2. (a \o b)[i] = b[i - (k - 1)]
      BY <1>1, <1>2, <1>3, <1>5, <2>2
    <3>3. k + (i - (k - 1)) = i + 1
      BY <1>1
    <3> QED  BY <1>3, <2>2, <3>1, <3>2, <3>3
  <2> QED  BY <2>1, <2>2
<1> QED  BY <1>1, <1>2, <1>3, <1>4, <1>5, <1>6

\* The three operations return a list of records.
LEMMA TableType ==
  ASSUME NEW D, NEW M, NEW G, NEW O,
         NEW rt \in Seq(RecordsOf(D, M, G, O)), NEW r \in RecordsOf(D, M, G, O)
  PROVE  /\ routing_table_insert(rt, r) \in Seq(RecordsOf(D, M, G, O))
         /\ routing_table_update(rt, r) \in Seq(RecordsOf(D, M, G, O))
         /\ routing_table_delete(rt, r) \in Seq(RecordsOf(D, M, G, O))
<1> DEFINE S == RecordsOf(D, M, G, O)
<1>1. routing_table_insert(rt, r) \in Seq(S)
  BY AppendProperties DEF routing_table_insert
<1>2. routing_table_update(rt, r) \in Seq(S)
  <2>1. CASE routing_table_contains_dst_subnet(rt, r.destination, r.mask)
    <3>1. PICK k \in 1 .. Len(rt) :
                 /\ IsFirstNode(rt, r, k)
                 /\ routing_table_update(rt, r) = [rt EXCEPT ![k] = r]
      BY <2>1, UpdateRewritesOne
    <3> QED  BY <3>1, ExceptSeq
  <2>2. CASE ~ routing_table_contains_dst_subnet(rt, r.destination, r.mask)
    BY <2>2 DEF routing_table_update
  <2> QED  BY <2>1, <2>2
<1>3. routing_table_delete(rt, r) \in Seq(S)
  <2>1. CASE rt = << >>
    BY <2>1 DEF routing_table_delete
  <2>2. CASE rt # << >>
    <3>1. PICK k \in 1 .. Len(rt) : routing_table_delete(rt, r) = RemoveAt(rt, k)
      BY <2>2, DeleteRemovesOne, Zenon
    <3> QED  BY <3>1, RemoveAtProperties, Zenon
  <2> QED  BY <2>1, <2>2
<1> QED  BY <1>1, <1>2, <1>3

-----------------------------------------------------------------------------
\* A message moves from what is owed to the socket.
LEMMA WriteMoves ==
  ASSUME NEW S, NEW ch \in Seq(S), NEW s \in Seq(S), NEW p \in 1 .. Len(s)
  PROVE  ch \o SubSeq(s, p, Len(s)) = Append(ch, s[p]) \o SubSeq(s, p + 1, Len(s))
<1>1. Len(s) \in Nat /\ s[p] \in S /\ Len(s) \in p .. Len(s)
  OBVIOUS
<1>2. SubSeq(s, p, Len(s)) = << s[p] >> \o SubSeq(s, p + 1, Len(s))
  BY <1>1, SubSeqRecursiveFirst
<1>3. << s[p] >> \in Seq(S) /\ SubSeq(s, p + 1, Len(s)) \in Seq(S)
  BY <1>1
<1>4. Append(ch, s[p]) = ch \o << s[p] >>
  BY <1>1, AppendIsConcat
<1> DEFINE h == << s[p] >>
           t == SubSeq(s, p + 1, Len(s))
<1>5. h \in Seq(S) /\ t \in Seq(S)
  BY <1>3
<1> HIDE DEF h, t
<1>6. (ch \o h) \o t = ch \o (h \o t)
  BY <1>5, ConcatAssociative
<1> QED  BY <1>2, <1>4, <1>6 DEF h, t

\* What is in front of a concatenation can be cut off again.
LEMMA ConcatPrefix ==
  ASSUME NEW S, NEW s \in Seq(S), NEW t \in Seq(S)
  PROVE  SubSeq(s \o t, 1, Len(s)) = s
<1>1. /\ Len(s) \in Nat /\ s \o t \in Seq(S) /\ Len(s \o t) = Len(s) + Len(t) /\ Len(t) \in Nat
      /\ \A i \in 1 .. Len(s) : (s \o t)[i] = s[i]
  BY ConcatProperties
<1>2. /\ SubSeq(s \o t, 1, Len(s)) \in Seq(S) /\ Len(SubSeq(s \o t, 1, Len(s))) = Len(s)
      /\ \A i \in 1 .. Len(s) : SubSeq(s \o t, 1, Len(s))[i] = s[i]
  BY <1>1
<1> QED  BY <1>2, SeqEqual

\* Reading from the front leaves what is behind alone.
LEMMA HeadTailOfConcat ==
  ASSUME NEW S, NEW s \in Seq(S), NEW t \in Seq(S), s # << >>
  PROVE  s \o t # << >> /\ Head(s \o t) = Head(s) /\ Tail(s \o t) = Tail(s) \o t
<1>1. /\ Len(s) \in Nat /\ Len(s) >= 1 /\ Len(t) \in Nat
      /\ s \o t \in Seq(S) /\ Len(s \o t) = Len(s) + Len(t)
      /\ \A i \in 1 .. Len(s) + Len(t) :
            (s \o t)[i] = IF i <= Len(s) THEN s[i] ELSE t[i - Len(s)]
  BY EmptySeq, ConcatProperties
<1>2. s \o t # << >>
  BY <1>1, EmptySeq
<1>3. Head(s \o t) = (s \o t)[1] /\ Head(s) = s[1]
  BY <1>1, <1>2, HeadTailProperties
<1>4. /\ Tail(s) \in Seq(S) /\ Len(Tail(s)) = Len(s) - 1
      /\ \A i \in 1 .. Len(s) - 1 : Tail(s)[i] = s[i + 1]
  BY HeadTailProperties
<1> DEFINE l == s \o t
           u == Tail(s)
<1>5. /\ Tail(l) \in Seq(S) /\ Len(Tail(l)) = Len(s) + Len(t) - 1
      /\ \A i \in 1 .. Len(s) + Len(t) - 1 : Tail(l)[i] = l[i + 1]
  BY <1>1, <1>2, HeadTailProperties
<1>6. /\ u \o t \in Seq(S) /\ Len(u \o t) = Len(s) + Len(t) - 1
      /\ \A i \in 1 .. Len(s) + Len(t) - 1 :
            (u \o t)[i] = IF i <= Len(s) - 1 THEN u[i] ELSE t[i - (Len(s) - 1)]
  BY <1>1, <1>4, ConcatProperties
<1>7. \A i \in 1 .. Len(s) + Len(t) - 1 :
        l[i + 1] = IF i + 1 <= Len(s) THEN s[i + 1] ELSE t[(i + 1) - Len(s)]
  BY <1>1
<1> HIDE DEF l, u
<1>8. \A i \in 1 .. Len(s) + Len(t) - 1 : Tail(l)[i] = (u \o t)[i]
  BY <1>1, <1>4, <1>5, <1>6, <1>7 DEF u
<1>9. Tail(l) = u \o t
  BY <1>5, <1>6, <1>8, SeqEqual
<1> QED  BY <1>1, <1>2, <1>3, <1>9 DEF l, u

\* A sequence is the function of its elements.
LEMMA SeqIsFunction ==
  ASSUME NEW S, NEW s \in Seq(S)
  PROVE  s = [i \in 1 .. Len(s) |-> s[i]]
OBVIOUS

-----------------------------------------------------------------------------
\* One turn of the recursion that defines Views.
NextView(v, rt, s, i) ==
    IF i = 0 THEN rt ELSE synchronize_with_server(v[i - 1], s[i])

\* v is what Views computes, up to the n-th message.
IsRun(v, rt, s, n) == v = [i \in 0 .. n |-> NextView(v, rt, s, i)]

\* The recursion of Views has a solution, however long the list of messages.
LEMMA RunExists ==
  ASSUME NEW rt, NEW s, NEW n \in Nat
  PROVE  \E v : IsRun(v, rt, s, n)
<1> SUFFICES ASSUME ~ \E v : IsRun(v, rt, s, n)
             PROVE  FALSE
  OBVIOUS
<1> DEFINE T == {k \in 0 .. n : ~ \E v : IsRun(v, rt, s, k)}
<1>1. T \in SUBSET (0 .. n) /\ T # {}
  <2>1. n \in T  OBVIOUS
  <2> QED  BY <2>1
<1>2. PICK k \in T : \A j \in T : k <= j
  BY <1>1, LeastElement, Zenon
<1>3. k # 0
  <2> DEFINE v == [i \in 0 .. 0 |-> rt]
  <2>1. IsRun(v, rt, s, 0)
    BY DEF IsRun, NextView
  <2> QED  BY <2>1
<1>4. k - 1 \in 0 .. n /\ k - 1 \notin T
  BY <1>2, <1>3
<1>5. PICK v : IsRun(v, rt, s, k - 1)
  BY <1>4
<1> DEFINE w == [i \in 0 .. k |-> NextView(v, rt, s, i)]
<1>6. \A i \in 0 .. k - 1 : w[i] = v[i]
  BY <1>5 DEF IsRun
<1> HIDE DEF w
<1>7. ASSUME NEW i \in 0 .. k
      PROVE  NextView(v, rt, s, i) = NextView(w, rt, s, i)
  <2>1. i # 0 => i - 1 \in 0 .. k - 1
    OBVIOUS
  <2>2. i # 0 => w[i - 1] = v[i - 1]
    BY <1>6, <2>1
  <2> QED  BY <2>2 DEF NextView
<1>8. IsRun(w, rt, s, k)
  BY <1>7 DEF IsRun, w
<1> QED  BY <1>8

\* v goes through n messages, whatever it may be beyond.
Turns(v, rt, s, n) ==
    /\ v[0] = rt
    /\ \A i \in 1 .. n : v[i] = synchronize_with_server(v[i - 1], s[i])

\* Two runs that start from the same list and see the same messages agree.
LEMMA TurnsAgree ==
  ASSUME NEW n \in Nat, NEW rt, NEW s, NEW v, NEW w, Turns(v, rt, s, n), Turns(w, rt, s, n)
  PROVE  \A i \in 0 .. n : v[i] = w[i]
<1> SUFFICES ASSUME NEW d \in 0 .. n, v[d] # w[d]
             PROVE  FALSE
  OBVIOUS
<1> DEFINE T == {k \in 0 .. n : v[k] # w[k]}
<1>1. T \in SUBSET (0 .. n) /\ T # {}
  <2>1. d \in T  OBVIOUS
  <2> QED  BY <2>1
<1>2. PICK k \in T : \A j \in T : k <= j
  BY <1>1, LeastElement, Zenon
<1>3. k \in 1 .. n
  BY DEF Turns
<1>4. k - 1 \in 0 .. n /\ k - 1 \notin T
  BY <1>2, <1>3
<1>5. v[k - 1] = w[k - 1]
  BY <1>4
<1> QED  BY <1>3, <1>5 DEF Turns

\* The first view is the list itself, each other one comes of one message.
LEMMA ViewTurns ==
  ASSUME NEW rt, NEW S, NEW s \in Seq(S)
  PROVE  Turns(Views(rt, s), rt, s, Len(s))
<1>1. Len(s) \in Nat
  OBVIOUS
<1>2. PICK x : IsRun(x, rt, s, Len(s))
  BY <1>1, RunExists
<1>3. Views(rt, s) = CHOOSE v : IsRun(v, rt, s, Len(s))
  BY DEF Views, IsRun, NextView
<1> DEFINE u == Views(rt, s)
<1>4. IsRun(u, rt, s, Len(s))
  BY <1>2, <1>3
<1> HIDE DEF u
<1>5. \A i \in 0 .. Len(s) : u[i] = NextView(u, rt, s, i)
  BY <1>4 DEF IsRun
<1>6. Turns(u, rt, s, Len(s))
  BY <1>1, <1>5 DEF NextView, Turns
<1> QED  BY <1>6 DEF u

\* A message more at the end, or one fewer, leaves the views before it.
LEMMA ViewsOfPrefix ==
  ASSUME NEW rt, NEW S, NEW s \in Seq(S), NEW t \in Seq(S),
         Len(t) <= Len(s), \A i \in 1 .. Len(t) : t[i] = s[i]
  PROVE  \A i \in 0 .. Len(t) : Views(rt, t)[i] = Views(rt, s)[i]
<1> DEFINE n == Len(t)
           v == Views(rt, t)
           w == Views(rt, s)
<1>1. n \in Nat /\ \A i \in 1 .. n : i \in 1 .. Len(s)
  OBVIOUS
<1>2. Turns(v, rt, t, n)
  BY ViewTurns
<1>3. Turns(w, rt, s, Len(s))
  BY ViewTurns
<1> HIDE DEF v, w
<1>4. Turns(w, rt, t, n)
  BY <1>1, <1>3 DEF Turns
<1> HIDE DEF n
<1>5. \A i \in 0 .. n : v[i] = w[i]
  BY <1>1, <1>2, <1>4, TurnsAgree
<1> QED  BY <1>5 DEF n, v, w

\* After the first message the rest is seen as before.
LEMMA ViewsOfTail ==
  ASSUME NEW rt, NEW S, NEW s \in Seq(S), s # << >>
  PROVE  \A i \in 0 .. Len(s) - 1 :
            Views(synchronize_with_server(rt, Head(s)), Tail(s))[i] = Views(rt, s)[i + 1]
<1> DEFINE n == Len(s) - 1
           v == Views(rt, s)
           u == synchronize_with_server(rt, Head(s))
           w == [i \in 0 .. n |-> v[i + 1]]
           t == Tail(s)
           x == Views(u, t)
<1>1. n \in Nat /\ Len(s) = n + 1
  BY EmptySeq
<1>2. /\ t \in Seq(S) /\ Len(t) = n /\ Head(s) = s[1]
      /\ \A i \in 1 .. n : t[i] = s[i + 1]
  BY <1>1, HeadTailProperties
<1>3. Turns(v, rt, s, n + 1)
  BY <1>1, ViewTurns
<1> HIDE DEF t
<1>4. Turns(x, u, t, n)
  <2>1. Turns(x, u, t, Len(t))
    BY <1>2, ViewTurns
  <2> QED  BY <1>2, <2>1
<1> HIDE DEF v, x, n
<1>5. Turns(w, u, t, n)
  <2>1. w[0] = u
    BY <1>1, <1>2, <1>3 DEF Turns
  <2>2. ASSUME NEW i \in 1 .. n
        PROVE  w[i] = synchronize_with_server(w[i - 1], t[i])
    <3>1. i - 1 \in 0 .. n /\ i + 1 \in 1 .. n + 1 /\ (i + 1) - 1 = i /\ (i - 1) + 1 = i
      BY <1>1
    <3>2. w[i] = v[i + 1] /\ w[i - 1] = v[i]
      BY <3>1
    <3>3. v[i + 1] = synchronize_with_server(v[i], s[i + 1])
      BY <1>3, <3>1 DEF Turns
    <3> QED  BY <1>2, <3>2, <3>3
  <2> QED  BY <2>1, <2>2 DEF Turns
<1>6. \A i \in 0 .. n : w[i] = v[i + 1]
  OBVIOUS
<1> HIDE DEF w, u
<1>7. \A i \in 0 .. n : x[i] = w[i]
  BY <1>1, <1>4, <1>5, TurnsAgree
<1> QED  BY <1>6, <1>7 DEF v, u, t, n, x

\* One more message at the end gives one more view.
LEMMA ViewsOfAppend ==
  ASSUME NEW S, NEW rt, NEW s \in Seq(S), NEW m \in S
  PROVE  /\ \A i \in 0 .. Len(s) : Views(rt, Append(s, m))[i] = Views(rt, s)[i]
         /\ Views(rt, Append(s, m))[Len(s) + 1] = synchronize_with_server(Replay(rt, s), m)
<1> DEFINE t == Append(s, m)
<1>1. /\ t \in Seq(S) /\ Len(t) = Len(s) + 1 /\ Len(s) \in Nat
      /\ (\A i \in 1 .. Len(s) : t[i] = s[i]) /\ t[Len(s) + 1] = m
  BY AppendProperties
<1> HIDE DEF t
<1>2. \A i \in 0 .. Len(s) : Views(rt, s)[i] = Views(rt, t)[i]
  BY <1>1, ViewsOfPrefix
<1>3. Turns(Views(rt, t), rt, t, Len(t))
  BY <1>1, ViewTurns
<1>4. Views(rt, t)[Len(s) + 1]
        = synchronize_with_server(Views(rt, t)[(Len(s) + 1) - 1], t[Len(s) + 1])
  BY <1>1, <1>3 DEF Turns
<1>5. (Len(s) + 1) - 1 = Len(s) /\ Len(s) \in 0 .. Len(s)
  BY <1>1
<1>6. Views(rt, t)[Len(s) + 1] = synchronize_with_server(Replay(rt, s), m)
  BY <1>1, <1>2, <1>4, <1>5 DEF Replay
<1> QED  BY <1>2, <1>6 DEF t

-----------------------------------------------------------------------------
MessagesOf(D, M, G, O) == [op_code : OP_CODE, msg_body : RecordsOf(D, M, G, O)]

\* A message that applies keeps a list a list of records, one per subnet.
LEMMA SyncType ==
  ASSUME NEW D, NEW M, NEW G, NEW O,
         NEW rt \in Seq(RecordsOf(D, M, G, O)), NEW m \in MessagesOf(D, M, G, O)
  PROVE  synchronize_with_server(rt, m) \in Seq(RecordsOf(D, M, G, O))
<1>1. m.msg_body \in RecordsOf(D, M, G, O) /\ m.op_code \in {"CREATE", "UPDATE", "DELETE"}
  BY DEF MessagesOf, OP_CODE
<1> QED  BY <1>1, TableType DEF synchronize_with_server

\* The three operations keep one record per subnet: insert if it is absent, ...
LEMMA InsertKeepsUnique ==
  ASSUME NEW S, NEW rt \in Seq(S), NEW r \in S, UniqueSubnets(rt),
         ~ routing_table_contains_dst_subnet(rt, r.destination, r.mask)
  PROVE  UniqueSubnets(routing_table_insert(rt, r))
<1> DEFINE t == Append(rt, r)
<1>1. Len(rt) \in Nat /\ Len(t) = Len(rt) + 1
      /\ (\A i \in 1 .. Len(rt) : t[i] = rt[i]) /\ t[Len(rt) + 1] = r
  BY AppendProperties
<1> HIDE DEF t
<1>2. ASSUME NEW i \in 1 .. Len(t), NEW j \in 1 .. Len(t),
             SameSubnet(t[i], t[j].destination, t[j].mask)
      PROVE  i = j
  <2>1. CASE i \in 1 .. Len(rt) /\ j \in 1 .. Len(rt)
    BY <1>1, <1>2, <2>1 DEF UniqueSubnets
  <2>2. CASE i \in 1 .. Len(rt) /\ j = Len(rt) + 1
    BY <1>1, <1>2, <2>2 DEF routing_table_contains_dst_subnet
  <2>3. CASE i = Len(rt) + 1 /\ j \in 1 .. Len(rt)
    BY <1>1, <1>2, <2>3 DEF routing_table_contains_dst_subnet, SameSubnet
  <2> QED  BY <1>1, <2>1, <2>2, <2>3
<1> QED  BY <1>2 DEF UniqueSubnets, routing_table_insert, t

\* ... update always, ...
LEMMA UpdateKeepsUnique ==
  ASSUME NEW D, NEW M, NEW G, NEW O,
         NEW rt \in Seq(RecordsOf(D, M, G, O)), NEW r \in RecordsOf(D, M, G, O),
         UniqueSubnets(rt)
  PROVE  UniqueSubnets(routing_table_update(rt, r))
<1>1. CASE routing_table_contains_dst_subnet(rt, r.destination, r.mask)
  <2>1. PICK k \in 1 .. Len(rt) :
               /\ IsFirstNode(rt, r, k)
               /\ routing_table_update(rt, r) = [rt EXCEPT ![k] = r]
    BY <1>1, UpdateRewritesOne
  <2> DEFINE t == [rt EXCEPT ![k] = r]
  <2>2. Len(t) = Len(rt) /\ \A j \in 1 .. Len(rt) : t[j] = IF j = k THEN r ELSE rt[j]
    BY ExceptSeq
  <2>3. rt[k].destination = r.destination /\ rt[k].mask = r.mask
    BY <2>1 DEF IsFirstNode, SameSubnet
  <2> HIDE DEF t
  <2>4. \A j \in 1 .. Len(rt) : t[j].destination = rt[j].destination /\ t[j].mask = rt[j].mask
    BY <2>2, <2>3
  <2>5. UniqueSubnets(t)
    BY <2>2, <2>4 DEF UniqueSubnets, SameSubnet
  <2> QED  BY <2>1, <2>5 DEF t
<1>2. CASE ~ routing_table_contains_dst_subnet(rt, r.destination, r.mask)
  BY <1>2 DEF routing_table_update
<1> QED  BY <1>1, <1>2

\* ... and delete always, whichever record it takes.
LEMMA DeleteKeepsUnique ==
  ASSUME NEW S, NEW rt \in Seq(S), NEW r, UniqueSubnets(rt)
  PROVE  UniqueSubnets(routing_table_delete(rt, r))
<1>1. CASE rt = << >>
  BY <1>1 DEF routing_table_delete
<1>2. CASE rt # << >>
  <2>1. PICK k \in 1 .. Len(rt) : routing_table_delete(rt, r) = RemoveAt(rt, k)
    BY <1>2, DeleteRemovesOne, Zenon
  <2> DEFINE t == RemoveAt(rt, k)
             at(i) == IF i < k THEN i ELSE i + 1
  <2>2. Len(rt) \in Nat /\ Len(t) = Len(rt) - 1
    BY RemoveAtProperties
  <2>3. \A i \in 1 .. Len(t) : at(i) \in 1 .. Len(rt) /\ t[i] = rt[at(i)]
    <3>1. \A i \in 1 .. Len(rt) - 1 : t[i] = IF i < k THEN rt[i] ELSE rt[i + 1]
      BY RemoveAtProperties
    <3> HIDE DEF t
    <3> QED  BY <2>2, <3>1
  <2>4. \A i, j \in 1 .. Len(t) : at(i) = at(j) => i = j
    BY <2>2
  <2> HIDE DEF t, at
  <2>5. UniqueSubnets(t)
    BY <2>3, <2>4 DEF UniqueSubnets
  <2> QED  BY <2>1, <2>5 DEF t
<1> QED  BY <1>1, <1>2

\* So does a message that applies.
LEMMA SyncKeepsUnique ==
  ASSUME NEW D, NEW M, NEW G, NEW O,
         NEW rt \in Seq(RecordsOf(D, M, G, O)), NEW m \in MessagesOf(D, M, G, O),
         UniqueSubnets(rt), Applies(rt, m)
  PROVE  UniqueSubnets(synchronize_with_server(rt, m))
<1>1. m.msg_body \in RecordsOf(D, M, G, O) /\ m.op_code \in {"CREATE", "UPDATE", "DELETE"}
  BY DEF MessagesOf, OP_CODE
<1>2. CASE m.op_code = "CREATE"
  <2>1. ~ routing_table_contains_dst_subnet(rt, m.msg_body.destination, m.msg_body.mask)
    BY <1>2 DEF Applies
  <2>2. synchronize_with_server(rt, m) = routing_table_insert(rt, m.msg_body)
    BY <1>2 DEF synchronize_with_server
  <2> QED  BY <1>1, <2>1, <2>2, InsertKeepsUnique
<1>3. CASE m.op_code = "UPDATE"
  BY <1>1, <1>3, UpdateKeepsUnique DEF synchronize_with_server
<1>4. CASE m.op_code = "DELETE"
  BY <1>1, <1>4, DeleteKeepsUnique DEF synchronize_with_server
<1> QED  BY <1>1, <1>2, <1>3, <1>4

-----------------------------------------------------------------------------
\* What a client that knows nothing makes of a dump: the list, record by record.
LEMMA CreateMessagesType ==
  ASSUME NEW D, NEW M, NEW G, NEW O, NEW rt \in Seq(RecordsOf(D, M, G, O))
  PROVE  /\ CreateMessages(rt) \in Seq(MessagesOf(D, M, G, O))
         /\ Len(CreateMessages(rt)) = Len(rt)
         /\ \A i \in 1 .. Len(rt) :
              CreateMessages(rt)[i] = [op_code |-> "CREATE", msg_body |-> rt[i]]
<1>1. Len(rt) \in Nat /\ \A i \in 1 .. Len(rt) : rt[i] \in RecordsOf(D, M, G, O)
  OBVIOUS
<1>2. \A i \in 1 .. Len(rt) :
        [op_code |-> "CREATE", msg_body |-> rt[i]] \in MessagesOf(D, M, G, O)
  BY <1>1 DEF MessagesOf, OP_CODE
<1>3. CreateMessages(rt) = [i \in 1 .. Len(rt) |-> [op_code |-> "CREATE", msg_body |-> rt[i]]]
  BY DEF CreateMessages, prepare_synchronization_message
<1> QED  BY <1>1, <1>2, <1>3

\* A client that starts from nothing sees the beginnings of the dumped list.
LEMMA ViewsOfDump ==
  ASSUME NEW D, NEW M, NEW G, NEW O, NEW rt \in Seq(RecordsOf(D, M, G, O))
  PROVE  \A i \in 0 .. Len(rt) : Views(<< >>, CreateMessages(rt))[i] = SubSeq(rt, 1, i)
<1> DEFINE s == CreateMessages(rt)
           v == Views(<< >>, s)
           w == [i \in 0 .. Len(rt) |-> SubSeq(rt, 1, i)]
           n == Len(rt)
<1>1. n \in Nat
  OBVIOUS
<1>2. Turns(v, << >>, s, n)
  BY CreateMessagesType, ViewTurns
<1>3. Turns(w, << >>, s, n)
  <2>1. w[0] = << >>
    BY <1>1, SubSeqEmpty
  <2>2. ASSUME NEW i \in 1 .. n
        PROVE  w[i] = synchronize_with_server(w[i - 1], s[i])
    <3>1. s[i] = [op_code |-> "CREATE", msg_body |-> rt[i]]
      BY CreateMessagesType
    <3>2. i - 1 \in 0 .. n
      BY <1>1
    <3>3. SubSeq(rt, 1, i) = Append(SubSeq(rt, 1, i - 1), rt[i])
      <4>1. SubSeq(rt, 1, i) = SubSeq(rt, 1, i - 1) \o << rt[i] >>
        BY <1>1, SubSeqRecursiveSecond
      <4>2. SubSeq(rt, 1, i - 1) \in Seq(RecordsOf(D, M, G, O)) /\ rt[i] \in RecordsOf(D, M, G, O)
        BY <1>1
      <4> QED  BY <4>1, <4>2, AppendIsConcat
    <3>4. synchronize_with_server(SubSeq(rt, 1, i - 1), [op_code |-> "CREATE", msg_body |-> rt[i]])
            = Append(SubSeq(rt, 1, i - 1), rt[i])
      BY DEF synchronize_with_server, routing_table_insert
    <3>5. w[i] = SubSeq(rt, 1, i) /\ w[i - 1] = SubSeq(rt, 1, i - 1)
      BY <1>1, <3>2
    <3> QED  BY <3>1, <3>3, <3>4, <3>5
  <2> QED  BY <2>1, <2>2 DEF Turns
<1> HIDE DEF s, v, n
<1>4. \A i \in 0 .. n : w[i] = SubSeq(rt, 1, i)
  BY DEF n
<1> HIDE DEF w
<1>5. \A i \in 0 .. n : v[i] = w[i]
  BY <1>1, <1>2, <1>3, TurnsAgree
<1> QED  BY <1>4, <1>5 DEF s, v, n

\* Each message of a dump applies, if the list has one record per subnet.
LEMMA DumpApplies ==
  ASSUME NEW D, NEW M, NEW G, NEW O, NEW rt \in Seq(RecordsOf(D, M, G, O)),
         UniqueSubnets(rt), NEW i \in 1 .. Len(rt)
  PROVE  Applies(Views(<< >>, CreateMessages(rt))[i - 1], CreateMessages(rt)[i])
<1>1. Len(rt) \in Nat /\ i - 1 \in 0 .. Len(rt) /\ i \in 1 .. Len(rt)
  OBVIOUS
<1>2. Views(<< >>, CreateMessages(rt))[i - 1] = SubSeq(rt, 1, i - 1)
  BY <1>1, ViewsOfDump
<1>3. CreateMessages(rt)[i] = [op_code |-> "CREATE", msg_body |-> rt[i]]
  BY CreateMessagesType
<1> DEFINE t == SubSeq(rt, 1, i - 1)
<1>4. Len(t) = i - 1 /\ \A j \in 1 .. i - 1 : t[j] = rt[j] /\ j \in 1 .. Len(rt) /\ j # i
  BY <1>1
<1> HIDE DEF t
<1>5. ~ routing_table_contains_dst_subnet(t, rt[i].destination, rt[i].mask)
  BY <1>1, <1>4 DEF routing_table_contains_dst_subnet, UniqueSubnets
<1>6. Applies(t, [op_code |-> "CREATE", msg_body |-> rt[i]])
  BY <1>5 DEF Applies, routing_table_contains_dst_subnet
<1> QED  BY <1>2, <1>3, <1>6 DEF t
=============================================================================
