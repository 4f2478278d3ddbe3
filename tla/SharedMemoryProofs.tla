------------------------- MODULE SharedMemoryProofs -------------------------
(***************************************************************************)
(* Theorems about SharedMemory, for any number of writers and readers and  *)
(* any numbers.                                                            *)
(***************************************************************************)
EXTENDS SharedMemory, SequenceTheorems, TLAPS

\* Wherever a first cell is, in a segment or in a buffer, it is the beginning
\* of a number that was typed, or was cleared.
FirstCellInv ==
    \A p \in Processes : /\ mem[p][1] \in Firsts(typed) \cup {Zero}
                         /\ buffer[p][1] \in Firsts(typed) \cup {Zero}

\* A process is where its kind can be.
PcInv ==
    /\ \A w \in Writers : pc[w] \notin {"copy", "bus", "failed", "killed"}
    /\ \A r \in Readers : pc[r] \notin {"prompt", "clear", "fill", "spin"}

\* Until a reader has ended, whoever runs has the segment the name designates.
NameInv ==
    \/ \E r \in Readers : pc[r] = "ended"
    \/ /\ \A p \in Processes : Running(p) => segment[p] = name
       /\ \A r \in Readers : pc[r] # "failed"

IInv == TypeOK /\ FirstCellInv /\ PcInv /\ ShownWasTyped /\ NameInv

LEMMA ConstantsType ==
  /\ Nobody \notin Processes
  /\ Writers \cap Readers = {} /\ Processes = Writers \cup Readers
  /\ MAX_PROCESSES \in Nat /\ MAX_LINES \in Nat
BY ProcessesAssumption, BoundsAssumption DEF Processes

LEMMA Initially ==
  /\ Empty \in Buffers /\ Unread \in Buffers
  /\ Empty[1] = Zero /\ Unread[1] = Zero
BY DEF Empty, Unread, Buffers, Cells

\* A number has up to three cells, and the last of them has a NUL.
LEMMA NumberType ==
  ASSUME NEW n \in Numbers
  PROVE  /\ n \in Seq(NumberCells) /\ Len(n) \in Cells
         /\ n[Len(n)] \in LastCells
         /\ \A i \in 1..Len(n) - 1 : n[i] \notin LastCells
         /\ \A i \in 1..Len(n) : n[i] \in NumberCells
<1>1. /\ n \in Seq(NumberCells) /\ Len(n) \in Cells
      /\ \A i \in 1..Len(n) - 1 : n[i] \notin LastCells
  BY NumbersAssumption
<1> QED  BY <1>1 DEF LastCells, Cells

\* What fgets leaves in a buffer begins with what was typed.
LEMMA OverwrittenType ==
  ASSUME NEW b \in Buffers, NEW n \in Numbers
  PROVE  Overwritten(b, n) \in Buffers /\ Overwritten(b, n)[1] = n[1]
<1>1. Len(n) \in 1..3 /\ n[Len(n)] \in LastCells /\ \A i \in 1..Len(n) : n[i] \in NumberCells
  BY NumberType DEF Cells
<1>2. b \in [Cells -> NumberCells \cup {Zero, Junk}] /\ b[3] \in LastCells \cup {Zero, Junk}
  BY DEF Buffers
<1>3. Overwritten(b, n) \in [Cells -> NumberCells \cup {Zero, Junk}]
  BY <1>1, <1>2 DEF Overwritten, Cells
<1>4. Overwritten(b, n)[3] \in LastCells \cup {Zero, Junk}
  <2>1. Overwritten(b, n)[3] = IF Len(n) = 3 THEN n[3] ELSE b[3]
    BY <1>1 DEF Overwritten, Cells
  <2> QED  BY <1>1, <1>2, <2>1
<1>5. Overwritten(b, n)[1] = n[1]
  BY <1>1 DEF Overwritten, Cells
<1> QED  BY <1>3, <1>4, <1>5 DEF Buffers

\* The text of a buffer is nothing, or begins with the first cell of the buffer;
\* if that one has a NUL the text is no longer.
LEMMA TextType ==
  ASSUME NEW b \in Buffers
  PROVE  \/ Text(b) = << >>
         \/ /\ Len(Text(b)) > 0 /\ Text(b)[1] = b[1]
            /\ b[1] # Zero
            /\ b[1] \in LastCells => Text(b) = <<b[1]>>
<1> DEFINE S == NumberCells \cup {Zero, Junk}
           Stops(i) == /\ b[i] \in LastCells \cup {Zero, Junk}
                       /\ \A j \in 1..i - 1 : b[j] \notin LastCells \cup {Zero, Junk}
           end == CHOOSE i \in Cells : Stops(i)
<1>1. \E i \in Cells : Stops(i)
  <2>1. b[3] \in LastCells \cup {Zero, Junk}
    BY DEF Buffers
  <2>2. CASE b[1] \in LastCells \cup {Zero, Junk}
    BY <2>2 DEF Cells
  <2>3. CASE b[1] \notin LastCells \cup {Zero, Junk} /\ b[2] \in LastCells \cup {Zero, Junk}
    <3>1. Stops(2)
      BY <2>3
    <3> QED  BY <3>1 DEF Cells
  <2>4. CASE b[1] \notin LastCells \cup {Zero, Junk} /\ b[2] \notin LastCells \cup {Zero, Junk}
    <3>1. Stops(3)
      BY <2>1, <2>4
    <3> QED  BY <3>1 DEF Cells
  <2> QED  BY <2>2, <2>3, <2>4
<1>2. end \in Cells /\ Stops(end)
  BY <1>1
<1>3. Text(b) = SubSeq(b, 1, IF b[end] = Zero THEN end - 1 ELSE end)
  BY DEF Text
<1>4. \A i \in 1..3 : b[i] \in S
  BY DEF Buffers, Cells
<1> HIDE DEF end, S
<1>5. end \in 1..3
  BY <1>2 DEF Cells
<1>6. \A k \in 0..3 : /\ SubSeq(b, 1, k) \in Seq(S) /\ Len(SubSeq(b, 1, k)) = k
                      /\ k > 0 => SubSeq(b, 1, k)[1] = b[1]
  <2> SUFFICES ASSUME NEW k \in 0..3
      PROVE /\ SubSeq(b, 1, k) \in Seq(S) /\ Len(SubSeq(b, 1, k)) = k
            /\ k > 0 => SubSeq(b, 1, k)[1] = b[1]
    OBVIOUS
  <2>1. \A i \in 1..k : b[i] \in S
    BY <1>4
  <2> QED  BY <2>1, SubSeqProperties
<1>7. CASE b[end] = Zero /\ end = 1
  <2>1. Text(b) = SubSeq(b, 1, 0)
    BY <1>3, <1>7
  <2>2. SubSeq(b, 1, 0) = << >>
    BY <1>6, EmptySeq
  <2> QED  BY <2>1, <2>2
<1>8. CASE b[end] # Zero /\ end = 1
  <2>1. Text(b) = SubSeq(b, 1, 1)
    BY <1>3, <1>8
  <2>2. SubSeq(b, 1, 1) = <<b[1]>>
    <3>1. /\ SubSeq(b, 1, 1) \in Seq(S) /\ Len(SubSeq(b, 1, 1)) = 1
          /\ SubSeq(b, 1, 1)[1] = b[1]
      BY <1>6
    <3>2. \A s \in Seq(S) : Len(s) = 1 => s = <<s[1]>>
      OBVIOUS
    <3> QED  BY <3>1, <3>2
  <2> QED  BY <1>8, <2>1, <2>2
<1>9. CASE end > 1
  <2> DEFINE k == IF b[end] = Zero THEN end - 1 ELSE end
  <2>1. k \in 1..3
    BY <1>5, <1>9
  <2>2. b[1] \notin LastCells \cup {Zero, Junk}
    BY <1>2, <1>5, <1>9
  <2>3. Text(b) = SubSeq(b, 1, k)
    BY <1>3
  <2> HIDE DEF k
  <2> QED  BY <1>6, <2>1, <2>2, <2>3
<1> QED  BY <1>5, <1>7, <1>8, <1>9

\* What a reader takes for a number begins one that was typed, or is one.
LEMMA NumberWasTyped ==
  ASSUME NEW b \in Buffers, typed \subseteq Numbers,
         b[1] \in Firsts(typed) \cup {Zero}, Text(b) # << >>
  PROVE  \/ Text(b) \in typed
         \/ \E n \in typed : Len(n) > 1 /\ n[1] = Text(b)[1]
<1>1. /\ Text(b)[1] = b[1] /\ b[1] # Zero
      /\ b[1] \in LastCells => Text(b) = <<b[1]>>
  BY TextType
<1>2. PICK n \in typed : n[1] = b[1]
  BY <1>1 DEF Firsts
<1>3. n \in Seq(NumberCells) /\ Len(n) \in 1..3 /\ n[Len(n)] \in LastCells
  BY NumberType DEF Cells
<1>4. CASE Len(n) > 1
  BY <1>1, <1>2, <1>4
<1>5. CASE Len(n) = 1
  <2>1. n = <<b[1]>> /\ b[1] \in LastCells
    BY <1>2, <1>3, <1>5
  <2> QED  BY <1>1, <1>2, <2>1
<1>6. Len(n) > 1 \/ Len(n) = 1
  <2> DEFINE length == Len(n)
  <2>1. length \in 1..3
    BY <1>3
  <2> HIDE DEF length
  <2>2. length > 1 \/ length = 1
    BY <2>1
  <2> QED  BY <2>2 DEF length
<1> QED  BY <1>4, <1>5, <1>6

LEMMA BeginningsNotEmpty == << >> \notin Beginnings
<1> SUFFICES ASSUME NEW n \in Numbers, NEW k \in DOMAIN n
    PROVE  SubSeq(n, 1, k) # << >>
  BY DEF Beginnings
<1>1. n \in Seq(NumberCells) /\ Len(n) \in Nat /\ k \in 1..Len(n)
  BY NumberType, LenProperties
<1>2. \A i \in 1..k : n[i] \in NumberCells
  BY <1>1, ElementOfSeq
<1>3. Len(SubSeq(n, 1, k)) = k
  BY <1>1, <1>2, SubSeqProperties
<1> QED  BY <1>1, <1>3, EmptySeq

LEMMA InitInv == Init => IInv
<1> SUFFICES ASSUME Init PROVE IInv
  OBVIOUS
<1>1. TypeOK
  BY ConstantsType, Initially DEF Init, TypeOK, Running
<1>2. FirstCellInv /\ PcInv /\ ShownWasTyped /\ NameInv
  BY ConstantsType, Initially DEF Init, FirstCellInv, PcInv, ShownWasTyped, NameInv, Running
<1> QED  BY <1>1, <1>2 DEF IInv

\* A process that goes from one place to another, and changes only what is its
\* own and what its segment holds.
LEMMA GotoInv ==
  ASSUME IInv, NEW p \in Processes, Running(p),
         NEW state \in {"prompt", "clear", "fill", "spin", "copy", "bus"},
         pc' = [pc EXCEPT ![p] = state],
         p \in Writers => state \notin {"copy", "bus"},
         p \in Readers => state \in {"copy", "bus"},
         UNCHANGED <<name, segment, typed>>,
         sized' \subseteq Processes, left' \in [Processes -> SUBSET Moves],
         {mem', buffer'} \subseteq [Processes -> Buffers],
         FirstCellInv', DOMAIN shown' = Readers, ShownWasTyped', lines' \in 0..MAX_LINES
  PROVE  IInv'
<1> USE ConstantsType DEF IInv
<1>1. TypeOK'
  BY DEF TypeOK, Running
<1>2. PcInv' /\ NameInv'
  BY DEF TypeOK, PcInv, NameInv, Running
<1> QED  BY <1>1, <1>2

\* A process that is gone.
LEMMA EndsInv ==
  ASSUME IInv, NEW p \in Processes, Running(p),
         NEW state \in {"ended", "failed", "killed"}, Ends(p, state),
         p \in Writers => state = "ended" /\ name' = name,
         p \in Readers /\ state = "killed" => name' = name,
         p \in Readers /\ state = "failed" => name' = name /\ name = Nobody,
         name' \in Processes \cup {Nobody}
  PROVE  IInv'
<1> USE ConstantsType DEF IInv
<1>1. {mem', buffer'} \subseteq [Processes -> Buffers] /\ FirstCellInv'
  BY Initially DEF Ends, TypeOK, FirstCellInv
<1>2. TypeOK'
  BY <1>1 DEF Ends, Goto, TypeOK, Running
<1>3. PcInv'
  BY DEF Ends, Goto, TypeOK, PcInv
<1>4. ShownWasTyped'
  BY DEF Ends, TypeOK, ShownWasTyped
<1>5. NameInv'
  BY DEF Ends, Goto, TypeOK, PcInv, NameInv, Running
<1> QED  BY <1>1, <1>2, <1>3, <1>4, <1>5

LEMMA OpensInv ==
  ASSUME IInv, NEW p \in Processes, NEW kind, Opens(p, kind),
         Truncates(p) \/ UNCHANGED <<sized, mem>>
  PROVE  IInv'
<1> USE ConstantsType DEF IInv
<1>1. /\ pc[p] = "off" /\ pc' = [pc EXCEPT ![p] = "opened"]
      /\ name' \in Processes /\ segment' = [segment EXCEPT ![p] = name']
      /\ name # Nobody => name' = name
      /\ UNCHANGED <<left, buffer, shown, typed, written, lines>>
  BY DEF Opens, Starts, Opened, Goto, TypeOK
<1>2. /\ mem' \in [Processes -> Buffers] /\ sized' \subseteq Processes
      /\ FirstCellInv'
  <2>1. Empty \in Buffers /\ Empty[1] = Zero
    BY Initially
  <2>2. mem \in [Processes -> Buffers] /\ sized \subseteq Processes
    BY DEF TypeOK
  <2>3. \/ mem' = [mem EXCEPT ![name'] = Empty] /\ sized' = sized \ {name'}
        \/ UNCHANGED <<mem, sized>>
    BY <1>1 DEF Truncates, Opens
  <2>4. mem' \in [Processes -> Buffers] /\ sized' \subseteq Processes
    BY <1>1, <2>1, <2>2, <2>3
  <2>5. FirstCellInv'
    BY <1>1, <2>1, <2>2, <2>3 DEF FirstCellInv
  <2> QED  BY <2>4, <2>5
<1>3. TypeOK'
  BY <1>1, <1>2 DEF TypeOK, Running
<1>4. PcInv' /\ ShownWasTyped'
  BY <1>1 DEF TypeOK, PcInv, ShownWasTyped
<1>5. NameInv'
  BY <1>1 DEF TypeOK, NameInv, Running
<1> QED  BY <1>2, <1>3, <1>4, <1>5

\* A move stores cleared cells, or those of the number that was typed, in a
\* segment.
LEMMA StoreInv ==
  ASSUME IInv, NEW w \in Writers, NEW source \in Buffers, NEW cells \in SUBSET Cells,
         Running(w), Stores(w, cells, source), source[1] \in Firsts(typed) \cup {Zero},
         NEW state \in {"prompt", "clear", "fill"}, pc' = [pc EXCEPT ![w] = state],
         left' \in [Processes -> SUBSET Moves]
  PROVE  IInv'
<1> USE ConstantsType DEF IInv
<1>1. /\ segment[w] \in sized
      /\ UNCHANGED <<name, sized, segment, buffer, shown, typed, lines>>
  BY DEF Stores
<1>2. segment[w] \in Processes /\ mem \in [Processes -> Buffers]
  BY <1>1 DEF TypeOK
<1> DEFINE old == mem[segment[w]]
           new == [i \in Cells |-> IF i \in cells THEN source[i] ELSE old[i]]
<1>3. new \in Buffers /\ new[1] \in Firsts(typed) \cup {Zero}
  <2>1. /\ old \in Buffers /\ old[1] \in Firsts(typed) \cup {Zero}
    BY <1>2 DEF FirstCellInv
  <2>2. \A i \in Cells : new[i] = source[i] \/ new[i] = old[i]
    OBVIOUS
  <2>3. new \in [Cells -> NumberCells \cup {Zero, Junk}]
    BY <2>1 DEF Buffers
  <2> HIDE DEF new
  <2> QED  BY <2>1, <2>2, <2>3 DEF Buffers, Cells
<1>4. mem' = [mem EXCEPT ![segment[w]] = new]
  BY DEF Stores
<1> HIDE DEF new
<1>5. mem' \in [Processes -> Buffers] /\ FirstCellInv'
  BY <1>1, <1>2, <1>3, <1>4 DEF FirstCellInv
<1>6. ShownWasTyped' /\ sized' \subseteq Processes /\ lines' \in 0..MAX_LINES
      /\ buffer' \in [Processes -> Buffers] /\ DOMAIN shown' = Readers
  BY <1>1 DEF ShownWasTyped, TypeOK
<1>7. w \in Processes /\ w \notin Readers
  OBVIOUS
<1> QED  BY <1>1, <1>5, <1>6, <1>7, GotoInv

LEMMA MovesInv ==
  ASSUME IInv, NEW w \in Writers,
         FillFirst(w) \/ FillSecond(w) \/ \E m \in Moves : Clear(w, m)
  PROVE  IInv'
<1> USE ConstantsType DEF IInv
<1>1. buffer[w] \in Buffers /\ buffer[w][1] \in Firsts(typed) \cup {Zero}
  BY DEF TypeOK, FirstCellInv
<1>2. CopyMove(1) \subseteq Cells /\ CopyMove(2) \subseteq Cells
      /\ \A m \in Moves : ClearMove(m) \subseteq Cells
  BY DEF CopyMove, ClearMove, Moves, Cells
<1>3. ASSUME NEW m \in Moves, Clear(w, m) PROVE IInv'
  <2>1. /\ pc = [pc EXCEPT ![w] = "clear"] /\ Running(w)
        /\ left' \in [Processes -> SUBSET Moves]
    BY <1>3 DEF Clear, TypeOK, Running
  <2>2. PICK state \in {"clear", "fill"} : pc' = [pc EXCEPT ![w] = state]
    BY <1>3, <2>1 DEF Clear, Goto
  <2>3. Stores(w, ClearMove(m), Empty)
    BY <1>3 DEF Clear
  <2> QED  BY <1>2, <2>1, <2>2, <2>3, StoreInv, Initially
<1>4. CASE FillFirst(w)
  <2>1. /\ pc = [pc EXCEPT ![w] = "fill"] /\ Running(w)
        /\ left' \in [Processes -> SUBSET Moves]
    BY <1>4 DEF FillFirst, TypeOK, Running, Moves
  <2>2. Stores(w, CopyMove(1), buffer[w]) /\ pc' = [pc EXCEPT ![w] = "fill"]
    BY <1>4, <2>1 DEF FillFirst
  <2> QED  BY <1>1, <1>2, <2>1, <2>2, StoreInv
<1>5. CASE FillSecond(w)
  <2>1. Running(w) /\ left' \in [Processes -> SUBSET Moves]
    BY <1>5 DEF FillSecond, TypeOK, Running
  <2>2. Stores(w, CopyMove(2), buffer[w]) /\ pc' = [pc EXCEPT ![w] = "prompt"]
    BY <1>5 DEF FillSecond, Goto
  <2> QED  BY <1>1, <1>2, <2>1, <2>2, StoreInv
<1> QED  BY <1>3, <1>4, <1>5

LEMMA TypeInv ==
  ASSUME IInv, NEW w \in Writers, TypeNumber(w)
  PROVE  IInv'
<1> USE ConstantsType DEF IInv
<1>1. PICK n \in Numbers :
        /\ buffer' = [buffer EXCEPT ![w] = Overwritten(@, n)]
        /\ typed' = typed \cup {n}
  BY DEF TypeNumber
<1>2. /\ pc[w] = "prompt" /\ pc' = [pc EXCEPT ![w] = "clear"]
      /\ lines < MAX_LINES /\ lines' = lines + 1
      /\ left' = [left EXCEPT ![w] = Moves] /\ UNCHANGED <<segments, segment, shown>>
  BY DEF TypeNumber, Goto
<1>3. Overwritten(buffer[w], n) \in Buffers /\ Overwritten(buffer[w], n)[1] = n[1]
  BY OverwrittenType DEF TypeOK
<1>4. FirstCellInv'
  <2>1. Firsts(typed') = Firsts(typed) \cup {n[1]}
    BY <1>1 DEF Firsts
  <2> QED  BY <1>1, <1>2, <1>3, <2>1 DEF FirstCellInv, TypeOK, segments
<1>5. TypeOK'
  <2>1. buffer' \in [Processes -> Buffers] /\ mem' \in [Processes -> Buffers]
    BY <1>1, <1>2, <1>3 DEF TypeOK, segments
  <2>2. typed' \subseteq Numbers
    BY <1>1 DEF TypeOK
  <2> QED  BY <1>2, <2>1, <2>2 DEF TypeOK, Running, segments
<1>6. PcInv' /\ NameInv'
  BY <1>2 DEF TypeOK, PcInv, NameInv, Running, segments
<1>7. ShownWasTyped'
  BY <1>1, <1>2 DEF ShownWasTyped
<1> QED  BY <1>4, <1>5, <1>6, <1>7

LEMMA WriterInv ==
  ASSUME IInv, NEW w \in Writers, WriterStep(w) \/ UserOfWriter(w)
  PROVE  IInv'
<1> USE ConstantsType DEF IInv
<1>1. CASE WriterMaps(w) \/ TypeOther(w) \/ TypeHalf(w)
  <2>1. PICK state \in {"prompt", "spin"} : pc' = [pc EXCEPT ![w] = state]
    BY <1>1 DEF WriterMaps, TypeOther, TypeHalf, Goto, TypeOK
  <2>2. /\ Running(w) /\ UNCHANGED <<name, mem, segment, left, shown, typed, lines>>
        /\ buffer' = buffer \/ buffer' = [buffer EXCEPT ![w] = Unread]
    BY <1>1 DEF WriterMaps, TypeOther, TypeHalf, Running, segments
  <2>3. sized' \subseteq Processes
    BY <1>1 DEF WriterMaps, TypeOther, TypeHalf, TypeOK, segments, Running
  <2>4. {mem', buffer'} \subseteq [Processes -> Buffers] /\ FirstCellInv'
    <3>3. {mem, buffer} \subseteq [Processes -> Buffers]
      BY DEF TypeOK
    <3>4. buffer' \in [Processes -> Buffers]
      BY <2>2, Initially, <3>3
    <3>5. FirstCellInv'
      BY <2>2, Initially, <3>3 DEF FirstCellInv
    <3> QED  BY <2>2, <3>3, <3>4, <3>5
  <2>5. ShownWasTyped' /\ left' \in [Processes -> SUBSET Moves] /\ lines' \in 0..MAX_LINES
        /\ DOMAIN shown' = Readers
    BY <2>2 DEF ShownWasTyped, TypeOK
  <2> QED  BY <2>1, <2>2, <2>3, <2>4, <2>5, GotoInv
<1>2. CASE FillFirst(w) \/ FillSecond(w) \/ \E m \in Moves : Clear(w, m)
  BY <1>2, MovesInv
<1>3. CASE WriterBus(w) \/ shutdown_writer(w)
  <2>1. Running(w) /\ Ends(w, "ended") /\ UNCHANGED name
    BY <1>3 DEF WriterBus, shutdown_writer, Running
  <2> QED  BY <2>1, EndsInv DEF TypeOK
<1>4. CASE WriterOpens(w)
  BY <1>4, OpensInv DEF WriterOpens
<1>5. CASE TypeNumber(w)
  BY <1>5, TypeInv
<1> QED  BY <1>1, <1>2, <1>3, <1>4, <1>5 DEF WriterStep, UserOfWriter

LEMMA ReaderInv ==
  ASSUME IInv, NEW r \in Readers, ReaderStep(r) \/ UserOfReader(r)
  PROVE  IInv'
<1> USE ConstantsType DEF IInv
<1>1. CASE ReaderMaps(r) \/ ReaderBus(r)
  <2>1. PICK state \in {"copy", "bus"} : pc' = [pc EXCEPT ![r] = state]
    BY <1>1 DEF ReaderMaps, ReaderBus, Goto
  <2>2. /\ Running(r) /\ UNCHANGED <<segments, segment, buffer, shown, typed, lines>>
        /\ left' \in [Processes -> SUBSET Moves]
    BY <1>1 DEF ReaderMaps, ReaderBus, Running, TypeOK
  <2>3. /\ {mem', buffer'} \subseteq [Processes -> Buffers] /\ FirstCellInv'
        /\ ShownWasTyped' /\ sized' \subseteq Processes /\ lines' \in 0..MAX_LINES
        /\ DOMAIN shown' = Readers
    BY <2>2 DEF TypeOK, FirstCellInv, ShownWasTyped, segments
  <2> QED  BY <2>1, <2>2, <2>3, GotoInv DEF segments
<1>2. CASE CopyFirst(r) \/ CopySecond(r)
  <2> DEFINE m == mem[segment[r]]
             first  == [i \in Cells |-> IF i \in CopyMove(1) THEN m[i] ELSE Zero]
             second == [buffer[r] EXCEPT ![3] = m[3]]
  <2>1. /\ Running(r) /\ pc = [pc EXCEPT ![r] = "copy"] /\ segment[r] \in Processes
        /\ UNCHANGED <<segments, pc, segment, typed, lines>>
    BY <1>2 DEF CopyFirst, CopySecond, Running, TypeOK
  <2>2. /\ m \in Buffers /\ m[1] \in Firsts(typed) \cup {Zero}
        /\ buffer[r] \in Buffers /\ buffer[r][1] \in Firsts(typed) \cup {Zero}
    BY <2>1 DEF TypeOK, FirstCellInv
  <2>3. /\ first \in Buffers /\ first[1] \in Firsts(typed) \cup {Zero}
        /\ second \in Buffers /\ second[1] \in Firsts(typed) \cup {Zero}
    BY <2>2 DEF Buffers, Cells, CopyMove
  <2>4. left' \in [Processes -> SUBSET Moves]
    BY <1>2 DEF CopyFirst, CopySecond, TypeOK, Moves
  <2>5. buffer' = [buffer EXCEPT ![r] = first] \/ buffer' = [buffer EXCEPT ![r] = Unread]
    BY <1>2 DEF CopyFirst, CopySecond
  <2>6. CopySecond(r) => \E number \in Displays(r, Text(second)) :
                             shown' = [shown EXCEPT ![r] = number]
    BY DEF CopySecond
  <2>7. ~ CopySecond(r) => UNCHANGED shown
    BY <1>2 DEF CopyFirst
  <2> HIDE DEF m, first, second
  <2>8. {mem, buffer} \subseteq [Processes -> Buffers]
    BY DEF TypeOK
  <2>9. buffer' \in [Processes -> Buffers] /\ FirstCellInv'
    BY <2>1, <2>3, <2>5, <2>8, Initially DEF FirstCellInv, segments
  <2>10. ShownWasTyped' /\ DOMAIN shown' = Readers
    <3>1. CASE ~ CopySecond(r)
      BY <2>1, <2>7, <3>1 DEF ShownWasTyped, TypeOK
    <3>2. CASE CopySecond(r)
      <4>1. PICK number \in Displays(r, Text(second)) : shown' = [shown EXCEPT ![r] = number]
        BY <2>6, <3>2
      <4>2. number = shown[r] \/ (number = Text(second) /\ Text(second) # << >>)
        BY BeginningsNotEmpty DEF Displays
      <4>3. typed \subseteq Numbers
        BY DEF TypeOK
      <4>4. Text(second) # << >> =>
               \/ Text(second) \in typed
               \/ \E n \in typed : Len(n) > 1 /\ n[1] = Text(second)[1]
        BY <2>3, <4>3, NumberWasTyped
      <4> QED  BY <2>1, <4>1, <4>2, <4>4 DEF ShownWasTyped, TypeOK
    <3> QED  BY <3>1, <3>2
  <2>11. sized' \subseteq Processes /\ lines' \in 0..MAX_LINES /\ mem' \in [Processes -> Buffers]
    BY <2>1, <2>8 DEF TypeOK, segments
  <2>12. pc' = [pc EXCEPT ![r] = "copy"] /\ UNCHANGED <<name, segment, typed>>
    BY <2>1 DEF segments
  <2>13. r \in Processes /\ r \notin Writers
    OBVIOUS
  <2>14. /\ {mem', buffer'} \subseteq [Processes -> Buffers]
         /\ left' \in [Processes -> SUBSET Moves]
    BY <2>4, <2>9, <2>11
  <2>15. Running(r)
    BY <2>1
  <2>16. FirstCellInv' /\ ShownWasTyped' /\ DOMAIN shown' = Readers
    BY <2>9, <2>10
  <2>17. sized' \subseteq Processes /\ lines' \in 0..MAX_LINES
    BY <2>11
  <2> QED  BY <2>12, <2>13, <2>14, <2>15, <2>16, <2>17, GotoInv
<1>3. CASE shutdown_reader(r)
  <2>1. Running(r) /\ name' = Nobody /\ Ends(r, IF name = Nobody THEN "failed" ELSE "ended")
    BY <1>3 DEF shutdown_reader, Running
  <2>2. CASE name = Nobody
    BY <2>1, <2>2, EndsInv
  <2>3. CASE name # Nobody
    BY <2>1, <2>3, EndsInv
  <2> QED  BY <2>2, <2>3
<1>4. CASE ReaderKilled(r)
  <2>1. Running(r) /\ UNCHANGED name /\ Ends(r, "killed")
    BY <1>4 DEF ReaderKilled, Running
  <2> QED  BY <2>1, EndsInv DEF TypeOK
<1>5. CASE ReaderOpens(r)
  BY <1>5, OpensInv DEF ReaderOpens
<1> QED  BY <1>1, <1>2, <1>3, <1>4, <1>5 DEF ReaderStep, UserOfReader

LEMMA NextInv == IInv /\ [Next]_vars => IInv'
<1> SUFFICES ASSUME IInv, [Next]_vars PROVE IInv'
  OBVIOUS
<1>1. CASE UNCHANGED vars
  BY <1>1 DEF vars, segments, IInv, TypeOK, FirstCellInv, PcInv, ShownWasTyped, NameInv, Running
<1> QED  BY <1>1, WriterInv, ReaderInv DEF Next

\* Every variable keeps its type, and whoever maps a segment has opened one.
THEOREM TypeCorrect == Spec => []TypeOK
<1>1. IInv => TypeOK
  BY DEF IInv
<1> QED  BY InitInv, NextInv, <1>1, PTL DEF Spec

\* However the copies of a reader and the stores of the writers interleave, a
\* short number on the screen was typed, and a longer one begins as one that was
\* (the loops of main in shm_writer.c and shm_reader.c).
THEOREM NothingInvented == Spec => []ShownWasTyped
<1>1. IInv => ShownWasTyped
  BY DEF IInv
<1> QED  BY InitInv, NextInv, <1>1, PTL DEF Spec

\* Only the reader unlinks the segment: until one has, all who run share one
\* (shutdown of shm_writer.c and shm_reader.c).
THEOREM OnlyReadersUnlink == Spec => []NameGoesWithReader
<1>1. IInv => NameGoesWithReader
  BY ConstantsType DEF IInv, NameInv, NameGoesWithReader
<1> QED  BY InitInv, NextInv, <1>1, PTL DEF Spec
-----------------------------------------------------------------------------
(***************************************************************************)
(* Who takes a segment away.  `segment' keeps what a process has opened,   *)
(* also when it has ended, so that it says who has ever opened a segment.  *)
(***************************************************************************)
Opener(q) == \E w \in Writers : segment[w] = q
Contested(q) == \E w, e \in Writers : w # e /\ segment[w] = q /\ segment[e] = q

\* A process that has not started has opened nothing and displayed nothing.
OffInv ==
    /\ \A p \in Processes : pc[p] = "off" => segment[p] = Nobody
    /\ \A r \in Readers : shown[r] # Nobody => pc[r] \in {"copy", "bus"}

\* Only a writer gives a segment its size.
SizedInv == \A q \in sized : q \in Processes /\ Opener(q)

\* Of a segment that a number was read from, the pages go only with a second
\* writer; a reader that got SIGBUS has seen them go.
PagesInv ==
    \A r \in Readers : shown[r] # Nobody =>
        /\ segment[r] # Nobody
        /\ segment[r] \in sized \/ Contested(segment[r])
        /\ pc[r] = "bus" => Contested(segment[r])

StartedStates == {"opened", "prompt", "clear", "fill", "spin", "copy", "bus",
                  "ended", "failed", "killed"}

LostInv == OffInv /\ SizedInv /\ PagesInv

\* A process that opens a segment leaves who has opened it before: a writer that
\* truncates a segment of another makes two of them.
LEMMA OpensLost ==
  ASSUME IInv, LostInv, NEW p \in Processes, NEW kind, Opens(p, kind),
         (p \in Writers /\ Truncates(p)) \/ UNCHANGED sized
  PROVE  LostInv'
<1> USE ConstantsType DEF LostInv
<1>1. /\ pc[p] = "off" /\ pc' = [pc EXCEPT ![p] = "opened"] /\ segment[p] = Nobody
      /\ segment' = [segment EXCEPT ![p] = Opened(p)] /\ shown' = shown
      /\ DOMAIN pc = Processes /\ segment \in [Processes -> Processes \cup {Nobody}]
      /\ name \in Processes \cup {Nobody}
  BY DEF Opens, Starts, Goto, OffInv, IInv, TypeOK
<1>2. /\ \A e \in Processes : e # p => segment'[e] = segment[e] /\ pc'[e] = pc[e]
      /\ segment'[p] = Opened(p) /\ Opened(p) # Nobody /\ pc'[p] = "opened"
  BY <1>1 DEF Opened
<1>3. /\ \A q \in Processes : (Opener(q) => Opener(q)') /\ (Contested(q) => Contested(q)')
      /\ sized' \subseteq sized
      /\ \A q \in sized \ sized' : p \in Writers /\ segment'[p] = q
  BY <1>1, <1>2 DEF Opener, Contested, Truncates
<1>4. \A q \in sized \ sized' : Contested(q)'
  <2> SUFFICES ASSUME NEW q \in sized \ sized' PROVE Contested(q)'
    OBVIOUS
  <2>1. PICK w \in Writers : segment[w] = q /\ q # Nobody
    BY DEF SizedInv, Opener
  <2> QED  BY <1>1, <1>2, <1>3, <2>1 DEF Contested
<1>5. OffInv' /\ SizedInv'
  BY <1>1, <1>2, <1>3 DEF OffInv, SizedInv
<1>6. ASSUME NEW r \in Readers, shown'[r] # Nobody
      PROVE  \E q \in Processes : /\ segment'[r] = q
                                  /\ q \in sized' \/ Contested(q)'
                                  /\ pc'[r] = "bus" => Contested(q)'
  <2>1. r # p /\ segment'[r] = segment[r] /\ pc'[r] = pc[r] /\ segment[r] \in Processes
    BY <1>1, <1>2, <1>6 DEF OffInv, PagesInv
  <2>2. PICK q \in Processes : segment[r] = q
    BY <2>1
  <2>3. (q \in sized \/ Contested(q)) /\ (pc[r] = "bus" => Contested(q))
    BY <1>1, <1>6, <2>2 DEF PagesInv
  <2> QED  BY <1>3, <1>4, <2>1, <2>2, <2>3
<1>7. PagesInv'
  BY <1>6 DEF PagesInv
<1> QED  BY <1>5, <1>7

\* Any other step opens nothing.  It may give a segment that was opened its size,
\* display what it finds in one that has pages, or notice that they are gone.
LEMMA OthersLost ==
  ASSUME IInv, LostInv, NEW p \in Processes, Running(p), UNCHANGED segment,
         NEW state \in StartedStates, pc' = [pc EXCEPT ![p] = state],
         sized' = sized \/ (p \in Writers /\ sized' = sized \cup {segment[p]}),
         \A r \in Readers : r # p => shown'[r] = shown[r],
         p \in Readers /\ shown'[p] # Nobody => state \in {"copy", "bus"},
         p \in Readers /\ shown'[p] # Nobody /\ shown'[p] # shown[p] =>
             segment[p] \in sized /\ state = "copy",
         p \in Readers /\ state = "bus" => segment[p] \notin sized \/ pc[p] = "bus"
  PROVE  LostInv'
<1> USE ConstantsType DEF LostInv, StartedStates
<1>1. /\ DOMAIN pc = Processes /\ pc[p] # "off" /\ segment[p] \in Processes
      /\ sized \subseteq sized'
  BY DEF IInv, TypeOK, Running
<1>2. \A q : (Opener(q)' <=> Opener(q)) /\ (Contested(q)' <=> Contested(q))
  BY DEF Opener, Contested
<1>3. OffInv'
  BY <1>1 DEF OffInv
<1>4. SizedInv'
  BY <1>1, <1>2 DEF SizedInv, Opener
<1>5. PagesInv'
  BY <1>1, <1>2 DEF PagesInv
<1> QED  BY <1>3, <1>4, <1>5

\* A process that is gone displays nothing.
LEMMA EndsLost ==
  ASSUME IInv, LostInv, NEW p \in Processes, Running(p),
         NEW state \in {"ended", "failed", "killed"}, Ends(p, state)
  PROVE  LostInv'
<1>1. /\ pc' = [pc EXCEPT ![p] = state] /\ UNCHANGED <<sized, segment>>
      /\ \A r \in Readers : shown'[r] = IF r = p THEN Nobody ELSE shown[r]
  BY DEF Ends, Goto
<1> QED  BY <1>1, OthersLost DEF StartedStates

LEMMA WriterLost ==
  ASSUME IInv, LostInv, NEW w \in Writers, WriterStep(w) \/ UserOfWriter(w)
  PROVE  LostInv'
<1> USE ConstantsType
<1>1. w \in Processes /\ w \notin Readers /\ DOMAIN pc = Processes
  BY DEF IInv, TypeOK
<1>2. CASE WriterOpens(w)
  BY <1>1, <1>2, OpensLost DEF WriterOpens
<1>3. CASE WriterBus(w) \/ shutdown_writer(w)
  BY <1>1, <1>3, EndsLost DEF WriterBus, shutdown_writer, Running
<1>4. CASE \/ WriterMaps(w) \/ TypeNumber(w) \/ TypeOther(w) \/ TypeHalf(w)
           \/ FillFirst(w) \/ FillSecond(w) \/ \E m \in Moves : Clear(w, m)
  <2>1. /\ UNCHANGED <<segment, shown>> /\ Running(w)
        /\ sized' = sized \/ sized' = sized \cup {segment[w]}
    BY <1>4 DEF WriterMaps, TypeNumber, TypeOther, TypeHalf, FillFirst, FillSecond, Clear,
                Stores, Running, segments
  <2>2. \E state \in StartedStates : pc' = [pc EXCEPT ![w] = state]
    <3>1. \/ pc' = pc
          \/ \E state \in {"prompt", "clear", "fill", "spin"} : pc' = [pc EXCEPT ![w] = state]
      BY <1>4 DEF WriterMaps, TypeNumber, TypeOther, TypeHalf, FillFirst, FillSecond, Clear, Goto
    <3>2. pc = [pc EXCEPT ![w] = pc[w]] /\ pc[w] \in StartedStates
      BY <1>1, <2>1 DEF IInv, TypeOK, Running, StartedStates
    <3> QED  BY <3>1, <3>2 DEF StartedStates
  <2> QED  BY <1>1, <2>1, <2>2, OthersLost DEF StartedStates
<1> QED  BY <1>2, <1>3, <1>4 DEF WriterStep, UserOfWriter

LEMMA ReaderLost ==
  ASSUME IInv, LostInv, NEW r \in Readers, ReaderStep(r) \/ UserOfReader(r)
  PROVE  LostInv'
<1> USE ConstantsType
<1>1. r \in Processes /\ DOMAIN pc = Processes /\ DOMAIN shown = Readers
  BY DEF IInv, TypeOK
<1>2. CASE ReaderOpens(r)
  BY <1>1, <1>2, OpensLost DEF ReaderOpens
<1>3. CASE shutdown_reader(r) \/ ReaderKilled(r)
  <2>1. Running(r) /\ \E state \in {"ended", "failed", "killed"} : Ends(r, state)
    BY <1>3 DEF shutdown_reader, ReaderKilled, Running
  <2> QED  BY <1>1, <2>1, EndsLost
<1>4. CASE ReaderMaps(r) \/ CopyFirst(r) \/ CopySecond(r)
  <2>1. /\ Running(r) /\ UNCHANGED <<sized, segment>> /\ pc' = [pc EXCEPT ![r] = "copy"]
    <3>1. pc = [pc EXCEPT ![r] = pc[r]]
      BY DEF IInv, TypeOK
    <3> QED  BY <1>4, <3>1 DEF ReaderMaps, CopyFirst, CopySecond, Running, Goto, segments
  <2>2. shown' = shown \/ (segment[r] \in sized /\ \E n : shown' = [shown EXCEPT ![r] = n])
    BY <1>4 DEF ReaderMaps, CopyFirst, CopySecond
  <2> QED  BY <1>1, <2>1, <2>2, OthersLost DEF StartedStates
<1>5. CASE ReaderBus(r)
  <2>1. /\ Running(r) /\ UNCHANGED <<sized, segment, shown>> /\ pc' = [pc EXCEPT ![r] = "bus"]
        /\ segment[r] \notin sized
    BY <1>5 DEF ReaderBus, Running, Goto, segments
  <2> QED  BY <1>1, <2>1, OthersLost DEF StartedStates
<1> QED  BY <1>2, <1>3, <1>4, <1>5 DEF ReaderStep, UserOfReader

\* A reader that has displayed a number loses its segment to a second writer
\* only, whoever ends and in whichever order they start (shm_open with O_TRUNC and
\* ftruncate in shm_writer.c, handle_missing_writer in shm_reader.c).
THEOREM OnlyWritersTruncate == Spec => []LostToWriter
<1>1. Init => LostInv
  BY ConstantsType DEF Init, LostInv, OffInv, SizedInv, PagesInv
<1>2. IInv /\ LostInv /\ [Next]_vars => LostInv'
  <2>1. CASE UNCHANGED vars
    BY <2>1 DEF vars, segments, LostInv, OffInv, SizedInv, PagesInv, Opener, Contested
  <2> QED  BY <2>1, WriterLost, ReaderLost DEF Next
<1>3. LostInv => LostToWriter
  BY DEF LostInv, PagesInv, Contested, LostToWriter
<1> QED  BY InitInv, NextInv, <1>1, <1>2, <1>3, PTL DEF Spec
=============================================================================
