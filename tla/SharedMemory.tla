---------------------------- MODULE SharedMemory ----------------------------
(***************************************************************************)
(* Writers and readers of POSIX shared memory (posix_shared_memory/).      *)
(*                                                                         *)
(* A segment is named after the process that created it: it outlives its   *)
(* name as long as somebody maps it.  Its twelve bytes are three cells of  *)
(* four.  memcpy moves the first two with one instruction and then the     *)
(* third (gcc, which CMakeLists.txt does not ask to optimise); memset, of  *)
(* the C library, clears the first two with one, the last two with another *)
(***************************************************************************)
EXTENDS Naturals, Sequences, FiniteSets

CONSTANTS
    Writers, Readers,
    Nobody,         \* no segment, and no number
    Numbers,        \* a number is the sequence of its cells
    Zero,           \* a cell that was cleared
    Junk,           \* a cell of a buffer that no number was read into
    MAX_PROCESSES,  \* bound: the processes that start
    MAX_LINES       \* bound: the numbers typed

ASSUME ProcessesAssumption ==
    Writers \cap Readers = {} /\ Nobody \notin Writers \cup Readers

Processes == Writers \cup Readers
Cells == 1..3
Moves == {1, 2}
CopyMove(m)  == IF m = 1 THEN {1, 2} ELSE {3}
ClearMove(m) == IF m = 1 THEN {1, 2} ELSE {2, 3}

\* A cell that ends a number has a NUL in it, the others have none.
Firsts(numbers) == {n[1] : n \in numbers}
NumberCells == UNION {{n[i] : i \in DOMAIN n} : n \in Numbers}
LastCells   == {n[Len(n)] : n \in Numbers}

ASSUME NumbersAssumption ==
    /\ \A n \in Numbers :
           /\ n \in Seq(NumberCells) /\ Len(n) \in Cells
           /\ \A i \in 1..Len(n) - 1 : n[i] \notin LastCells
    /\ Zero # Junk /\ {Zero, Junk} \cap NumberCells = {}
ASSUME BoundsAssumption == MAX_PROCESSES \in Nat /\ MAX_LINES \in Nat

VARIABLES
    name,           \* the segment SHM_PATH designates
    sized,          \* the segments of SHM_SIZE bytes; the others have none
    mem,            \* the cells of each segment
    pc,             \* where each process is
    segment,        \* the segment each process has open
    left,           \* the moves that memset or memcpy has still to make
    buffer,         \* `input' of a writer, `buffer' of a reader
    shown,          \* the number each reader displayed last
    typed,          \* the numbers typed so far
    written,        \* the number each writer has left in its segment
    lines           \* how many numbers were typed

segments == <<name, sized, mem>>
vars == <<segments, pc, segment, left, buffer, shown, typed, written, lines>>

Empty == [i \in Cells |-> Zero]
\* Every line and every copy overwrites the first cell.
Unread == [i \in Cells |-> IF i = 1 THEN Zero ELSE Junk]

Init ==
    /\ name = Nobody
    /\ sized = {}
    /\ mem = [q \in Processes |-> Empty]
    /\ pc = [p \in Processes |-> "off"]
    /\ segment = [p \in Processes |-> Nobody]
    /\ left = [p \in Processes |-> {}]
    /\ buffer = [p \in Processes |-> Unread]
    /\ shown = [r \in Readers |-> Nobody]
    /\ typed = {}
    /\ written = [w \in Writers |-> Nobody]
    /\ lines = 0

Goto(p, state) == pc' = [pc EXCEPT ![p] = state]

\* The process is gone, and what it kept to itself with it.
Ends(p, state) ==
    /\ Goto(p, state)
    /\ left' = [left EXCEPT ![p] = {}]
    /\ buffer' = [buffer EXCEPT ![p] = Unread]
    /\ shown' = [r \in Readers |-> IF r = p THEN Nobody ELSE shown[r]]
    /\ UNCHANGED <<sized, mem, segment, typed, written, lines>>

\* The string in a buffer: what comes before the first NUL.  What is in a cell
\* of junk is not known; the string is taken to end with it.
Text(b) ==
    LET end == CHOOSE i \in Cells :
                   /\ b[i] \in LastCells \cup {Zero, Junk}
                   /\ \A j \in 1..i - 1 : b[j] \notin LastCells \cup {Zero, Junk}
    IN  SubSeq(b, 1, IF b[end] = Zero THEN end - 1 ELSE end)

\* The beginning of a number is a number too.
Beginnings == UNION {{SubSeq(n, 1, k) : k \in DOMAIN n} : n \in Numbers}

\* fgets leaves what is behind the text as the lines before left it.
Overwritten(b, text) == [i \in Cells |-> IF i <= Len(text) THEN text[i] ELSE b[i]]

-----------------------------------------------------------------------------
\* shm_open with O_CREAT: the segment that has the name, or a new empty one.
Opened(p) == IF name = Nobody THEN p ELSE name

\* Processes of a kind are alike until they start: this one starts next.
Starts(p, kind) ==
    /\ pc[p] = "off" /\ p = CHOOSE q \in kind : pc[q] = "off"
    /\ Cardinality({q \in Processes : pc[q] # "off"}) < MAX_PROCESSES

Opens(p, kind) ==
    /\ Starts(p, kind)
    /\ name' = Opened(p)
    /\ segment' = [segment EXCEPT ![p] = Opened(p)]
    /\ Goto(p, "opened")
    /\ UNCHANGED <<left, buffer, shown, typed, written, lines>>

\* O_TRUNC: what the segment held is gone, under everyone who maps it.
Truncates(p) ==
    /\ sized' = sized \ {Opened(p)}
    /\ mem' = [mem EXCEPT ![Opened(p)] = Empty]

WriterOpens(w) == Opens(w, Writers) /\ Truncates(w)

\* ftruncate, mmap and signal.
WriterMaps(w) ==
    /\ pc[w] = "opened"
    /\ sized' = sized \cup {segment[w]}
    /\ Goto(w, "prompt")
    /\ UNCHANGED <<name, mem, segment, left, buffer, shown, typed, written, lines>>

\* A number other than 0 is typed.
TypeNumber(w) ==
    /\ pc[w] = "prompt"
    /\ lines < MAX_LINES
    /\ lines' = lines + 1
    /\ \E n \in Numbers :
           /\ buffer' = [buffer EXCEPT ![w] = Overwritten(@, n)]
           /\ typed' = typed \cup {n}
    /\ written' = [written EXCEPT ![w] = Nobody]
    /\ left' = [left EXCEPT ![w] = Moves]
    /\ Goto(w, "clear")
    /\ UNCHANGED <<segments, segment, shown>>

\* "Not an integer. Try again."  The line may have been long.
TypeOther(w) ==
    /\ pc[w] = "prompt"
    /\ buffer' = [buffer EXCEPT ![w] = Unread]
    /\ UNCHANGED <<segments, pc, segment, left, shown, typed, written, lines>>

\* The console ends in the middle of a line: remove_newline never returns.
TypeHalf(w) ==
    /\ pc[w] = "prompt"
    /\ Goto(w, "spin")
    /\ UNCHANGED <<segments, segment, left, buffer, shown, typed, written, lines>>

\* A store to a segment that has lost its pages raises SIGBUS, which the
\* writer does not handle.
WriterBus(w) ==
    /\ pc[w] \in {"clear", "fill"}
    /\ segment[w] \notin sized
    /\ Ends(w, "ended")
    /\ UNCHANGED name

\* One move puts what `source' has there into some cells of the segment.
Stores(w, cells, source) ==
    /\ segment[w] \in sized
    /\ mem' = [mem EXCEPT ![segment[w]] =
                   [i \in Cells |-> IF i \in cells THEN source[i] ELSE @[i]]]
    /\ UNCHANGED <<name, sized, segment, buffer, shown, typed, lines>>

\* memset: its two moves, in either order.
Clear(w, m) ==
    /\ pc[w] = "clear" /\ m \in left[w]
    /\ Stores(w, ClearMove(m), Empty)
    /\ left' = [left EXCEPT ![w] = IF @ = {m} THEN Moves ELSE @ \ {m}]
    /\ IF left[w] = {m} THEN Goto(w, "fill") ELSE UNCHANGED pc
    /\ UNCHANGED written

\* memcpy: the first move, then the second.
FillFirst(w) ==
    /\ pc[w] = "fill" /\ left[w] = Moves
    /\ Stores(w, CopyMove(1), buffer[w])
    /\ left' = [left EXCEPT ![w] = {2}]
    /\ UNCHANGED <<pc, written>>

FillSecond(w) ==
    /\ pc[w] = "fill" /\ left[w] = {2}
    /\ Stores(w, CopyMove(2), buffer[w])
    /\ left' = [left EXCEPT ![w] = {}]
    /\ Goto(w, "prompt")
    /\ written' = [written EXCEPT ![w] = Text(buffer[w])]

Running(p) == pc[p] \notin {"off", "ended", "failed", "killed"}

\* Mutant: the writer unlinks the name too.
ShutdownWriterUnlinks(w) ==
    /\ Running(w)
    /\ Ends(w, "ended")
    /\ name' = Nobody

\* 0, the end of file or Ctrl+C: the segment and its name stay.
shutdown_writer(w) ==
    /\ Running(w)
    /\ Ends(w, "ended")
    /\ UNCHANGED name

-----------------------------------------------------------------------------
\* Mutant: the reader opens with the flags of the writer.
ReaderOpensTruncating(r) == Opens(r, Readers) /\ Truncates(r)

ReaderOpens(r) == Opens(r, Readers) /\ UNCHANGED <<sized, mem>>

\* mmap, which does not mind that the segment is empty, and signal.
ReaderMaps(r) ==
    /\ pc[r] = "opened"
    /\ Goto(r, "copy")
    /\ left' = [left EXCEPT ![r] = Moves]
    /\ UNCHANGED <<segments, segment, buffer, shown, typed, written, lines>>

\* memset of the buffer and memcpy: the first move, then the second.
CopyFirst(r) ==
    /\ pc[r] = "copy" /\ left[r] = Moves
    /\ segment[r] \in sized
    /\ buffer' = [buffer EXCEPT ![r] =
                      [i \in Cells |-> IF i \in CopyMove(1) THEN mem[segment[r]][i] ELSE Zero]]
    /\ left' = [left EXCEPT ![r] = {2}]
    /\ UNCHANGED <<segments, pc, segment, shown, typed, written, lines>>

\* Mutant: atoi for read_int_from_buffer, which makes 0 of nothing.
DisplaysZero(r, text) == {IF text = << >> THEN <<Zero>> ELSE text}

\* Mutant: `printed' is never reset.
DisplaysOnce(r, text) == {IF shown[r] = Nobody /\ text # << >> THEN text ELSE shown[r]}

\* What the reader may have displayed last.  The beginning of a number is
\* displayed, unless it is the number displayed before; nothing is passed over;
\* one number's end behind another's beginning may be too large for an int, and
\* junk may be anything.
Displays(r, text) ==
    IF text \in Beginnings THEN {text}
    ELSE {shown[r]} \cup (IF text = << >> THEN {} ELSE {text})

CopySecond(r) ==
    /\ pc[r] = "copy" /\ left[r] = {2}
    /\ segment[r] \in sized
    /\ \E number \in Displays(r, Text([buffer[r] EXCEPT ![3] = mem[segment[r]][3]])) :
           shown' = [shown EXCEPT ![r] = number]
    /\ left' = [left EXCEPT ![r] = Moves]
    /\ buffer' = [buffer EXCEPT ![r] = Unread]
    /\ UNCHANGED <<segments, pc, segment, typed, written, lines>>

\* handle_missing_writer: a load from a segment without pages.
ReaderBus(r) ==
    /\ pc[r] = "copy"
    /\ segment[r] \notin sized
    /\ Goto(r, "bus")
    /\ UNCHANGED <<segments, segment, left, buffer, shown, typed, written, lines>>

\* munmap, close, and shm_unlink of the name, whatever it designates.
shutdown_reader(r) ==
    /\ pc[r] \in {"copy", "bus"}
    /\ name' = Nobody
    /\ Ends(r, IF name = Nobody THEN "failed" ELSE "ended")

\* Ctrl+C before the handler is there.
ReaderKilled(r) ==
    /\ pc[r] = "opened"
    /\ Ends(r, "killed")
    /\ UNCHANGED name

-----------------------------------------------------------------------------
WriterStep(w) ==
    \/ WriterMaps(w) \/ FillFirst(w) \/ FillSecond(w) \/ WriterBus(w)
    \/ \E m \in Moves : Clear(w, m)

ReaderStep(r) ==
    \/ ReaderMaps(r) \/ CopyFirst(r) \/ CopySecond(r) \/ ReaderBus(r)
    \/ pc[r] = "bus" /\ shutdown_reader(r)

UserOfWriter(w) ==
    WriterOpens(w) \/ TypeNumber(w) \/ TypeOther(w) \/ TypeHalf(w) \/ shutdown_writer(w)

UserOfReader(r) ==
    ReaderOpens(r) \/ ReaderKilled(r) \/ (pc[r] = "copy" /\ shutdown_reader(r))

Next ==
    \/ \E w \in Writers : WriterStep(w) \/ UserOfWriter(w)
    \/ \E r \in Readers : ReaderStep(r) \/ UserOfReader(r)

Spec == Init /\ [][Next]_vars

\* A process that can run does.
FairSpec ==
    Spec /\ (\A w \in Writers : WF_vars(WriterStep(w))) /\ \A r \in Readers : WF_vars(ReaderStep(r))

-----------------------------------------------------------------------------
\* A number of three cells ends in the third.
Buffers == {b \in [Cells -> NumberCells \cup {Zero, Junk}] : b[3] \in LastCells \cup {Zero, Junk}}

\* Every variable has its type; whoever maps a segment has opened one.
TypeOK ==
    /\ name \in Processes \cup {Nobody}
    /\ sized \subseteq Processes
    /\ pc \in [Processes -> {"off", "opened", "prompt", "clear", "fill", "spin", "copy",
                             "bus", "ended", "failed", "killed"}]
    /\ segment \in [Processes -> Processes \cup {Nobody}]
    /\ left \in [Processes -> SUBSET Moves]
    /\ {mem, buffer} \subseteq [Processes -> Buffers]
    /\ typed \subseteq Numbers
    /\ DOMAIN shown = Readers
    /\ lines \in 0..MAX_LINES
    /\ \A p \in Processes : Running(p) => segment[p] # Nobody

\* A reader, which copies the segment while writers clear and fill it, never
\* displays a number of at most three characters that nobody typed; of a longer
\* one it may display the beginning, with the end of another or with junk behind
\* it, but only of one that was typed.
ShownWasTyped ==
    \A r \in Readers : shown[r] # Nobody =>
        \/ shown[r] \in typed
        \/ \E n \in typed : Len(n) > 1 /\ n[1] = shown[r][1]

\* A reader that has displayed a number only ever loses its segment to a
\* second writer that opened it: no reader, and no writer that ends, takes it
\* away.
LostToWriter ==
    \A r \in Readers : pc[r] = "bus" /\ shown[r] # Nobody =>
        \E w, e \in Writers : w # e /\ segment[w] = segment[r] /\ segment[e] = segment[r]

\* The name goes only with a reader that shuts down: otherwise a process that
\* starts finds the segment of the running writers, and a reader that finds no
\* name to unlink comes after another reader.
NameGoesWithReader ==
    \/ \E r \in Readers : pc[r] = "ended"
    \/ /\ \A w \in Writers : Running(w) => segment[w] = name
       /\ \A r \in Readers : pc[r] # "failed"

Alone(w) == \A e \in Writers \ {w} : segment[e] # segment[w]

\* A reader catches up: when the only writer of its segment has written a
\* number and rests, or has ended, the reader displays that number in the end.
ShowsLast ==
    \A w \in Writers, r \in Readers :
        <>[](/\ written[w] # Nobody /\ Alone(w)
             /\ pc[r] = "copy" /\ segment[r] = segment[w])
            => <>[](shown[r] = written[w])
=============================================================================
