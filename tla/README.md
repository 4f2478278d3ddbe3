# Linux-IPC: a formal model

TLA+ modules for the programs of this repository: what their processes do to
each other over sockets, queues and shared memory, checked with TLC on small
instances and proved with TLAPS for all sizes where a proof is within reach.

## 1. The system

| Part | Source | State | Operations | Talks to |
|---|---|---|---|---|
| Monitored descriptor table | `unix_domain_sockets/multiplexing/fd_set_mgmt.c` | array of `MAX_CLIENTS` slots | initialize, add, remove, refresh, max | both multiplexed servers own one |
| Routing table | `routing_table_manager/src/rtm.c` | list of records | insert, update, delete, contains, dump, send | server and every client hold one |
| Routing table server | `rtm_server.c`, `input.c` | table, descriptor table, dialogue state, record being typed | select loop, accept + dump, console line, broadcast, shutdown | clients (stream sockets), administrator (STDIN) |
| Routing table client | `rtm_client.c` | copy of the table | connect, apply a message, shutdown | server |
| Input parsing | `input.c`, `utils.c` | none | addresses, subnets, integers, lines | all programs |
| Sum server, multiplexed | `unix_domain_sockets/multiplexing/server.c` | descriptor table, one partial sum per slot | accept, service all readable slots, console | sum clients |
| Sum server, simple | `unix_domain_sockets/no_multiplexing/server.c` | one connection, one sum | accept, read until 0, answer | sum clients |
| Sum client | `unix_domain_sockets/client.c` | one connection | send ints, read the result | a sum server |
| Socket paths | all three socket servers | names in `/tmp` | unlink + bind at start, unlink at exit | servers of the same path, clients |
| Message queue | `posix_message_queues/` | kernel queue, its name | open/create, send, receive, unlink | sender and receiver |
| Shared memory | `posix_shared_memory/` | segment, its name | create, size, write, read, unlink | writer and readers |
| Unit tests | `routing_table_manager/unity/`, `tests/test_input.c` | totals, two flags of the current test | run a test, assert, ignore, abort, conclude | call input parsing |
| Linked list | binary library | nodes | insert at end, remove at index, free | routing table |

Hard behaviours, and what makes each part right:

* *Routing table manager.* One thread serves all clients. Between two writes of
  a broadcast, clients connect, read, block the server by not reading, and die;
  the slot array and the descriptor space run out; the console may be in the
  middle of a three-line dialogue when a client is accepted. It is right when a
  client that is monitored holds, once it has read everything, the server's
  table in the server's order; when every message applies to the copy it meets;
  when records are complete and unique; and when ends are noticed.
* *Sum servers.* A stream has no message boundaries: several integers may come
  in one read. Right when the result is the sum and every client gets one.
* *Socket paths, queues, shared memory.* Start order, restarts, several
  instances over one name; torn reads. Right when no instance takes away the
  name another uses, and a reader sees only values that were written.
* *Input parsing.* Right when exactly what spells a number, an address or a
  subnet is accepted, is read as what it spells, and leaves nothing wrong in the
  record it is read into.
* *Unit tests.* A failed assertion jumps out of whatever called it. Right when a
  test counts as what it was told first and does not colour the next one, and
  when an assertion holds of exactly the values its name promises.

## 2. Modules

| Module | What it is |
|---|---|
| `FdSetMgmt` | the slot array, as operators over its value |
| `RoutingTable` | the list of records, as operators; messages and what they do |
| `Rtm` | server, administrator, clients and sockets as a state machine; all its properties |
| `RtmService` | the abstract service: one table, subscribers, the tables still ahead of each client |
| `RtmRefinement` | the refinement mapping from `Rtm` to `RtmService` |
| `SumClient` | the client of both sum servers, its connection, and what a server does to it |
| `SumServer` | the sum server with multiplexing, on `FdSetMgmt` and `SumClient` |
| `SumServerSimple` | the sum server without multiplexing, on `SumClient` |
| `SumService` | the abstract service of both: an account for each client |
| `SharedMemory` | writers and readers of a segment that is copied cell by cell |
| `MessageQueue` | servers and clients of a queue that whoever comes first creates |
| `SocketPath` | the name of a socket, through the starts, ends and crashes of its servers |
| `Input` | lines, integers, addresses and subnets: operators on sequences of characters |
| `Unity` | the runner of the unit tests as a state machine |
| `UnityAssertions` | the assertions and the printing of integers, as operators |
| `TestInput` | `test_input.c`: tests that call `Input`, run by `Unity`; all properties of the three |
| `MCRtm`, `MCSum`, `MCSumSimple`, `MCSharedMemory`, `MCMessageQueue`, `MCSocketPath`, `MCTestInput` | instances for TLC |
| `TableLemmas` | lemmas about `FdSetMgmt` and `RoutingTable`, proved |
| `RtmProofs` | theorems about `Rtm`: types and control points; the slot array; the tables, and that `Rtm` implements `RtmService` |
| `SumServerProofs`, `SumSimpleProofs` | theorems about the two sum servers, and that each implements `SumService` |
| `SharedMemoryProofs`, `MessageQueueProofs`, `SocketPathProofs`, `TestInputProofs` | theorems about the module of that name |

### How `Rtm` corresponds to the code

A step is what happens between two points at which another process can observe
the server. `spc` names the point: `startup` (handlers installed, no table yet),
`select`, `accept` and `admin` (select has returned for the socket or the
console), `dump` and `sync` (in the loop of `dump_rtm_contents` or
`send_synchronization_message`, about to write number `pos`), `flush` (in the
`getchar` loop of `remove_newline`), `spin` (the same, at end of file), `quit`
(in `shutdown_server`, called for `q`) and three ways to have ended.

A line of the console is one step, together with everything the handler does up
to the first write. The text is abstracted to its outcome: which menu option,
which address, rejected or not. Parsing writes through its arguments before it
has seen the whole line, so a rejected line may change `record`
(`RejectedSubnets`); `record` and `entry` start with arbitrary content.

`chan[c]` holds whole messages: each is written by one `write` and read by one
`read` of the same size on a stream socket, so boundaries coincide. A write
blocks while `SNDBUF` messages are buffered and fails once the client is gone.
Descriptors are the numbers the kernel would give: the lowest that is not open.

`RejectedSubnets` is what `TestInput!SubnetsRead` says a rejected line can leave.

SIGINT may come between any two steps. Where the handler is not safe the model
says what may follow: before the table exists a null pointer is dereferenced;
during `shutdown_server` or `shutdown_client` everything is freed or closed a
second time.

Left out: a client started before the server has bound its path (`connect`
fails, nothing else happens), failing `malloc`, SIGINT inside the list library,
and signals other than SIGINT.

### What is promised: `RtmService`

`views[c]` is the sequence of tables client `c` is going to hold, the first
being the one it holds now. Joining makes it all prefixes of the table; a commit
appends the new table for every subscriber in one step. `Rtm` implements this
with `views[c]` the tables obtained by applying what is in `c`'s socket and what
the server is committed to write to it (`InFlight`).

### How the sum servers correspond to the code

A client that is accepted while all slots are taken is in none of them: `select`
never watches its descriptor, so that it is not read, answered or closed, even when
slots are free again. `Monitored` tells the clients with a slot from such a one.

The unit of the stream is the int: the client writes one at a time, and a read of
the server takes the first `READ_INTS` (128 bytes, 32 ints) of those that have
arrived. `Data` is the first of them, or 0 at end of file because the buffer was
cleared; the rest of what was read is gone (`Unread`). `Patient` names the clients
whose users type the next int only when the last one has been read: what the
program gets right for them, it gets wrong for others.

`SumServer` follows `main`: `select` returns the ready descriptors (those below
`get_max_fd() + 1`) and one of three handlers runs. `handle_service_request` is
one step for each slot; a slot that is answered takes a second one, because the
client may go, and Ctrl+C come, between its read and the write. `read_fds` is
the copy the handler got, which the model keeps while slots are closed and freed
under it. Descriptors are closed here, so numbers come back. `FD_ISSET(-1)` tests
bit 63 in an unoptimised build on 64-bit machines, `WRAP_BIT` in the model; with
optimisation and a fortified C library it would abort instead.

`SumServerSimple` is accept, read until 0, answer. Both implement `SumService`, in
which `account[c]` is the partial sum of the slot that holds `c`'s descriptor, or
the variable `sum`, and `LOSS` says how many ints may vanish behind one that is
added. A client may also be left spinning in `remove_newline` (its input ended in
the middle of a line), which holds up everybody behind it at the simple server.

Left out: the arithmetic beyond two's complement wrap-around (overflow of an int is
undefined in C; the build has no sanitizer and wraps), errors of `read` on the
console, and a server that finds its path in use (`SocketPath`).

### How `SharedMemory` corresponds to the code

A segment is named after the process that created it and outlives its name. Its
twelve bytes are three cells of four, the largest pieces that no access cuts.
gcc without optimisation, which is what `CMakeLists.txt` leaves it at, expands
memcpy into a move of eight bytes and then one of four. memset is the C library's:
two overlapping moves of eight, which the model makes in either order. Writers and
readers stop between any two moves (`Clear`, `FillFirst`, `FillSecond`, `CopyFirst`,
`CopySecond`). A number is the sequence of its cells, up to the one with its NUL,
so that the beginning of a number is a number too. What a mixture reads as is
left open: the end of one number behind the beginning of another may or may not
fit an int, and what `fgets` never wrote (`Junk`) may or may not be digits, so
`Displays` gives the set of the numbers that the reader may then hold.

`sized` holds the segments that have pages: `O_TRUNC` takes them away under
everyone who maps the segment, and a load or store then raises SIGBUS, which the
reader turns into its shutdown and which ends the writer. `buffer` keeps what
`fgets` leaves behind a shorter line: memcpy copies it along. The writer's local
`shm_fd` hides the global one, so that its shutdown closes descriptor 0; the
process ends right after, and nothing comes of it.

### How `MessageQueue` corresponds to the code

A queue, too, is named after its creator. The server creates it with its own
attributes, the client with mode 0 and default ones: `MayOpen` lets nobody but
the `Privileged` open the latter, and `MsgSize` is 8192 there, which is more than
the buffer the server passes to `mq_receive`. `select` and `mq_receive` are two
steps, so two servers race for one message. `mq_send` blocks on a full queue and
gives up a message that is too long; in the code the size of a message is
`MAX_MESSAGES`, ten.

### How `SocketPath` corresponds to the code

The steps of `initialize_server` are separate: unlink, bind, listen, the
handler. A server may be killed at any point, and then its name stays. The
routing table server checks the unlink of its shutdown (`Strict`); the sum
servers do not. `before` is history: who was over when a server started.

### How `Input`, `Unity` and `TestInput` correspond to the code

A text is a sequence of characters. `strtol`, `strsep` and `strndup` are modelled
by what they do, with ranges for `int` and `long` as constants; what the code
makes of their results is taken from `utils.c` and `input.c`, with the stores that
happen before a line turns out to be wrong.

`Unity` has one action for each function of the runner that changes its state.
`pc` says which code runs; an assertion that fails, `UnityIgnore` and `TEST_PASS`
go to the end of the `TEST_PROTECT` block (`Abort`). `outcome` is history: the
first line printed for the test. `UnityAssertions` says of each assertion for
which arguments it returns; floating point numbers are the finite ones scaled to
integers, two infinities and NaN.

`TestInput` is a test program of that shape: a test writes any text of `Texts` into
its buffer, asserts a status for it, and the assertion may fail; set-up and
tear-down, which are empty in `test_input.c`, may fail or ignore a test too. The
tables `Integers_`, `Addresses` and `Subnets` are the texts of `test_input.c`.

## 3. Runs

Deadlock is not checked: servers, clients and test programs end.

| Run | Instance | Shows |
|---|---|---|
| `RtmSafety` | 3 clients, one slot for them, descriptors for 2, 2 addresses, 2 gateways, 1-message sockets; 1,029,437 states | type invariant; `Initialised`, `UniqueKeys`, `CheckedSubnetCurrent`, `EveryMessageApplies`; `MonitorSound`, `InSync`, `StaysMonitored` when slots, descriptors and buffers run out |
| `RtmLive` | 2 clients, 2 slots for them, 2 addresses, 1-message sockets | `Rtm` implements `RtmService`; `ClientsFollowServer`, `PendingIsAccepted`, `WritesComplete`, `Converges` |
| `SumMultiplexed` | 3 impatient clients, 2 client slots, 2 client descriptors; 583,346 states | `SlotsClean`, `ReadSetCurrent` when slots and descriptors are used again within and between passes |
| `SumLive` | a patient and an impatient client, 1 slot for both, 2-bit ints; 93,871 states | `SumServer` implements `SumService`; `TypeOK`, `DescriptorsLow`; `PendingIsAccepted`, and `ResultArrives`, `GoneIsReclaimed` for whoever has the slot |
| `SumSimple` | a patient and an impatient client, 3-bit ints; 39,131 states | `SumServerSimple` implements `SumService`; clients are answered in the order in which they connected (`OneAtATime`); `ResultArrives` |
| `SharedMemory` | 3 of 2 writers and 2 readers, numbers of 1, 2 and 3 cells, 2 lines; 345,713 states | `ShownWasTyped`, `LostToWriter`, `NameGoesWithReader`; a reader catches up (`ShowsLast`) |
| `MessageQueue` | 2 servers, 2 clients, room for 1 message, 3 lines, one of them too long; 202,696 states | `ServerFirstNeverFails`, `NameGoesWithServer`; `SenderProceeds`, `QueueIsDrained` |
| `SocketPath` | 3 servers, one strict; 3,379 states | `AloneIsReached`, `RaceHasWinner` |
| `TestInput` | 2 tests, all texts of up to 6 characters over 7; 137,340 states | `NumbersRead`, `AddressGrammar`, `SubnetsRead`, `RepositoryTests`, `AssertionsExact`, `VerdictIsFirst` |
| `RtmDescriptors`, `RtmStaleSlot`, `SumCoalesced` | | statements of the documents the code does not live up to (section 5) |

Bounds. Each client process runs once, so a run is finite without a state
constraint; the table is bounded by the number of subnets because keys are
unique. Two addresses are enough for the list to have a first and a last record,
for a delete in the middle of a dump of two, and for a dump to block
between records when a socket holds one message. Three clients over one slot
are more than the least instance in which a newcomer finds the array full while
a broadcast fails, and in which a dead client holds the slot that a live one
needs; in `RtmLive` a broadcast has a client before and one after the other.
Accept fails in `RtmSafety`, where the third connection finds no descriptor.
`BACKLOG` 0 lets one connection wait (the kernel admits one more than asked for),
1 lets two. Addresses and gateways are interchangeable there, which `DataSymmetry`
uses; the properties of that run are safety properties and name none of them.

A sum client sends `MAX_INTS` ints other than 0; two are enough for a sum to wrap
around in 2 bits and for a read to swallow an int and the 0 behind it. Two clients
are the least that are served in one pass or in turn. In `SumMultiplexed` two slots
are the least for a pass that serves two clients from one read set; a third client
takes the slot and the descriptor that are freed, or finds no descriptor and makes
accept fail.

`SumLive` has one slot, so that the second of two clients finds the array full and
gets a descriptor above the slots; who comes second either finds the slot given back
or has none for good. `ResultArrives` and `GoneIsReclaimed` are about whoever has the
slot, and say so. `DescriptorsLow` could also fail for a newcomer behind a client
without a slot; that takes three clients, too many for the fairness of this run, and is
left to the theorem. The instance with a slot for each client (`MAX_CLIENTS = 4`,
`WRAP_BIT = 6`, 256,683 states), where two clients are served in one pass,
satisfies the same properties; it is the same question with nothing scarce, and not
a run of its own.

Of the two writers and two readers of `SharedMemory` at most `MAX_PROCESSES`, 3,
start, in all combinations: two readers under one writer, or two writers whose
stores mix under one reader. Processes of a kind start in one order, which stands
for all. Two lines are a number and one that overwrites it; with numbers of one,
two and three cells the beginning of each long one meets the end of the other. In `MessageQueue` a queue with room for one
message is full as soon as it is not empty, and three lines (`MAX_LINES`) fill it,
block a second sender, and block it again. Three servers are two rivals and one
that starts over what they left.

In `TestInput` six characters hold an address of two groups and a mask with
one character to spare; the limits are scaled so that texts of that length pass
them on both sides: groups and masks from 0 to 2, buffers of 4 bytes, ints from
-22 to 21, longs from -220 to 219. `RepositoryTests` uses the program's own
limits for addresses and masks, and narrower integers because TLC's end at 32
bits. `AssertionsExact` ranges over all pairs of ints of `UNITY_BITS` (4) bits, all
pairs of arrays of `ELEMENTS` (3) values out of two, all pairs of strings of up to
two characters, and prints all numbers of `PRINTED_BITS` (8) bits, the least width
with numbers of three digits; a mask shows the low `UNITY_INT_WIDTH` (4) of them.

Fairness. `Fairness` asks that a server that has something to do goes on, and
that each client that is not blocked in `read` goes on: the kernel schedules
runnable processes. It asks nothing of the administrator, of Ctrl+C, or of
anyone who might start a client. `SumServer` and `SumServerSimple` make the same
assumption about the server and about a client that waits for its result; users
who type are the environment, and the leads-to properties say which of them they
depend on (`HoldsUp`, a console that is quiet in the end). `SharedMemory` and
`MessageQueue` ask that each process that can run does; opening, typing, Ctrl+C
and the end of the console are left to the user. Weak fairness of a whole
process is enough for `SenderProceeds` because `mq_send` of a waiting client is
enabled as long as the queue has room, and no room is lost but to another
sender, whose lines are bounded: with unbounded rivals the claim would need the
order in which the kernel wakes senders. A client stopped for
good (Ctrl+Z) is outside this assumption, and would block the server once its
socket is full.

## 4. Proofs

`RtmProofs!TypeCorrect` proves `Spec => []TypeOK` for any number of clients,
slots, descriptors and any data, assuming `RtmAssumption` and
`MaxClientsAssumption` (the constants are naturals, there are two slots, `Uninit`
is no value of a field). The inductive invariant is `TypeInv`: the types, and
`PcInv`, which says that a handler is entered in a state it can handle: without
"a connection is pending when accept is called" and "the loop index is in range"
the types are not preserved.

It also proves `SlotsSound` (`Spec => []MonitorSound`) and `SlotsKept`
(`Spec => StaysMonitored`). Neither is inductive. That a newcomer's descriptor is
in no slot needs `FdInv` and the second part of `SlotInv`: every descriptor in a
slot is that of some client, so one the kernel hands out afresh is not among
them. That a failed write frees the right slot needs descriptors to be distinct
(`FdInv`); that the write of a dump never takes STDIN or the listening socket out
needs `DumpInv`. And accept gives the descriptor to the client that has none only
because a client waits in the backlog once and before it is accepted
(`BacklogInv`). The `SlotsSound` argument fails for a server that closed
descriptors without freeing their slots; this one does neither.

The third part of `RtmProofs` is about the tables, in two layers.

* `ControlInv` adds to the slots what the dialogue knows (`DialogueInv`) and who has
  an empty socket and an empty table (`EmptyInv`). `DraftInv` says which fields of
  `record` have been typed: all once the table has a record, and in state `CREATING` or `UPDATING` destination and mask,
  and the gateway once it was asked for. With `CheckedSubnetCurrent` it is inductive,
  because the table only changes with the line that ends a dialogue. `MessageInv`
  says that the message of a broadcast is complete. `AnswerStaysTrue` follows.
* `TableStep` says what any step does to the table, to each client's copy and to
  `Due`, the messages it has not applied yet: nothing (`Quiet`), or a client joins
  and is owed the whole table, applies its next message, leaves, or the table
  changes and the change is owed to all subscribers (`Commits`), or the server
  stops. `EveryTableStep` derives it from `ControlInv`, action by action; the middle
  of a dump or a broadcast is quiet, because a write moves a message from what the
  server owes to what the socket holds. The rest is about `TableStep` alone.
* `Sound(copy, due)` says that the copy's subnets are unique, that every message due
  applies to the table it will meet, and that it is complete. `DataInv`: it is so of
  every client, and for a subscriber applying everything gives the
  server's table. `NothingUninitialised`, `KeysUnique`, `MessagesApply` and
  `CopiesInSync` follow; none is inductive without the others, since an insert keeps
  subnets unique only if it applies.
* `RtmImplementsService`: `TableStep` is a step of `RtmService` under the mapping of
  `RtmRefinement`. `views[c]` is read off `Views`, so what was needed are lemmas on how
  `Views` of a tail, a prefix and an extension of a sequence relate to those of the
  sequence. `Views` is a recursive function; `RunExists` and `TurnsAgree` show that it
  exists and is unique, by the least index at which it would fail.

`TableLemmas` holds what the walks and scans return. They stop at the first
match, so the lemmas need the least element of a set of naturals. The library's
induction principles take an operator as a parameter, which the provers cannot
instantiate; `LeastElement` gets it from the theorem on lexicographic orders.

`SumServerProofs` is about the multiplexed sum server, for any number of clients,
slots and descriptors, ints of any range `-INT_MAX - 1 .. INT_MAX` and reads of any
size. It assumes that there are descriptors for the console and the listening socket
(`FD_LIMIT > 3`), that the bit of a free slot lies beyond the slots (`WRAP_BIT`,
63 against at most 32 slots in the program) and that users type ints. `IInv` is
`TypeOK` and five parts:

* `ConnInv`: a connection waits in the backlog once; who has one open was not answered.
  `FdInv`: a descriptor belongs to one open connection. `SlotInv`: `SlotsClean`, and a
  slot is free or holds the console, the socket or a client.
* `LowInv` is what makes `SumDescriptorsLow` inductive: a descriptor is in a slot if
  and only if it is at most `MAX_CLIENTS + 1`. accept gives the lowest descriptor
  that is not open. As many descriptors are that low, without that of the standard
  outputs, as there are slots (`LowFdsCount`); so if a slot is free, one of them is
  not open (`FreeMissesOneLow`) and the newcomer's is low; and if the slots are full they
  hold all of them (`FullHoldsAllLow`), and the newcomer's is high. A client that finds
  no slot is never served, and its high descriptor never meets one that is freed later.
* `PassInv`: a slot behind `pos` that the read set selects belongs to a client that
  was ready when select returned. It still is: reads of earlier slots take from
  other connections, a client that has gone stays readable, and a descriptor that
  was closed is not given out before the pass is over. `SumReadSetCurrent`.

`SumSlotsClean` is used by `SumServerImplementsService`: each step is described by what
it does to `up`, the accounts and who is due (`ReadEffect`, `PaysOut`, `EndStops`,
`AcceptUnnoticed`), and each such effect is a step of `SumService` or a stutter. A
newcomer's account is empty because its slot is clean.

`SumSimpleProofs` does the same for the server without multiplexing. `CurrentInv` says
that what is open is what is being served, and nothing is between two clients;
`SimpleServerImplementsService` follows. `SimpleOneAtATime` is about the line of
the clients who have connected, the one that is served first (`Line`): in a step of any
kind it stays, gains a client at its end, or loses its head, which is then over
(`LineStep`, from one lemma for each kind of step), and only its head has an open
connection (`FirstOpen`, from `CurrentInv`). The lemmas about the client are those
of `SumServerProofs`.

`SocketPathProofs`: `LoneServerIsReached`, `SomebodyBinds` and types, for any
number of servers. The invariant says that whoever was over when a server started
is over for good and has lost the name (`BeforeInv`), because every start unlinks;
so a server that has no rival finds the name free (`FreeInv`). A server that
cannot bind sees the name of one that has bound and has not shut down
(`PathInv`), and both run, hence are rivals.

`MessageQueueProofs`: `NothingFails`, `OnlyServersUnlink` and `TypeCorrect`, for any
processes, permissions and sizes with `MSG_SIZE <= INT_LEN`. What it needs is that
a queue's creator has it open (`CreatorInv`): a process that is refused, or a
server that fails, has met a queue of a client, and that client came first. The
bound on sizes is an assumption of the theorem and not of the code: the message
size is a macro about the number of messages.

`SharedMemoryProofs`: `NothingInvented`, `OnlyReadersUnlink`, `OnlyWritersTruncate` and
`TypeCorrect`, for any processes and numbers. All that `ShownWasTyped` needs is that a first cell,
wherever it is, begins a number that was typed or was cleared (`FirstCellInv`):
stores and copies move cells whole, and whether a number goes on is written in its
first cell, which has a NUL or has none (`NumbersAssumption`). With a move that cuts
the first cell it would not follow. `NameInv` adds the readers to
`NameGoesWithReader`: without it a reader could find no name although none has
ended. `OnlyWritersTruncate` (`LostToWriter`) rests on `LostInv`: a segment that has
pages was given them by a writer (`SizedInv`), so one that a number was read from has
been opened by one writer, and if it has no pages now, by another (`PagesInv`), since a
writer opens once and only opening truncates.

`TestInputProofs` has three parts. The first is about the runner: `FirstVerdictCounts`,
`TestsAreCounted` and `TypeCorrect`, for
any number of tests and any texts. A step of the test program is a step of the
runner or none of its business (`NextIsUnity`). The invariant ties the two flags
to the first line that was printed while a test runs, and to nothing between tests
(`FlagsInv`). `EveryTestCounts` (totals add up, `main` returns the failures) is
stated by a theorem only.

The second part is about the readers: `NumbersAreRead`, `AddressesAreRead` and
`SubnetsAreRead`, for texts of any length over any alphabet, any number of groups and
any limits. The assumptions are that ints lie strictly between the longs and contain 0,
the limits of groups and masks among them (`LimitsAssumption`), and that the
smallest number of digits that fills `INT_BUFFER` is no int (`BufferAssumption`: 12
bytes and 11 digits against 32 bits in the program); without it a console could cut a
number to another that is valid. The properties speak of the text only, so all they need
of a state is `TypeOK`; the work is in what the operators return.

* `strtol` stops at the limit of a long while it counts, and `Positional` does not.
  `CountedClamps` says that the two agree or that both are beyond, digit by digit;
  `StrtolIs` cuts a text into blanks, sign, digits and rest, `SpeltParts` says that the
  cut of a number that is spelt to the end is the only one (`MeaningIs` rests on it: the
  spelling that `Meaning` chooses does not matter), and `IntRead` joins them.
* A line that fills the buffer is cut after as many digits as the smallest number that
  is no int has; a number as long without a leading zero is no smaller
  (`PositionalGrows`, `FullBufferOverflows`), so that it is rejected (`LineRead`).
* `strsep` is `Tokens`: the stretches between marks. `Mark(marks, k)` has k - 1 marks
  before it; that there is one for each k is `MarkIs`, that consecutive ones have no
  separator between them `Stretches`. `AddressGrammar` says the same with pairs of
  neighbouring ends, and `TokenStretches` shows that these are the tokens. Groups are
  what `strtol` takes (`NumberGroup`); that groups of plain digits (`DigitGroup`) are
  among them is `DigitsAreNumber`.
* `SubnetRead` goes through the stores of the reader in their order. `HeadOfHead` is
  why a stored address is one that is accepted: it is cut to the size that it was
  checked in.

The third part is `AssertionsAreExact`: the assertions of `unity.c` hold exactly when
their names say so, for ints of any width (`UNITY_BITS`), arrays of any length of any
values, and any strings without a NUL (`AssertionsAssumption`). Floating point numbers
of an array are accepted up to a fraction of the expected one, whatever the fraction:
`Fraction` turns the quotient into a product, `ToleranceIs` the rest. Where one string
is expected of all elements it is a pointer to characters, which is why NULL is
then refused against any element. The difference of two
ints is taken in unsigned arithmetic and may be as large as the largest unsigned one:
`Difference` and `Casts` say why it is nevertheless the distance. `PowerOfTwo` gets
`2^(w + 1) = 2 * 2^w` from the theorem on the number of subsets, since the provers know
nothing of powers.

`PrintsAreRead` is the conjunct of `AssertionsExact` about what is printed of a number,
whose width is any multiple of four bits as long as a long holds it
(`PrintedAssumption`).

* Decimal. The code divides by the largest power of ten that is not above the number,
  then by a tenth of it, and so on. `DividedTwice` and `OneQuotient` let the quotients
  of one number be compared with each other, which gives `DecimalIs`: the `Positional`
  value of what is printed is the number. `NumberReadBack` then follows from what
  `StrtolIs` says of `strtol`, and numbers that look alike are equal.
* Hexadecimal and binary. `SameDigits`: two numbers have the same digits in a base
  exactly if they have the same remainder by the power of the base; `HexesDiffer` and
  `SameBits` are its cases of sixteen and two. `MasksShow` and `BitsEqual` rest on the
  latter and on `AllBits`, that the largest unsigned number has every bit.

What replaces induction there: the library's principles take an operator as a parameter,
but a set can stand for it. `Induction` is about any set of naturals that has 0 and
the successor of each of its members; it follows from `FS_Injection`, that
an injection of a finite set into itself is onto. `Recursion` then gives a function
to every definition by recursion over `0..n` whose step is given as a function, which
is how `Counted` and `Positional` are unfolded.

The types of `SharedMemory`, `MessageQueue`, `SocketPath` and the runner are proved
and are not repeated in the runs. All safety properties of the runs that expect no
violation are proved but `RepositoryTests`, which is about the texts of one file and
is settled by evaluating them.
Liveness under fairness (`ClientsFollowServer`, `PendingIsAccepted`, `WritesComplete`,
`Converges`, `ResultArrives`, `GoneIsReclaimed`, `ShowsLast`, `SenderProceeds`,
`QueueIsDrained`) stays with TLC as well. `SumServerSimple!TypeOK`, which is proved, and
`TestInput!TypeOK` are in no run: they were checked on the instances above and
document the variables.

## 5. Where code and documents disagree

With a run:

* `RtmDescriptors`: the descriptor of a client that has gone is never closed.
* `RtmStaleSlot`: nor is its slot freed before the next broadcast, so that a
  newcomer may find none and never see a change.
* `SumCoalesced`: ints written before the server reads come in one read, of which
  only the first is added; if the 0 is among the others, nobody moves again.

Without one, but in the models:

* The multiplexed sum server accepts a client for which it has no slot, and never
  reads, answers or closes its connection, even when it has slots again: the
  client waits for ever, and its descriptor is lost when it gives up. `ResultArrives`
  and `GoneIsReclaimed` exclude it by name (`Monitored`).
* The comment at `input.c:18-21` wants groups of digits between the dots of an
  address, but what `strtol` takes is accepted: `-0`, `+1` and ` 2` are groups too.
  `AddressGrammar` says exactly which are.
* Ctrl+C at the table server between the registration of the handler and the
  creation of the table dereferences a null pointer, and a second one during the
  shutdown frees everything again (`spc = "crashed"`).
* At end of file in the middle of a line `remove_newline` never returns, in any
  of the programs (`"spin"`). At end of file the console of the multiplexed sum
  server is always ready, and the server never reads from a client again.
* A message queue takes messages of `MAX_MESSAGES` bytes, so that an integer of
  ten characters or more is refused, though the buffers hold any int.
* A queue that a client creates cannot be opened by anyone else, or ends a
  privileged server with its first message: the client is not harmless when it
  comes first (`ClientCameFirst`).
* A reader that ends unlinks the segment's name under the writer, so that the next
  reader waits on a segment nobody writes; and a reader may display the
  beginning of a number, or two halves of two (`ShownWasTyped` says what is left).
* Two socket servers that share a path, as the two sum servers do, take it from
  each other: the one that starts later gets all clients, and the one that ends
  first leaves the other without a name.
* A negative number with more digits than fit the buffer is cut and read as the
  number of its first digits (`LineReadWhole` excludes signs, blanks and leading
  zeros). Addresses are compared by spelling, and judged by their first 16
  characters alone: one that is longer is cut, an address of 16 is stored without a
  NUL.

`fd_set_mgmt.h` says that `MAX_CLIENTS` is one more than the clients supported. It
is two more: both servers put STDIN into a slot.

Not a disagreement, but worth knowing: `routing_table_delete` of a subnet that
is not in the list deletes the last record. No path of the program gets there
(`EveryMessageApplies`). `UnityPrintMask` prints `UNITY_INT_WIDTH` bits, those of an
int, of a `UNITY_UINT` that may be wider: two masked numbers that differ above look
alike.

## 6. Not modelled

* The linked list library: a binary without source. `RoutingTable` models the
  three functions as the sequence operations their use implies.
* Of Unity: printing of strings and floating point numbers, `UnityNumToPtr` and
  its relatives, command-line options, and the macros that only name functions.
  None of them touches the totals.
* Printing and wording everywhere; failing `malloc`; signals other than SIGINT and
  SIGBUS; SIGINT inside the list library or inside `malloc`.
* Errors that an intact system does not return: `read` of the console failing
  (`rtm_server.c:59`), `close` failing at the end of the table server
  (`rtm_server.c:177`; a failing `unlink` there is in `SocketPath`, but `Rtm` ends in
  `exited` whatever the exit status), `shm_open`, `ftruncate` and `mmap` failing, and a
  `write` of the sum client failing with another error than EPIPE, after which it
  would go on to read (`client.c:75`): a stream socket whose peer has closed gives
  EPIPE.
* Users other than one and root: the queue of a server has mode 0660, and `MayOpen` lets
  everybody open it, as for processes of one user or group.
* What `strlen` and `printf` do with a field that has no NUL. `Input!Terminated` marks
  where that begins.

## 7. Plan

The modules and the theorems that were planned are there. What could follow is the
printing of strings and floating point numbers by Unity, of which nothing else in the
repository depends.
