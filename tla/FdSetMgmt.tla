----------------------------- MODULE FdSetMgmt -----------------------------
(***************************************************************************)
(* The table of monitored file descriptors shared by the multiplexed sum   *)
(* server and the routing table manager                                    *)
(* (unix_domain_sockets/multiplexing/fd_set_mgmt.c).                       *)
(*                                                                         *)
(* monitored_fd_set is a fixed array of MAX_CLIENTS slots; a slot holds a  *)
(* descriptor or Free (-1).  The array is the parameter `mon' of every     *)
(* operator: the servers own the variable.                                 *)
(***************************************************************************)
EXTENDS Integers

CONSTANT MAX_CLIENTS     \* slots of monitored_fd_set: 32 in fd_set_mgmt.h

\* Both servers store STDIN and the listening socket before anything else.
ASSUME MaxClientsAssumption == MAX_CLIENTS \in Nat /\ MAX_CLIENTS >= 2

Slots == 0 .. (MAX_CLIENTS - 1)
Free  == -1

\* Mutant: the loop runs to i <= MAX_CLIENTS.
InitializeOneTooMany == [i \in 0 .. MAX_CLIENTS |-> Free]

initialize_monitor_fd_set == [i \in Slots |-> Free]

\* The slot at which a scan of the array from 0 upwards stops.
IsFirst(mon, fd, i) == mon[i] = fd /\ \A j \in 0 .. (i - 1) : mon[j] # fd

FirstSlot(mon, fd) == CHOOSE i \in Slots : IsFirst(mon, fd, i)

\* Mutant: no break, every free slot takes the descriptor.
AddWithoutBreak(mon, fd) == [i \in Slots |-> IF mon[i] = Free THEN fd ELSE mon[i]]

\* Mutant: a full array gives its last slot to the newcomer.
AddEvictsLast(mon, fd) ==
    LET free == {i \in Slots : mon[i] = Free}
    IN  [mon EXCEPT ![IF free = {} THEN MAX_CLIENTS - 1 ELSE FirstSlot(mon, Free)] = fd]

(***************************************************************************)
(* The first free slot takes the descriptor.  When there is none the loop  *)
(* runs off the end: the descriptor is dropped and the caller is not told. *)
(***************************************************************************)
add_to_monitored_fd_set(mon, fd) ==
    IF \E i \in Slots : mon[i] = Free
    THEN [mon EXCEPT ![FirstSlot(mon, Free)] = fd]
    ELSE mon

\* Only the first slot that holds the descriptor is freed.
remove_from_monitored_fd_set(mon, fd) ==
    IF \E i \in Slots : mon[i] = fd
    THEN [mon EXCEPT ![FirstSlot(mon, fd)] = Free]
    ELSE mon

refresh_fd_set(mon) == {mon[i] : i \in Slots} \ {Free}

get_max_fd(mon) ==
    CHOOSE m \in refresh_fd_set(mon) \cup {-1} :
        \A i \in Slots : mon[i] <= m
=============================================================================
