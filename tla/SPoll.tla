-------------------------------- MODULE SPoll --------------------------------
(***************************************************************************)
(* SPoll: the array of pollfd entries behind SMessenger (SPoll.cpp), under *)
(* any sequence of add() and remove() calls by one thread.  A slot whose   *)
(* fd is 0 is free.                                                        *)
(*                                                                         *)
(* removeit() closes the gap with a memmove of one entry too many: when    *)
(* the array is full it reads the pollfd that would follow the last one.   *)
(* What lies there is not the array's, so any member of Garbage may be     *)
(* copied into the last slot.                                              *)
(***************************************************************************)
EXTENDS Integers

CONSTANTS
  Fd,               \* descriptors handed to add()
  Free,             \* fd 0
  Junk,             \* a non-zero fd field nobody added
  InitialCapacity,  \* INITIAL_CAPACITY
  GrowSize,         \* GROW_SIZE
  MaxCapacity       \* bound: no add() that would grow the array beyond it

Garbage == {Free, Junk}
Entry   == Fd \cup Garbage

ASSUME CapacityAssumption ==
  /\ InitialCapacity \in Nat \ {0} /\ GrowSize \in Nat \ {0}
  /\ MaxCapacity \in Nat
ASSUME EntryAssumption == Free \notin Fd /\ Junk \notin Fd /\ Junk # Free

VARIABLES
  fds, size, capacity,
  result    \* what the last call returned: 0 or -1

vars == <<fds, size, capacity, result>>

Slots == 0..(capacity - 1)

TypeOK ==
  /\ capacity \in Nat \ {0}
  /\ size \in 0..capacity
  /\ fds \in [Slots -> Entry]
  /\ result \in {0, -1}

Init ==
  /\ fds = [i \in 0..(InitialCapacity - 1) |-> Free]
  /\ size = 0
  /\ capacity = InitialCapacity
  /\ result = 0

(* Mutants: grows one entry too late; grows when no free slot is left,     *)
(* however many entries are used.                                          *)
GrownCapacity_TooLate == IF size > capacity THEN capacity + GrowSize ELSE capacity

GrownCapacity_NoFreeSlot ==
  IF \A i \in size..(capacity - 1) : fds[i] # Free
  THEN capacity + GrowSize ELSE capacity

(* The array and its capacity once add() has made room. *)
GrownCapacity == IF size >= capacity THEN capacity + GrowSize ELSE capacity

Grown == [i \in 0..(GrownCapacity - 1) |-> IF i < capacity THEN fds[i] ELSE Free]

(* add(): the first free slot from position size on; none is an error and  *)
(* the descriptor is not watched.                                          *)
Hole(i) ==
  /\ i \in size..(GrownCapacity - 1)
  /\ Grown[i] = Free
  /\ \A j \in size..(i - 1) : Grown[j] # Free

Add(fd) ==
  /\ GrownCapacity <= MaxCapacity
  /\ capacity' = GrownCapacity
  /\ \/ \E i \in size..(GrownCapacity - 1) :
          /\ Hole(i)
          /\ fds' = [Grown EXCEPT ![i] = fd]
          /\ size' = size + 1
          /\ result' = 0
     \/ /\ \A i \in size..(GrownCapacity - 1) : ~ Hole(i)
        /\ fds' = Grown
        /\ result' = -1
        /\ UNCHANGED size

(* What the memmove finds at position j of the array. *)
Shifted(j, past) == IF j + 1 < capacity THEN fds[j+1] ELSE past

(* Mutants: the entry is taken out but still counted; the memmove moves     *)
(* one entry less and the last one stays behind.                           *)
RemoveIt_KeepsSize(i) ==
  /\ fds' = [j \in Slots |-> IF i <= j /\ j < size THEN Shifted(j, Free) ELSE fds[j]]
  /\ UNCHANGED <<size, capacity>>

RemoveIt_LeavesLast(i) ==
  /\ fds' = [j \in Slots |-> IF i <= j /\ j < size - 1 THEN fds[j+1] ELSE fds[j]]
  /\ size' = size - 1
  /\ UNCHANGED capacity

RemoveIt(i) ==
  /\ \/ /\ i + 1 < size
        /\ \E past \in Garbage :
             fds' = [j \in Slots |->
                       IF i <= j /\ j < size THEN Shifted(j, past) ELSE fds[j]]
     \/ /\ i + 1 >= size
        /\ fds' = [fds EXCEPT ![i] = Free]
  /\ size' = size - 1
  /\ UNCHANGED capacity

(* Mutants: the last match is removed; a miss is counted as a removal.     *)
Remove_LastMatch(fd) ==
  /\ \/ \E i \in Slots :
          /\ fds[i] = fd
          /\ \A j \in (i + 1)..(capacity - 1) : fds[j] # fd
          /\ RemoveIt(i)
     \/ /\ \A i \in Slots : fds[i] # fd
        /\ UNCHANGED <<fds, size, capacity>>
  /\ result' = 0

Remove_CountsMisses(fd) ==
  /\ \/ \E i \in Slots : fds[i] = fd /\ RemoveIt(i)
     \/ /\ \A i \in Slots : fds[i] # fd
        /\ size' = size - 1
        /\ UNCHANGED <<fds, capacity>>
  /\ result' = 0

(* remove() looks at every slot, in use or not, and stops at the first     *)
(* match; a descriptor that is nowhere is no error.                        *)
Remove(fd) ==
  /\ \/ \E i \in Slots :
          /\ fds[i] = fd
          /\ \A j \in 0..(i - 1) : fds[j] # fd
          /\ RemoveIt(i)
     \/ /\ \A i \in Slots : fds[i] # fd
        /\ UNCHANGED <<fds, size, capacity>>
  /\ result' = 0

Next == \E fd \in Fd : Add(fd) \/ Remove(fd)

Spec == Init /\ [][Next]_vars

-----------------------------------------------------------------------------
(* doPoll() hands the kernel the first size entries: each of them is a     *)
(* descriptor somebody added, never a free slot, never what removeit()     *)
(* picked up beyond the end.                                               *)
PolledEntriesAreDescriptors == \A i \in 0..(size - 1) : fds[i] \in Fd

(* Beyond them there is no descriptor, so remove() never takes an entry    *)
(* out of the unused part (which would drop the last one in use), and      *)
(* garbage is always at the very end of the array.                         *)
TailHoldsNoDescriptor ==
  /\ \A i \in size..(capacity - 1) : fds[i] \in Garbage
  /\ \A i, j \in size..(capacity - 1) : i < j /\ fds[i] = Junk => fds[j] = Junk

(* Once garbage sits in the last slot it stays there and the array never   *)
(* grows again: from then on one slot is lost for the life of the object.  *)
LostSlotIsLostForEver ==
  [][fds[capacity - 1] = Junk
       => capacity' = capacity /\ fds'[capacity - 1] = Junk]_vars

(* What doPoll() watches is an abstract list: a successful add() appends,  *)
(* remove() takes out one descriptor and keeps the order of the others.    *)
Polled == [i \in 1..size |-> fds[i - 1]]
W == INSTANCE WatchList WITH list <- Polled
IsWatchList == W!Spec

(* "Adds the new connection as a source of events": the array grows when   *)
(* it is full, so add() always finds room and the descriptor is watched.   *)
AddNeverRefuses == result = 0
=============================================================================
