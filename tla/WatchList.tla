------------------------------ MODULE WatchList ------------------------------
(***************************************************************************)
(* What SPoll promises SMessenger: a list of descriptors to poll.  Adding  *)
(* puts a descriptor at the end or is refused, removing takes out its      *)
(* first occurrence, and nothing else ever enters, leaves or moves.        *)
(***************************************************************************)
EXTENDS Integers, Sequences

CONSTANT Fd

VARIABLE list

Init == list = <<>>

Added(fd) == list' = Append(list, fd)

Removed(i) ==
  /\ \A j \in 1..(i-1) : list[j] # list[i]
  /\ list' = [j \in 1..(Len(list) - 1) |-> IF j < i THEN list[j] ELSE list[j+1]]

Next ==
  \/ \E fd \in Fd : Added(fd)
  \/ \E i \in 1..Len(list) : Removed(i)

Spec == Init /\ [][Next]_list
=============================================================================
