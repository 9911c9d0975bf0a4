------------------------------ MODULE Directory ------------------------------
(***************************************************************************)
(* What the contact list promises the application through the peer ids it  *)
(* hands out: an id stands for one address, an address has one id at a     *)
(* time, and an id that was forgotten is never given to anybody else.      *)
(***************************************************************************)
EXTENDS Integers

CONSTANTS Addr, MaxPeers, Null

VARIABLES
  dir,    \* the address behind each id, or Null
  next    \* how many ids have been given out

dirVars == <<dir, next>>

Init == dir = [p \in 1..MaxPeers |-> Null] /\ next = 0

Forget(gone) == [p \in 1..MaxPeers |-> IF p \in gone THEN Null ELSE dir[p]]

Register(a, gone) ==
  /\ next < MaxPeers
  /\ \A p \in 1..MaxPeers : dir[p] # a
  /\ next' = next + 1
  /\ dir' = [Forget(gone) EXCEPT ![next + 1] = a]

Next == \E a \in Addr, gone \in SUBSET (1..next) : Register(a, gone)

Spec == Init /\ [][Next]_dirVars
=============================================================================
