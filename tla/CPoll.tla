-------------------------------- MODULE CPoll --------------------------------
(***************************************************************************)
(* The life of a poll list, from its creation to its disposal: the C       *)
(* object of spoll.c, whose array is SPoll's, line by line, and with it    *)
(* the parts of SPoll.cpp that SPoll leaves out, the destructor and an     *)
(* allocation that fails.  An ASSERT that fails ends the process.          *)
(***************************************************************************)
EXTENDS SPoll

VARIABLE life
  \* "none", "live", "nofds" (the array was lost), "disposed", "exited"

cvars == <<vars, life>>

CInit == Init /\ life = "none"

(* spoll_create().  A failing allocation returns NULL and changes nothing. *)
spoll_create == life = "none" /\ life' = "live" /\ UNCHANGED vars

spoll_add(fd) == life = "live" /\ Add(fd) /\ UNCHANGED life

(* spoll_grow(): realloc() fails and its NULL replaces the only pointer to *)
(* the array.                                                              *)
spoll_grow_fails ==
  /\ life = "live" /\ size >= capacity
  /\ life' = "nofds" /\ result' = -1
  /\ UNCHANGED <<fds, size, capacity>>

spoll_remove(fd) == life = "live" /\ Remove(fd) /\ UNCHANGED life

(* The next spoll_add() or spoll_remove() asserts the array; the disposal  *)
(* reads through the null pointer.                                         *)
Exit == life = "nofds" /\ life' = "exited" /\ UNCHANGED vars

-----------------------------------------------------------------------------
(* The loop of spoll_dispose() and of ~SPoll: removeit() on every slot     *)
(* that is not free, by position, while the array moves down under it.  It *)
(* asserts size >= 0; s is the set of outcomes so far.                     *)

Gone == [fds |-> <<>>, size |-> -2]      \* the process has exited

(* The memmove, which reads past a full array, or the last entry cleared. *)
Moved(s, i) ==
  LET At(j, past) ==
        IF i <= j /\ j < s.size THEN (IF j + 1 < capacity THEN s.fds[j + 1] ELSE past)
                                ELSE s.fds[j]
  IN IF i + 1 < s.size
     THEN {[j \in Slots |-> At(j, past)] : past \in Garbage}
     ELSE {[s.fds EXCEPT ![i] = Free]}

(* Mutant: ASSERT(size>0). *)
Cut_Strict(s, i) ==
  IF s.size <= 0 THEN {Gone} ELSE {[fds |-> f, size |-> s.size - 1] : f \in Moved(s, i)}

Cut(s, i) ==
  IF s.size < 0 THEN {Gone} ELSE {[fds |-> f, size |-> s.size - 1] : f \in Moved(s, i)}

(* The loop, as far as slot i: the outcomes before it reaches slot i.      *)
SweepAt(S, i) ==
  UNION {IF s = Gone \/ s.fds[i] = Free THEN {s} ELSE Cut(s, i) : s \in S}

SweptTo[i \in 0..capacity] ==
  IF i = 0 THEN {[fds |-> fds, size |-> size]} ELSE SweepAt(SweptTo[i - 1], i - 1)

Swept == SweptTo[capacity]

spoll_dispose ==
  /\ life = "live"
  /\ \E s \in Swept : life' = IF s = Gone THEN "exited" ELSE "disposed"
  /\ UNCHANGED vars

CNext ==
  \/ spoll_create \/ spoll_grow_fails \/ Exit \/ spoll_dispose
  \/ \E fd \in Fd : spoll_add(fd) \/ spoll_remove(fd)

CSpec == CInit /\ [][CNext]_cvars

-----------------------------------------------------------------------------
(* A descriptor is refused only for a reason: an allocation has failed, or *)
(* a removal from a full array has left garbage in the last slot.          *)
RefusedForAReason == result = -1 => life = "nofds" \/ life = "exited" \/ fds[capacity - 1] = Junk

(* Disposing of the list ends the process (by its own assertion) only when *)
(* two slots were lost, and never as long as the array was not once full.  *)
DisposalExitsOnlyAfterLoss ==
  [][life = "live" /\ life' = "exited"
       => capacity > 1 /\ fds[capacity - 1] = Junk /\ fds[capacity - 2] = Junk]_cvars
=============================================================================
