----------------------------- MODULE CPollProofs -----------------------------
(***************************************************************************)
(* Proofs about CPoll.  The array of a list that is created, used and      *)
(* disposed of moves as SPoll's does; an allocation that fails is the one  *)
(* other step, and it leaves the entries alone.  So SPollProofs carries    *)
(* over to the whole life of the C object, for every set of descriptors,   *)
(* every capacity and every growth step.  The loop of the disposal is      *)
(* followed slot by slot.                                                  *)
(***************************************************************************)
EXTENDS CPoll, SPollProofs, WellFoundedInduction

(* The array steps as SPoll's, or only the result of the call changes.     *)
LEMMA StepShape ==
  ASSUME [CNext]_cvars
  PROVE  [Next]_vars \/ UNCHANGED <<fds, size, capacity>>
BY DEF CNext, cvars, vars, Next, spoll_create, spoll_add, spoll_grow_fails,
       spoll_remove, Exit, spoll_dispose

(* The invariant depends on the array's fields alone.                      *)
LEMMA FieldsDetermineIInv ==
  ASSUME IInv, UNCHANGED <<fds, size, capacity>>, result' \in {0, -1}
  PROVE  IInv'
BY DEF IInv, TypeOK, Slots, PolledEntriesAreDescriptors, TailHoldsNoDescriptor

(* The array is descriptors, then free slots, then garbage, at every step  *)
(* of its life.                                                            *)
LEMMA StepKeepsIInv ==
  ASSUME IInv, [CNext]_cvars
  PROVE  IInv'
<1>1. CASE UNCHANGED vars
  BY <1>1, FieldsDetermineIInv DEF vars, IInv, TypeOK
<1>2. CASE spoll_grow_fails
  BY <1>2, FieldsDetermineIInv DEF spoll_grow_fails
<1>3. ASSUME NEW fd \in Fd, spoll_add(fd) PROVE IInv'
  BY <1>3, AddKeepsIInv DEF spoll_add
<1>4. ASSUME NEW fd \in Fd, spoll_remove(fd) PROVE IInv'
  BY <1>4, RemoveKeepsIInv DEF spoll_remove
<1> QED BY <1>1, <1>2, <1>3, <1>4
        DEF CNext, cvars, spoll_create, Exit, spoll_dispose

(* The invariant holds over the whole life of the C object.                *)
LEMMA CIInvIsInvariant == CSpec => []IInv
<1>1. CInit => IInv
  BY InitEstablishesIInv DEF CInit
<1> QED BY <1>1, StepKeepsIInv, PTL DEF CSpec

(* The kernel is only ever asked to poll descriptors somebody added, from  *)
(* spoll_create() to spoll_dispose(), failing allocations included.        *)
THEOREM CPolledAreDescriptors == CSpec => []PolledEntriesAreDescriptors
<1>1. IInv => PolledEntriesAreDescriptors
  BY DEF IInv
<1> QED BY <1>1, CIInvIsInvariant, PTL

-----------------------------------------------------------------------------
(* An add() that finds no free slot finds garbage in the last one: the     *)
(* array has room behind its entries, and what is not free there is junk.  *)
LEMMA RefusalFindsGarbage ==
  ASSUME IInv, NEW fd \in Fd, Add(fd), result' = -1
  PROVE  fds'[capacity' - 1] = Junk
<1> USE CapacityAssumption, EntryAssumption
<1>1. /\ \A i \in size..(GrownCapacity - 1) : ~ Hole(i)
      /\ fds' = Grown /\ capacity' = GrownCapacity
  BY DEF Add
<1>2. size \in Nat /\ GrownCapacity \in Nat /\ size \in size..(GrownCapacity - 1)
  BY GrownShape DEF IInv, TypeOK
<1>3. Grown[size] = Junk
  <2>1. Grown[size] # Free
    BY <1>1, <1>2 DEF Hole
  <2> QED BY <1>2, <2>1, GrownShape DEF Garbage
<1>4. Grown[GrownCapacity - 1] = Junk
  <2>1. GrownCapacity - 1 \in size..(GrownCapacity - 1)
    BY <1>2
  <2>2. size = GrownCapacity - 1 \/ size < GrownCapacity - 1
    BY <1>2
  <2> QED BY <1>2, <1>3, <2>1, <2>2, GrownShape
<1> QED BY <1>1, <1>4

(* A descriptor is refused only after an allocation has failed or with     *)
(* garbage in the last slot: without either, every add() is watched.       *)
THEOREM RefusalHasAReason == CSpec => []RefusedForAReason
<1> USE EntryAssumption
<1>1. CInit => RefusedForAReason
  BY DEF CInit, Init, RefusedForAReason
<1>2. IInv /\ RefusedForAReason /\ [CNext]_cvars => RefusedForAReason'
  <2> SUFFICES ASSUME IInv, RefusedForAReason, [CNext]_cvars
               PROVE  RefusedForAReason'
    OBVIOUS
  <2>1. ASSUME NEW fd \in Fd, spoll_add(fd) PROVE RefusedForAReason'
    BY <2>1, RefusalFindsGarbage DEF spoll_add, RefusedForAReason
  <2>2. ASSUME NEW fd \in Fd, spoll_remove(fd) PROVE RefusedForAReason'
    BY <2>2 DEF spoll_remove, Remove, RefusedForAReason
  <2>3. CASE spoll_create
    BY <2>3 DEF spoll_create, vars, RefusedForAReason
  <2>4. CASE spoll_grow_fails
    BY <2>4 DEF spoll_grow_fails, RefusedForAReason
  <2>5. CASE Exit
    BY <2>5 DEF Exit, vars, RefusedForAReason
  <2>6. CASE spoll_dispose
    BY <2>6 DEF spoll_dispose, vars, RefusedForAReason
  <2>7. CASE UNCHANGED cvars
    BY <2>7 DEF cvars, vars, RefusedForAReason
  <2> QED BY <2>1, <2>2, <2>3, <2>4, <2>5, <2>6, <2>7 DEF CNext
<1> QED BY <1>1, <1>2, CIInvIsInvariant, PTL DEF CSpec

(* A slot lost to garbage stays lost until the list is disposed of, and    *)
(* the array does not grow again.                                          *)
THEOREM CLostForEver == CSpec => LostSlotIsLostForEver
<1>1. IInv /\ [CNext]_cvars => [Lost]_vars
  BY StepShape, LostStep DEF Lost
<1> QED BY <1>1, CIInvIsInvariant, PTL DEF CSpec, LostSlotIsLostForEver, Lost

(* What spoll_poll() watches is the abstract list of SPoll, whatever       *)
(* happens to the object around it.                                        *)
THEOREM CImplementsWatchList == CSpec => IsWatchList
<1>1. CInit => W!Init
  BY WatchInit DEF CInit
<1>2. IInv /\ [CNext]_cvars => [W!Next]_Polled
  <2>1. UNCHANGED <<fds, size, capacity>> => UNCHANGED Polled
    BY DEF Polled
  <2> QED BY <2>1, StepShape, WatchStep
<1> QED BY <1>1, <1>2, CIInvIsInvariant, PTL DEF CSpec, W!Spec, IsWatchList

-----------------------------------------------------------------------------
(* The disposal loop. *)

(* Induction on the slots goes by the least slot at which a claim fails.   *)
Below == {p \in Nat \X Nat : p[1] < p[2]}

(* The order of the naturals is well founded.                              *)
LEMMA BelowIsWellFounded == IsWellFoundedOn(Below, Nat)
BY NatLessThanWellFounded DEF OpToRel, Below

(* Every set of naturals that is not empty has a least element.            *)
LEMMA Least ==
  ASSUME NEW T, T \subseteq Nat, T # {}
  PROVE  \E m \in T : \A k \in T : m <= k
<1>1. PICK m \in T : \A k \in T : <<k, m>> \notin Below
  BY BelowIsWellFounded, WFMin
<1>2. ASSUME NEW k \in T PROVE m <= k
  <2>1. k \in Nat /\ m \in Nat /\ ~ (k < m)
    BY <1>1 DEF Below
  <2> QED BY <2>1
<1> QED BY <1>2

SweepStart == {[fds |-> fds, size |-> size]}

(* A function that follows the loop up to slot n.                          *)
Follows(g, n) ==
  g = [i \in 0..n |-> IF i = 0 THEN SweepStart ELSE SweepAt(g[i - 1], i - 1)]

(* The loop can be followed one slot further.                              *)
LEMMA FollowsOneMore ==
  ASSUME NEW n \in Nat \ {0}, NEW g, Follows(g, n - 1)
  PROVE  \E h : Follows(h, n)
<1> DEFINE h == [i \in 0..n |-> IF i = n THEN SweepAt(g[n - 1], n - 1) ELSE g[i]]
<1>1. ASSUME NEW i \in 0..n
      PROVE  h[i] = IF i = 0 THEN SweepStart ELSE SweepAt(h[i - 1], i - 1)
  <2>1. CASE i = n
    <3>1. h[i] = SweepAt(g[n - 1], n - 1) /\ h[i - 1] = g[n - 1]
      BY <2>1
    <3> QED BY <2>1, <3>1
  <2>2. CASE i # n
    <3>1. i \in 0..(n - 1) /\ h[i] = g[i]
      BY <2>2
    <3>2. i # 0 => h[i - 1] = g[i - 1]
      BY <2>2
    <3>3. g[i] = IF i = 0 THEN SweepStart ELSE SweepAt(g[i - 1], i - 1)
      BY <3>1 DEF Follows
    <3> QED BY <3>1, <3>2, <3>3
  <2> QED BY <2>1, <2>2
<1>2. h = [i \in 0..n |-> h[i]]
  OBVIOUS
<1> HIDE DEF h
<1>3. Follows(h, n)
  BY <1>1, <1>2 DEF Follows
<1> QED BY <1>3

(* The loop is defined for every slot.                                     *)
LEMMA LoopIsDefined == ASSUME capacity \in Nat PROVE Follows(SweptTo, capacity)
<1> DEFINE T == {n \in Nat : ~ \E g : Follows(g, n)}
<1>1. T = {}
  <2> SUFFICES ASSUME T # {} PROVE FALSE
    OBVIOUS
  <2>1. PICK m \in T : \A k \in T : m <= k
    BY Least
  <2>2. m # 0
    <3> DEFINE z == [i \in 0..0 |-> SweepStart]
    <3>1. Follows(z, 0)
      BY DEF Follows
    <3> QED BY <3>1
  <2>3. m - 1 \in Nat /\ m - 1 \notin T
    BY <2>1, <2>2
  <2>4. PICK g : Follows(g, m - 1)
    BY <2>3
  <2> QED BY <2>2, <2>4, FollowsOneMore
<1>2. PICK g : Follows(g, capacity)
  BY <1>1
<1>3. SweptTo = CHOOSE f : Follows(f, capacity)
  BY DEF SweptTo, Follows, SweepStart
<1> QED BY <1>2, <1>3

TwoSlotsLost ==
  capacity > 1 /\ fds[capacity - 1] = Junk /\ fds[capacity - 2] = Junk

(* What the loop has left before it reaches slot i: the slots behind the   *)
(* entries are untouched, and it has taken out no more than it has passed, *)
(* but for one in the last slot.                                           *)
LeastLeft(i) == IF i <= size THEN size - i ELSE IF i < capacity THEN 0 ELSE -1

LeftAt(s, i) ==
  /\ s.fds \in [Slots -> Entry]
  /\ s.size \in LeastLeft(i)..size
  /\ \A j \in Slots : i <= j /\ size <= j => s.fds[j] = fds[j]

(* removeit() of the disposal touches nothing behind slot i but entries.   *)
LEMMA MovedShape ==
  ASSUME IInv, NEW i \in Slots, NEW s, LeftAt(s, i), NEW f \in Moved(s, i)
  PROVE  /\ f \in [Slots -> Entry]
         /\ \A j \in Slots : i + 1 <= j /\ size <= j => f[j] = fds[j]
<1>1. /\ capacity \in Nat /\ size \in 0..capacity /\ s.size <= size /\ s.size \in Int
      /\ s.fds \in [Slots -> Entry] /\ Garbage \subseteq Entry
  <2>1. LeastLeft(i) \in Int /\ size \in Int
    BY DEF IInv, TypeOK, LeastLeft, Slots
  <2> QED BY <2>1 DEF IInv, TypeOK, LeftAt, Entry
<1>2. CASE i + 1 < s.size
  <2>1. PICK past \in Garbage :
          f = [j \in Slots |->
                 IF i <= j /\ j < s.size THEN (IF j + 1 < capacity THEN s.fds[j + 1] ELSE past)
                                         ELSE s.fds[j]]
    BY <1>2 DEF Moved
  <2>2. ASSUME NEW j \in Slots PROVE f[j] \in Entry
    <3>1. j + 1 < capacity => j + 1 \in Slots
      BY <1>1 DEF Slots
    <3> QED BY <1>1, <2>1, <3>1
  <2>3. ASSUME NEW j \in Slots, i + 1 <= j, size <= j PROVE f[j] = fds[j]
    <3>1. ~ (j < s.size) /\ i <= j
      BY <1>1, <2>3 DEF Slots
    <3> QED BY <2>1, <2>3, <3>1 DEF LeftAt
  <2> QED BY <2>1, <2>2, <2>3
<1>3. CASE ~ (i + 1 < s.size)
  <2>1. f = [s.fds EXCEPT ![i] = Free]
    BY <1>3 DEF Moved
  <2>2. f \in [Slots -> Entry]
    BY <1>1, <2>1 DEF Entry, Garbage
  <2>3. ASSUME NEW j \in Slots, i + 1 <= j, size <= j PROVE f[j] = fds[j]
    <3>1. j # i /\ i <= j
      BY <2>3 DEF Slots
    <3> QED BY <1>1, <2>1, <2>3, <3>1 DEF LeftAt
  <2> QED BY <2>2, <2>3
<1> QED BY <1>2, <1>3

(* As long as there is at most one lost slot, nothing is taken out that    *)
(* would make the assertion on size fail.                                  *)
LEMMA SlotSwept ==
  ASSUME IInv, ~ TwoSlotsLost, NEW i \in Slots, NEW S, \A s \in S : LeftAt(s, i)
  PROVE  \A s \in SweepAt(S, i) : LeftAt(s, i + 1)
<1> USE EntryAssumption
<1>1. /\ capacity \in Nat \ {0} /\ size \in 0..capacity /\ i \in 0..(capacity - 1)
      /\ fds \in [Slots -> Entry] /\ Slots = 0..(capacity - 1)
  BY DEF IInv, TypeOK, Slots
<1>2. ASSUME size <= i, i + 1 < capacity PROVE fds[i] = Free
  <2>1. capacity - 2 \in size..(capacity - 1) /\ capacity - 1 \in size..(capacity - 1)
        /\ i \in size..(capacity - 1)
    BY <1>1, <1>2
  <2>2. fds[i] \in Garbage
        /\ \A j, k \in size..(capacity - 1) : j < k /\ fds[j] = Junk => fds[k] = Junk
    BY <1>1, <2>1 DEF IInv, TailHoldsNoDescriptor
  <2>3. fds[i] = Junk => fds[capacity - 2] = Junk /\ fds[capacity - 1] = Junk
    BY <1>1, <1>2, <2>1, <2>2
  <2>4. fds[i] # Junk
    BY <1>1, <1>2, <2>3 DEF TwoSlotsLost
  <2> QED BY <2>2, <2>4 DEF Garbage
<1>3. SUFFICES ASSUME NEW s \in S,
                      NEW u \in IF s = Gone \/ s.fds[i] = Free THEN {s} ELSE Cut(s, i)
               PROVE  LeftAt(u, i + 1)
  BY DEF SweepAt
<1>4. /\ LeftAt(s, i) /\ s.size \in LeastLeft(i)..size
      /\ size <= i => s.fds[i] = fds[i]
  BY <1>1 DEF LeftAt
<1>5. s # Gone
  BY <1>1, <1>4 DEF LeastLeft, Gone
<1>6. CASE s.fds[i] = Free
  <2>1. u = s
    BY <1>3, <1>6
  <2>2. LeastLeft(i + 1) <= LeastLeft(i) /\ LeastLeft(i + 1) \in Int /\ LeastLeft(i) \in Int
    BY <1>1 DEF LeastLeft
  <2>3. s.size \in LeastLeft(i + 1)..size
    BY <1>1, <1>4, <2>2
  <2> QED BY <1>1, <1>4, <2>1, <2>3 DEF LeftAt
<1>7. CASE s.fds[i] # Free
  <2>1. ~ (size <= i /\ i + 1 < capacity)
    BY <1>2, <1>4, <1>7
  <2>2. s.size >= 0 /\ s.size - 1 \in LeastLeft(i + 1)..size
    BY <1>1, <1>4, <2>1 DEF LeastLeft
  <2>3. PICK f \in Moved(s, i) : u = [fds |-> f, size |-> s.size - 1]
    BY <1>3, <1>5, <1>7, <1>4, <1>1, <2>2 DEF Cut, LeastLeft
  <2>4. /\ f \in [Slots -> Entry]
        /\ \A j \in Slots : i + 1 <= j /\ size <= j => f[j] = fds[j]
    BY <1>4, <2>3, MovedShape
  <2> QED BY <2>2, <2>3, <2>4 DEF LeftAt
<1> QED BY <1>6, <1>7

(* So the loop ends, and the list is gone without an exit.                 *)
LEMMA SweepEnds == ASSUME IInv, ~ TwoSlotsLost PROVE Gone \notin Swept
<1>1. capacity \in Nat \ {0} /\ size \in 0..capacity
  BY DEF IInv, TypeOK
<1>2. \A i \in 0..capacity :
        SweptTo[i] = IF i = 0 THEN SweepStart ELSE SweepAt(SweptTo[i - 1], i - 1)
  BY <1>1, LoopIsDefined DEF Follows
<1> DEFINE T == {i \in 0..capacity : ~ \A s \in SweptTo[i] : LeftAt(s, i)}
<1>3. T = {}
  <2> SUFFICES ASSUME T # {} PROVE FALSE
    OBVIOUS
  <2>1. PICK m \in T : \A k \in T : m <= k
    <3>1. T \subseteq Nat
      BY <1>1
    <3> HIDE DEF T
    <3> QED BY <3>1, Least
  <2>2. CASE m = 0
    <3>1. SweptTo[0] = SweepStart
      BY <1>1, <1>2
    <3>2. LeftAt([fds |-> fds, size |-> size], 0)
      BY <1>1 DEF LeftAt, LeastLeft, IInv, TypeOK
    <3> QED BY <2>2, <3>1, <3>2 DEF SweepStart
  <2>3. CASE m # 0
    <3>1. m \in 0..capacity /\ m - 1 \in 0..capacity /\ m - 1 \in Slots /\ (m - 1) + 1 = m
      BY <1>1, <2>3 DEF Slots
    <3>2. \A s \in SweptTo[m - 1] : LeftAt(s, m - 1)
      <4>1. m - 1 \notin T
        BY <2>1, <3>1
      <4> QED BY <3>1, <4>1
    <3>3. \A s \in SweepAt(SweptTo[m - 1], m - 1) : LeftAt(s, m)
      <4> HIDE DEF T
      <4>1. \A s \in SweepAt(SweptTo[m - 1], m - 1) : LeftAt(s, (m - 1) + 1)
        BY <3>1, <3>2, SlotSwept
      <4> QED BY <3>1, <4>1
    <3> QED BY <1>2, <2>3, <3>1, <3>3
  <2> QED BY <2>2, <2>3
<1>4. \A s \in Swept : LeftAt(s, capacity)
  BY <1>1, <1>3 DEF Swept
<1>5. ~ LeftAt(Gone, capacity)
  BY <1>1 DEF LeftAt, LeastLeft, Gone
<1> QED BY <1>4, <1>5

(* Disposing of the list ends the process only when two slots were lost,   *)
(* for every capacity and whatever the reads past the array have found.    *)
THEOREM DisposalIsSafe == CSpec => DisposalExitsOnlyAfterLoss
<1> DEFINE Exits == life = "live" /\ life' = "exited"
<1>1. IInv /\ [CNext]_cvars => (Exits => TwoSlotsLost)
  <2> SUFFICES ASSUME IInv, [CNext]_cvars, life = "live", life' = "exited"
               PROVE  TwoSlotsLost
    OBVIOUS
  <2>1. spoll_dispose
    BY DEF CNext, cvars, spoll_create, spoll_add, spoll_grow_fails, spoll_remove, Exit
  <2>2. Gone \in Swept
    BY <2>1 DEF spoll_dispose
  <2> QED BY <2>2, SweepEnds
<1>2. IInv /\ [CNext]_cvars =>
        [life = "live" /\ life' = "exited"
           => capacity > 1 /\ fds[capacity - 1] = Junk /\ fds[capacity - 2] = Junk]_cvars
  BY <1>1 DEF TwoSlotsLost
<1> QED BY <1>2, CIInvIsInvariant, PTL DEF CSpec, DisposalExitsOnlyAfterLoss
=============================================================================
