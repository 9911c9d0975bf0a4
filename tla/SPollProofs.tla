----------------------------- MODULE SPollProofs -----------------------------
(***************************************************************************)
(* Proofs about SPoll for every set of descriptors, every capacity and     *)
(* every growth step: the entry removeit() may copy from beyond the array  *)
(* never reaches the part that is polled.                                  *)
(***************************************************************************)
EXTENDS SPoll, Sequences, TLAPS

(* The array is descriptors, then free slots, then garbage.                *)
IInv == TypeOK /\ PolledEntriesAreDescriptors /\ TailHoldsNoDescriptor

(* After making room the array is still split the same way.                *)
LEMMA GrownShape ==
  ASSUME IInv
  PROVE  /\ GrownCapacity \in Nat \ {0} /\ GrownCapacity >= capacity
         /\ size < GrownCapacity
         /\ Grown \in [0..(GrownCapacity - 1) -> Entry]
         /\ \A i \in 0..(size - 1) : Grown[i] = fds[i]
         /\ \A i \in size..(GrownCapacity - 1) : Grown[i] \in Garbage
         /\ \A i, j \in size..(GrownCapacity - 1) :
              i < j /\ Grown[i] = Junk => Grown[j] = Junk
<1> USE CapacityAssumption, EntryAssumption
<1>1. GrownCapacity \in Nat \ {0} /\ GrownCapacity >= capacity /\ size < GrownCapacity
  BY DEF IInv, TypeOK, GrownCapacity
<1>2. \A i \in 0..(GrownCapacity - 1) : Grown[i] = IF i < capacity THEN fds[i] ELSE Free
  BY DEF Grown
<1>3. Grown \in [0..(GrownCapacity - 1) -> Entry]
  <2>1. \A i \in 0..(GrownCapacity - 1) :
          (IF i < capacity THEN fds[i] ELSE Free) \in Entry
    BY <1>1 DEF IInv, TypeOK, Slots, Entry, Garbage
  <2> QED BY <2>1 DEF Grown
<1>4. \A i \in 0..(size - 1) : Grown[i] = fds[i]
  BY <1>1, <1>2 DEF IInv, TypeOK
<1>5. CASE size >= capacity
  <2>1. size = capacity
    BY <1>5 DEF IInv, TypeOK
  <2>2. \A i \in size..(GrownCapacity - 1) : Grown[i] = Free
    BY <1>1, <1>2, <2>1 DEF IInv, TypeOK
  <2> QED BY <1>1, <1>3, <1>4, <2>2 DEF Garbage
<1>6. CASE ~ (size >= capacity)
  <2>1. GrownCapacity = capacity
    BY <1>6 DEF GrownCapacity
  <2>2. \A i \in size..(capacity - 1) : Grown[i] = fds[i]
    BY <1>2, <2>1 DEF IInv, TypeOK
  <2> QED BY <1>1, <1>3, <1>4, <2>1, <2>2 DEF IInv, TailHoldsNoDescriptor
<1> QED BY <1>5, <1>6

(* A descriptor that goes into a hole goes right behind the last one in use. *)
LEMMA HoleIsNext ==
  ASSUME IInv, NEW i \in size..(GrownCapacity - 1), Hole(i)
  PROVE  i = size
<1>1. CASE Grown[size] = Free
  BY <1>1, GrownShape DEF Hole, IInv, TypeOK
<1>2. CASE Grown[size] # Free
  <2>1. Grown[size] = Junk
    BY <1>2, GrownShape DEF Garbage, IInv, TypeOK
  <2>2. i = size \/ i > size
    BY DEF IInv, TypeOK
  <2>3. i > size => Grown[i] = Junk
    BY <2>1, GrownShape DEF IInv, TypeOK
  <2> QED BY <2>2, <2>3, EntryAssumption DEF Hole
<1> QED BY <1>1, <1>2

(* What a successful add() does: the new descriptor follows the others.    *)
Appended(fd) ==
  /\ size' = size + 1
  /\ fds' = [Grown EXCEPT ![size] = fd]

(* What add() does to the array and to the size.                           *)
LEMMA AddShape ==
  ASSUME IInv, NEW fd \in Fd, Add(fd)
  PROVE  /\ capacity' = GrownCapacity
         /\ Appended(fd) \/ (fds' = Grown /\ size' = size)
BY HoleIsNext DEF Add, Appended

(* What remove() does: nothing, or it takes out an entry in use.           *)
TakenOut(i, past) ==
  /\ i \in 0..(size - 1)
  /\ \A j \in 0..(i - 1) : fds[j] # fds[i]
  /\ size' = size - 1
  /\ fds' \in [Slots -> Entry]
  /\ \A j \in Slots :
       fds'[j] = CASE j < i \/ j >= size -> fds[j]
                   [] i <= j /\ j < size /\ i + 1 < size -> Shifted(j, past)
                   [] j = i /\ i + 1 = size -> Free

(* An entry moved down by removeit() is the next one.                      *)
LEMMA ShiftedIsEntry ==
  ASSUME IInv, NEW j \in Slots, NEW past \in Garbage
  PROVE  Shifted(j, past) \in Entry
BY DEF Shifted, IInv, TypeOK, Slots, Entry

(* What remove() does to the array and to the size.                        *)
LEMMA RemoveShape ==
  ASSUME IInv, NEW fd \in Fd, Remove(fd)
  PROVE  /\ capacity' = capacity
         /\ \/ fds' = fds /\ size' = size
            \/ \E i \in 0..(size - 1), past \in Garbage : TakenOut(i, past)
<1> USE EntryAssumption
<1>1. CASE UNCHANGED <<fds, size, capacity>>
  BY <1>1
<1>2. ASSUME NEW i \in Slots, fds[i] = fd, \A j \in 0..(i - 1) : fds[j] # fd,
             RemoveIt(i)
      PROVE  /\ capacity' = capacity
             /\ \E k \in 0..(size - 1), past \in Garbage : TakenOut(k, past)
  <2>1. i \in 0..(size - 1)
    <3>1. CASE i >= size
      <4>1. i \in size..(capacity - 1)
        BY <3>1 DEF Slots, IInv, TypeOK
      <4>2. fds[i] \in Garbage
        BY <4>1 DEF IInv, TailHoldsNoDescriptor
      <4> QED BY <1>2, <4>2 DEF Garbage
    <3> QED BY <3>1 DEF Slots, IInv, TypeOK
  <2>2. capacity' = capacity /\ size' = size - 1
    BY <1>2 DEF RemoveIt
  <2>3. \A j \in 0..(i - 1) : fds[j] # fds[i]
    BY <1>2
  <2>4. CASE i + 1 < size
    <3>1. PICK past \in Garbage :
            fds' = [j \in Slots |->
                      IF i <= j /\ j < size THEN Shifted(j, past) ELSE fds[j]]
      BY <1>2, <2>4 DEF RemoveIt, IInv, TypeOK, Slots
    <3>2. fds' \in [Slots -> Entry]
      BY <3>1, ShiftedIsEntry DEF IInv, TypeOK
    <3>3. TakenOut(i, past)
      BY <2>1, <2>2, <2>3, <2>4, <3>1, <3>2 DEF TakenOut, Slots, IInv, TypeOK
    <3> QED BY <2>1, <2>2, <3>3
  <2>5. CASE i + 1 >= size
    <3>1. i + 1 = size /\ fds' = [fds EXCEPT ![i] = Free]
      BY <1>2, <2>1, <2>5 DEF RemoveIt, IInv, TypeOK
    <3>2. fds' \in [Slots -> Entry]
      BY <3>1 DEF IInv, TypeOK, Entry, Garbage
    <3>3. \A j \in Slots : fds'[j] = IF j = i THEN Free ELSE fds[j]
      BY <3>1 DEF IInv, TypeOK
    <3>4. TakenOut(i, Free)
      BY <2>1, <2>2, <2>3, <3>1, <3>2, <3>3 DEF TakenOut, Slots, IInv, TypeOK
    <3> QED BY <2>1, <2>2, <3>4 DEF Garbage
  <2> QED BY <2>4, <2>5 DEF IInv, TypeOK, Slots
<1> QED BY <1>1, <1>2 DEF Remove

-----------------------------------------------------------------------------
(* The invariant holds at the start.                                       *)
LEMMA InitEstablishesIInv == Init => IInv
BY CapacityAssumption, EntryAssumption
   DEF Init, IInv, TypeOK, PolledEntriesAreDescriptors, TailHoldsNoDescriptor,
       Slots, Entry, Garbage

(* add() keeps the invariant.                                              *)
LEMMA AddKeepsIInv ==
  ASSUME IInv, NEW fd \in Fd, Add(fd)
  PROVE  IInv'
<1> USE CapacityAssumption, EntryAssumption
<1>0. result' \in {0, -1}
  BY DEF Add
<1>1. CASE Appended(fd)
  <2>1. capacity' = GrownCapacity /\ size' = size + 1
    BY <1>1, AddShape DEF Appended
  <2>2. size \in 0..(GrownCapacity - 1) /\ fd \in Entry
    BY GrownShape DEF IInv, TypeOK, Entry
  <2>3. fds' \in [0..(GrownCapacity - 1) -> Entry]
    BY <1>1, <2>2, GrownShape DEF Appended
  <2>4. \A i \in 0..(GrownCapacity - 1) :
          fds'[i] = IF i = size THEN fd ELSE Grown[i]
    BY <1>1, <2>2, GrownShape DEF Appended
  <2>5. TypeOK'
    BY <1>0, <2>1, <2>2, <2>3, GrownShape DEF TypeOK, Slots, IInv
  <2>6. PolledEntriesAreDescriptors'
    <3>1. ASSUME NEW i \in 0..size PROVE fds'[i] \in Fd
      <4>1. i \in 0..(GrownCapacity - 1)
        BY <2>2, GrownShape
      <4>2. i # size => i \in 0..(size - 1)
        BY <2>2
      <4> QED BY <2>4, <4>1, <4>2, GrownShape DEF IInv, PolledEntriesAreDescriptors
    <3>2. 0..(size' - 1) = 0..size
      BY <2>1, <2>2
    <3> QED BY <3>1, <3>2 DEF PolledEntriesAreDescriptors
  <2>7. TailHoldsNoDescriptor'
    <3>1. ASSUME NEW i \in (size + 1)..(GrownCapacity - 1)
          PROVE  i \in size..(GrownCapacity - 1) /\ fds'[i] = Grown[i]
      BY <2>2, <2>4, GrownShape
    <3> QED BY <2>1, <3>1, GrownShape DEF TailHoldsNoDescriptor
  <2> QED BY <2>5, <2>6, <2>7 DEF IInv
<1>2. CASE fds' = Grown /\ size' = size
  <2>1. capacity' = GrownCapacity
    BY AddShape
  <2>2. TypeOK'
    BY <1>0, <1>2, <2>1, GrownShape DEF TypeOK, Slots, IInv
  <2>3. PolledEntriesAreDescriptors'
    BY <1>2, GrownShape DEF PolledEntriesAreDescriptors, IInv
  <2>4. TailHoldsNoDescriptor'
    BY <1>2, <2>1, GrownShape DEF TailHoldsNoDescriptor
  <2> QED BY <2>2, <2>3, <2>4 DEF IInv
<1> QED BY <1>1, <1>2, AddShape

(* remove() keeps the invariant.                                           *)
LEMMA RemoveKeepsIInv ==
  ASSUME IInv, NEW fd \in Fd, Remove(fd)
  PROVE  IInv'
<1> USE EntryAssumption
<1>0. result' \in {0, -1} /\ capacity' = capacity
  BY RemoveShape DEF Remove
<1>1. CASE fds' = fds /\ size' = size
  BY <1>0, <1>1
     DEF IInv, TypeOK, Slots, PolledEntriesAreDescriptors, TailHoldsNoDescriptor
<1>2. ASSUME NEW i \in 0..(size - 1), NEW past \in Garbage, TakenOut(i, past)
      PROVE  IInv'
  <2>1. TypeOK'
    BY <1>0, <1>2 DEF TakenOut, IInv, TypeOK, Slots
  <2>2. \A j \in 0..(size - 2) : fds'[j] = IF j < i THEN fds[j] ELSE fds[j+1]
    BY <1>2 DEF TakenOut, Shifted, IInv, TypeOK, Slots
  <2>3. PolledEntriesAreDescriptors'
    BY <1>2, <2>2 DEF TakenOut, PolledEntriesAreDescriptors, IInv, TypeOK
  <2>4. \A j \in size..(capacity - 1) : fds'[j] = fds[j]
    BY <1>2 DEF TakenOut, IInv, TypeOK, Slots
  <2>5. fds'[size - 1] \in Garbage
    /\ (size < capacity /\ fds'[size - 1] = Junk => fds[size] = Junk)
    <3>1. CASE i + 1 = size
      <4>1. fds'[size - 1] = Free
        BY <1>2, <3>1 DEF TakenOut, IInv, TypeOK, Slots
      <4> QED BY <4>1 DEF Garbage
    <3>2. CASE i + 1 < size
      <4>1. fds'[size - 1] = Shifted(size - 1, past)
        BY <1>2, <3>2 DEF TakenOut, IInv, TypeOK, Slots
      <4>2. CASE size < capacity
        BY <4>1, <4>2 DEF Shifted, IInv, TypeOK, TailHoldsNoDescriptor
      <4>3. CASE size = capacity
        BY <4>1, <4>3 DEF Shifted, IInv, TypeOK
      <4> QED BY <4>2, <4>3 DEF IInv, TypeOK
    <3> QED BY <1>2, <3>1, <3>2 DEF IInv, TypeOK
  <2>6. size' = size - 1
    BY <1>2 DEF TakenOut
  <2>7. TailHoldsNoDescriptor'
    <3>1. ASSUME NEW j \in (size - 1)..(capacity - 1)
          PROVE  fds'[j] \in Garbage
      BY <2>4, <2>5, <3>1 DEF IInv, TypeOK, TailHoldsNoDescriptor
    <3>2. ASSUME NEW j \in (size - 1)..(capacity - 1), NEW k \in (size - 1)..(capacity - 1),
                 j < k, fds'[j] = Junk
          PROVE  fds'[k] = Junk
      <4>1. k \in size..(capacity - 1) /\ fds'[k] = fds[k]
        BY <2>4, <3>2 DEF IInv, TypeOK
      <4>2. CASE j = size - 1
        BY <2>5, <3>2, <4>1, <4>2 DEF IInv, TypeOK, TailHoldsNoDescriptor
      <4>3. CASE j # size - 1
        BY <2>4, <3>2, <4>1, <4>3 DEF IInv, TypeOK, TailHoldsNoDescriptor
      <4> QED BY <4>2, <4>3
    <3> QED BY <1>0, <2>6, <3>1, <3>2 DEF TailHoldsNoDescriptor
  <2> QED BY <2>1, <2>3, <2>7 DEF IInv
<1> QED BY <1>1, <1>2, RemoveShape

(* Hence it holds always.                                                  *)
LEMMA IInvIsInvariant == Spec => []IInv
<1>1. IInv /\ [Next]_vars => IInv'
  <2>1. IInv /\ UNCHANGED vars => IInv'
    BY DEF IInv, vars, TypeOK, Slots, PolledEntriesAreDescriptors, TailHoldsNoDescriptor
  <2> QED BY <2>1, AddKeepsIInv, RemoveKeepsIInv DEF Next
<1> QED BY <1>1, InitEstablishesIInv, PTL DEF Spec

(* The fields of the array keep their types. *)
THEOREM TypeCorrect == Spec => []TypeOK
<1>1. IInv => TypeOK
  BY DEF IInv
<1> QED BY <1>1, IInvIsInvariant, PTL

(* The kernel is only ever asked to poll descriptors somebody added.       *)
THEOREM PolledAreDescriptors == Spec => []PolledEntriesAreDescriptors
<1>1. IInv => PolledEntriesAreDescriptors
  BY DEF IInv
<1> QED BY <1>1, IInvIsInvariant, PTL

(* The unused part of the array holds no descriptor.                       *)
THEOREM TailIsClean == Spec => []TailHoldsNoDescriptor
<1>1. IInv => TailHoldsNoDescriptor
  BY DEF IInv
<1> QED BY <1>1, IInvIsInvariant, PTL

(* No step that leaves the list intact frees a slot garbage has taken.     *)
Lost == fds[capacity - 1] = Junk => capacity' = capacity /\ fds'[capacity - 1] = Junk

(* A step of the array loses no garbage slot.                              *)
LEMMA LostStep ==
  ASSUME IInv, [Next]_vars
  PROVE  Lost
<1> SUFFICES ASSUME fds[capacity - 1] = Junk
             PROVE  capacity' = capacity /\ fds'[capacity - 1] = Junk
  BY DEF Lost
<1> USE EntryAssumption
<1>1. size < capacity /\ capacity \in Nat \ {0} /\ size \in Nat
  BY DEF IInv, TypeOK, PolledEntriesAreDescriptors
<1>2. GrownCapacity = capacity /\ Grown[capacity - 1] = Junk
  BY <1>1 DEF GrownCapacity, Grown
<1>3. ASSUME NEW fd \in Fd, Add(fd)
      PROVE  capacity' = capacity /\ fds'[capacity - 1] = Junk
  <2>1. PICK i \in size..(GrownCapacity - 1) :
          (Hole(i) /\ fds' = [Grown EXCEPT ![i] = fd]) \/ fds' = Grown
    BY <1>1, <1>2, <1>3 DEF Add
  <2>2. Hole(i) => i # capacity - 1
    BY <1>2 DEF Hole
  <2> QED BY <1>1, <1>2, <1>3, <2>1, <2>2, GrownShape DEF Add
<1>4. ASSUME NEW fd \in Fd, Remove(fd)
      PROVE  capacity' = capacity /\ fds'[capacity - 1] = Junk
  <2>1. CASE fds' = fds /\ size' = size
    BY <1>4, <2>1, RemoveShape
  <2>2. ASSUME NEW i \in 0..(size - 1), NEW past \in Garbage, TakenOut(i, past)
        PROVE  fds'[capacity - 1] = Junk
    BY <1>1, <2>2 DEF TakenOut, Slots
  <2> QED BY <1>4, <2>1, <2>2, RemoveShape
<1>5. CASE UNCHANGED vars
  BY <1>5 DEF vars
<1> QED BY <1>3, <1>4, <1>5 DEF Next

(* Garbage in the last slot stays, and the array stops growing.            *)
THEOREM LostForEver == Spec => LostSlotIsLostForEver
BY LostStep, IInvIsInvariant, PTL DEF Spec, LostSlotIsLostForEver, Lost

(* Every call is a step of the abstract list, or none.                     *)
LEMMA WatchInit == Init => W!Init
BY CapacityAssumption DEF Init, W!Init, Polled

(* A step of the array is one of the abstract list.                        *)
LEMMA WatchStep ==
  ASSUME IInv, [Next]_vars
  PROVE  [W!Next]_Polled
<1> USE EntryAssumption, CapacityAssumption
<1>0. size \in Nat /\ size <= capacity /\ capacity \in Nat \ {0}
      /\ Polled \in Seq(Fd) /\ Len(Polled) = size
  <2>1. size \in Nat /\ size <= capacity /\ capacity \in Nat \ {0}
    BY DEF IInv, TypeOK
  <2>2. \A i \in 1..size : fds[i - 1] \in Fd
    BY <2>1 DEF IInv, PolledEntriesAreDescriptors
  <2> QED BY <2>1, <2>2 DEF Polled
<1>1. ASSUME NEW fd \in Fd, Appended(fd)
      PROVE  W!Added(fd)
  <2>1. \A i \in 0..size : fds'[i] = IF i = size THEN fd ELSE fds[i]
    BY <1>0, <1>1, GrownShape DEF Appended
  <2>2. size' = size + 1
    BY <1>1 DEF Appended
  <2>3. Polled' = [i \in 1..(size + 1) |-> IF i = size + 1 THEN fd ELSE fds[i - 1]]
    BY <1>0, <2>1, <2>2 DEF Polled
  <2>4. Append(Polled, fd)
          = [i \in 1..(size + 1) |-> IF i = size + 1 THEN fd ELSE fds[i - 1]]
    BY <1>0 DEF Polled
  <2> QED BY <2>3, <2>4 DEF W!Added
<1>2. ASSUME fds' = Grown, size' = size
      PROVE  Polled' = Polled
  BY <1>0, <1>2, GrownShape DEF Polled
<1>3. ASSUME NEW i \in 0..(size - 1), NEW past \in Garbage, TakenOut(i, past)
      PROVE  W!Removed(i + 1)
  <2>1. \A j \in 0..(size - 2) : fds'[j] = IF j < i THEN fds[j] ELSE fds[j+1]
    BY <1>0, <1>3, SMTT(30) DEF TakenOut, Shifted, Slots
  <2>2. size' = size - 1
    BY <1>3 DEF TakenOut
  <2>3. Polled' = [j \in 1..(size - 1) |-> IF j < i + 1 THEN Polled[j] ELSE Polled[j+1]]
    BY <1>0, <2>1, <2>2 DEF Polled
  <2>4. \A j \in 1..i : Polled[j] # Polled[i + 1]
    <3> SUFFICES ASSUME NEW j \in 1..i PROVE Polled[j] # Polled[i + 1]
      OBVIOUS
    <3>1. j - 1 \in 0..(i - 1) /\ j \in 1..size /\ i + 1 \in 1..size
      BY <1>0
    <3>2. Polled[j] = fds[j - 1] /\ Polled[i + 1] = fds[i]
      BY <1>0, <3>1 DEF Polled
    <3> QED BY <1>3, <3>1, <3>2 DEF TakenOut
  <2> QED BY <1>0, <2>3, <2>4 DEF W!Removed
<1>4. ASSUME NEW fd \in Fd, Add(fd) PROVE W!Next \/ Polled' = Polled
  BY <1>1, <1>2, <1>4, AddShape DEF W!Next
<1>5. ASSUME NEW fd \in Fd, Remove(fd) PROVE W!Next \/ Polled' = Polled
  <2>1. CASE fds' = fds /\ size' = size
    BY <2>1 DEF Polled
  <2>2. ASSUME NEW i \in 0..(size - 1), NEW past \in Garbage, TakenOut(i, past)
        PROVE  W!Next
    <3>1. i + 1 \in 1..Len(Polled)
      BY <1>0
    <3> QED BY <1>3, <2>2, <3>1 DEF W!Next
  <2> QED BY <1>5, <2>1, <2>2, RemoveShape
<1>6. CASE UNCHANGED vars
  BY <1>6 DEF vars, Polled
<1> QED BY <1>4, <1>5, <1>6 DEF Next

(* What doPoll() watches is an abstract list of descriptors: a successful  *)
(* add() appends, a refused one changes nothing, remove() takes out one    *)
(* entry and keeps the others in order.                                    *)
THEOREM ImplementsWatchList == Spec => IsWatchList
BY WatchInit, WatchStep, IInvIsInvariant, PTL DEF Spec, W!Spec, IsWatchList
=============================================================================
