--------------------------- MODULE SContactsProofs ---------------------------
(***************************************************************************)
(* Proofs about the contact list under any calls, for every set of         *)
(* addresses, names and sockets and every bound.                           *)
(***************************************************************************)
EXTENDS SContacts, ContactTableProofs

(* The inductive invariant of the component. *)
IInv == WellFormed(contacts) /\ now \in Nat

(* One call, or one tick, keeps the table well-formed. *)
LEMMA NextKeepsIInv == IInv /\ [Next]_vars => IInv'
<1> SUFFICES ASSUME IInv, [Next]_vars PROVE IInv'
  OBVIOUS
<1> USE DEF IInv
<1>1. ASSUME NEW s \in AnySocket, NEW a \in Addr, NEW n \in AnyName, Add(s, a, n)
      PROVE  IInv'
  BY <1>1, AddsWellFormed DEF Add, WellFormed
<1>2. ASSUME NEW p \in PeerId, NEW s \in AnySocket, UpdateSocket(p, s)
      PROVE  IInv'
  BY <1>2, UpdateSocketsShape DEF UpdateSocket, Contact, WellFormed
<1>3. ASSUME NEW p \in PeerId, NEW n \in AnyName, Rename(p, n)
      PROVE  IInv'
  BY <1>3, UpdateNameShape DEF Rename, Contact, WellFormed
<1>4. ASSUME NEW p \in PeerId, Read(p) PROVE IInv'
  BY <1>4, TouchWellFormed DEF Read, WellFormed
<1>5. CASE Tick
  BY <1>5 DEF Tick, WellFormed
<1>6. CASE UNCHANGED vars
  BY <1>6 DEF vars, WellFormed
<1> QED BY <1>1, <1>2, <1>3, <1>4, <1>5, <1>6 DEF Next

(* The invariant holds at the start.                                       *)
LEMMA InitEstablishesIInv == Init => IInv
BY EmptyTableWellFormed, BoundsAssumption DEF Init, IInv

(* It holds always.                                                        *)
LEMMA IInvIsInvariant == Spec => []IInv
BY InitEstablishesIInv, NextKeepsIInv, PTL DEF Spec

(* The fields of the contact list keep their types. *)
THEOREM TypeCorrect == Spec => []TypeOK
<1>1. IInv => TypeOK
  BY DEF IInv, WellFormed, TypeOK
<1> QED BY <1>1, IInvIsInvariant, PTL

(* No lookup by address, name or socket ever returns a deleted contact or  *)
(* a contact that is filed under somebody else's key.                      *)
THEOREM NoStaleEntries == Spec => []EntriesAreLive
<1>1. IInv => EntriesAreLive
  BY DEF IInv, WellFormed, Consistent, EntriesAreLive
<1> QED BY <1>1, IInvIsInvariant, PTL

(* Every contact is found by its address, so two contacts never share one. *)
THEOREM AddressesIndexed == Spec => []FoundByAddress
<1>1. IInv => FoundByAddress
  BY DEF IInv, WellFormed, Consistent, FoundByAddress
<1> QED BY <1>1, IInvIsInvariant, PTL

-----------------------------------------------------------------------------
(* Seen from the ids it has given out, a step either changes nothing or    *)
(* unlinks some expired contacts and enters one new address.               *)
SameIds ==
  /\ Live(contacts') = Live(contacts)
  /\ \A p \in Live(contacts) : contacts'.peers[p].addr = contacts.peers[p].addr
  /\ contacts'.last = contacts.last

(* A contact is entered, after some were unlinked, under the next id.      *)
NewId(a, gone) ==
  /\ contacts.addr2peer[a] = Null
  /\ contacts.last < MaxPeers
  /\ Live(contacts') = (Live(contacts) \ gone) \cup {contacts.last + 1}
  /\ \A p \in Live(contacts) \ gone :
       contacts'.peers[p].addr = contacts.peers[p].addr
  /\ contacts'.peers[contacts.last + 1].addr = a
  /\ contacts'.last = contacts.last + 1

(* A step leaves ids and addresses alone, or unlinks expired contacts and  *)
(* enters one new address under the next id.                               *)
LEMMA StepShape ==
  ASSUME IInv, [Next]_vars
  PROVE  \/ SameIds
         \/ \E a \in Addr, gone \in SUBSET Expired(contacts, now) : NewId(a, gone)
<1> USE DEF IInv
<1>1. ASSUME NEW s \in AnySocket, NEW a \in Addr, NEW n \in AnyName, Add(s, a, n)
      PROVE  SameIds \/ \E gone \in SUBSET Expired(contacts, now) : NewId(a, gone)
  <2>1. CASE Known(contacts, a, n)
    <3>1. contacts' = contacts
      BY <1>1, <2>1, AddsWellFormed DEF Add
    <3> QED BY <3>1 DEF SameIds
  <2>2. CASE ~ Known(contacts, a, n)
    <3>1. PICK gone \in SUBSET Expired(contacts, now) :
            /\ Live(contacts') = (Live(contacts) \ gone) \cup {contacts.last + 1}
            /\ \A p \in Live(contacts) \ gone : contacts'.peers[p] = contacts.peers[p]
            /\ contacts'.peers[contacts.last + 1] = NewContact(contacts, s, a, n)
            /\ contacts'.last = contacts.last + 1
      BY <1>1, <2>2, AddsWellFormed DEF Add
    <3>2. contacts.addr2peer[a] = Null /\ contacts.last < MaxPeers
      BY <1>1, <2>2 DEF Add, Known
    <3>3. NewContact(contacts, s, a, n).addr = a
      BY DEF NewContact
    <3> QED BY <3>1, <3>2, <3>3 DEF NewId
  <2> QED BY <2>1, <2>2
<1>2. ASSUME NEW p \in PeerId, NEW s \in AnySocket, UpdateSocket(p, s)
      PROVE  SameIds
  BY <1>2, UpdateSocketsShape DEF UpdateSocket, Contact, SameIds
<1>3. ASSUME NEW p \in PeerId, NEW n \in AnyName, Rename(p, n)
      PROVE  SameIds
  BY <1>3, UpdateNameShape DEF Rename, Contact, SameIds
<1>4. ASSUME NEW p \in PeerId, Read(p) PROVE SameIds
  <2>1. contacts'.peers = contacts.peers /\ contacts'.last = contacts.last
    BY <1>4 DEF Read, Touch, WellFormed, Table
  <2> QED BY <2>1 DEF SameIds, Live
<1>5. CASE Tick
  BY <1>5 DEF Tick, SameIds
<1>6. CASE UNCHANGED vars
  BY <1>6 DEF vars, SameIds
<1> QED BY <1>1, <1>2, <1>3, <1>4, <1>5, <1>6 DEF Next

(* A contact used within the last MaxIdle seconds survives every call.     *)
THEOREM ActiveContactsAreKept == Spec => ActiveContactsKept
<1> DEFINE Kept == \A p \in Live(contacts) :
                     now - contacts.seen[p] <= MaxIdle => p \in Live(contacts')
<1>1. IInv /\ [Next]_vars => Kept
  <2> SUFFICES ASSUME IInv, [Next]_vars, NEW p \in Live(contacts),
                      now - contacts.seen[p] <= MaxIdle
               PROVE  p \in Live(contacts')
    OBVIOUS
  <2>1. p \notin Expired(contacts, now)
    BY BoundsAssumption DEF Expired, IInv, WellFormed, Table, Live
  <2> QED BY <2>1, StepShape DEF SameIds, NewId
<1> QED BY <1>1, IInvIsInvariant, PTL DEF Spec, ActiveContactsKept

(* The contact list implements the directory of ids: an id stands for one  *)
(* address for ever, an address has at most one id.                        *)
THEOREM ImplementsDirectory == Spec => IsDirectory
<1>1. Init => D!Init
  BY DEF Init, D!Init, DirOf, EmptyTable, Live, PeerId
<1>2. IInv /\ [Next]_vars => [D!Next]_<<DirOf, contacts.last>>
  <2> SUFFICES ASSUME IInv, [Next]_vars
               PROVE  [D!Next]_<<DirOf, contacts.last>>
    OBVIOUS
  <2>1. CASE SameIds
    <3>1. DirOf' = DirOf
      BY <2>1 DEF SameIds, DirOf, Contact
    <3> QED BY <2>1, <3>1 DEF SameIds
  <2>2. ASSUME NEW a \in Addr, NEW gone \in SUBSET Expired(contacts, now),
               NewId(a, gone)
        PROVE  D!Next
    <3>1. contacts.last \in 0..MaxPeers /\ contacts.last + 1 \in PeerId
      BY <2>2, BoundsAssumption DEF IInv, WellFormed, Table, NewId, PeerId
    <3>2. gone \in SUBSET (1..contacts.last) /\ contacts.last + 1 \notin gone
      BY <2>2, <3>1 DEF IInv, WellFormed, Consistent, IdsGivenOut, Expired
    <3>3. \A p \in PeerId : DirOf[p] # a
      <4> SUFFICES ASSUME NEW p \in Live(contacts), contacts.peers[p].addr = a
                   PROVE  FALSE
        BY NullAssumption DEF DirOf, Contact
      <4>1. contacts.addr2peer[a] = contacts.peers[p]
        BY DEF IInv, WellFormed, Consistent, AddrComplete
      <4> QED BY <2>2, <4>1 DEF NewId, Live
    <3>4. DirOf' = [[p \in PeerId |-> IF p \in gone THEN Null ELSE DirOf[p]]
                      EXCEPT ![contacts.last + 1] = a]
      <4>1. ASSUME NEW p \in PeerId
            PROVE  DirOf'[p] = [[q \in PeerId |-> IF q \in gone THEN Null ELSE DirOf[q]]
                                  EXCEPT ![contacts.last + 1] = a][p]
        BY <2>2, <3>1, <3>2 DEF DirOf, Contact, NewId
      <4> QED BY <4>1, <3>1 DEF DirOf
    <3> QED BY <2>2, <3>1, <3>2, <3>3, <3>4
            DEF D!Next, D!Register, D!Forget, NewId, PeerId
  <2> QED BY <2>1, <2>2, StepShape
<1>3. D!Spec <=> D!Init /\ [][D!Next]_<<DirOf, contacts.last>>
  BY DEF D!Spec, D!dirVars
<1> QED BY <1>1, <1>2, <1>3, IInvIsInvariant, PTL DEF Spec, IsDirectory
=============================================================================
